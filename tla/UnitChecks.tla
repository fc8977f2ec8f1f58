------------------------------ MODULE UnitChecks ------------------------------
(***************************************************************************)
(* The validation of one unit by one thread (validator.cpp): what has to   *)
(* stand in the file's scope, then the struct types, the definitions and   *)
(* the functions in the order the parser registered them, each earlier if  *)
(* something needs it, and in the end the whole file once more.  Errors of *)
(* a statement are reported and dropped, the context a statement is        *)
(* checked in, its function and its loop, is kept in the thread's context. *)
(*                                                                         *)
(* A node is known by its place: the function's number, then the way down  *)
(* from it; <<0, i>> is the i-th type.  An expression has a kind of type,  *)
(* names nobody defined, calls a function or prints; how names and         *)
(* overloads are found and types computed is in Names and TypedValues.     *)
(***************************************************************************)
EXTENDS Integers, Sequences, SequencesExt, FiniteSets, TLC

CONSTANTS UnitTexts,      \* sets of units: [placed, types, enums, functions]
          InsertionMost   \* the most elements insertionSort gets, 16 in the code

ASSUME InsertionMostAssumption == InsertionMost \in Nat

VARIABLES unit,       \* the unit
          checking,   \* the context, the state of the nodes and what was reported
          turn        \* the next of what is to be checked
unitVars == <<unit, checking, turn>>

NoLoop == <<>>

Unchecked ==
    [function |-> 0, loop |-> NoLoop,      \* currentFunction, currentLoop
     ready    |-> [f \in DOMAIN unit.functions |-> "fresh"],
     bound    |-> {},                      \* functions with a library
     sized    |-> {}, held |-> {},         \* types with their info, nodes in the making
     settled  |-> {},                      \* expressions and definitions that are validated
     kinds    |-> <<>>, targets |-> <<>>, sorted |-> <<>>, values |-> <<>>,
     said     |-> {}, ok |-> TRUE, fell |-> FALSE]

Fine(s) == [s EXCEPT !.ok = TRUE]
Say(s, place, what) == [s EXCEPT !.said = @ \cup {<<place, what>>}]
Refuse(s, place, what) == [Say(s, place, what) EXCEPT !.ok = FALSE]
Falls(s) == [s EXCEPT !.fell = TRUE]     \* a pointer to nothing is followed

(* What is done if nothing was refused so far.                             *)
Then(s, next(_)) == IF s.ok THEN next(s) ELSE s
(* check(x, s) for the parts x, in order, to the first that is refused.    *)
ToTheFirst(check(_, _), parts, s) ==
    FoldLeft(LAMBDA t, i : IF t.ok THEN check(i, t) ELSE t, Fine(s), [i \in DOMAIN parts |-> i])
(* All of them, the errors are dropped.                                    *)
EachOf(check(_, _), parts, s) ==
    Fine(FoldLeft(LAMBDA t, i : check(i, t), s, [i \in DOMAIN parts |-> i]))

-----------------------------------------------------------------------------
(* The strings print is given: characters, "NUL" behind the last.          *)

Options == {"v", "x"}
CharAt(str, i) == IF i <= Len(str) THEN str[i] ELSE "NUL"

\* How many escapes and formats there are, by counting the percent signs.
Counted(str) ==
    LET count[i \in 1..(Len(str) + 2)] ==
          IF i > Len(str) THEN <<0, 0>>
          ELSE IF str[i] # "%" THEN count[i + 1]
          ELSE IF CharAt(str, i + 1) = "%" THEN <<count[i + 2][1] + 1, count[i + 2][2]>>
          ELSE <<count[i + 1][1], count[i + 1][2] + 1>>
    IN  count[1]

\* parseInt of an option's field, if the last did not close the block: behind
\* the number there is ":" or "}".
Closed(str, i) == i > 0 /\ CharAt(str, i - 1) = "}"
FieldEnd(str, i) ==
    LET e == CHOOSE e \in i..(Len(str) + 1) : CharAt(str, e) # "1" /\ \A k \in i..(e - 1) : str[k] = "1"
        behind(j) == IF CharAt(str, j) \in {":", "}"} THEN j + 1 ELSE 0
    IN  IF i = 0 \/ Closed(str, i) THEN i ELSE behind(e)
BlockEnd(str, i) ==
    LET closed(j) == IF Closed(str, j) THEN j ELSE 0
    IN  closed(FieldEnd(str, FieldEnd(str, FieldEnd(str, i))))
\* Behind the format that begins at i, 0 if there is none.
ParsedFormat(str, i) ==
    LET e == CHOOSE e \in (i + 1)..(Len(str) + 1) :
                CharAt(str, e) \notin Options /\ \A k \in (i + 1)..(e - 1) : str[k] \in Options
        listed(j) == IF CharAt(str, j) \in {":", "}"} THEN BlockEnd(str, j + 1) ELSE 0
    IN  IF CharAt(str, i) \in {"%"} \cup Options THEN i + 1
        ELSE IF CharAt(str, i) = "{" THEN listed(e) ELSE 0

\* The chunks that are filled, in order, "none" at the end if the string is refused.
ChunksOf(str) ==
    LET chunks[i \in 1..(Len(str) + 1)] ==
          LET rest(e) == IF e = 0 THEN <<"none">>
                         ELSE <<IF CharAt(str, i + 1) = "%" THEN "escape" ELSE "format">> \o chunks[e]
          IN  IF i > Len(str) THEN <<>>
              ELSE IF str[i] # "%" THEN chunks[i + 1]
              ELSE rest(ParsedFormat(str, i + 1))
    IN  chunks[1]

CheckFormat(e, place, s) ==
    IF "none" \in ToSet(ChunksOf(e.string)) THEN Refuse(s, place, "format")
    ELSE IF e.given # Counted(e.string)[2] THEN Refuse(s, place, "arguments")
    ELSE Fine(s)

-----------------------------------------------------------------------------
(* Sorting the cases of a switch: sequences of [idx, val].                 *)

Swapped(data, i, j) == [data EXCEPT ![i] = data[j], ![j] = data[i]]

\* The i-th element is swapped down, past all that are greater.
Sunk(d, i) ==
    LET j == CHOOSE j \in 1..i : (\A k \in j..(i - 1) : d[k].val > d[i].val) /\ (j = 1 \/ d[j - 1].val <= d[i].val)
    IN  SubSeq(d, 1, j - 1) \o <<d[i]>> \o SubSeq(d, j, i - 1) \o SubSeq(d, i + 1, Len(d))
insertionSort(data) == FoldLeft(Sunk, data, [i \in DOMAIN data |-> i])

\* The two ends run towards each other and swap what stands on the wrong side
\* of the pivot: the data, and where the ends are, from 0, when they have met.
RECURSIVE Partition(_, _, _, _)
Partition(data, left, right, pivot) ==
    LET l == CHOOSE l \in left..(Len(data) - 1) : data[l + 1].val >= pivot /\ \A k \in left..(l - 1) : data[k + 1].val < pivot
        r == CHOOSE r \in 0..right : (r = 0 \/ data[r + 1].val <= pivot) /\ \A k \in (r + 1)..right : data[k + 1].val > pivot
        swapped == Swapped(data, l + 1, r + 1)
    IN  IF left > right THEN <<data, left, right>>
        ELSE IF l > r THEN <<data, l, r>>
        ELSE IF r = 0 THEN <<swapped, l + 1, 0>>
        ELSE Partition(swapped, l + 1, r - 1, pivot)

RECURSIVE qsortRecursive(_)
\* Each side of where the ends have met, if it has more than one.
LowSorted(data, r) ==
    IF r + 1 > 1 THEN qsortRecursive(SubSeq(data, 1, r + 1)) \o SubSeq(data, r + 2, Len(data)) ELSE data
HighSorted(data, l) ==
    IF l < Len(data) THEN SubSeq(data, 1, l) \o qsortRecursive(SubSeq(data, l + 1, Len(data))) ELSE data
(* Mutant: the upper side is left as it is. *)
LowSideSorted(met) == LowSorted(met[1], met[3])
SidesSorted(met) == HighSorted(LowSorted(met[1], met[3]), met[2])
qsortRecursive(data) ==
    IF Len(data) < 2 THEN data
    ELSE SidesSorted(Partition(data, 0, Len(data) - 1, data[Len(data) \div 2 + 1].val))

Sorted(data) == IF Len(data) <= InsertionMost THEN insertionSort(data) ELSE qsortRecursive(data)

Strategy(data) ==
    IF Len(data) <= 3 THEN "linear"
    ELSE IF data[Len(data)].val - data[1].val > 2 * Len(data) THEN "binary" ELSE "jump table"

-----------------------------------------------------------------------------
(* Kinds of types, and which is cast to which.                             *)

Scalars == {"int", "float"}
isTruthy(kind) == kind = "int"
Casts(from, to) == from = to \/ {from, to} \subseteq Scalars \/ (from \in Scalars /\ to = "array")

Out(f) == unit.functions[f].out
\* The type of an expression; it has none when its validation failed.
TypeOf(e, place, s) ==
    CASE e.form = "value" -> e.kind
      [] e.form = "print" -> "void"
      [] e.form = "unknown" -> "null"
      [] e.form = "call" -> IF place \notin s.settled THEN "null"
                            ELSE IF Out(e.function) = "none" THEN "void" ELSE Out(e.function)

ImplicitCast(e, place, kind, s) ==
    IF kind = "null" THEN Falls(s)
    ELSE IF Casts(TypeOf(e, place, s), kind) THEN Fine(s) ELSE Refuse(s, place, "cast")

Under(place, n) == place \o <<0, n>>      \* the n-th expression of a statement
In(place, j, i) == place \o <<j, i>>      \* the i-th statement of its j-th scope

RECURSIVE CheckFunction(_, _)
RECURSIVE CheckNode(_, _, _)

\* ensureValidated, of a function; who comes back to a node in the making is refused.
ensureFunction(f, s) ==
    IF s.ready[f] = "validated" THEN Fine(s)
    ELSE IF <<f>> \in s.held THEN Refuse(s, <<f>>, "circular")
    ELSE LET t == CheckFunction(f, [s EXCEPT !.held = @ \cup {<<f>>}])
         IN  [t EXCEPT !.held = @ \ {<<f>>}]

BlamedFor(t, place, what) == IF t.ok THEN t ELSE Refuse(t, place, what)
CallLinked(f, place, s) ==
    IF s.ready[f] # "fresh" THEN Fine(s) ELSE BlamedFor(ensureFunction(f, s), place, "call")

Settled(place, s) == [s EXCEPT !.settled = @ \cup {place}]
CheckForm(e, place, s) ==
    CASE e.form = "value"   -> Fine(s)
      [] e.form = "unknown" -> Refuse(s, place, "name")
      [] e.form = "call"    -> CallLinked(e.function, place, s)
      [] e.form = "print"   -> CheckFormat(e, place, s)
CheckExpression(e, place, s) ==
    IF place \in s.settled THEN Fine(s) ELSE Then(CheckForm(e, place, s), LAMBDA t : Settled(place, t))
CheckAs(e, place, kind, s) ==
    Then(CheckExpression(e, place, s), LAMBDA t : ImplicitCast(e, place, kind, t))

\* Of a local variable: [kind, e].
CheckDefinition(n, place, s) ==
    IF place \in s.settled THEN Fine(s)
    ELSE IF n.e.form = "none" THEN Settled(place, Fine(s))
    ELSE Then(CheckAs(n.e, Under(place, 1), n.kind, s), LAMBDA t : Settled(place, t))
CheckAssignment(n, place, s) == CheckAs(n.e, Under(place, 1), n.kind, s)

CheckScope(children, place, j, s) ==
    EachOf(LAMBDA i, t : CheckNode(children[i], In(place, j, i), t), children, s)

-----------------------------------------------------------------------------
(* Statements.                                                             *)

\* What goes wrong in a condition is dropped; its type is looked at all the same.
IsCondition(kind, place, s) ==
    IF kind = "null" THEN Falls(s) ELSE IF isTruthy(kind) THEN Fine(s) ELSE Refuse(s, place, "condition")
ConditionOf(e, place, s) == IsCondition(TypeOf(e, place, s), place, s)
CheckCondition(e, place, s) == ConditionOf(e, place, CheckExpression(e, place, s))
CheckBranch(n, place, s) ==
    Then(ToTheFirst(LAMBDA i, t : CheckCondition(n.conditions[i], Under(place, i), t), n.conditions, s),
         LAMBDA t : EachOf(LAMBDA j, u : CheckScope(n.scopes[j], place, j, u), n.scopes, t))

CheckCase(n, i, place, s) ==
    Then(CheckExpression(n.cases[i], Under(place, i), s),
         LAMBDA t : ImplicitCast(n.cases[i], Under(place, i), TypeOf(n.on, Under(place, 0), t), t))
\* With its cases in the order they were sorted to; a value that comes twice is told.
Arranged(data, place, s) ==
    LET twice == {i \in 2..Len(data) : data[i - 1].val = data[i].val}
    IN  [s EXCEPT !.said = @ \cup {<<Under(place, data[i].idx), "twice">> : i \in twice},
                  !.sorted = (place :> [data |-> data, strategy |-> Strategy(data)]) @@ @]
Cases(n) == Sorted([i \in DOMAIN n.cases |-> [idx |-> i, val |-> n.cases[i].val]])
CheckSides(n, place, s) ==
    CheckScope(n.other, place, Len(n.scopes) + 1,
               EachOf(LAMBDA j, t : CheckScope(n.scopes[j], place, j, t), n.scopes, s))
CheckSwitch(n, place, s) ==
    Then(ToTheFirst(LAMBDA i, t : CheckCase(n, i, place, t), n.cases, CheckExpression(n.on, Under(place, 0), s)),
         LAMBDA t : IF t.fell THEN t ELSE CheckSides(n, place, Arranged(Cases(n), place, t)))

CheckBound(e, place, s) ==
    IF e.form = "none" THEN Fine(s)
    ELSE Then(CheckExpression(e, place, s), LAMBDA t : Fine(ImplicitCast(e, place, "int", t)))
CheckRange(n, place, s) ==
    Then(CheckBound(n.from, Under(place, 1), s), LAMBDA t : CheckBound(n.to, Under(place, 2), t))

\* Whether it is a condition or something to go through is found out once.
FoundOut(kind, place, s) ==
    IF isTruthy(kind) THEN [s EXCEPT !.kinds = (place :> "condition") @@ @]
    ELSE IF kind = "array" THEN [s EXCEPT !.kinds = (place :> "iterable") @@ @]
    ELSE Refuse(s, place, "loop")
CheckWhat(n, place, s) ==
    IF place \in DOMAIN s.kinds THEN Fine(s)
    ELSE Then(CheckExpression(n.e, Under(place, 1), s), LAMBDA t : FoundOut(TypeOf(n.e, Under(place, 1), t), place, t))
CheckArg(n, place, s) ==
    CASE n.arg = "when"  -> CheckWhat(n, place, s)
      [] n.arg = "range" -> CheckRange(n, place, s)
      [] n.arg = "none"  -> Fine(s)

CheckItem(n, place, s) ==
    IF n.item = "reference" /\ ~(place \in DOMAIN s.kinds /\ s.kinds[place] = "iterable")
    THEN Refuse(s, place, "reference") ELSE Fine(s)
CheckIndex(n, place, s) ==
    IF n.index.form = "none" THEN s ELSE Fine(CheckExpression(n.index, Under(place, 3), s))

(* Mutant: what is behind a loop counts as in it. *)
NotLeft(n, place, s) ==
    CheckScope(n.body, place, 1, [s EXCEPT !.loop = place])
CheckBody(n, place, s) ==
    [CheckScope(n.body, place, 1, [s EXCEPT !.loop = place]) EXCEPT !.loop = s.loop]

CheckLoop(n, place, s) ==
    Then(Then(CheckArg(n, place, s), LAMBDA t : CheckItem(n, place, t)),
         LAMBDA t : CheckBody(n, place, CheckIndex(n, place, t)))

CheckJump(place, s) ==
    IF s.loop = NoLoop THEN Say(s, place, "target") ELSE [s EXCEPT !.targets = (place :> s.loop) @@ @]

\* The function of the context is written into the statement, then what it
\* returns is looked at; a result that is not declared is read all the same.
CheckResult(n, place, out, s) ==
    IF out = "unknown" THEN Falls(s)
    ELSE IF n.e.form # "none" THEN ImplicitCast(n.e, Under(place, 1), out, s)
    ELSE IF out # "none" THEN Refuse(s, place, "value") ELSE Fine(s)
ErrorSetOf(n, place, s) == IF n.failing THEN Say(s, place, "error set") ELSE s
CheckReturned(n, place, out, s) ==
    IF n.e.form # "none" /\ out = "none" THEN Falls(s)
    ELSE Then(IF n.e.form = "none" THEN Fine(s) ELSE CheckExpression(n.e, Under(place, 1), s),
              LAMBDA t : CheckResult(n, place, out, ErrorSetOf(n, place, t)))
CheckReturn(n, place, s) ==
    CheckReturned(n, place, Out(s.function), [s EXCEPT !.targets = (place :> <<s.function>>) @@ @])

\* validate(SyntaxNode): whatever comes of it, the answer is OK.
CheckNode(n, place, s) ==
    Fine(CASE n.do = "define"   -> CheckDefinition(n, place, s)
           [] n.do = "evaluate" -> CheckExpression(n.e, Under(place, 1), s)
           [] n.do = "assign"   -> CheckAssignment(n, place, s)
           [] n.do = "scope"    -> CheckScope(n.body, place, 1, s)
           [] n.do = "branch"   -> CheckBranch(n, place, s)
           [] n.do = "switch"   -> CheckSwitch(n, place, s)
           [] n.do = "loop"     -> CheckLoop(n, place, s)
           [] n.do \in {"break", "continue"} -> CheckJump(place, s)
           [] n.do = "return"   -> CheckReturn(n, place, s))

-----------------------------------------------------------------------------
(* Functions.                                                              *)

\* A function without a body is in a library; its address is asked for once.
bindFromExternalLibrary(f, s) ==
    LET found == unit.functions[f].library
    IN  IF f \in s.bound \/ found = "found" THEN [Fine(s) EXCEPT !.bound = @ \cup {f}]
        ELSE IF found = "no symbol" THEN Refuse([s EXCEPT !.bound = @ \cup {f}], <<f>>, "symbol")
        ELSE Refuse(s, <<f>>, "library")

CheckText(f, s) ==
    IF unit.functions[f].library = "none" THEN CheckScope(unit.functions[f].body, <<f>>, 1, s)
    ELSE bindFromExternalLibrary(f, s)
\* The function stays the context's when its result type or its library is missing.
CheckFunction(f, s) ==
    LET entered == [s EXCEPT !.function = f]
    IN  IF Out(f) = "unknown" THEN Refuse(entered, <<f>>, "type")
        ELSE Then(CheckText(f, [entered EXCEPT !.ready[f] = "ready"]),
                  LAMBDA t : [t EXCEPT !.function = s.function, !.ready[f] = "validated"])

-----------------------------------------------------------------------------
(* Struct types: members [by, type], by "value" or "pointer" of a type of  *)
(* the unit or by "kind".                                                  *)

RECURSIVE ensureType(_, _)
\* Of a type in the making there is no info: a member of it has no type.
SizedType(i, s) ==
    LET members == unit.types[i].members
    IN  IF \E m \in DOMAIN members : members[m].by = "value" /\ members[m].type \notin s.sized THEN Falls(s)
        ELSE [s EXCEPT !.sized = @ \cup {i}]
CheckType(i, s) ==
    LET members == unit.types[i].members
    IN  IF members = <<>> THEN Refuse(s, <<0, i>>, "members")
        ELSE SizedType(i, EachOf(LAMBDA m, t : IF members[m].by = "kind" THEN t ELSE ensureType(members[m].type, t),
                                       members, s))
ensureType(i, s) ==
    IF i \in s.sized THEN Fine(s)
    ELSE IF <<0, i>> \in s.held THEN Refuse(s, <<0, i>>, "circular")
    ELSE IF unit.types[i].union THEN Refuse(s, <<0, i>>, "union")
    ELSE LET t == CheckType(i, [s EXCEPT !.held = @ \cup {<<0, i>>}])
         IN  [t EXCEPT !.held = @ \ {<<0, i>>}]

\* The members of an enumerator, <<its value>> or <<>>: nextValue is one more
\* than the last value.
Numbered(members) ==
    LET value[i \in 0..Len(members)] ==
          IF i = 0 THEN -1 ELSE IF members[i] = <<>> THEN value[i - 1] + 1 ELSE members[i][1]
    IN  [i \in DOMAIN members |-> value[i]]

-----------------------------------------------------------------------------
(* The unit.                                                               *)

\* A function or namespace is in the file's scope or in namespaces of it, an
\* import in the file's scope: [kind, scopes], from the inside out.
IsGlobal(x) ==
    IF x.kind = "import" THEN x.scopes = <<>> ELSE "scope" \notin ToSet(x.scopes)

(* The sequences each(i) for i from 1 to n, one behind the other.          *)
Together(each(_), n) == FoldLeft(LAMBDA l, i : l \o each(i), <<>>, [i \in 1..n |-> i])

RECURSIVE DefinitionsIn(_, _, _)
\* The definitions in a statement, in the order they were parsed.
DefinitionsOf(n, place) ==
    LET scopes == CASE n.do \in {"scope", "loop"} -> <<n.body>>
                    [] n.do = "branch" -> n.scopes
                    [] n.do = "switch" -> Append(n.scopes, n.other)
                    [] OTHER -> <<>>
    IN  IF n.do = "define" THEN << [check |-> "definition", node |-> n, place |-> place] >>
        ELSE Together(LAMBDA k : DefinitionsIn(scopes[k], place, k), Len(scopes))
DefinitionsIn(children, place, j) ==
    Together(LAMBDA i : DefinitionsOf(children[i], In(place, j, i)), Len(children))

\* AstRegistry: customDataTypes, variableDefinitions, fcns.
Registry ==
    [i \in DOMAIN unit.types |-> [check |-> "type", at |-> i]]
    \o Together(LAMBDA f : DefinitionsIn(unit.functions[f].body, <<f>>, 1), Len(unit.functions))
    \o [f \in DOMAIN unit.functions |-> [check |-> "function", at |-> f]]

Ending(s) == IF s.fell THEN "fell" ELSE IF s.ok THEN "" ELSE "failed"
GoOn(s, next) == checking' = s /\ turn' = (IF Ending(s) = "" THEN next ELSE Ending(s)) /\ UNCHANGED unit

\* verifyFunctionsAreGlobal, verifyImportsAreGlobal, verifyNamespacesAreGlobal.
VerifyGlobal ==
    /\ turn = "verify"
    /\ GoOn(ToTheFirst(LAMBDA i, t : IF IsGlobal(unit.placed[i]) THEN t ELSE Refuse(t, <<0, 0, i>>, "global"),
                       unit.placed, checking), "registry")

CheckRegistered(r, s) ==
    CASE r.check = "type" -> ensureType(r.at, s)
      [] r.check = "definition" -> CheckDefinition(r.node, r.place, s)
      [] r.check = "function" -> ensureFunction(r.at, s)
ValidateRegistered ==
    /\ turn = "registry"
    /\ LET all == Registry
       IN  GoOn(ToTheFirst(LAMBDA i, t : IF t.fell THEN t ELSE CheckRegistered(all[i], t), all, checking), "file")

NumberEnums(s) == [s EXCEPT !.values = [i \in DOMAIN unit.enums |-> Numbered(unit.enums[i])]]
(* Mutant: what has been validated is left alone. *)
FileAgain(s) ==
    EachOf(LAMBDA f, t : IF t.fell \/ t.ready[f] = "validated" THEN t ELSE CheckFunction(f, t), unit.functions, NumberEnums(s))
\* validate(root): enumerators, and every function once more.
WholeFile(s) ==
    EachOf(LAMBDA f, t : IF t.fell THEN t ELSE CheckFunction(f, t), unit.functions, NumberEnums(s))
ValidateFile ==
    /\ turn = "file"
    /\ GoOn(WholeFile(checking), "passed")

UnitStart == checking = Unchecked /\ turn = "verify"
UnitInit == \E texts \in UnitTexts : unit \in texts /\ UnitStart
UnitNext == VerifyGlobal \/ ValidateRegistered \/ ValidateFile

-----------------------------------------------------------------------------
(* What a unit that nothing is said about has to be like.                  *)

RECURSIVE StatementsIn(_, _, _, _)
\* Every statement, its place and the innermost loop of its function around it.
StatementsIn(children, place, j, loop) ==
    UNION {LET n == children[i]
               p == In(place, j, i)
               within(scopes, around) == UNION {StatementsIn(scopes[k], p, k, around) : k \in DOMAIN scopes}
           IN  {[node |-> n, place |-> p, loop |-> loop]}
               \cup CASE n.do = "scope"  -> within(<<n.body>>, loop)
                      [] n.do = "loop"   -> within(<<n.body>>, p)
                      [] n.do = "branch" -> within(n.scopes, loop)
                      [] n.do = "switch" -> within(Append(n.scopes, n.other), loop)
                      [] OTHER           -> {} : i \in DOMAIN children}
Statements(f) == StatementsIn(unit.functions[f].body, <<f>>, 1, NoLoop)

\* print_format.h: %% for a percent sign, % and an option, or % and a block of
\* options and up to three numbers with colons before them.
IsFormat(p) ==
    LET block == SubSeq(p, 3, Len(p) - 1)
        colons == {i \in DOMAIN block : block[i] = ":"}
    IN  /\ Len(p) >= 2 /\ p[1] = "%"
        /\ \/ Len(p) = 2 /\ p[2] \in Options
           \/ /\ Len(p) > 2 /\ p[2] = "{" /\ p[Len(p)] = "}" /\ Cardinality(colons) <= 3
              /\ \A i \in DOMAIN block : block[i] \in IF \E c \in colons : c <= i THEN {":", "1"} ELSE Options
RECURSIVE Formats(_)
\* How many formats a string may be read to have.
Formats(str) ==
    IF str = <<>> THEN {0}
    ELSE (IF str[1] # "%" THEN Formats(Tail(str)) ELSE {})
         \cup UNION {LET rest == Formats(SubSeq(str, k + 1, Len(str)))
                     IN  CASE SubSeq(str, 1, k) = <<"%", "%">> -> rest
                           [] IsFormat(SubSeq(str, 1, k)) -> {n + 1 : n \in rest}
                           [] OTHER -> {} : k \in 2..Len(str)}

Yields(e) ==
    CASE e.form = "value" -> e.kind
      [] e.form = "call"  -> IF Out(e.function) = "none" THEN "void" ELSE Out(e.function)
      [] OTHER            -> "void"
IsRight(e) ==
    CASE e.form = "unknown" -> FALSE
      [] e.form = "print"   -> e.given \in Formats(e.string)
      [] OTHER              -> TRUE
Fits(e, kind) == e.form = "none" \/ (IsRight(e) /\ Casts(Yields(e), kind))

LoopIsRight(n) ==
    /\ CASE n.arg = "when"  -> IsRight(n.e) /\ (isTruthy(Yields(n.e)) \/ Yields(n.e) = "array")
         [] n.arg = "range" -> Fits(n.from, "int") /\ Fits(n.to, "int")
         [] n.arg = "none"  -> TRUE
    /\ n.item = "reference" => n.arg = "when" /\ Yields(n.e) = "array"
    /\ IsRight(n.index)
SwitchIsRight(n) ==
    /\ IsRight(n.on)
    /\ \A i \in DOMAIN n.cases : Fits(n.cases[i], Yields(n.on))
    /\ \A i, k \in DOMAIN n.cases : n.cases[i].val = n.cases[k].val => i = k
StatementIsRight(x, f) ==
    LET n == x.node
    IN  CASE n.do \in {"define", "assign"}  -> Fits(n.e, n.kind)
          [] n.do = "evaluate"              -> IsRight(n.e)
          [] n.do = "scope"                 -> TRUE
          [] n.do = "branch"                -> \A i \in DOMAIN n.conditions : IsRight(n.conditions[i]) /\ isTruthy(Yields(n.conditions[i]))
          [] n.do = "switch"                -> SwitchIsRight(n)
          [] n.do = "loop"                  -> LoopIsRight(n)
          [] n.do \in {"break", "continue"} -> x.loop # NoLoop
          [] n.do = "return"                -> /\ ~ n.failing /\ (n.e.form = "none" <=> Out(f) = "none")
                                               /\ Fits(n.e, Out(f))

NamedIn(i) == {unit.types[i].members[m].type : m \in {m \in DOMAIN unit.types[i].members : unit.types[i].members[m].by # "kind"}}
\* The types that i is made of, at any depth.
MadeOf(i) == FoldLeft(LAMBDA S, k : S \cup UNION {NamedIn(j) : j \in S}, NamedIn(i), unit.types)
UnitIsRight ==
    /\ \A i \in DOMAIN unit.placed : \A k \in DOMAIN unit.placed[i].scopes :
          unit.placed[i].scopes[k] = "namespace" /\ unit.placed[i].kind # "import"
    /\ \A i \in DOMAIN unit.types : unit.types[i].members # <<>> /\ ~ unit.types[i].union /\ i \notin MadeOf(i)
    /\ \A f \in DOMAIN unit.functions :
          /\ Out(f) # "unknown" /\ unit.functions[f].library \in {"none", "found"}
          /\ \A x \in Statements(f) : StatementIsRight(x, f)

(* What every jump and every switch has, in a unit that passed.            *)
LeadsTo(place, target) == place \in DOMAIN checking.targets /\ checking.targets[place] = target
InOrder(data, strategy, cases) ==
    /\ \A i \in 1..(Len(data) - 1) : data[i].val < data[i + 1].val
    /\ {<<d.idx, d.val>> : d \in ToSet(data)} = {<<i, cases[i].val>> : i \in DOMAIN cases}
    /\ strategy = "jump table" => data[Len(data)].val - data[1].val <= 2 * Len(data)
IsBound(x, f) ==
    CASE x.node.do \in {"break", "continue"} -> LeadsTo(x.place, x.loop)
      [] x.node.do = "return"                -> LeadsTo(x.place, <<f>>)
      [] x.node.do = "switch"                -> /\ x.place \in DOMAIN checking.sorted
                                                /\ InOrder(checking.sorted[x.place].data, checking.sorted[x.place].strategy, x.node.cases)
      [] OTHER                               -> TRUE

FilledChunks(chunks) == Cardinality({i \in DOMAIN chunks : chunks[i] # "none"})
Reserved(counted) == counted[1] + counted[2]

(* A unit passes without a word exactly if it is right, whatever order its  *)
(* functions were first needed in and in which loops of others, and then    *)
(* every jump leaves the loop and the function it stands in, every switch   *)
(* has its cases sorted, each with its scope, and the chunks of a format    *)
(* are as many as were counted.  Nothing is refused without a word          *)
(* (validator.cpp:1587-1910, 2201-2243).                                    *)
UnitsAreChecked ==
    /\ turn \in {"passed", "failed", "fell"} => (turn = "passed" /\ checking.said = {} <=> UnitIsRight)
    /\ turn = "failed" => checking.said # {}
    /\ turn = "passed" /\ checking.said = {} => \A f \in DOMAIN unit.functions : \A x \in Statements(f) : IsBound(x, f)
    /\ turn = "passed" => \A i \in DOMAIN unit.enums : \A m \in DOMAIN unit.enums[i] :
          LET v == checking.values[i]
          IN  IF unit.enums[i][m] # <<>> THEN v[m] = unit.enums[i][m][1]
              ELSE v[m] = IF m = 1 THEN 0 ELSE v[m - 1] + 1
    /\ \A f \in DOMAIN unit.functions : \A x \in Statements(f) :
          x.node.do = "evaluate" /\ x.node.e.form = "print" =>
             FilledChunks(ChunksOf(x.node.e.string)) <= Reserved(Counted(x.node.e.string))
=============================================================================
