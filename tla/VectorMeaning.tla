---------------------------- MODULE VectorMeaning -----------------------------
(***************************************************************************)
(* The virtual machine of src/src/interpreter_exec.cpp on the code of      *)
(* VectorCode: the words of its stack, the cells of the locals, which the  *)
(* addresses from 0 on are of, and the scratch memory, which begins at     *)
(* Scratch and is given back whole.  The kernels of vec_kernel.cpp work    *)
(* element by element.                                                     *)
(*                                                                         *)
(* The machine checks nothing.  Here it stops where it would take a word   *)
(* the statement has not put on the stack, or a cell that is no local's    *)
(* and none of the scratch memory in use.                                  *)
(*                                                                         *)
(* The second half says what a program about arrays and slices means,      *)
(* without code, addresses and scratch memory: arrays have values, slices  *)
(* are views of them or of values nobody else sees.  src/doc/bytecode.md   *)
(* (5.6) and src/test/end_to_end/to_pass/test_arrays_slices.qvi are what   *)
(* it is taken from.  At the end the variables of the machine are compared *)
(* with it.                                                                *)
(***************************************************************************)
EXTENDS VectorCode

CONSTANTS VectorPrograms,    \* sequences of statements
          VectorVariables,   \* what is defined before them, with type and place
          VectorCells,       \* the cells this takes, from 0 on
          Scratch,           \* where the scratch memory begins
          ScratchCells       \* how much of it there is

VARIABLES
    vectorProgram,
    vectorCode,
    vectorPc,
    words,
    cellAt,
    scratchUsed,
    floor,            \* the words on the stack when the statement began
    shown,            \* what the calls got
    stopped           \* no, refused, endless, end, or why the machine stopped

vectorVars == <<vectorProgram, vectorCode, vectorPc, words, cellAt, scratchUsed, floor, shown, stopped>>

(* A program the validator refuses is not compiled; of some the compiling  *)
(* never ends.                                                             *)
Accepted(p) == validateScope(p, 1, VectorVariables)
compileVectors(p) ==
    LET begun == [code |-> <<>>, isTmp |-> FALSE, isScalar |-> FALSE, vecTmpMemUsed |-> FALSE, endless |-> FALSE,
                  env |-> VectorVariables, top |-> Len(VectorCells), starts |-> {}]
    IN  IF Accepted(p) THEN compileScope(begun, p, 1) ELSE begun

VectorStart ==
    /\ vectorCode = compileVectors(vectorProgram)
    /\ vectorPc = 1 /\ words = <<>> /\ floor = 0 /\ shown = <<>>
    /\ stopped = CASE vectorCode.code = <<>> -> "refused"
                   [] vectorCode.endless -> "endless"
                   [] OTHER -> "no"
    /\ scratchUsed = 0
    /\ cellAt = [a \in 0..(Scratch + ScratchCells - 1) |->
                    IF a < Len(VectorCells) THEN VectorCells[a + 1] ELSE 0]
VectorInit == vectorProgram \in VectorPrograms /\ VectorStart

Opcode    == vectorCode.code[vectorPc]
Running(ops) == stopped = "no" /\ Opcode.op \in ops
(* The n-th word from the top.                                             *)
FromTop(n)   == words[Len(words) + 1 - n]
Without(n) == SubSeq(words, 1, Len(words) - n)
Floor     == IF vectorPc \in vectorCode.starts THEN Len(words) ELSE floor
InUse(more) == 0..(vectorCode.top - 1) \cup Scratch..(Scratch + scratchUsed + more - 1)
Cells(a, n) == a..(a + n - 1)

(* A step that takes words, reads cells, writes some, takes more scratch   *)
(* memory and leaves words on the stack.                                   *)
Does(takes, reads, more, written, leaves) ==
    /\ floor' = Floor
    /\ stopped' = CASE Len(words) - takes < Floor -> "below"
                    [] Len(words) - takes >= Floor /\ scratchUsed + more > ScratchCells -> "full"
                    [] OTHER -> IF ~ (reads \subseteq InUse(more)) THEN "unowned"
                                ELSE IF ~ (DOMAIN written \subseteq InUse(more)) THEN "overrun"
                                ELSE "no"
    /\ IF stopped' = "no"
       THEN /\ words' = Without(takes) \o leaves
            /\ cellAt' = written @@ cellAt
            /\ scratchUsed' = scratchUsed + more
            /\ vectorPc' = vectorPc + 1
       ELSE UNCHANGED <<words, cellAt, scratchUsed, vectorPc>>
    /\ UNCHANGED <<vectorProgram, vectorCode>>

NoCells == <<>> @@ [a \in {} |-> 0]

RunPush ==
    /\ Running({"PUSH", "LEA", "GET", "GROW", "DUP", "SWAP", "POP"})
    /\ LET oc == Opcode IN
       CASE oc.op \in {"PUSH", "LEA"} -> Does(0, {}, 0, NoCells, <<oc.n>>)
         [] oc.op = "GET"  -> Does(0, {oc.n}, 0, NoCells, <<cellAt[oc.n]>>)
         [] oc.op = "GROW" -> Does(0, {}, 0, NoCells, [i \in 1..oc.n |-> 0])
         [] oc.op = "DUP"  -> Does(1, {}, 0, NoCells, <<FromTop(1), FromTop(1)>>)
         [] oc.op = "SWAP" -> Does(2, {}, 0, NoCells, <<FromTop(1), FromTop(2)>>)
         [] oc.op = "POP"  -> Does(1, {}, 0, NoCells, <<>>)
    /\ UNCHANGED shown

RunScalar ==
    /\ Running({"OP", "CAST", "NEG", "PTR_IDX"})
    /\ LET oc == Opcode IN
       CASE oc.op = "OP"   -> Does(2, {}, 0, NoCells, <<Apply(oc.oper, oc.kind, FromTop(2), FromTop(1))>>)
         [] oc.op = "CAST" -> Does(1, {}, 0, NoCells, <<CastCell(oc.src, oc.kind, FromTop(1))>>)
         [] oc.op = "NEG"  -> Does(1, {}, 0, NoCells, <<-FromTop(1)>>)
         [] oc.op = "PTR_IDX" -> Does(2, {}, 0, NoCells, <<FromTop(2) + FromTop(1)>>)
    /\ UNCHANGED shown

RunMemory ==
    /\ Running({"SET", "LOAD", "STORE", "LOAD_BLOB"})
    /\ LET oc == Opcode IN
       CASE oc.op = "SET"   -> Does(1, {}, 0, oc.n :> FromTop(1), <<>>)
         [] oc.op = "LOAD"  -> Does(1, {FromTop(1)}, 0, NoCells, <<cellAt[FromTop(1)]>>)
         [] oc.op = "STORE" -> Does(2, {}, 0, FromTop(2) :> FromTop(1), <<>>)
         [] oc.op = "LOAD_BLOB" -> Does(1, Cells(FromTop(1), oc.n), 0, NoCells,
                                         [i \in 1..oc.n |-> cellAt[FromTop(1) + i - 1]])
    /\ UNCHANGED shown

-----------------------------------------------------------------------------
(* The operations on vectors *)

VectorOps == {"VEC_VV", "VEC_VS", "VEC_SV", "VEC_UNARY", "VEC_CAST", "VEC_CAT", "VEC_COPY", "VEC_FILL"}
Inputs == CASE Opcode.op \in {"VEC_VV", "VEC_CAT"} -> 4
            [] Opcode.op \in {"VEC_VS", "VEC_SV"}  -> 3
            [] OTHER -> 2
OutLength == CASE Opcode.op = "VEC_VV"  -> FromTop(3)
               [] Opcode.op = "VEC_CAT" -> FromTop(3) + FromTop(1)
               [] Opcode.op = "VEC_VS"  -> FromTop(2)
               [] OTHER -> FromTop(1)

(* Mutant: a result that goes to the scratch memory goes to its begin. *)
ScratchBegin == IF Opcode.desc.dest THEN Scratch ELSE FromTop(Inputs + 1)

(* Where the result goes: to fresh scratch memory, or to the place below   *)
(* the operands.                                                           *)
vecGetPtr == IF Opcode.desc.dest THEN Scratch + scratchUsed ELSE FromTop(Inputs + 1)
Given == IF Opcode.desc.dest THEN OutLength ELSE 0

InputCells ==
    CASE Opcode.op \in {"VEC_VV"}  -> Cells(FromTop(4), FromTop(3)) \cup Cells(FromTop(2), FromTop(3))
      [] Opcode.op = "VEC_CAT" -> Cells(FromTop(4), FromTop(3)) \cup Cells(FromTop(2), FromTop(1))
      [] Opcode.op = "VEC_VS"  -> Cells(FromTop(3), FromTop(2))
      [] Opcode.op = "VEC_FILL" -> {}
      [] OTHER -> Cells(FromTop(2), FromTop(1))

(* The i-th element of the result, from 0 on, of the cells m: what the     *)
(* function that the lookup tables hold for the operator and the type      *)
(* makes of two operands, or of one.                                       *)
OfTwo(m, i) ==
    LET d == Opcode.desc IN
    CASE Opcode.op = "VEC_VV" -> Apply(d.oper, d.kind, m[FromTop(4) + i], m[FromTop(2) + i])
      [] Opcode.op = "VEC_VS" -> Apply(d.oper, d.kind, m[FromTop(3) + i], FromTop(1))
      [] Opcode.op = "VEC_SV" -> Apply(d.oper, d.kind, FromTop(3), m[FromTop(2) + i])
OfOne(m, i) ==
    CASE Opcode.op = "VEC_UNARY" -> -m[FromTop(2) + i]
      [] Opcode.op = "VEC_CAST"  -> CastCell(Opcode.desc.src, Opcode.desc.kind, m[FromTop(2) + i])
      [] Opcode.op = "VEC_FILL"  -> FromTop(2)
CopiedCell(m, i) ==
    IF Opcode.op = "VEC_CAT" /\ i < FromTop(3) THEN m[FromTop(4) + i]
    ELSE m[FromTop(2) + i - (IF Opcode.op = "VEC_CAT" THEN FromTop(3) ELSE 0)]
Element(m, i) ==
    CASE Opcode.op \in {"VEC_VV", "VEC_VS", "VEC_SV"} -> OfTwo(m, i)
      [] Opcode.op \in {"VEC_UNARY", "VEC_CAST", "VEC_FILL"} -> OfOne(m, i)
      [] OTHER -> CopiedCell(m, i)

(* The kernels write an element before they read the next; a copy reads    *)
(* all before (of cells that overlap, memcpy may do either).               *)
ResultCells(out, n) ==
    LET after[i \in 0..n] ==
            IF i = 0 THEN cellAt
            ELSE (out + i - 1 :> Element(IF Opcode.op \in {"VEC_COPY", "VEC_CAT"} THEN cellAt
                                         ELSE after[i - 1], i - 1)) @@ after[i - 1]
    IN  [a \in Cells(out, n) |-> after[n][a]]

RunVector ==
    /\ Running(VectorOps)
    /\ LET takes == Inputs + (IF Opcode.desc.dest THEN 0 ELSE 1)
       IN  Does(takes, InputCells, Given, ResultCells(vecGetPtr, OutLength), <<vecGetPtr, OutLength>>)
    /\ UNCHANGED shown

(* Room in the scratch memory for a list, or for the two words of a slice. *)
RunAlloc ==
    /\ Running({"VEC_ALLOC", "VEC_TO_REF"})
    /\ LET at == Scratch + scratchUsed IN
       IF Opcode.op = "VEC_ALLOC" THEN Does(1, {}, FromTop(1), NoCells, <<at>>)
       ELSE Does(2, {}, 2, at :> FromTop(2) @@ at + 1 :> FromTop(1), <<at>>)
    /\ UNCHANGED shown

RunReset ==
    /\ Running({"VEC_RESET", "VEC_MEM_RESET"})
    /\ IF Opcode.op = "VEC_RESET" THEN Does(2, {}, -scratchUsed, NoCells, <<>>)
       ELSE Does(0, {}, -scratchUsed, NoCells, <<>>)
    /\ UNCHANGED shown

-----------------------------------------------------------------------------
(* The calls: what they read of the words they are given.                  *)

RECURSIVE WordsOf(_)
WordsOf(types) == IF types = <<>> THEN 0 ELSE CellsOf(Head(types)) + WordsOf(Tail(types))
(* The words of the i-th argument, whose types are known.                  *)
Argument(types, i) ==
    LET first == Len(words) - WordsOf(types) + WordsOf(SubSeq(types, 1, i - 1))
    IN  [j \in 1..CellsOf(types[i]) |-> words[first + j]]
Viewed(pair) == [j \in 1..pair[2] |-> cellAt[pair[1] + j - 1]]

RunCall ==
    /\ Running({"CALL"})
    /\ LET types == Opcode.types
           read  == UNION {Cells(Argument(types, i)[1], Argument(types, i)[2]) :
                            i \in {j \in DOMAIN types : types[j].kind = "slice"}}
       IN  /\ Does(WordsOf(types) + 3, read, 0, NoCells, <<>>)
           /\ shown' = IF stopped' # "no" THEN shown
                       ELSE shown \o [i \in DOMAIN types |->
                              IF types[i].kind = "slice" THEN Viewed(Argument(types, i))
                              ELSE Argument(types, i)]

(* A value of any type is the word behind its type's, or what lies there.  *)
AnyWord(types, i) == FromTop(2 + 2 * (Len(types) - i))
AnyCells(types, i) ==
    LET at == AnyWord(types, i)
    IN  CASE types[i].kind = "array" -> Cells(at, types[i].n)
          [] types[i].kind = "slice" -> {at, at + 1} \cup
                (IF {at, at + 1} \subseteq InUse(0) THEN Cells(cellAt[at], cellAt[at + 1]) ELSE {})
          [] OTHER -> {}
AnyValue(types, i) ==
    LET at == AnyWord(types, i)
    IN  CASE types[i].kind = "array" -> Viewed(<<at, types[i].n>>)
          [] types[i].kind = "slice" -> Viewed(<<cellAt[at], cellAt[at + 1]>>)
          [] OTHER -> <<at>>
RunShow ==
    /\ Running({"SHOW"})
    /\ LET types == Opcode.types IN
       /\ Does(2 * Len(types) + 7, UNION {AnyCells(types, i) : i \in DOMAIN types}, 0, NoCells, <<>>)
       /\ shown' = IF stopped' # "no" THEN shown
                   ELSE shown \o [i \in DOMAIN types |-> AnyValue(types, i)]

RunHalt ==
    /\ Running({"HALT"})
    /\ stopped' = "end"
    /\ UNCHANGED <<vectorProgram, vectorCode, vectorPc, words, cellAt, scratchUsed, floor, shown>>

VectorDone == stopped # "no" /\ UNCHANGED vectorVars

VectorNext == RunPush \/ RunScalar \/ RunMemory \/ RunVector \/ RunAlloc \/ RunReset
                \/ RunCall \/ RunShow \/ RunHalt \/ VectorDone

-----------------------------------------------------------------------------
(* What the program means. *)

(* A store has the cells of every name, and what every name is a view of.  *)
WholeOf(x, n) == [of |-> x, from |-> 0, n |-> n]
Seen(store, view) == SubSeq(store.cells[view.of], view.from + 1, view.from + view.n)

Number(v) == v[1]
Spread(v, n) == IF Len(v) = n THEN v ELSE [i \in 1..n |-> v[1]]

(* The value of a typed expression: its elements, of a scalar the one.     *)
RECURSIVE MeanOf(_, _)
RECURSIVE ViewOf(_, _)
(* What a variable or a range is a view of.                                *)
ViewOf(e, store) ==
    CASE e.form = "variable" -> store.views[e.name]
      [] e.form \in {"plain", "cast"} -> ViewOf(e.arg, store)
      [] e.form = "range" ->
            LET whole == ViewOf(e.left, store)
                from  == IF e.lo.form = "absent" THEN 0 ELSE Number(MeanOf(e.lo, store))
                to    == IF e.hi.form = "absent" THEN whole.n - 1 ELSE Number(MeanOf(e.hi, store))
            IN  [of |-> whole.of, from |-> whole.from + from, n |-> to - from + 1]

MeanOf(e, store) ==
    CASE e.form = "value" -> <<e.raw>>
      [] e.form \in {"variable", "range"} -> Seen(store, ViewOf(e, store))
      [] e.form = "plain" -> MeanOf(e.arg, store)
      [] e.form = "minus" -> LET a == MeanOf(e.arg, store) IN [i \in DOMAIN a |-> -a[i]]
      [] e.form = "cast"  -> LET a == MeanOf(e.arg, store)
                             IN  [i \in DOMAIN a |-> CastCell(e.arg.type.elem, e.type.elem, a[i])]
      [] e.form = "list"  -> [i \in DOMAIN e.items |-> Number(MeanOf(e.items[i], store))]
      [] e.form = "length" -> <<Len(MeanOf(e.arg, store))>>
      [] e.form = "at" -> LET a == MeanOf(e.left, store)
                          IN  <<a[Number(MeanOf(e.right, store)) + 1]>>
      [] e.form = "op" ->
            LET l == MeanOf(e.left, store)
                r == MeanOf(e.right, store)
                n == IF ArrayLike(e.left.type) THEN Len(l) ELSE Len(r)
            IN  IF e.op = ".." THEN l \o r
                ELSE [i \in 1..n |-> Apply(e.op, e.type.elem, Spread(l, n)[i], Spread(r, n)[i])]

Given1(store, x, values, view) ==
    [cells |-> (x :> values) @@ store.cells, views |-> (x :> view) @@ store.views]

(* Which of an expression's forms are a view of what is there.             *)
IsView(e) == unwrapWithCasts(e).form \in {"variable", "range"}

MeanDefinition(d, v, store) ==
    LET m == MeanOf(v, store)
    IN  CASE v.type.kind = "array" ->
               Given1(store, d.name, Spread(m, v.type.n), WholeOf(d.name, v.type.n))
          [] v.type.kind = "slice" /\ IsView(v) -> Given1(store, d.name, <<>>, ViewOf(v, store))
          [] OTHER -> Given1(store, d.name, m, WholeOf(d.name, Len(m)))

MeanAssignment(place, v, store) ==
    LET at == IF place.form = "range" THEN ViewOf(place, store)
              ELSE LET whole == ViewOf(place.left, store)
                   IN  [of |-> whole.of, n |-> 1,
                        from |-> whole.from + Number(MeanOf(place.right, store))]
        m  == Spread(MeanOf(v, store), at.n)
    IN  [store EXCEPT !.cells[at.of] = [i \in DOMAIN @ |->
            IF i - at.from \in 1..at.n THEN m[i - at.from] ELSE @[i]]]

Argued(s, env) ==
    [i \in DOMAIN s.args |->
        LET v == validateVector(s.args[i], Untyped, env)
        IN  IF s.is = "call" THEN castTo(v, s.types[i]) ELSE v]

Entered(env, x, t) == (x :> [type |-> t]) @@ env

AfterDefinition(d, v, at) ==
    [at EXCEPT !.store = MeanDefinition(d, v, @), !.env = Entered(@, d.name, v.type)]
AfterStatement(s, at) ==
    CASE s.is = "define" -> AfterDefinition(s, validateVectorDefinition(s, at.env), at)
      [] s.is \in {"assign_range", "assign_at"} ->
           [at EXCEPT !.store = MeanAssignment(validatePlace(s, at.env), validateAssigned(s, at.env), @)]
      [] s.is \in {"call", "show"} ->
           [at EXCEPT !.shown = @ \o [j \in DOMAIN s.args |-> MeanOf(Argued(s, at.env)[j], at.store)]]

(* The store, the types and what is shown when the statements are done.    *)
RECURSIVE MeanProgram(_, _, _)
MeanProgram(p, i, at) == IF i > Len(p) THEN at ELSE MeanProgram(p, i + 1, AfterStatement(p[i], at))

(* What is there before the program: the slices are views of an array.     *)
FirstView(x) ==
    LET def == VectorVariables[x]
        of  == CHOOSE y \in DOMAIN VectorVariables :
                  /\ VectorVariables[y].type.kind = "array"
                  /\ VectorCells[def.at + 1] \in Cells(VectorVariables[y].at, VectorVariables[y].type.n)
    IN  IF def.type.kind = "slice"
        THEN [of |-> of, from |-> VectorCells[def.at + 1] - VectorVariables[of].at,
              n |-> VectorCells[def.at + 2]]
        ELSE WholeOf(x, CellsOf(def.type))
FirstStore ==
    [cells |-> [x \in DOMAIN VectorVariables |->
                  SubSeq(VectorCells, VectorVariables[x].at + 1,
                         VectorVariables[x].at + CellsOf(VectorVariables[x].type))],
     views |-> [x \in DOMAIN VectorVariables |-> FirstView(x)]]
Meant(p) == MeanProgram(p, 1, [store |-> FirstStore, env |-> VectorVariables, shown |-> <<>>])

(* What the machine's variables hold.                                      *)
Held(x) ==
    LET def == vectorCode.env[x] IN
    IF def.type.kind = "slice" THEN Viewed(<<cellAt[def.at], cellAt[def.at + 1]>>)
    ELSE Viewed(<<def.at, CellsOf(def.type)>>)

-----------------------------------------------------------------------------
(* What the code does not do as meant, by the statements it does it to     *)

RECURSIVE RootOf(_)
(* What the opcode at the root is made of: casts of like elements are none. *)
RootOf(e) == CASE e.form = "plain" -> RootOf(e.arg)
               [] e.form = "cast" /\ areElementsTheSame(e.arg.type, e.type) -> RootOf(e.arg)
               [] OTHER -> e
Children(e) == CASE e.form \in {"plain", "minus", "cast", "length"} -> <<e.arg>>
                 [] e.form \in {"op", "at"} -> <<e.left, e.right>>
                 [] e.form = "range" -> <<e.left, e.lo, e.hi>>
                 [] e.form = "list" -> e.items
                 [] OTHER -> <<>>
RECURSIVE Within(_)
Within(e) == {e} \cup UNION {Within(Children(e)[i]) : i \in DOMAIN Children(e)}
ReadsElement(e) == \E x \in Within(e) : x.form = "at"

(* An operation that takes its result's place from the scratch memory.     *)
ScratchOp(e) == \/ e.form \in {"op", "minus"} /\ ArrayLike(e.type)
                \/ e.form = "cast" /\ ArrayLike(e.type) /\ ~ areElementsTheSame(e.arg.type, e.type)
BelowRoot(e) == Within(e) \ {x \in Within(e) : x = RootOf(e)}
UsesScratch(e) == \E x \in BelowRoot(RootOf(e)) : ScratchOp(x)

(* A scalar of the element's own type leaves the definition a scalar, and  *)
(* an assignment without effect; one of a kind no opcode casts from, and   *)
(* one read from an array, are not filled in either (interpreter_build.cpp *)
(* 2035-2038, 989).                                                        *)
NotFilled(v) == ~ ArrayLike(RootOf(v).type) /\
                \/ RootOf(v).form # "cast"
                \/ selectElementCast(RootOf(v).arg.type.elem, RootOf(v).type.elem) = <<>>
                \/ ReadsElement(v)
(* The result of a minus goes to the scratch memory even when it is the    *)
(* whole value, its place stays on the stack (1769).                       *)
MinusIsWhole(v) == RootOf(v).form = "minus"
(* The element of a slice under a vector operation: its length stays on    *)
(* the stack (1869).                                                       *)
SliceElement(v) == /\ RootOf(v).form # "list"
                   /\ \E x \in Within(v) : x.form = "at" /\ x.left.type.kind = "slice"
(* A list that is the whole value and reads an array's element is taken    *)
(* for a vector that is not yet in its place (985).                        *)
ListReadsElement(v) == RootOf(v).form = "list" /\ ReadsElement(v)
(* A slice of what is cast from a variable or a range has no room (1013).  *)
CastHasNoRoom(v) == IsView(v) /\ RootOf(v).form = "cast"
(* Room for a slice's own value is the room of a slice: two words (1029).  *)
RoomIsShort(v, store) == /\ ~ IsView(v)
                         /\ Len(MeanOf(v, store)) > CellsOf(unwrapWithCasts(v).type)
(* An assignment writes cells its value is still to read, or copies cells  *)
(* to cells some of which are the same (bytecode.md:387 asks for a copy).  *)
ReadDirectly(v) == LET root == RootOf(v) IN
    {x \in {root} \cup {RootOf(Children(root)[i]) : i \in DOMAIN Children(root)} :
        x.form \in {"variable", "range"} /\ ArrayLike(x.type)}
Overlaps(place, v, store) ==
    LET at == ViewOf(place, store)
    IN  \E x \in ReadDirectly(v) :
            LET y == ViewOf(x, store) IN
            /\ y.of = at.of /\ Cells(y.from, y.n) \cap Cells(at.from, at.n) # {}
            /\ \/ y.from < at.from
               \/ y.from # at.from /\ x = RootOf(v)
               \/ RootOf(v).form = "op" /\ RootOf(v).op = ".."
(* Lengths are not compared when the machine runs (1838).                  *)
SameLengths(v, store) ==
    \A x \in Within(v) :
        x.form = "op" /\ x.op # ".." /\ ArrayLike(x.left.type) /\ ArrayLike(x.right.type) =>
            Len(MeanOf(x.left, store)) = Len(MeanOf(x.right, store))
(* An argument that is an operation on arrays is compiled as one on their  *)
(* addresses (1953), an array is passed by value only if it is a variable. *)
NotPassed(v, t) == \/ \E x \in Within(v) : x.form \in {"op", "minus"} /\ ArrayLike(x.type)
                   \/ t.kind = "array" /\ RootOf(v).form # "variable"
                   \/ v.type.kind = "array" /\ RootOf(v).type.kind = "slice"
(* A value shown that is an operation on arrays, too; the minus of a slice *)
(* has no type to take the size from (1718).                               *)
NotShown(v) == \/ v.type.kind = "array" /\ v.form \notin {"variable", "range"}
               \/ \E x \in Within(v) : x.form = "minus" /\ ArrayLike(x.type)

GivenAsMeant(s, i, v, store) ==
    /\ IF s.is = "call" THEN ~ NotPassed(v, s.types[i]) ELSE ~ NotShown(v)
    /\ ArrayLike(v.type) => ~ SliceElement(v) /\ SameLengths(v, store)
SliceAsMeant(v, store) ==
    /\ ArrayLike(unwrapWithCasts(v).type)
    /\ unwrapWithCasts(v).form # "minus"
    /\ ~ CastHasNoRoom(v) /\ ~ SliceElement(v) /\ ~ RoomIsShort(v, store) /\ SameLengths(v, store)
(* A vector for a place of n elements.                                      *)
FillsAsMeant(v, n, store) ==
    /\ ~ ListReadsElement(v) /\ ~ NotFilled(v) /\ ~ MinusIsWhole(v) /\ ~ SliceElement(v)
    /\ SameLengths(v, store)
    /\ ArrayLike(RootOf(v).type) => Len(MeanOf(v, store)) = n
DefinedAsMeant(v, store) ==
    CASE v.type.kind = "scalar" -> TRUE
      [] v.type.kind = "slice" -> SliceAsMeant(v, store)
      [] OTHER -> FillsAsMeant(v, v.type.n, store)
AssignedAsMeant(v, place, store) ==
    place.form = "range" => /\ FillsAsMeant(v, ViewOf(place, store).n, store)
                            /\ ~ Overlaps(place, v, store)

CompiledAsMeant(s, at) ==
    CASE s.is \in {"call", "show"} ->
            \A i \in DOMAIN s.args : GivenAsMeant(s, i, Argued(s, at.env)[i], at.store)
      [] s.is = "define" -> DefinedAsMeant(validateVectorDefinition(s, at.env), at.store)
      [] OTHER -> AssignedAsMeant(validateAssigned(s, at.env), validatePlace(s, at.env), at.store)

(* A program all of whose statements are.                                  *)
AllAsMeant(p) ==
    \A i \in 1..Len(p) : CompiledAsMeant(p[i], Meant(SubSeq(p, 1, i - 1)))

(* The place and the length an operation leaves on the stack when it wrote *)
(* to the place itself (bytecode.md:401 says nothing is left), as a list   *)
(* does for a range of unknown length.                                     *)
LeavesWords(v, t) == /\ t.kind # "scalar" /\ ~ UsesScratch(v)
                     /\ RootOf(v).form \notin {"variable", "range"}
                     /\ RootOf(v).form = "list" => t.kind = "slice"
LeavesPlace(s, at) ==
    \/ /\ s.is = "define"
       /\ \E v \in {validateVectorDefinition(s, at.env)} :
             v.type.kind = "array" /\ LeavesWords(v, v.type)
    \/ /\ s.is = "assign_range"
       /\ LeavesWords(validateAssigned(s, at.env), validatePlace(s, at.env).type)
PlacesLeft(p) == {i \in DOMAIN p : LeavesPlace(p[i], Meant(SubSeq(p, 1, i - 1)))}

(* The room of a list below the root, and of a slice for a call, is not    *)
(* noted as used and so not given back (2158, 1986).                       *)
KeepsScratch(s) == \/ s.is \in {"call", "show"}
                   \/ \E x \in Within(s.e) : x.form = "list"

EndsWith(meant) ==
    /\ shown = meant.shown
    /\ \A x \in DOMAIN meant.store.views : Held(x) = Seen(meant.store, meant.store.views[x])

VectorTypeOK ==
    /\ stopped \in {"no", "refused", "endless", "end", "below", "full", "unowned", "overrun"}
    /\ scratchUsed \in 0..ScratchCells /\ floor \in 0..Len(words)

(* A program whose statements have none of the forms above runs to its     *)
(* end: it takes no word and no cell that is not its own, its variables    *)
(* have the values they are meant to have, the calls got what they were    *)
(* meant to get, and nothing is left on the stack but what LeavesPlace     *)
(* says, nor in the scratch memory but what KeepsScratch says.              *)
VectorsAsMeant ==
    /\ vectorProgram # <<>> => VectorTypeOK
    /\ stopped \notin {"no", "refused"} /\ AllAsMeant(vectorProgram) =>
          /\ stopped = "end"
          /\ EndsWith(Meant(vectorProgram))
          /\ Len(words) = 2 * Cardinality(PlacesLeft(vectorProgram))
          /\ scratchUsed > 0 => \E i \in DOMAIN vectorProgram : KeepsScratch(vectorProgram[i])
===============================================================================
