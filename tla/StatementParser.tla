---------------------------- MODULE StatementParser ----------------------------
(***************************************************************************)
(* The statements and definitions of src/src/parser.cpp, in strict mode and   *)
(* in recovery mode (Config::opt.errorRecoveryEnabled).                      *)
(*                                                                         *)
(* "c" is the ParseContext with the position, the token in hand and the value *)
(* the last call handed over; the operators on it are the functions that do   *)
(* not reach parseScope.  "frames" is the C++ call stack of those that do,     *)
(* and of the loops that read one part after another.  An expression is one   *)
(* operand: ExpressionParser has the rest.  What is read past the end of the  *)
(* text is "end" here; the code reads the bytes behind the buffer.            *)
(***************************************************************************)
EXTENDS Integers, Sequences, SequencesExt

CONSTANTS Names, Values, Strings,  \* TK_IDENTIFIER, TK_NUMBER, TK_STRING
          Sentence,       \* texts [text, recover, meant, errors]
          MaxErrors,      \* bound on the count of reports
          Uninitialised   \* what a Token that nothing was assigned to may hold

IntTypes   == {"i32"}
DataTypes  == IntTypes \cup {"f64"}
Qualifiers == {"const"}
KeywordTokens == DataTypes \cup Qualifiers \cup
    {"if", "else", "case", "when", "loop", "as", "at", "return", "break", "continue",
     "struct", "union", "enum", "import", "using", "alloc"}
Operand == Names \cup Values \cup Strings \cup KeywordTokens

VARIABLES source, c, frames
vars == <<source, c, frames>>

(* A syntax tree.  "in" is base.scope, the number of a scope; a scope has "id" and "defs". *)
Node(k, name, sub, in) == [k |-> k, name |-> name, sub |-> sub, in |-> in]
Exp(o)  == Node("exp", o, <<>>, 0)
Nothing == Exp("")

TokenAt(i) == IF i <= Len(source.text) THEN source.text[i] ELSE "end"
Ahead(s)   == TokenAt(s.pos)
(* Mutant: the position goes on behind the end of the text. *)
ReadOn(s)  == [s EXCEPT !.token = TokenAt(s.pos), !.pos = @ + 1]

Read(s)    == [s EXCEPT !.token = TokenAt(s.pos),
                        !.pos = IF @ <= Len(source.text) THEN @ + 1 ELSE @]
Report(s)  == [s EXCEPT !.errors = IF @ < MaxErrors THEN @ + 1 ELSE @]
Fault(s)   == [s EXCEPT !.fault = TRUE]      \* a null pointer is followed
With(s, v) == [s EXCEPT !.val = v]
Enter(s, id) == [s EXCEPT !.scope = id]      \* ctx->currentScope = ...

(* makeScope: a fresh one; "up" is the scope it names as its own. *)
NewScope(s) == [s EXCEPT !.made = @ + 1]

Push(s, n)     == [s EXCEPT !.nodes = Append(@, n)]
PushDef(s, n)  == [s EXCEPT !.defs = Append(@, n)]
Register(s, k) == [s EXCEPT !.reg = Append(@, k)]

From(q, mark) == SubSeq(q, mark + 1, Len(q))
Cut(s, mark)     == [s EXCEPT !.nodes = SubSeq(@, 1, mark)]
CutDefs(s, mark) == [s EXCEPT !.defs = SubSeq(@, 1, mark)]
ScopeNode(id, up, kids, defs) ==
    [k |-> "scope", id |-> id, in |-> up, sub |-> kids,
     defs |-> [i \in DOMAIN defs |-> defs[i].name]]

(* Skips to a token of "kinds" or to the end; in strict mode the process is gone. *)
Sync(s, kinds) ==
    LET hits == {i \in s.pos .. Len(source.text) : TokenAt(i) \in kinds}
        to   == IF hits = {} THEN Len(source.text) + 1
                             ELSE CHOOSE i \in hits : \A j \in hits : i <= j
    IN IF source.recover THEN Read([s EXCEPT !.pos = to]) ELSE [s EXCEPT !.token = "end"]
Fail(s, kinds) == Sync(Report(s), kinds)
Expect(s, t)   == IF s.token = t THEN s ELSE Fail(s, {t})
ErrorToken(s)  == [Report(s) EXCEPT !.token = "error"]

-----------------------------------------------------------------------------
(* Expressions.  AnyEnd is what a caller with ALLOW_UNEXPECTED_END accepts, and one *)
(* with EMPTY_EXPRESSION_ALLOWED, which shares a bit with it.                      *)

AnyEnd(s) == {Ahead(s), TokenAt(s.pos + 1)}

parseExpression(s, ends) ==
    LET r == IF Ahead(s) \in Operand THEN With(Read(Read(s)), Exp(Ahead(s)))
                                     ELSE With(Read(s), Nothing)
    IN IF r.token \in ends THEN r ELSE Report(r)

(* The variant that fills a Variable complains of an empty expression as well. *)
FillExpression(s, ends) ==
    LET r == parseExpression(s, ends) IN IF r.val = Nothing THEN Report(r) ELSE r

(* Every decorator is pushed; the type takes them off.  The array that ends badly leaves them. *)
RECURSIVE parseTypeDecorators(_, _)
parseTypeDecorators(s, mark) ==
    LET r == Read(s)
        a == Read(r)
        More(t, d) == parseTypeDecorators(Push(t, Node("decorator", d, <<>>, t.scope)), mark)
    IN CASE r.token = "^" -> More(r, "^")
         [] r.token = "[" /\ a.token \in KeywordTokens ->
                IF Read(a).token = "]" THEN More(Read(a), a.token) ELSE Fail(Read(a), {"]"})
         [] r.token = "[" /\ a.token = "]" -> More(a, "[]")
         [] r.token = "[" /\ a.token \notin KeywordTokens \cup {"]"} ->
                LET e == parseExpression(r, AnyEnd(r)) IN More(e, e.val.name)
         [] OTHER -> With(Cut(r, mark), [i \in 1 .. Len(From(r.nodes, mark)) |->
                                            From(r.nodes, mark)[i].name])

parseDataType(s, qualifierAllowed) ==
    LET q == IF s.token \notin Qualifiers THEN s
             ELSE Read(IF qualifierAllowed THEN s ELSE Report(s))
    IN parseTypeDecorators(IF q.token \in DataTypes \cup Names THEN q ELSE Report(q), Len(q.nodes))

parseAlloc(s, ends) ==
    LET t == Read(s)
        d == parseTypeDecorators(IF t.token \in Names \cup DataTypes THEN t ELSE s, Len(s.nodes))
    IN IF t.token \in KeywordTokens \ DataTypes THEN Fail(t, {";"})
       ELSE IF d.token = ":" THEN Register(With(FillExpression(d, ends), Exp("alloc")), "alloc")
       ELSE IF d.token = ";" THEN Register(With(d, Exp("alloc")), "alloc")
       ELSE Fail(d, {";"})

parseRValue(s, ends) ==
    IF Ahead(s) = "alloc" THEN parseAlloc(Read(s), ends) ELSE FillExpression(s, ends)

(* Mutant: the position is never handed to the caller. *)
DefinitionEndsBehind(r, s, name, ends) ==
    LET n == Node("var", name, <<r.val>>, r.scope)
    IN [(IF r.token \in ends THEN Register(PushDef(Push(r, n), n), "var") ELSE r) EXCEPT !.pos = s.pos]

InitialValue(t, ends) == IF t.token = "=" THEN parseRValue(t, ends) ELSE With(t, Nothing)

(* A definition that does not end as it should is dropped without a word, and the caller's *)
(* position stays behind the first token of the type: only finalizeSpan hands it up.      *)
DefinitionEnds(r, s, name, ends) ==
    LET n == Node("var", name, <<r.val>>, r.scope)
    IN IF r.token \in ends THEN Register(PushDef(Push(r, n), n), "var")
                            ELSE [r EXCEPT !.pos = s.pos]
parseVarDefinition(s, name, ends) ==
    DefinitionEnds(InitialValue(parseDataType(s, TRUE), ends), s, name, ends)

(* The label of an argument or a member, "s.token" is its first token. *)
LabelledVar(s, ends) ==
    LET colon == IF Ahead(s) = ":" THEN Read(s) ELSE Report(Read(s))
    IN IF s.token \in Names THEN parseVarDefinition(Read(colon), s.token, ends)
                             ELSE Fault(Read(Report(s)))

parseLanguageTag(s) ==
    IF Read(s).token \notin Names THEN Fail(Read(s), {"]"}) ELSE Expect(Read(Read(s)), "]")

-----------------------------------------------------------------------------
(* The call stack. *)

Frame(fn, at, s) ==
    [fn |-> fn, at |-> at, mark |-> Len(s.nodes), dmark |-> Len(s.defs), entry |-> s.scope,
     own |-> 0, name |-> "", parts |-> <<>>, stmt |-> FALSE, prev |-> s.pos]

F == Last(frames)
Caller == frames[Len(frames) - 1]
Running == (source.recover \/ c.errors = 0) /\ ~c.fault
At(fn, at) == Running /\ frames # <<>> /\ F.fn = fn /\ F.at = at

(* "tick" tells a step that gets nowhere from a pause. *)
Tick(s) == [s EXCEPT !.tick = ~@]
Continue(s, f) == c' = Tick(s) /\ frames' = Append(Front(frames), f) /\ UNCHANGED source
Return(s)      == c' = Tick(s) /\ frames' = Front(frames) /\ UNCHANGED source
Call(s, f, g)  == c' = Tick(s) /\ frames' = Front(frames) \o <<f, g>> /\ UNCHANGED source

(* parseScope, called with the scope to fill as the current one. *)
ScopeFrame(s, up, stmt, dmark) ==
    [Frame("scope", "next", s) EXCEPT !.own = up, !.stmt = stmt, !.dmark = dmark]

Init ==
    /\ source \in Sentence
    /\ c = [pos |-> 1, token |-> "none", val |-> Nothing, scope |-> 1, made |-> 1,
            fcn |-> "", foreign |-> FALSE, nodes |-> <<>>, defs |-> <<>>, reg |-> <<>>,
            loads |-> <<>>, errors |-> 0, fault |-> FALSE, tick |-> TRUE]
    /\ frames = << [Frame("scope", "next", c) EXCEPT !.name = "global"] >>

-----------------------------------------------------------------------------
(* parseScope.  A statement is read at "next"; "after" it the loop goes round or ends. *)

Next1 == Read(c)
Starts(t) == At("scope", "next") /\ Next1.token = t
(* The statement is read in one step. *)
Plain(s)  == Continue(s, [F EXCEPT !.at = "after"])
(* The statement is read by "g", which comes back "after". *)
Statement(s, g) == Call(s, [F EXCEPT !.at = "after"], g)

EmptyStatement == Starts(";") /\ Continue(Next1, F)

(* Mutant: the scope's definitions stay on the stack. *)
LeaveScopeDefs(s) ==
    LET n == ScopeNode(F.entry, F.own, From(s.nodes, F.mark), From(s.defs, F.dmark))
    IN Return(With(Register(Enter(Cut(s, F.mark), F.entry), "scope"), n))

LeaveScope(s) ==
    LET n == ScopeNode(F.entry, F.own, From(s.nodes, F.mark), From(s.defs, F.dmark))
    IN Return(With(Register(Enter(CutDefs(Cut(s, F.mark), F.dmark), F.entry), "scope"), n))

(* Mutant: a scope that is not closed is read on. *)
EndOfTextStays ==
    /\ Starts("end")
    /\ IF F.name = "global" THEN LeaveScope(Next1) ELSE Continue(Fail(Next1, {"}"}), F)

EndOfText ==
    /\ Starts("end")
    /\ LeaveScope(IF F.name = "global" THEN Next1 ELSE Fail(Next1, {"}"}))

EndOfScope ==
    /\ Starts("}")
    /\ LeaveScope(IF F.name = "global" THEN Fail(Next1, {}) ELSE Next1)

StatementEnds ==
    /\ At("scope", "after")
    /\ IF F.stmt THEN LeaveScope(Expect(c, ";"))
                 ELSE Continue(c, [F EXCEPT !.at = "next", !.prev = c.pos])

NestedScope ==
    /\ Starts("{")
    /\ LET s == NewScope(Enter(Next1, Next1.made + 1))
           f == [F EXCEPT !.at = "block"]
       IN Call(s, f, ScopeFrame(s, F.entry, FALSE, Len(s.defs)))

(* The node of a nested scope is kept at the root of a file only. *)
NestedScopeEnds ==
    /\ At("scope", "block")
    /\ LET s == Enter(c, F.entry)
       IN Plain(IF F.name = "global" THEN Push(s, s.val) ELSE s)

UnexpectedKeyword ==
    /\ At("scope", "next")
    /\ Next1.token \in KeywordTokens \ {"loop", "return", "continue", "break", "case", "import", "if"}
    /\ Plain(Fail(Next1, KeywordTokens \cup {"}"}))

parseDirective == Starts("#test") /\ Plain(ErrorToken(Next1))

(* An expression or an assignment, read again from where the last statement ended. *)
parseBareStatement ==
    /\ At("scope", "next")
    /\ \/ Next1.token \in Names /\ Ahead(Next1) # ":"
       \/ Next1.token \notin Names \cup KeywordTokens \cup Strings \cup {";", "end", "{", "}", "#test", "["}
    /\ LET b == [c EXCEPT !.pos = F.prev]
           l == parseExpression(b, AnyEnd(b))
           e == IF l.token = "=" THEN l ELSE Fail(l, {"="})
           r == parseRValue(e, {";"})
       IN Plain(IF l.token = ";"
                THEN Register(Push(l, Node("statement", "", <<l.val>>, l.scope)), "statement")
                ELSE Register(Push(r, Node("assign", "", <<l.val, r.val>>, r.scope)), "assign"))

(* "continue" and "break", with or without a name. *)
JumpStatement ==
    /\ At("scope", "next") /\ Next1.token \in {"continue", "break"}
    /\ LET l == Read(Next1)
           e == Expect(IF l.token \in Names THEN Read(l) ELSE l, ";")
           name == IF l.token \in Names THEN l.token ELSE ""
       IN Plain(Push(e, Node(Next1.token, name, <<>>, e.scope)))

(* The sync of an unexpected token works on the caller's position and is then overwritten. *)
(* return; return value; return value, error; return _, error.  The node is on the stack before *)
(* its parts are read, and an empty part is a null pointer that is followed.                   *)
parseReturnStatement ==
    /\ Starts("return")
    /\ LET Ret(s, parts) == Plain(Register(Push(s, Node("return", s.fcn, parts, s.scope)), "return"))
           skip == Ahead(Next1) = "_"
           v == IF skip THEN With(Read(Read(Next1)), Nothing)
                        ELSE parseExpression(Next1, {",", ";"})
           e == parseExpression(v, {";"})
       IN CASE Ahead(Next1) = ";" -> Ret(Read(Next1), <<>>)
            [] Ahead(Next1) # ";" /\ ~skip /\ v.val = Nothing -> Plain(Fault(v))
            [] v.token = ";" -> Ret(v, <<v.val>>)
            [] v.token \notin {",", ";"} ->
                  Ret([Fail([v EXCEPT !.pos = Next1.pos], {",", ";"}) EXCEPT !.pos = v.pos], <<v.val>>)
            [] v.token = "," /\ (skip \/ v.val # Nothing) ->
                  IF e.val = Nothing THEN Plain(Fault(e)) ELSE Ret(e, <<v.val, e.val>>)

(* [tag] { text }: the text is skipped by its braces, the token stays the first of them. *)
Depth(i, j) == Len(SelectSeq(SubSeq(source.text, i, j), LAMBDA t : t = "{"))
               - Len(SelectSeq(SubSeq(source.text, i, j), LAMBDA t : t = "}"))
findBlockEnd(s) ==
    LET ends == {j \in s.pos .. Len(source.text) : Depth(s.pos, j) = -1}
    IN IF ends = {} THEN [s EXCEPT !.pos = Len(source.text) + 1]
       ELSE [s EXCEPT !.pos = (CHOOSE j \in ends : \A k \in ends : j <= k) + 1]

parseForeignScope ==
    /\ Starts("[")
    /\ LET b == Read(parseLanguageTag(Next1))
           e == findBlockEnd(b)
           cutOff == \A j \in b.pos .. Len(source.text) : Depth(b.pos, j) # -1
       IN Plain(IF b.token # "{" THEN Fail(b, KeywordTokens)
                ELSE Register(IF cutOff THEN [Report(e) EXCEPT !.token = "end"] ELSE e, "code"))

-----------------------------------------------------------------------------
(* Lists and definitions, read part by part. *)

parsePrintLiteral ==
    /\ At("scope", "next") /\ Next1.token \in Strings
    /\ LET g == [Frame("print", "item", Next1) EXCEPT !.name = "first"]
       IN Statement(Push(Next1, Exp(Next1.token)), g)

(* parseList: a part that is neither followed by a separator nor by the end is reported, *)
(* and the list goes on with what comes next.                                           *)
ListItem ==
    /\ At("print", "item")
    /\ LET first == F.name = "first"
           e == parseExpression(c, IF first THEN AnyEnd(c) ELSE {",", ";"})
           n == Push(e, e.val)
           Done(s) == Return(Push(Register(Cut(s, F.mark), "print"),
                                  Node("print", "", From(s.nodes, F.mark), s.scope)))
       IN IF first /\ Ahead(c) = ";" THEN Done(Read(c))
          ELSE IF e.token = ";" THEN Done(n)
          ELSE Continue(IF e.token = "," THEN n ELSE Report(n), [F EXCEPT !.name = ""])

(* An enumerator or a structure that breaks off leaves its members on the stack of nodes, and *)
(* the caller's position behind its keyword.                                                *)
BreakOff(s) == Return([ErrorToken(s) EXCEPT !.pos = F.prev])

parseEnumDefinition ==
    /\ At("enum", "begin")
    /\ LET s == Read(c)
           t == Read(s)
           b == IF s.token = ":" THEN Read(t) ELSE s
       IN IF s.token = ":" /\ t.token \notin IntTypes THEN BreakOff(t)
          ELSE IF b.token # "{" THEN BreakOff(b)
          ELSE Continue(b, [F EXCEPT !.at = "member", !.mark = Len(b.nodes)])

Defined(s, n) == Register(PushDef(Push(s, n), n), n.k)
(* Mutant: the members are not taken off the stack. *)
EndMembersKept(s) == Return(Defined(s, Node(F.fn, F.name, From(s.nodes, F.mark), s.scope)))

EndMembers(s) ==
    Return(Defined(Cut(s, F.mark), Node(F.fn, F.name, From(s.nodes, F.mark), s.scope)))

(* Whatever the token of a member is, its value is followed as a name: that of a number is    *)
(* the number itself, a sign has none and leaves the one before it, or one nobody has written *)
(* when it is the first that is read into the value.                                          *)
Unwritten(t) ==
    /\ t \notin Names \cup KeywordTokens \cup Strings \cup Values \cup {"}"}
    /\ Len(c.nodes) = F.mark /\ source.text[c.pos - 2] \notin IntTypes

EnumMember ==
    /\ At("enum", "member")
    /\ LET m == Read(c)
           t == Read(m)
           e == IF t.token = "=" THEN FillExpression(t, {",", "}"}) ELSE With(t, Nothing)
           n == Push(e, Node("member", m.token, <<e.val>>, e.scope))
       IN \/ (m.token \in Values \/ Unwritten(m.token)) /\ Continue(Fault(m), F)
          \/ m.token = "}" /\ EndMembers(m)
          \/ /\ m.token \notin Values \cup {"}"}
             /\ CASE e.token = "," -> Continue(n, F)
                  [] e.token = "}" -> EndMembers(n)
                  [] e.token \notin {",", "}"} -> BreakOff(n)

parseTypeDefinition ==
    /\ At("struct", "begin")
    /\ LET s == Read(c)
       IN IF s.token # "{" THEN BreakOff(s)
          ELSE Continue(s, [F EXCEPT !.at = "member", !.mark = Len(s.nodes)])

StructMember ==
    /\ At("struct", "member")
    /\ LET m == Read(c)
           v == LabelledVar(m, {";"})
       IN CASE m.token = "}" -> EndMembers(m)
            [] m.token # "}" /\ v.token = ";" -> Continue(v, F)
            [] m.token # "}" /\ v.token = "}" -> EndMembers(v)
            [] m.token # "}" /\ v.token \notin {";", "}"} -> BreakOff(v)

(* parseFunction: arguments in a scope of their own, the body in another below it. *)
FunctionFrame(s, name) ==
    [Frame("function", "args", s) EXCEPT !.name = name, !.own = s.made + 1]
FunctionBegins(s, name) ==
    NewScope([s EXCEPT !.scope = s.made + 1, !.fcn = name])

FunctionArgument ==
    /\ At("function", "args")
    /\ LET a == Read(c)
           v == LabelledVar(a, {")", ","})
           Done(s) == Continue(CutDefs(Cut(s, F.mark), F.dmark),
                               [F EXCEPT !.at = "signature", !.parts = From(s.nodes, F.mark)])
       IN IF a.token = ")" THEN Done(a)
          ELSE IF v.nodes = <<>> THEN Continue(Fault(v), F)   \* the last node is marked, there is none
          ELSE IF v.token = ")" THEN Done(v)
          ELSE Continue(v, F)

Signature(s) ==
    LET u == IF Read(s).token = "using" THEN Read(Read(Read(s))) ELSE Read(s)
    IN IF u.token = "->" THEN parseDataType(Read(u), FALSE) ELSE u

FunctionEnds(s, parts) ==
    LET n == Node("fcn", F.name, parts, F.entry)
        t == [Enter(s, F.entry) EXCEPT !.fcn = ""]
    IN Return(Register(PushDef(Push(t, n), n), "fcn"))

FunctionBody ==
    /\ At("function", "signature")
    /\ LET s == Signature(c)
           b == IF s.token \in {"{", ":"} THEN s ELSE Fail(s, KeywordTokens)
           d == NewScope([b EXCEPT !.scope = b.made + 1, !.defs = @ \o F.parts])
           f == [F EXCEPT !.at = "body"]
       IN IF s.token = ";" /\ s.foreign THEN FunctionEnds(s, F.parts)
          ELSE Call(d, f, ScopeFrame(d, F.own, d.token = ":", Len(b.defs)))

FunctionBodyEnds == At("function", "body") /\ FunctionEnds(c, Append(F.parts, c.val))

NamespaceEnds ==
    /\ At("namespace", "body")
    /\ LET n == Node("namespace", F.name, <<c.val>>, F.entry)
       IN Return(PushDef(Push(Enter(c, F.entry), n), n))

-----------------------------------------------------------------------------
(* Branches, cases and loops. *)

(* A body: a fresh scope below "up" becomes the current one and is read by parseScope. *)
Body(s, f, up) ==
    LET b == NewScope(Enter(s, s.made + 1)) IN Call(b, f, ScopeFrame(b, up, b.token = ":", Len(b.defs)))
BlockBegins == {":", "{"}

parseIfStatement ==
    /\ At("if", "condition")
    /\ LET e == parseExpression(c, BlockBegins)
       IN Body(e, [F EXCEPT !.at = "then", !.parts = <<e.val>>], F.entry)

PushBranch(s) == Push(Push(s, s.val), F.parts[1])
Branch(s, tail) ==
    Return(Push(Cut(s, F.mark), Node("if", "", From(s.nodes, F.mark) \o tail, F.entry)))

(* tryKeyword leaves "none" in hand when no else follows. *)
NoElse ==
    /\ At("if", "then") /\ Ahead(c) # "else"
    /\ Branch([PushBranch(Enter(c, F.entry)) EXCEPT !.token = "none"], <<>>)

ElseBranch ==
    /\ At("if", "then") /\ Ahead(c) = "else"
    /\ LET s == Read(Read(PushBranch(Enter(c, F.entry))))
           i == IF s.token = "if" THEN s ELSE Fail(s, KeywordTokens)
           e == parseExpression(i, BlockBegins)
       IN IF s.token \in BlockBegins
          THEN Body(s, [F EXCEPT !.at = "else"], F.entry)
          ELSE IF e.val = Nothing THEN Continue(Fault(e), F)
          ELSE Body(e, [F EXCEPT !.parts = <<e.val>>], F.entry)

ElseEnds == At("if", "else") /\ Branch(Enter(c, F.entry), <<c.val>>)

parseCaseStatement ==
    /\ At("case", "subject")
    /\ LET e == parseExpression(c, BlockBegins)
       IN Continue(e, [F EXCEPT !.at = "clause", !.parts = <<e.val>>, !.stmt = e.token = ":"])

CaseEnds(s, tail) ==
    LET n == Node("case", "", F.parts \o From(s.nodes, F.mark) \o tail, F.entry)
    IN Return(Register(Push(Enter(Cut(s, F.mark), F.entry), n), "case"))

(* With a brace any token begins a clause; with ":" only "when" and "else" do. *)
CaseClause ==
    /\ At("case", "clause")
    /\ LET w == Read(c)
           last == w.token = "else"
           e == IF last THEN With(Read(w), Nothing) ELSE parseExpression(w, BlockBegins)
           f == [F EXCEPT !.at = IF last THEN "else" ELSE "when", !.parts = Append(@, e.val)]
           over == IF F.stmt THEN w.token \notin {"when", "else"} ELSE w.token = "}"
           n == NewScope(Enter(e, e.made + 1))
       IN IF over THEN CaseEnds(IF F.stmt THEN [c EXCEPT !.token = "none"] ELSE w, <<>>)
          ELSE IF e.token \in BlockBegins THEN Body(e, f, F.entry)
          ELSE Continue(With(Fail(n, KeywordTokens), ScopeNode(n.scope, F.entry, <<>>, <<>>)), f)

(* Mutant: the value of a clause is pushed before its body. *)
ClauseEndsSwapped ==
    /\ At("case", "when")
    /\ Continue(Push(Push(c, Last(F.parts)), c.val), [F EXCEPT !.at = "clause", !.parts = Front(@)])

(* The scope of a clause stays the current one until the next begins. *)
ClauseEnds ==
    /\ At("case", "when")
    /\ Continue(Push(Push(c, c.val), Last(F.parts)), [F EXCEPT !.at = "clause", !.parts = Front(@)])

ElseClauseEnds ==
    /\ At("case", "else")
    /\ LET s == Read(c)
           n == Node("case", "", Front(F.parts) \o From(s.nodes, F.mark) \o <<c.val>>, F.entry)
           t == IF s.token = "}" THEN s ELSE Fail(s, KeywordTokens \cup {"}"})
       IN Return(Register(Push(Enter(Cut(t, F.mark), F.entry), n), "case"))

(* parseRangeExpression with the ends of a loop header: the parts of the range, or one *)
(* expression, or nothing, as the value.                                              *)
parseRangeExpression(s) ==
    LET l == IF Ahead(s) = ":" THEN With(s, Nothing) ELSE parseExpression(s, AnyEnd(s))
        m == IF Ahead(s) = ":" THEN Read(s) ELSE l
        r == parseExpression(m, AnyEnd(m))
        e == parseExpression(r, BlockBegins \cup KeywordTokens)
    IN IF Ahead(s) = "{" THEN With(Read(s), <<>>)
       ELSE IF m.token # ":" THEN With(m, IF m.val = Nothing THEN <<>> ELSE <<m.val>>)
       ELSE IF r.token # ":" THEN With(r, <<l.val, Nothing, r.val>>)
       ELSE With(e, <<l.val, r.val, e.val>>)

(* as [&]name: a definition of the loop's outer scope that no list of the unit has. *)
LoopItem(s) ==
    LET r == Read(s)
        n == IF r.token = "&" THEN Read(r) ELSE r
        d == Node("item", n.token, <<>>, n.scope)
    IN IF s.token # "as" THEN s
       ELSE IF n.token \in Names THEN Read(PushDef(Push(n, d), d)) ELSE n

(* at [&]name[:type] *)
LoopIndex(s) ==
    LET r == Read(s)
        n == IF r.token = "&" THEN Read(r) ELSE r
        t == Read(n)
        d == Node("index", n.token, <<>>, n.scope)
        typed == t.token = ":" /\ TokenAt(t.pos + 1) \in BlockBegins
    IN IF s.token # "at" THEN s
       ELSE IF n.token \notin Names THEN n
       ELSE IF r.token = "&" THEN With(t, Append(s.val, Exp(n.token)))
       ELSE IF typed THEN With(parseVarDefinition(Read(t), n.token, BlockBegins), s.val)
       ELSE PushDef(Push(t, d), d)

(* A header that does not end as it should leaves the outer scope the current one, its *)
(* definitions on the stacks and the caller's position behind "loop".                 *)
LoopBegins(h) ==
    LET outer == ScopeNode(h.scope, F.entry, From(h.nodes, F.mark), From(h.defs, F.dmark))
    IN IF h.token \in BlockBegins
       THEN Body(CutDefs(Cut(h, F.mark), F.dmark),
                 [F EXCEPT !.at = "body", !.own = h.scope, !.parts = h.val \o <<outer>>],
                 h.scope)
       ELSE Return([Fail(h, BlockBegins) EXCEPT !.pos = F.prev])
parseLoop ==
    /\ At("loop", "header")
    /\ LoopBegins(LoopIndex(LoopItem(parseRangeExpression(NewScope(Enter(c, c.made + 1))))))

(* Mutant: the loop's outer scope stays the current one. *)
LoopEndsInside ==
    /\ At("loop", "body")
    /\ LET n == Node("loop", "", Append(F.parts, c.val), F.own)
       IN Return(Register(Push(Enter(c, F.own), n), "loop"))

LoopEnds ==
    /\ At("loop", "body")
    /\ LET n == Node("loop", "", Append(F.parts, c.val), F.own)
       IN Return(Register(Push(Enter(c, F.entry), n), "loop"))

BeginStatement ==
    /\ At("scope", "next")
    /\ \/ Next1.token = "if" /\ Statement(Next1, Frame("if", "condition", Next1))
       \/ Next1.token = "case" /\ Statement(Next1, Frame("case", "subject", Next1))
       \/ Next1.token = "loop" /\ Statement(Next1, Frame("loop", "header", Next1))

-----------------------------------------------------------------------------
(* parseLabel after "name :", "t" has the first token of what is named; "f" goes on afterwards. *)

IsLabel(t) == t \in Names \cup DataTypes \cup Qualifiers \cup {"case", "enum", "struct", "union", "(", "{"}
parseLabel(t, name, f) ==
    \/ /\ t.token \in Names \cup DataTypes \cup Qualifiers
       /\ Continue(parseVarDefinition(t, name, {";"}), f)
    \/ t.token = "case" /\ Call(t, f, Frame("case", "subject", t))
    \/ t.token = "enum" /\ Call(t, f, [Frame("enum", "begin", t) EXCEPT !.name = name])
    \/ t.token \in {"struct", "union"} /\ Call(t, f, [Frame("struct", "begin", t) EXCEPT !.name = name])
    \/ /\ t.token = "("
       /\ \E garbage \in Uninitialised :
            LET s == IF garbage = "[" THEN parseLanguageTag(t) ELSE t
            IN Call(FunctionBegins(s, name), f, FunctionFrame(s, name))
    \/ /\ t.token = "{"
       /\ \E garbage \in Uninitialised :
            LET n == NewScope(Enter(t, t.made + 1))
                g == [Frame("namespace", "body", t) EXCEPT !.name = name]
            IN /\ c' = Tick(n) /\ UNCHANGED source
               /\ frames' = Front(frames) \o
                            <<f, g, ScopeFrame(n, t.scope, garbage = ":", Len(n.defs))>>
    \/ ~IsLabel(t.token) /\ Continue(Fail(t, KeywordTokens), f)

LabelledStatement ==
    /\ At("scope", "next") /\ Next1.token \in Names /\ Ahead(Next1) = ":"
    /\ parseLabel(Read(Read(Next1)), Next1.token, [F EXCEPT !.at = "after"])

(* parseImport: without a tag the first token is passed over and the file's name is the next. *)
ImportHeader(s) ==
    LET t == Read(s)
        tag == IF t.token = "[" THEN Read(parseLanguageTag(t))      \* nextFileName
               ELSE IF t.token \notin KeywordTokens THEN Read(t) ELSE t
        w == Read([tag EXCEPT !.val = [tag |-> t.token = "[", file |-> tag.token]])
        a == IF w.token = "as" THEN w ELSE Report(w)
        n == Read(a)
    IN [(IF n.token \in Names THEN n ELSE Report(n)) EXCEPT !.val = [name |-> n.token] @@ w.val]

parseImport ==
    /\ Starts("import")
    /\ LET h == ImportHeader(Next1)
           s == Read(h)
           t == Read([s EXCEPT !.foreign = h.val.tag, !.val = Nothing])
           g == [Frame("import", "end", Next1) EXCEPT !.parts = <<h.val>>]
       IN CASE s.token = ":" /\ h.val.name \in Names -> Statement(t, [g EXCEPT !.at = "label"])
            [] s.token = ":" /\ h.val.name \notin Names -> Plain(Fault(s))
            [] s.token # ":" -> Statement(IF s.token = ";" THEN s ELSE Report(s), g)

ImportLabel ==
    /\ At("import", "label")
    /\ parseLabel(c, F.parts[1].name, [F EXCEPT !.at = "named"])

(* dispatchImport: what has a tag is no file. *)
ImportEnds ==
    /\ At("import", "end") \/ At("import", "named")
    /\ LET i == F.parts[1]
           s == [c EXCEPT !.foreign = FALSE, !.loads = IF i.tag THEN @ ELSE Append(@, i.file)]
       IN Return(IF F.at = "named" /\ c.nodes = <<>> THEN Fault(s) ELSE Register(s, "import"))

Done == frames = <<>>
Next ==
    \/ EmptyStatement \/ EndOfText \/ EndOfScope \/ StatementEnds
    \/ NestedScope \/ NestedScopeEnds \/ UnexpectedKeyword \/ parseDirective
    \/ parseBareStatement \/ JumpStatement \/ parseReturnStatement \/ parseForeignScope
    \/ parsePrintLiteral \/ ListItem
    \/ parseEnumDefinition \/ EnumMember \/ parseTypeDefinition \/ StructMember
    \/ FunctionArgument \/ FunctionBody \/ FunctionBodyEnds \/ NamespaceEnds
    \/ parseIfStatement \/ NoElse \/ ElseBranch \/ ElseEnds
    \/ parseCaseStatement \/ CaseClause \/ ClauseEnds \/ ElseClauseEnds
    \/ parseLoop \/ LoopEnds \/ BeginStatement
    \/ LabelledStatement \/ parseImport \/ ImportLabel \/ ImportEnds

(* The process is over: the text is read, or an error ended it. *)
Over == (Done \/ ~Running) /\ UNCHANGED vars

Spec == Init /\ [][Next \/ Over]_vars

(* Weak fairness of Next, written out: one thread, which goes on as long as there is a step. *)
FairSpec == Spec /\ ([]<><<Next>>_vars \/ <>[](Done \/ ~Running))
================================================================================
