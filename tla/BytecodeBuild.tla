------------------------------ MODULE BytecodeBuild ------------------------------
(***************************************************************************)
(* The single-pass bytecode compiler of src/src/interpreter_build.cpp:     *)
(* jump placeholders patched when the target is known, lists of pending    *)
(* jumps threaded through their own operands, operand-stack words that a   *)
(* loop keeps for its whole length.                                        *)
(*                                                                         *)
(* One cell of code stands for an opcode (1 byte in the program) or for an *)
(* operand (8 bytes): "logicalPos - 8" is "position - 1" here.  Positions  *)
(* count from 0, a variable takes one word for each of its values.         *)
(***************************************************************************)
EXTENDS SourceMeaning, FiniteSets

CONSTANT NullList      \* patchListHeadNull, the end of a list of pending jumps
ASSUME NullListAssumption == NullList \in Nat

PrintFcn == 0          \* Ast::Internal::IF_PRINTF, a function the VM runs itself

Opc(o) == [op |-> o,  arg |-> 0, ref |-> ""]
Arg(n) == [op |-> "", arg |-> n, ref |-> ""]
Ref(x) == [op |-> "", arg |-> 0, ref |-> x]

(* CompilerState.  "ends" and "exits" are local variables of the program, the    *)
(* jumps to the end of a branch or a case and the placeholders of a loop's test.  *)
(* "where" is vmOwnerExe and vmOffset of each definition.  "kept" and "marks" are *)
(* not in the program: they record, at every statement, how many words the        *)
(* enclosing loops keep on the operand stack.                                     *)
Fresh(exe, where) ==
    [code |-> <<>>, last |-> "NOP", breaks |-> NullList, continues |-> NullList,
     ends |-> NullList, exits |-> {}, exe |-> exe, fixed |-> 0, locals |-> 0,
     where |-> where, kept |-> 0, marks |-> {}]

Pos(st) == Len(st.code)

pushOpcode(st, o)  == [st EXCEPT !.code = Append(@, Opc(o)), !.last = o]
pushOperand(st, n) == [st EXCEPT !.code = Append(@, Arg(n))]
Push(st, o, n)     == pushOperand(pushOpcode(st, o), n)

Mark(st) == [st EXCEPT !.marks = @ \cup {<<Pos(st), st.kept>>}]
Keep(st, words) == [st EXCEPT !.kept = @ + words]

pushLocal(st, x, words) ==
    [st EXCEPT !.where[x] = [exe |-> st.exe, off |-> st.locals + st.fixed], !.locals = @ + words]

\* A definition of the block that is compiled is addressed by its offset, any
\* other by the definition itself.
Access(st, local, global, x) ==
    IF st.where[x].exe = st.exe THEN Push(st, local, st.where[x].off)
    ELSE [pushOpcode(st, global) EXCEPT !.code = Append(@, Ref(x))]
pushSetOpcode(st, x) == Access(st, "SET", "SET_GLOBAL", x)
pushGetOpcode(st, x) == Access(st, "GET", "GET_GLOBAL", x)
pushLeaOpcode(st, x) == Access(st, "LEA", "LEA_GLOBAL", x)

--------------------------------------------------------------------------------
(* Jumps.  An offset is relative to the opcode of its jump.                     *)

(* Mutant: the offset is counted from the operand of the jump *)
patchFromOperand(st, jump) == [st EXCEPT !.code[jump + 2].arg = Pos(st) - jump - 1]

patchJumpToHere(st, jump) == [st EXCEPT !.code[jump + 2].arg = Pos(st) - jump]

pushJumpBack(st, target) == Push(st, "JUMP", target - Pos(st))

\* A jump past everything that Body compiles.
JumpOver(st, jump, Body(_)) == patchJumpToHere(Body(Push(st, jump, 0)), Pos(st))

\* The operand of a pending jump holds the position of the next pending operand.
addJumpToList(st, head) == Push(st, "JUMP", head)
pushBreak(st)    == [addJumpToList(st, st.breaks) EXCEPT !.breaks = Pos(st) + 1]
pushContinue(st) == [addJumpToList(st, st.continues) EXCEPT !.continues = Pos(st) + 1]
pushEnd(st)      == [addJumpToList(st, st.ends) EXCEPT !.ends = Pos(st) + 1]

RECURSIVE patchList(_, _, _)
patchList(st, head, offset) ==
    IF head = NullList THEN st
    ELSE patchList([st EXCEPT !.code[head + 1].arg = offset - (head - 1)],
                   st.code[head + 1].arg, offset)

patchBreaks(st) == patchList(st, st.breaks, Pos(st))
(* Mutant: the list of continue jumps is forgotten *)
patchNoContinues(st) == st

patchContinues(st) == patchList(st, st.continues, Pos(st))
patchEnds(st) == patchList(st, st.ends, Pos(st))

\* A branch or a case: the jumps to its end are listed and, there, patched.
WithEnds(st, Body(_)) ==
    [patchEnds(Body([st EXCEPT !.ends = NullList])) EXCEPT !.ends = st.ends]

pushExit(st) == [Push(st, "JUMP_IF_FALSE", 0) EXCEPT !.exits = @ \cup {Pos(st)}]

RECURSIVE patchExits(_)
patchExits(st) ==
    IF st.exits = {} THEN st
    ELSE LET jump == CHOOSE e \in st.exits : TRUE
         IN  patchExits([patchJumpToHere(st, jump) EXCEPT !.exits = @ \ {jump}])

--------------------------------------------------------------------------------
(* Expressions leave one value (an array: its address and its length).          *)

RECURSIVE compileExp(_, _)

compileElem(st, x, at) ==
    Push(compileExp(pushLeaOpcode(st, x), at), "PTR_IDX", 1)

compileShortCircuit(st, e) ==
    JumpOver(pushOpcode(pushOpcode(compileExp(st, e.l), "BOOL"), "DUP"),
             IF e.op = "and" THEN "JUMP_IF_FALSE" ELSE "JUMP_IF_TRUE",
             LAMBDA c : pushOpcode(compileExp(pushOpcode(c, "POP"), e.r), "BOOL"))

\* Three empty slots, the arguments, the call and the words of the variable
\* arguments.
compileCall(st, f, e) ==
    pushOperand(Push(compileExp(Push(st, "GROW", 3), e), "CALL", f), 0)

\* print: the descriptor of the format string, its address and length, one
\* argument with its type, and the number of arguments.
compilePrint(st, e) ==
    LET format == Push(Push(Push(Push(st, "GROW", 3), "PUSH", 0), "PUSH", 0), "PUSH", 0)
        value  == compileExp(Push(format, "PUSH", 0), e)
    IN  pushOperand(Push(Push(value, "PUSH", 1), "CALL", PrintFcn), 2)

compileExp(st, e) ==
    CASE e.t = "num"   -> Push(st, "PUSH", e.val)
      [] e.t = "var"   -> pushGetOpcode(st, e.name)
      [] e.t = "array" -> Push(pushLeaOpcode(st, e.name), "PUSH", e.count)
      [] e.t = "elem"  -> pushOpcode(compileElem(st, e.name, e.exp), "LOAD")
      [] e.t = "bin"   -> pushOpcode(compileExp(compileExp(st, e.l), e.r), e.op)
      [] e.t = "logic" -> compileShortCircuit(st, e)
      [] e.t = "call"  -> compileCall(st, e.fcn, e.exp)

compileDefinition(st, s) ==
    LET made == pushLocal(st, s.name, 1)
    IN  IF s.exp = NoExp THEN made ELSE pushSetOpcode(compileExp(made, s.exp), s.name)

\* The elements from the i-th on; the array's address is on the operand stack.
RECURSIVE compileElements(_, _, _)
compileElements(st, es, i) ==
    IF i > Len(es) THEN st
    ELSE LET at == Push(Push(pushOpcode(st, "DUP"), "PUSH", i - 1), "PTR_IDX", 1)
         IN  compileElements(pushOpcode(compileExp(at, es[i]), "STORE"), es, i + 1)

compileArray(st, s) ==
    LET made == pushLocal(st, s.name, Len(s.elems))
    IN  pushOpcode(compileElements(pushLeaOpcode(made, s.name), s.elems, 1), "POP")

--------------------------------------------------------------------------------
(* Branches and cases.                                                          *)

RECURSIVE compileScope(_, _), compileBranch(_, _, _), compileLinear(_, _, _)
RECURSIVE compileCells(_, _, _, _)

\* The conditions from the i-th on, then the else.
compileBranch(st, s, i) ==
    IF i > Len(s.conds)
    THEN IF i > Len(s.scopes) THEN st ELSE compileScope(st, s.scopes[i])
    ELSE LET then(c) == compileScope(c, s.scopes[i])
         IN  compileBranch(
                 JumpOver(compileExp(st, s.conds[i]), "JUMP_IF_FALSE",
                          LAMBDA c : IF i < Len(s.scopes) THEN pushEnd(then(c)) ELSE then(c)),
                 s, i + 1)

Least(S)    == CHOOSE x \in S : \A y \in S : x <= y
Greatest(S) == CHOOSE x \in S : \A y \in S : x >= y
Values(s)   == {s.vals[i] : i \in DOMAIN s.vals}
Strategy(s) ==
    IF Len(s.vals) <= 3 THEN "LINEAR"
    ELSE IF Greatest(Values(s)) - Least(Values(s)) > 2 * Len(s.vals) THEN "BINARY"
    ELSE "JUMP_TABLE"

compileElse(st, s) == IF s.other = NoElse THEN st ELSE compileScope(st, s.other)

\* The value is compared with one case after another; whoever ends the search
\* takes it from the stack.
compileLinear(st, s, i) ==
    IF i > Len(s.vals)
    THEN compileElse(IF s.vals = <<>> THEN st ELSE pushOpcode(st, "POP"), s)
    ELSE compileLinear(
             JumpOver(pushOpcode(Push(pushOpcode(st, "DUP"), "PUSH", s.vals[i]), "EQ"),
                      "JUMP_IF_FALSE",
                      LAMBDA c : pushEnd(compileScope(pushOpcode(c, "POP"), s.scopes[i]))),
             s, i + 1)

\* A cell of the table for every value from the least to the greatest and one
\* for the values outside, all of them relative to the JUMP_TABLE opcode at base.
pushTable(st, lo, hi) ==
    [pushOperand(Push(st, "JUMP_TABLE", lo), hi)
        EXCEPT !.code = @ \o [i \in 1 .. hi - lo + 2 |-> Arg(0)]]

patchCell(st, base, n) == [st EXCEPT !.code[base + 4 + n].arg = Pos(st) - base]

patchUnset(st, base, n) == IF st.code[base + 4 + n].arg = 0 THEN patchCell(st, base, n) ELSE st

\* The cases of the values from v on; then the cells that are still zero, and
\* the one for the values outside, get the place of the else.
compileCells(st, s, base, v) ==
    LET lo == Least(Values(s))
        hi == Greatest(Values(s))
        RECURSIVE Default(_, _)
        Default(c, n) == IF n > hi - lo THEN patchCell(c, base, n)
                         ELSE Default(patchUnset(c, base, n), n + 1)
        case(c) == compileScope(patchCell(c, base, v - lo),
                                s.scopes[CHOOSE i \in DOMAIN s.vals : s.vals[i] = v])
    IN  IF v > hi THEN compileElse(Default(st, 0), s)
        ELSE compileCells(IF v \in Values(s) THEN pushEnd(case(st)) ELSE st, s, base, v + 1)

compileTable(st, s) ==
    LET lo == Least(Values(s))
    IN  compileCells(pushTable(st, lo, Greatest(Values(s))), s, Pos(st), lo)

\* The strategy for sparse values is not implemented: the error is lost in
\* compileScope and no code is made.
compileSwitch(st, s) ==
    CASE Strategy(s) = "LINEAR"     -> compileLinear(compileExp(st, s.exp), s, 1)
      [] Strategy(s) = "JUMP_TABLE" -> compileTable(compileExp(st, s.exp), s)
      [] Strategy(s) = "BINARY"     -> st

--------------------------------------------------------------------------------
(* Loops.  A range and an array keep two words on the operand stack for as long *)
(* as they run, a condition with an index keeps one: the last of them is a copy *)
(* of the index, or the index itself when the program does not name it.         *)

compileStep(st, step) == IF step = NoExp THEN Push(st, "PUSH", 1) ELSE compileExp(st, step)

emitInitIndex(st, l, start) ==
    LET made  == IF l.fresh THEN pushLocal(st, l.index, 1) ELSE st
        value == IF start = NoExp THEN Push(made, "PUSH", 0) ELSE compileExp(made, start)
    IN  IF l.index = "" THEN value ELSE pushGetOpcode(pushSetOpcode(value, l.index), l.index)

emitUpdateIndex(st, l, step) ==
    IF l.index = "" THEN pushOpcode(compileStep(st, step), "ADD")
    ELSE LET old == pushGetOpcode(pushOpcode(st, "POP"), l.index)
             new == pushSetOpcode(pushOpcode(compileStep(old, step), "ADD"), l.index)
         IN  pushGetOpcode(new, l.index)

\* "as item": a copy of what is on top of the operand stack.
compileItem(st, l) ==
    IF l.item = "" THEN st
    ELSE pushSetOpcode(pushOpcode(pushLocal(st, l.item, 1), "DUP"), l.item)

\* From the header: the test, the body, where continue leads to, the step, the
\* jump back to the header, and where the exits and break lead to.
LoopFrame(st, l, words, Test(_), Next(_)) ==
    LET body == Keep(compileScope(Keep(Test(st), words), l.body), -words)
    IN  patchBreaks(patchExits(pushJumpBack(Next(patchContinues(body)), Pos(st))))

(* Mutant: a loop leaves one of its two words behind *)
PopOne(st) == pushOpcode(st, "POP")

PopTwo(st) == pushOpcode(pushOpcode(st, "POP"), "POP")

compileConditionLoop(st, l) ==
    LET named == l.index # ""
    IN  LoopFrame(IF named THEN emitInitIndex(st, l, NoExp) ELSE st, l, IF named THEN 1 ELSE 0,
               LAMBDA c : pushExit(compileItem(compileExp(c, l.exp), l)),
               LAMBDA c : IF named THEN emitUpdateIndex(c, l, NoExp) ELSE c)

\* end >= index, then over the other test into the body.  The end is a round of its own,
\* as in test_loops.qvi; doc.md 8.2 leaves it out.
RangeUpward(st) == Push(pushExit(pushOpcode(st, "GE")), "JUMP", 0)
(* Mutant: the test of the other direction *)
RangeDownUpward(st) == patchJumpToHere(pushExit(pushOpcode(st, "GE")), Pos(st) - 2)

\* end <= index; the jump before this test leads behind it.
RangeDown(st) == patchJumpToHere(pushExit(pushOpcode(st, "LE")), Pos(st) - 2)

RangeTest(st, l) ==
    LET step == compileStep(compileItem(Push(st, "DUP_N", 2), l), l.step)
    IN  RangeDown(JumpOver(pushOpcode(Push(step, "PUSH", 0), "LT"), "JUMP_IF_TRUE", RangeUpward))

compileRangeLoop(st, l) ==
    PopTwo(LoopFrame(emitInitIndex(compileExp(st, l.exp), l, l.lo), l, 2,
                  LAMBDA c : RangeTest(c, l), LAMBDA c : emitUpdateIndex(c, l, l.step)))

\* The item has a second local, nameless, for the address of the array.
ArrayAddress(st, l) == st.where[l.item].off + 1

ArraySource(st, l) ==
    LET source == pushOpcode(compileExp(st, l.exp), "SWAP")
        item   == [pushLocal(source, l.item, 1) EXCEPT !.locals = @ + 1]
    IN  IF l.item = "" THEN pushOpcode(source, "POP")
        ELSE Push(item, "SET", ArrayAddress(item, l))

ArrayItem(st, l) ==
    LET address(c) == Push(c, "GET", ArrayAddress(c, l))
        place == IF l.index = "" THEN pushOpcode(address(pushOpcode(st, "DUP")), "SWAP")
                 ELSE pushGetOpcode(address(st), l.index)
    IN  IF l.item = "" THEN st
        ELSE pushSetOpcode(pushOpcode(Push(place, "PTR_IDX", 1), "LOAD"), l.item)

compileArrayLoop(st, l) ==
    PopTwo(LoopFrame(emitInitIndex(ArraySource(st, l), l, NoExp), l, 2,
                  LAMBDA c : ArrayItem(pushExit(pushOpcode(Push(c, "DUP_N", 2), "GT")), l),
                  LAMBDA c : emitUpdateIndex(c, l, NoExp)))

\* Each loop has lists of its own; those of the enclosing loop come back after it.
compileLoop(st, l) ==
    LET mine == [st EXCEPT !.breaks = NullList, !.continues = NullList, !.exits = {}]
        made == CASE l.kind = "cond"  -> compileConditionLoop(mine, l)
                  [] l.kind = "range" -> compileRangeLoop(mine, l)
                  [] l.kind = "array" -> compileArrayLoop(mine, l)
    IN  [made EXCEPT !.breaks = st.breaks, !.continues = st.continues, !.exits = st.exits]

compileReturn(st, s) ==
    IF s.exp = NoExp THEN Push(st, "RET", 0) ELSE Push(compileExp(st, s.exp), "RET", 1)

--------------------------------------------------------------------------------
compileStatement(st, s) ==
    CASE s.s = "set"      -> pushSetOpcode(compileExp(st, s.exp), s.name)
      [] s.s = "setelem"  -> pushOpcode(compileExp(compileElem(st, s.name, s.at), s.exp), "STORE")
      [] s.s = "def"      -> compileDefinition(st, s)
      [] s.s = "arr"      -> compileArray(st, s)
      [] s.s = "print"    -> compilePrint(st, s.exp)
      [] s.s = "bare"     -> compileExp(st, s.exp)
      [] s.s = "if"       -> WithEnds(st, LAMBDA c : compileBranch(c, s, 1))
      [] s.s = "case"     -> WithEnds(st, LAMBDA c : compileSwitch(c, s))
      [] s.s = "loop"     -> compileLoop(st, s)
      [] s.s = "break"    -> pushBreak(st)
      [] s.s = "continue" -> pushContinue(st)
      [] s.s = "return"   -> compileReturn(st, s)

compileScope(st, scope) ==
    IF scope = <<>> THEN Mark(st)
    ELSE \* A set of one: TLC, which is lazy, computes the state here, not at the end.
         CHOOSE done \in {compileScope(next, Tail(scope)) :
                            next \in {compileStatement(Mark(st), Head(scope))}} : TRUE

\* commitCompileState: the frame of a block holds its arguments and its locals.
Commit(st) == [st EXCEPT !.fixed = @ + st.locals]

\* A function whose last opcode is a RET gets no other, wherever that RET is.
ImpliedReturn(st) == IF st.last = "RET" THEN st ELSE Push(st, "RET", 0)

compileFunction(fcn, exe, where) ==
    LET args == pushLocal(Fresh(exe, where), fcn.param, 1)
    IN  Commit(ImpliedReturn(compileScope([args EXCEPT !.fixed = args.locals, !.locals = 0],
                                          fcn.body)))

compileUnit(scope, where) == Commit(Push(compileScope(Fresh(0, where), scope), "RET", 0))

\* The functions from the i-th on, then the unit: its state comes last.
RECURSIVE compileBlocks(_, _, _)
compileBlocks(p, i, where) ==
    IF i > Len(p.fcns) THEN <<compileUnit(p.body, where)>>
    ELSE LET Then(st) == <<st>> \o compileBlocks(p, i + 1, st.where)
         IN  Then(compileFunction(p.fcns[i], i, where))

\* The blocks one after another, behind a HALT that the return address of the
\* outermost call names; the unit is block 0.
Linked(states) ==
    LET blocks  == [f \in 0 .. Len(states) - 1 |-> states[IF f = 0 THEN Len(states) ELSE f]]
        RECURSIVE Text(_)
        Text(f) == IF f < 0 THEN <<Opc("HALT")>> ELSE Text(f - 1) \o blocks[f].code
        base(f) == Len(Text(f - 1))
    IN  [text   |-> Text(Len(states) - 1),
         where  |-> blocks[0].where,
         base   |-> [f \in DOMAIN blocks |-> base(f)],
         size   |-> [f \in DOMAIN blocks |-> Len(blocks[f].code)],
         fixed  |-> [f \in DOMAIN blocks |-> blocks[f].fixed],
         locals |-> [f \in DOMAIN blocks |-> blocks[f].locals],
         kept   |-> UNION {{[at |-> base(f) + m[1], words |-> m[2], exe |-> f] :
                                m \in blocks[f].marks} : f \in DOMAIN blocks}]

\* What the virtual machine runs.
Build(p) == Linked(compileBlocks(p, 1, [x \in p.names |-> [exe |-> -1, off |-> 0]]))
================================================================================
