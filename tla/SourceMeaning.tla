------------------------------ MODULE SourceMeaning ------------------------------
(***************************************************************************)
(* What a program of the language means, defined on its syntax tree with   *)
(* no bytecode in sight: the definition the compiler and the virtual       *)
(* machine are measured against.  Where the documentation and the tests    *)
(* of the repository differ (a range includes its end, says                *)
(* test/end_to_end/to_pass/test_loops.qvi) the tests decide.               *)
(*                                                                         *)
(* Expressions: Num, Var, Bin, Logic, Call, Array and Elem.  Statements:   *)
(* Set, SetElem, Def, Arr (a new array and its elements), Shows, Bare (an *)
(* expression whose value nobody takes), If, Case, Loop, Break, Continue,  *)
(* Return.                                                                 *)
(* A program is a body and a sequence of functions; variable names are     *)
(* unique in a program.                                                    *)
(***************************************************************************)
EXTENDS Integers, Sequences

Num(v)         == [t |-> "num", val |-> v]
Var(x)         == [t |-> "var", name |-> x]
Bin(o, l, r)   == [t |-> "bin", op |-> o, l |-> l, r |-> r]
Logic(o, l, r) == [t |-> "logic", op |-> o, l |-> l, r |-> r]
\* A whole array of n elements, and one of them.
Array(x, n)    == [t |-> "array", name |-> x, count |-> n]
Elem(x, e)     == [t |-> "elem", name |-> x, exp |-> e]
Call(f, e)     == [t |-> "call", fcn |-> f, exp |-> e]
NoExp          == [t |-> "none"]

Set(x, e)      == [s |-> "set", name |-> x, exp |-> e]
Def(x, e)      == [s |-> "def", name |-> x, exp |-> e]
SetElem(x, i, e) == [s |-> "setelem", name |-> x, at |-> i, exp |-> e]
Arr(x, es)     == [s |-> "arr", name |-> x, elems |-> es]
Shows(e)       == [s |-> "print", exp |-> e]
Bare(e)        == [s |-> "bare", exp |-> e]
\* One scope per condition, and possibly one more for the else.
If(es, scopes) == [s |-> "if", conds |-> es, scopes |-> scopes]
NoElse         == <<[s |-> "none"]>>
Case(e, vals, scopes, other) ==
    [s |-> "case", exp |-> e, vals |-> vals, scopes |-> scopes, other |-> other]
Loop(kind, e, lo, step, item, index, fresh, body) ==
    [s |-> "loop", kind |-> kind, exp |-> e, lo |-> lo, step |-> step,
     item |-> item, index |-> index, fresh |-> fresh, body |-> body]
Break          == [s |-> "break"]
Continue       == [s |-> "continue"]
Return(e)      == [s |-> "return", exp |-> e]

Truth(b) == IF b THEN 1 ELSE 0

Apply(op, a, b) ==
    CASE op = "ADD" -> a + b
      [] op = "DIV" -> a \div b
      [] op = "LT"  -> Truth(a < b)
      [] op = "LE"  -> Truth(a <= b)
      [] op = "GT"  -> Truth(a > b)
      [] op = "GE"  -> Truth(a >= b)
      [] op = "EQ"  -> Truth(a = b)

--------------------------------------------------------------------------------
(* A configuration: the variables, what has been printed, how the last        *)
(* statement ended ("next", "break", "continue", "return", or "fuel" when a   *)
(* loop went on for more rounds than anyone asked for) and the value of the   *)
(* last expression.  A range runs the round at its end too: so do the code    *)
(* (interpreter_build.cpp:2571, 2577) and test_loops.qvi:14-17, against       *)
(* doc.md:1150 and 1583-1588, which leave the end out.                        *)

Fuel == 8

With(c, x, v) == [c EXCEPT !.env[x] = v]

RECURSIVE Value(_, _, _), RunScope(_, _, _), Run(_, _, _), Rounds(_, _, _, _)

Value(p, e, c) ==
    CASE e.t = "num" -> [c EXCEPT !.val = e.val]
      [] e.t = "var" -> [c EXCEPT !.val = c.env[e.name][1]]
      [] e.t = "elem" -> LET i == Value(p, e.exp, c)
                         IN  [i EXCEPT !.val = i.env[e.name][i.val + 1]]
      [] e.t = "bin" -> LET a == Value(p, e.l, c)
                            b == Value(p, e.r, a)
                        IN  [b EXCEPT !.val = Apply(e.op, a.val, b.val)]
      [] e.t = "logic" ->
            LET a == Value(p, e.l, c)
                b == Value(p, e.r, a)
                decided == (e.op = "and") = (a.val = 0)
            IN  IF decided THEN [a EXCEPT !.val = Truth(a.val # 0)]
                           ELSE [b EXCEPT !.val = Truth(b.val # 0)]
      [] e.t = "call" ->
            LET f == p.fcns[e.fcn]
                a == Value(p, e.exp, c)
                inner == [a EXCEPT !.env = [x \in DOMAIN a.env |->
                              IF x = f.param THEN <<a.val>> ELSE a.env[x]]]
                r == RunScope(p, f.body, inner)
                \* The caller's frame is as it was: only the unit's variables
                \* are shared.
                back == [x \in DOMAIN r.env |-> IF x \in f.names THEN c.env[x] ELSE r.env[x]]
            IN  [r EXCEPT !.env = back, !.sig = IF r.sig = "fuel" THEN "fuel" ELSE c.sig]

RunScope(p, scope, c) ==
    IF scope = <<>> \/ c.sig # "next" THEN c
    ELSE RunScope(p, Tail(scope), Run(p, Head(scope), c))

\* One more round of a loop.
Rounds(p, l, c, fuel) ==
    LET idx   == c.env[l.index][1]
        test  == CASE l.kind = "cond"  -> Value(p, l.exp, c)
                   [] l.kind = "array" -> [c EXCEPT !.val = Truth(idx < Len(c.env[l.exp.name]))]
                   [] l.kind = "range" -> [c EXCEPT !.val =
                          IF l.step < 0 THEN Truth(l.last <= idx) ELSE Truth(l.last >= idx)]
        item  == CASE l.kind = "cond"  -> test.val
                   [] l.kind = "range" -> idx
                   [] l.kind = "array" -> c.env[l.exp.name][idx + 1]
        start == IF l.item = "" THEN test ELSE With(test, l.item, <<item>>)
        done  == RunScope(p, l.body, start)
        goOn  == IF done.sig = "continue" THEN [done EXCEPT !.sig = "next"] ELSE done
    IN  IF test.val = 0 THEN test
        ELSE IF fuel = 0 THEN [c EXCEPT !.sig = "fuel"]
        ELSE IF goOn.sig = "break" THEN [goOn EXCEPT !.sig = "next"]
        ELSE IF goOn.sig # "next" THEN goOn
        ELSE Rounds(p, l, With(goOn, l.index, <<goOn.env[l.index][1] + l.step>>), fuel - 1)

Run(p, s, c) ==
    CASE s.s \in {"set", "def"} ->
            IF s.exp = NoExp THEN c
            ELSE LET a == Value(p, s.exp, c) IN With(a, s.name, <<a.val>>)
      [] s.s = "arr"   -> With(c, s.name, [i \in DOMAIN s.elems |-> Value(p, s.elems[i], c).val])
      [] s.s = "setelem" -> LET i == Value(p, s.at, c)
                                a == Value(p, s.exp, i)
                            IN  [a EXCEPT !.env[s.name][i.val + 1] = a.val]
      [] s.s = "print" -> LET a == Value(p, s.exp, c) IN [a EXCEPT !.out = Append(@, a.val)]
      [] s.s = "bare"  -> Value(p, s.exp, c)
      [] s.s = "if"    -> LET RECURSIVE Try(_, _)
                              Try(i, d) ==
                                IF i > Len(s.conds)
                                THEN IF i > Len(s.scopes) THEN d ELSE RunScope(p, s.scopes[i], d)
                                ELSE LET v == Value(p, s.conds[i], d)
                                     IN  IF v.val # 0 THEN RunScope(p, s.scopes[i], v)
                                                      ELSE Try(i + 1, v)
                          IN  Try(1, c)
      [] s.s = "case"  -> LET v    == Value(p, s.exp, c)
                              hits == {i \in DOMAIN s.vals : s.vals[i] = v.val}
                          IN  IF hits # {} THEN RunScope(p, s.scopes[CHOOSE i \in hits : TRUE], v)
                              ELSE IF s.other = NoElse THEN v ELSE RunScope(p, s.other, v)
      [] s.s = "loop"  ->
            LET e     == IF s.kind = "range" THEN Value(p, s.exp, c) ELSE c
                start == IF s.kind = "range" THEN Value(p, s.lo, e) ELSE [e EXCEPT !.val = 0]
                \* A loop without a named index counts all the same.
                idx   == IF s.index = "" THEN "#" ELSE s.index
                kept  == start.env["#"]
                l     == [kind |-> s.kind,
                          step |-> IF s.step = NoExp THEN 1 ELSE Value(p, s.step, start).val,
                          item |-> s.item, index |-> idx, body |-> s.body,
                          exp |-> s.exp, last |-> e.val]
                r     == Rounds(p, l, With(start, idx, <<start.val>>), Fuel)
            IN  [r EXCEPT !.env["#"] = kept]
      [] s.s = "break"    -> [c EXCEPT !.sig = "break"]
      [] s.s = "continue" -> [c EXCEPT !.sig = "continue"]
      [] s.s = "return"   ->
            IF s.exp = NoExp THEN [c EXCEPT !.sig = "return"]
            ELSE [Value(p, s.exp, c) EXCEPT !.sig = "return"]

\* The whole program, from variables that are all zero.
Meaning(p) ==
    RunScope(p, p.body, [env |-> [x \in p.names \cup {"#"} |-> <<0>>], out |-> <<>>,
                         sig |-> "next", val |-> 0])
================================================================================
