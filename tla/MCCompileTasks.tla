--------------------------- MODULE MCCompileTasks ---------------------------
(* Instances of CompileTasks for TLC. *)
EXTENDS CompileTasks

CONSTANTS f, g, h, w1, w2

Unit(own, root) == [todo |-> own, root |-> root]
Eval(x) == Unit(<<x>>, <<>>)

(* Every program in which f and g each call a set of functions, themselves  *)
(* included, and h may call f.                                              *)
Order == <<f, g, h>>
InOrder(S) == SelectSeq(Order, LAMBDA x : x \in S)
MCBodies ==
    {[x \in Fcn |-> IF x = f THEN F ELSE IF x = g THEN G ELSE H] :
        F \in {InOrder(S) : S \in SUBSET Fcn}, G \in {InOrder(S) : S \in SUBSET Fcn},
        H \in {<<>>, <<f>>}}

(* A unit of two functions that is built for a target while the other       *)
(* worker evaluates calls of theirs, and of an imported one; or a unit the   *)
(* root of which calls an imported function.                                *)
MCJobs ==
    {[w \in Worker |-> IF w = w1 THEN <<Eval(g), Unit(<<f, g>>, <<g, f>>)>>
                       ELSE <<Eval(h), Eval(f)>>],
     [w \in Worker |-> IF w = w1 THEN <<Eval(g), Unit(<<f>>, <<h>>)>> ELSE <<Eval(h)>>]}

(* The root of a unit that has f calls the imported g. *)
MCOneCall == {[x \in Fcn |-> IF x = f THEN <<h>> ELSE <<>>]}
MCImported == {[w \in Worker |-> <<Eval(f), Unit(<<f>>, <<g>>)>>]}
=============================================================================
