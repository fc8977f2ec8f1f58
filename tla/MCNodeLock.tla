------------------------------ MODULE MCNodeLock ------------------------------
(* Instances of NodeLock for TLC: programs of a few definitions. *)
EXTENDS NodeLock

CONSTANTS p, q, f, g, T, x, y

(* ValidationContext.workerId, which nothing assigns; and threads with a    *)
(* number of their own.                                                     *)
MCSameId == [w \in Worker |-> 0]
MCOwnId == [w \in Worker |-> IF w = p THEN 1 ELSE 2]

None == [n \in Node |-> <<>>]

(* Every program of a type, a function and two variables, with a function   *)
(* of a library: f uses up to two definitions, the others up to one.        *)
UpTo1(S) == {<<>>} \cup {<<n>> : n \in S}
UpTo2(S) == UpTo1(S) \cup {s \in {<<n, m>> : n, m \in S} : s[1] # s[2]}
MCAnyProgram ==
    {h \in [Node -> UpTo2(Node)] : \A n \in Node \ {f} : Len(h[n]) <= (IF n = g THEN 0 ELSE 1)}
MCAnySignature == [None EXCEPT ![f] = <<T>>]
MCAnyEvals == [None EXCEPT ![x] = <<Abi(T)>>]
MCAnyRoots == [w \in Worker |-> <<
    Validate(T), Validate(x), Validate(y), Validate(f), Validate(g),
    Walk(T), Walk(x), Walk(f), Walk(g), Validate(x), Eval(x)>>]

Error(n, part) == [node |-> n, part |-> part]
MCAnyFaults == {b \in SUBSET {Error(f, "signature"), Error(f, "body"), Error(g, "body"),
                              Error(T, "body"), Error(y, "body"), Error(x, "value"),
                              Error(x, "initial")} : Cardinality(b) <= 1}

(* What the proofs about a single thread suppose holds of this instance.    *)
ASSUME MCUnitInOrder == Cardinality(Worker) = 1 => RequestsInOrder

(* Two units that use each other's definitions, without a cycle of values:  *)
(* T, x and f are one's, y and g the other's; f and g call each other, f    *)
(* takes a T, g reads x, x is a T and y is made of x.                       *)
MCPairSignature == [None EXCEPT ![f] = <<T>>]
MCPairBody == {[None EXCEPT ![f] = <<g>>, ![g] = <<f, x>>, ![x] = <<T>>, ![y] = <<x>>]}
MCPairEvals == [None EXCEPT ![x] = <<Abi(T)>>]
MCPairRoots == [w \in Worker |->
    IF w = p THEN <<Validate(T), Validate(x), Validate(f), Walk(T), Walk(f), Validate(x), Eval(x)>>
             ELSE <<Validate(y), Validate(g), Walk(g)>>]
MCPairFaults == SUBSET {Error(f, "signature"), Error(g, "body"), Error(x, "body")}

=============================================================================
