------------------------------ MODULE OneBlock ------------------------------
(***************************************************************************)
(* What an arena promises (src/src/dynamic_arena.h): allocations come out  *)
(* as if they were pushed, aligned, into one block without an end, and can *)
(* be given back from the last one on.                                     *)
(***************************************************************************)
EXTENDS Integers, Sequences

CONSTANTS Sizes, Aligns, Bound

VARIABLES end,      \* the logical position
          live      \* the allocations, oldest first: [at, size, align]

vars == <<end, live>>

AlignUp(n, align) == ((n + align - 1) \div align) * align

Init == end = 0 /\ live = <<>>

Push(size, align) ==
    LET at == AlignUp(end, align)
    IN /\ end <= Bound
       /\ end' = at + size
       /\ live' = Append(live, [at |-> at, size |-> size, align |-> align])

(* Everything from position n on is given back, a part of an allocation    *)
(* too.                                                                    *)
Keep(n) ==
    /\ n \in 0..end
    /\ end' = n
    /\ \E k \in 0..Len(live) :
          /\ live' = SubSeq(live, 1, k)
          /\ \A i \in 1..Len(live) :
                IF i <= k THEN live[i].at + live[i].size <= n
                          ELSE live[i].at + live[i].size > n

Next == \/ \E size \in Sizes, align \in Aligns : Push(size, align)
        \/ \E n \in 0..end : Keep(n)

Spec == Init /\ [][Next]_vars
=============================================================================
