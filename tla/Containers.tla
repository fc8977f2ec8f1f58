----------------------------- MODULE Containers ------------------------------
(***************************************************************************)
(* The containers the compiler keeps its data in: the arena the syntax     *)
(* tree is allocated from, the hash set the types are found in and the     *)
(* dictionary of a function's locals, each used by itself.                 *)
(***************************************************************************)
EXTENDS DynamicArena, Tables

ContainersSpec == ArenaSpec /\ SetSpec /\ DictSpec

(* The arena lies in its blocks as it would in one (dynamic_arena.cpp:75,   *)
(* 222).  What the tables' searches and rounds rest on (set.cpp:227,        *)
(* ordered_dict.cpp:25): every key can be reached from its place, the count *)
(* of slots used is right, pairs are in order and a round over them whole.  *)
ContainersInOrder ==
    /\ ArenaTypeOK /\ Placed /\ FlatLayout
    /\ SetTypeOK /\ DictTypeOK /\ Reachable /\ UsedCounts /\ PairsSorted /\ RoundIsWhole

(* The arena is one block to its callers, OneBlock's, and the two tables    *)
(* are sets of keys, KeySet's.                                              *)
ImplementsContainers == ImplementsOneBlock /\ ImplementsKeySet /\ ImplementsKeys
=============================================================================
