------------------------------- MODULE KeySet -------------------------------
(***************************************************************************)
(* What src/src/set.h promises of Set::Container: "true: item was inserted;*)
(* false: item already exists", "true: item was removed; false: item does  *)
(* not exists", and find answers whether the key is in.                    *)
(***************************************************************************)
CONSTANT Key

VARIABLES keys,     \* the keys that are in
          asked,    \* the last call, <<operation, key>>
          answer    \* what it returned

keyVars == <<keys, asked, answer>>

Init == keys = {} /\ asked = <<>> /\ answer = FALSE

Insert(k) == asked' = <<"insert", k>> /\ keys' = keys \cup {k} /\ answer' = (k \notin keys)
Remove(k) == asked' = <<"remove", k>> /\ keys' = keys \ {k} /\ answer' = (k \in keys)
Find(k)   == asked' = <<"find", k>> /\ keys' = keys /\ answer' = (k \in keys)
Clear     == keys' = {} /\ UNCHANGED <<asked, answer>>

Next == Clear \/ \E k \in Key : Insert(k) \/ Remove(k) \/ Find(k)

Spec == Init /\ [][Next]_keyVars
=============================================================================
