---------------------------- MODULE MCTaskSystem ----------------------------
(* Instances of TaskSystem for TLC. *)
EXTENDS TaskSystem

CONSTANTS a, b, c, d, e, u, v

(* The entry file a imports b, c and d; b imports e, and d imports b and e *)
(* again: two files are reached twice, and a backlog of two forms on the   *)
(* worker that parses a, which is what the hand-off is for.                *)
MCTree == [t \in {a, b, c, d, e} |->
             CASE t = a -> <<b, c, d>> [] t = b -> <<e>> [] t = d -> <<b, e>>
               [] OTHER -> <<>>]
MCOneGroup == << <<a>> >>

(* One group with a task for each of three backends, nothing else. *)
MCFlat == [t \in {a, b, c} |-> <<>>]
MCBackends == << <<a, b, c>> >>
=============================================================================
