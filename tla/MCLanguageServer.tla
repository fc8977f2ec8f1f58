-------------------------- MODULE MCLanguageServer --------------------------
(* Instances of LanguageServer for TLC. *)
EXTENDS LanguageServer

CONSTANTS a, b, w1, w2

(* The build with _DEBUG has a master thread, with one document that is     *)
(* edited or two that are not.                                              *)
(* The other build does everything in the loop, here with documents that are*)
(* closed again.                                                            *)
MCSetups == {
    [async |-> TRUE,  paths |-> {a},    opens |-> 1, edits |-> TRUE,  closes |-> FALSE],
    [async |-> TRUE,  paths |-> {a, b}, opens |-> 1, edits |-> FALSE, closes |-> FALSE],
    [async |-> FALSE, paths |-> {a, b}, opens |-> 1, edits |-> TRUE,  closes |-> TRUE] }

=============================================================================
