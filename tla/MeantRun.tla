-------------------------------- MODULE MeantRun --------------------------------
(***************************************************************************)
(* What running a program promises: the values the program means to print  *)
(* appear one after another, in their order, nothing else appears, and the *)
(* run comes to its end when the last one is out.                          *)
(***************************************************************************)
EXTENDS Naturals, Sequences

VARIABLES
    meant,      \* the values the program means to print
    shown,      \* the values printed so far
    ended       \* the run is over

meantVars == <<meant, shown, ended>>

Init == /\ shown = <<>>
        /\ ended = FALSE

Show == /\ ~ended
        /\ Len(shown) < Len(meant)
        /\ shown' = Append(shown, meant[Len(shown) + 1])
        /\ UNCHANGED <<meant, ended>>

End == /\ ~ended
       /\ shown = meant
       /\ ended' = TRUE
       /\ UNCHANGED <<meant, shown>>

Next == Show \/ End

Spec == Init /\ [][Next]_meantVars /\ WF_meantVars(Next)
================================================================================
