----------------------------- MODULE TaskGroup ------------------------------
(***************************************************************************)
(* What src/src/task_system.h promises the compiler: beginGroup opens a    *)
(* synchronisation group, dispatched tasks are processed once each, and    *)
(* wait closes the group when all of them, those dispatched by tasks       *)
(* included, are processed.                                                *)
(***************************************************************************)
CONSTANT Task
VARIABLES pending, finished, open

gvars == <<pending, finished, open>>

GInit == pending = {} /\ finished = {} /\ open = FALSE

Open == ~open /\ open' = TRUE /\ UNCHANGED <<pending, finished>>

Dispatch(t) ==
    /\ open
    /\ t \notin pending \cup finished
    /\ pending' = pending \cup {t}
    /\ UNCHANGED <<finished, open>>

Process(t) ==
    /\ t \in pending
    /\ pending' = pending \ {t}
    /\ finished' = finished \cup {t}
    /\ UNCHANGED open

Close == open /\ pending = {} /\ open' = FALSE /\ UNCHANGED <<pending, finished>>

GNext == Open \/ Close \/ \E t \in Task : Dispatch(t) \/ Process(t)

GSpec == GInit /\ [][GNext]_gvars /\ WF_gvars(Close)
         /\ \A t \in Task : WF_gvars(Process(t))
=============================================================================
