---------------------------- MODULE CompileTasks ----------------------------
(***************************************************************************)
(* Building functions on demand: TaskSystem::Default::                     *)
(* dispatchCompileTimeBuild, secureFunction, releaseFunction,              *)
(* runCompileTimeBuild and the part of runWorker that looks after a        *)
(* worker's local stack (src/src/task_system_core.cpp), with the requests  *)
(* the interpreter makes: compile of a function, compile of a unit, and    *)
(* the call in eval.                                                       *)
(*                                                                         *)
(* A function's body is kept as the calls in it.  A job is what a task of  *)
(* the pool asks of the builds: `todo' are its synchronous requests, `root'*)
(* the calls in the root of the unit that it compiles next, and then it    *)
(* runs what was built.  How jobs reach a worker is TaskSystem.            *)
(***************************************************************************)
EXTENDS Naturals, Sequences, FiniteSets, SequencesExt

CONSTANTS
    Worker,     \* the threads of the pool
    Fcn,        \* functions of the program, built-in ones left aside
    Bodies,     \* the choices for Fcn -> Seq(Fcn): the calls in each function
    Breakable,  \* functions whose compilation may fail
    JobLists    \* the choices for Worker -> Seq(job)

Job == [todo : Seq(Fcn), root : Seq(Fcn)]

ASSUME BuildAssumption ==
    /\ Bodies \subseteq [Fcn -> Seq(Fcn)]
    /\ Breakable \subseteq Fcn
    /\ JobLists \subseteq [Worker -> Seq(Job)]

VARIABLES
    calls,              \* the program
    broken,             \* the functions whose compilation fails somewhere
    jobs,               \* the jobs that reach each worker
    compilationStatus,  \* Function.compilationStatus
    exe,                \* Function.exe: none, empty, or filled with bytecode
    stack,              \* Worker.stack: the jobs of each worker
    localStack,         \* Worker.localStack: functions to be built
    job,                \* what is left of the job a worker is at
    asked,              \* history: the synchronous requests the job has made
    pc,                 \* what a worker does next
    fcn,                \* the function it builds, or wants to
    pos,                \* the next call in its body
    startSize,          \* dispatchCompileTimeBuild: the stack to come back to
    back                \* where the local task returns to

functions == <<calls, broken, jobs, compilationStatus, exe>>
vars == <<functions, stack, localStack, job, asked, pc, fcn, pos, startSize, back>>

NoJob == [todo |-> <<>>, root |-> <<>>]
NoFcn == "none"

Init ==
    /\ calls \in Bodies
    /\ broken \in SUBSET Breakable
    /\ compilationStatus = [f \in Fcn |-> "PENDING"]
    /\ exe = [f \in Fcn |-> "none"]
    /\ jobs \in JobLists
    /\ stack = jobs
    /\ localStack = [w \in Worker |-> <<>>]
    /\ job = [w \in Worker |-> NoJob]
    /\ asked = [w \in Worker |-> {}]
    /\ pc = [w \in Worker |-> "loop"]
    /\ fcn = [w \in Worker |-> NoFcn]
    /\ pos = [w \in Worker |-> 1]
    /\ startSize = [w \in Worker |-> 0]
    /\ back = [w \in Worker |-> "loop"]

Goto(w, label) == pc' = [pc EXCEPT ![w] = label]

(* The task of fcn[w] runs: secureFunction is the first thing it does. *)
RunLocalTask(w, f, return) ==
    /\ fcn' = [fcn EXCEPT ![w] = f]
    /\ back' = [back EXCEPT ![w] = return]
    /\ Goto(w, "secure")

-----------------------------------------------------------------------------
(* A worker and its tasks *)

TakeTask(w) ==
    /\ pc[w] = "loop" /\ stack[w] # <<>>
    /\ job' = [job EXCEPT ![w] = Last(stack[w])]
    /\ stack' = [stack EXCEPT ![w] = Front(@)]
    /\ asked' = [asked EXCEPT ![w] = {}]
    /\ Goto(w, "job")
    /\ UNCHANGED <<functions, localStack, fcn, pos, startSize, back>>

(* The bytecode that was asked for is run; its calls follow the exe of     *)
(* each function they meet.                                                *)
Execute(w) ==
    /\ pc[w] = "job" /\ job[w] = NoJob
    /\ Goto(w, "local")
    /\ UNCHANGED <<functions, stack, localStack, job, asked, fcn, pos, startSize, back>>

PopShared(w) == IF stack[w] = <<>> THEN <<>> ELSE Front(stack[w])

(* The task is read from the local stack, and a task of the shared stack   *)
(* is taken off.                                                           *)
NoLocalTasks(w) == localStack[w] = <<>>

LocalTask(w) ==
    /\ pc[w] = "local" /\ ~NoLocalTasks(w)
    /\ stack' = [stack EXCEPT ![w] = PopShared(w)]
    /\ RunLocalTask(w, Last(localStack[w]), "local")
    /\ UNCHANGED <<functions, localStack, job, asked, pos, startSize>>

TaskDone(w) ==
    /\ pc[w] = "local" /\ NoLocalTasks(w)
    /\ Goto(w, "loop")
    /\ UNCHANGED <<functions, stack, localStack, job, asked, fcn, pos, startSize, back>>

-----------------------------------------------------------------------------
(* dispatchCompileTimeBuild(fcn, sync = true), from a worker *)

(* Mutant: the loop ends when the request itself has been taken off. *)
StartAtRequest(w) == Len(localStack[w]) + 1
Start(w) == Len(localStack[w])

Request(w) ==
    /\ pc[w] = "job" /\ job[w].todo # <<>>
    /\ LET x == Head(job[w].todo) IN
         /\ job' = [job EXCEPT ![w].todo = Tail(@)]
         /\ asked' = [asked EXCEPT ![w] = @ \cup {x}]
         /\ IF compilationStatus[x] = "READY"
              THEN UNCHANGED <<pc, localStack, startSize>>
              ELSE /\ localStack' = [localStack EXCEPT ![w] = Append(@, x)]
                   /\ startSize' = [startSize EXCEPT ![w] = Start(w)]
                   /\ Goto(w, "drain")
    /\ UNCHANGED <<functions, stack, fcn, pos, back>>

Drain(w) ==
    /\ pc[w] = "drain" /\ Len(localStack[w]) > startSize[w]
    /\ localStack' = [localStack EXCEPT ![w] = Front(@)]
    /\ RunLocalTask(w, Last(localStack[w]), "drain")
    /\ UNCHANGED <<functions, stack, job, asked, pos, startSize>>

Drained(w) ==
    /\ pc[w] = "drain" /\ Len(localStack[w]) <= startSize[w]
    /\ Goto(w, "job")
    /\ UNCHANGED <<functions, stack, localStack, job, asked, fcn, pos, startSize, back>>

-----------------------------------------------------------------------------
(* runCompileTimeBuild: secureFunction, compile, releaseFunction *)

(* Mutant: the exchange is a plain store. *)
Claim(w) == compilationStatus[fcn[w]] # "READY"
IsPending(w) == compilationStatus[fcn[w]] = "PENDING"

Secure(w) ==
    /\ pc[w] = "secure" /\ IsPending(w)
    /\ compilationStatus' = [compilationStatus EXCEPT ![fcn[w]] = "RUNNING"]
    /\ Goto(w, "compile")
    /\ UNCHANGED <<calls, broken, jobs, exe, stack, localStack, job, asked, fcn, pos, startSize, back>>

NotSecured(w) ==
    /\ pc[w] = "secure" /\ ~IsPending(w)
    /\ Goto(w, "wait")
    /\ UNCHANGED <<functions, stack, localStack, job, asked, fcn, pos, startSize, back>>

(* Mutant: the thread does not wait for the other one. *)
NoWait(w) == TRUE
Built(w) == compilationStatus[fcn[w]] # "RUNNING"

WaitForBuild(w) ==
    /\ pc[w] = "wait" /\ Built(w)
    /\ Goto(w, back[w])
    /\ UNCHANGED <<functions, stack, localStack, job, asked, fcn, pos, startSize, back>>

(* compile(Function): the exe block is made before the body is compiled; a  *)
(* function that has one is left as it is.                                  *)
Begin(w) ==
    /\ pc[w] = "compile"
    /\ exe' = [exe EXCEPT ![fcn[w]] = IF @ = "none" THEN "empty" ELSE @]
    /\ pos' = [pos EXCEPT ![w] = 1]
    /\ Goto(w, IF exe[fcn[w]] = "none" THEN "body" ELSE "release")
    /\ UNCHANGED <<calls, broken, jobs, compilationStatus, stack, localStack, job, asked, fcn, startSize, back>>

(* Mutant: every other call is not looked at. *)
CallAfterNext(w) == pos[w] + 2
NextCall(w) == pos[w] + 1

(* A call: dispatchLocalTask(fcn, false) for a function without exe block. *)
(* Mutant: calls of functions that another worker has begun go ahead too,   *)
(* and nobody builds those that nobody has begun.                          *)
DispatchedLate(w, f) ==
    IF exe[f] # "none" THEN Append(localStack[w], f) ELSE localStack[w]
Dispatched(w, f) ==
    IF exe[f] = "none" /\ compilationStatus[f] # "READY"
      THEN Append(localStack[w], f) ELSE localStack[w]

CompileCall(w) ==
    /\ pc[w] = "body" /\ pos[w] <= Len(calls[fcn[w]])
    /\ localStack' = [localStack EXCEPT ![w] = Dispatched(w, calls[fcn[w]][pos[w]])]
    /\ pos' = [pos EXCEPT ![w] = NextCall(w)]
    /\ UNCHANGED <<functions, stack, job, asked, pc, fcn, startSize, back>>

Commit(w) ==
    /\ pc[w] = "body" /\ pos[w] > Len(calls[fcn[w]]) /\ fcn[w] \notin broken
    /\ exe' = [exe EXCEPT ![fcn[w]] = "filled"]
    /\ Goto(w, "release")
    /\ UNCHANGED <<calls, broken, jobs, compilationStatus, stack, localStack, job, asked, fcn, pos, startSize, back>>

(* An error returns at once from compile; runCompileTimeBuild drops it. *)
Fail(w) ==
    /\ pc[w] = "body" /\ fcn[w] \in broken
    /\ Goto(w, "release")
    /\ UNCHANGED <<functions, stack, localStack, job, asked, fcn, pos, startSize, back>>

(* Mutant: a failed build is not released. *)
ReleasedIfFilled(w) == IF exe[fcn[w]] = "filled" THEN "READY" ELSE "RUNNING"
(* Mutant: a failed build may be tried again. *)
ReleasedForRetry(w) == IF exe[fcn[w]] = "filled" THEN "READY" ELSE "PENDING"
ReleasedAs(w) == "READY"

Release(w) ==
    /\ pc[w] = "release"
    /\ compilationStatus' = [compilationStatus EXCEPT ![fcn[w]] = ReleasedAs(w)]
    /\ Goto(w, back[w])
    /\ UNCHANGED <<calls, broken, jobs, exe, stack, localStack, job, asked, fcn, pos, startSize, back>>

-----------------------------------------------------------------------------
(* compile(unit): the functions of the unit are requested, then the root is *)
(* compiled; a call in it is dispatched like any other, and left there.     *)
RootCall(w) ==
    /\ pc[w] = "job" /\ job[w].todo = <<>> /\ job[w].root # <<>>
    /\ localStack' = [localStack EXCEPT ![w] = Dispatched(w, Head(job[w].root))]
    /\ job' = [job EXCEPT ![w].root = Tail(@)]
    /\ UNCHANGED <<functions, stack, asked, pc, fcn, pos, startSize, back>>

Build(w) ==
    \/ Secure(w) \/ NotSecured(w) \/ WaitForBuild(w)
    \/ Begin(w) \/ CompileCall(w) \/ Commit(w) \/ Fail(w) \/ Release(w)

Step(w) ==
    \/ TakeTask(w) \/ Execute(w) \/ LocalTask(w) \/ TaskDone(w)
    \/ Request(w) \/ Drain(w) \/ Drained(w) \/ RootCall(w)
    \/ Build(w)

Next == \E w \in Worker : Step(w)

Spec == Init /\ [][Next]_vars
(* The operating system runs every thread that can run. *)
FairSpec == Spec /\ \A w \in Worker : WF_vars(Step(w))

-----------------------------------------------------------------------------
(* Properties *)

(* Values stay in their types: the local stacks hold functions, a worker   *)
(* that builds or waits has one in hand.                                   *)
TypeOK ==
    /\ compilationStatus \in [Fcn -> {"PENDING", "RUNNING", "READY"}]
    /\ exe \in [Fcn -> {"none", "empty", "filled"}]
    /\ \A w \in Worker :
         /\ job[w] \in Job /\ asked[w] \subseteq Fcn
         /\ localStack[w] \in Seq(Fcn)
         /\ pc[w] \in {"loop", "job", "drain", "local", "secure", "wait", "compile", "body", "release"}
         /\ pc[w] \in {"secure", "wait", "compile", "body", "release"} => fcn[w] \in Fcn
         /\ pc[w] = "body" => pos[w] \in 1..(Len(calls[fcn[w]]) + 1)

IsBuilding(w) == pc[w] \in {"compile", "body", "release"}

(* Two workers never build one function at a time, and one that is being   *)
(* built is marked so: only the exchange in secureFunction sees to it, the  *)
(* exe block they write is shared.                                         *)
OneCompiler ==
    \A w \in Worker : IsBuilding(w) =>
        /\ compilationStatus[fcn[w]] = "RUNNING"
        /\ \A v \in Worker \ {w} : IsBuilding(v) => fcn[v] # fcn[w]

(* When dispatchLocalTask(fcn, true) has returned, fcn is through: built by *)
(* this thread or by one it waited for.  The order of a stack that other   *)
(* requests share must not matter.                                         *)
SyncDone ==
    \A w \in Worker : pc[w] \in {"job", "local"} =>
        \A f \in asked[w] : compilationStatus[f] = "READY"

InHands(v) ==
    ToSet(localStack[v]) \cup
    (IF pc[v] \in {"secure", "wait", "compile", "body", "release"} THEN {fcn[v]} ELSE {})

(* What filled bytecode calls. *)
Callees(S) == UNION {ToSet(calls[f]) : f \in {x \in S : exe[x] = "filled"}}

(* A job that runs what it has asked for meets filled functions, a function *)
(* whose compilation has failed, or one in the hands of another worker that *)
(* has begun before.  So a thread on its own never runs into a function     *)
(* that is still to be built, though a call is not dispatched when the exe  *)
(* block of its function exists: the order of the stack must make good.     *)
(* The third case is less than task_system_core.cpp:398-400 promises, "the  *)
(* target task and its entire sub-task dependency tree are fully processed":*)
(* a function is READY when its own block is, and who asks for it then may  *)
(* run it while another worker has yet to build what it calls.              *)
IsThere(w, f) ==
    exe[f] = "filled" \/ f \in broken \/ \E v \in Worker \ {w} : f \in InHands(v)

TreeInHands ==
    \A w \in Worker : pc[w] = "job" /\ job[w] = NoJob =>
        \E tree \in SUBSET Fcn :
            /\ asked[w] \subseteq tree /\ Callees(tree) \subseteq tree
            /\ \A f \in tree : IsThere(w, f)

(* The roots of w's units call functions of their unit alone. *)
RootsAreOwn(w) ==
    \A i \in DOMAIN jobs[w] : ToSet(jobs[w][i].root) \subseteq ToSet(jobs[w][i].todo)

(* Local tasks never outlive the job that made them where the root of a     *)
(* unit calls functions of the unit alone: the loop in runWorker, that     *)
(* takes from the wrong stack, is not entered and no queued task is lost.   *)
NothingLeft ==
    \A w \in Worker : pc[w] = "local" /\ RootsAreOwn(w) => localStack[w] = <<>>

(* What a job runs is there, and what it began is finished.                  *)
RunsWhatIsThere == TypeOK /\ SyncDone /\ TreeInHands /\ NothingLeft

(* A build is tried once: a function that is claimed is never free again,   *)
(* one that is through stays as it is, and its exe block never goes.  A     *)
(* second build would find the exe block and do nothing, and calls that     *)
(* were skipped because of it would not be dispatched again.                *)
BuiltOnce ==
    [][\A f \in Fcn :
        /\ compilationStatus[f] # "PENDING" => compilationStatus'[f] # "PENDING"
        /\ compilationStatus[f] = "READY" => compilationStatus'[f] = "READY" /\ exe'[f] = exe[f]
        /\ exe[f] # "none" => exe'[f] # "none"]_vars

(* Where roots call their own functions every job comes to an end, also    *)
(* when workers wait for each other's functions, functions call each other *)
(* in a circle, or a compilation fails: no thread holds a function while it *)
(* waits for another, and every function that is claimed is released.      *)
EveryJobEnds ==
    \A w \in Worker : RootsAreOwn(w) => <>[](stack[w] = <<>> /\ pc[w] = "loop")

(* task_system_core.cpp:205-206: "For our sanity, we ensure that all local  *)
(* tasks are completed before moving on...": a worker that finds local      *)
(* tasks left by its task completes them and moves on.                      *)
LocalTasksComplete ==
    \A w \in Worker : pc[w] = "local" ~> pc[w] = "loop"
=============================================================================
