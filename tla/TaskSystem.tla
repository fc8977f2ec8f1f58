----------------------------- MODULE TaskSystem -----------------------------
(***************************************************************************)
(* The worker pool of src/src/task_system_core.cpp: a fixed set of worker  *)
(* threads, a bit mask of idle workers (gCheckList), a group counter       *)
(* (gTaskCount) and one unsynchronised task stack per worker.  The main    *)
(* thread runs a sequence of groups, each beginGroup(); dispatch ...;      *)
(* wait(), and the tasks dispatch further tasks (a parse task dispatches   *)
(* the files it imports).                                                  *)
(*                                                                         *)
(* Every atomic operation, and every access to a worker's stack, is a step *)
(* of its own.  DArray::push and DArray::pop are a load of size and a      *)
(* store of size, so that the stacks misbehave here as they do in the      *)
(* program when two threads use one at a time.                             *)
(***************************************************************************)
EXTENDS Integers, Sequences, FiniteSets

CONSTANTS
    WorkerCount,    \* gWorkerCount
    MaskBits,       \* width of gCheckList, 64 in the program
    Task,           \* a task is one (kind, argument) pair
    NoTask,
    Parse,          \* the tasks of kind TK_PARSING, guarded by the file status
    Imports,        \* Imports[t]: what task t dispatches, in order
    Groups          \* Groups[g]: what the main thread dispatches in group g

ASSUME PoolAssumption ==
    /\ MaskBits \in Nat \ {0}
    /\ WorkerCount \in 1..MaskBits
    /\ NoTask \notin Task
    /\ Parse \subseteq Task
    /\ Imports \in [Task -> Seq(Parse)]
    /\ Groups \in Seq(Seq(Task)) /\ Groups # <<>>

Worker == 0 .. WorkerCount - 1
Main   == WorkerCount           \* the thread whose gCurrentWorker is NULL
NoWorker == WorkerCount         \* secureWorker() returned NULL
Thread == 0 .. WorkerCount

VARIABLES
    checkList,      \* gCheckList, the set of workers whose bit is 1
    taskCount,      \* gTaskCount
    hasWork,        \* Worker.hasWork
    size,           \* Worker.stack.size
    buffer,         \* Worker.stack.buffer; slots above size keep stale tasks
    status,         \* FileInfo.status of the file a parse task is about
    pc,             \* what each thread does next
    copy,           \* secureWorker's checkListCopy
    target,         \* the worker secureWorker returned, or NoWorker
    load,           \* the size a thread has loaded inside push or pop
    arg,            \* enqueue's parameter
    source,         \* hand-off: index the pointer returned by getLast refers to
    current,        \* the task a worker is running
    next,           \* position in Imports[current] or in Groups[group]
    group,          \* the group the main thread is in
    dispatched,     \* history: the tasks passed to enqueue
    runs,           \* history: how often each task ran, capped at 2
    overflowed      \* history: main found every worker busy

sharedVars  == <<checkList, taskCount, hasWork, status>>
stackVars   == <<size, buffer>>
threadVars  == <<pc, copy, target, load, arg, source, current, next, group>>
historyVars == <<dispatched, runs, overflowed>>
vars == <<sharedVars, stackVars, threadVars, historyVars>>

-----------------------------------------------------------------------------
(***************************************************************************)
(* initGlobalState stores (1ULL << workerCount) - 1.  With as many workers *)
(* as the mask has bits the shift is undefined; the outcomes a build       *)
(* produces are the full mask and, where the count wraps, the empty one.   *)
(***************************************************************************)
InitialMasks == IF WorkerCount < MaskBits THEN {Worker} ELSE {Worker, {}}

Init ==
    /\ checkList \in InitialMasks
    /\ taskCount = 0
    /\ hasWork = [w \in Worker |-> FALSE]
    /\ size = [w \in Worker |-> 0]
    /\ buffer = [w \in Worker |-> <<>>]
    /\ status = [t \in Parse |-> "DIRTY"]
    /\ pc = [t \in Thread |-> IF t = Main THEN "begin" ELSE "wait"]
    /\ copy = [t \in Thread |-> {}]
    /\ target = [t \in Thread |-> NoWorker]
    /\ load = [t \in Thread |-> 0]
    /\ arg = [t \in Thread |-> NoTask]
    /\ source = [w \in Worker |-> 0]
    /\ current = [w \in Worker |-> NoTask]
    /\ next = [t \in Thread |-> 1]
    /\ group = 1
    /\ dispatched = {}
    /\ runs = [t \in Task |-> 0]
    /\ overflowed = FALSE

Goto(t, label) == pc' = [pc EXCEPT ![t] = label]
At(t, label)   == pc[t] = label

(* A worker calls secureWorker from enqueue, inside a task, or from the    *)
(* hand-off loop, after one.                                               *)
HandingOff(t) == t # Main /\ current[t] = NoTask

(* Whose stack a thread pushes to: the secured worker's, else its own, and *)
(* that of gWorkers + 0 if it is the main thread.                          *)
Backlog(t) == IF t = Main THEN 0 ELSE t
Dest(t) == IF target[t] = NoWorker THEN Backlog(t) ELSE target[t]

(* Where a thread continues once its push is done. *)
AfterPush(t) ==
    IF t = Main THEN "dispatch" ELSE IF HandingOff(t) THEN "share" ELSE "run"

-----------------------------------------------------------------------------
(* secureWorker *)

LoadCheckList(t) ==
    /\ At(t, "load")
    /\ copy' = [copy EXCEPT ![t] = checkList]
    /\ Goto(t, "secure")
    /\ UNCHANGED <<sharedVars, stackVars, target, load, arg, source, current,
                   next, group, historyVars>>

findFirstSetBit(mask) == CHOOSE w \in mask : \A v \in mask : w <= v

(* Mutant: takes the worker whatever fetch_and returned. *)
SecureUnchecked(t) ==
    /\ At(t, "secure")
    /\ copy[t] # {}
    /\ LET w == findFirstSetBit(copy[t]) IN
         /\ checkList' = checkList \ {w}
         /\ target' = [target EXCEPT ![t] = w]
    /\ Goto(t, IF HandingOff(t) THEN "give" ELSE "count")
    /\ UNCHANGED <<taskCount, hasWork, status, stackVars, copy, load, arg,
                   source, current, next, group, historyVars>>

(* fetch_and returned a mask with the bit set: the worker is ours. *)
SecureWorker(t) ==
    /\ At(t, "secure")
    /\ copy[t] # {}
    /\ LET w == findFirstSetBit(copy[t]) IN
         /\ w \in checkList
         /\ checkList' = checkList \ {w}
         /\ target' = [target EXCEPT ![t] = w]
    /\ Goto(t, IF HandingOff(t) THEN "give" ELSE "count")
    /\ UNCHANGED <<taskCount, hasWork, status, stackVars, copy, load, arg,
                   source, current, next, group, historyVars>>

(* Somebody else cleared the bit since the copy was taken: load again. *)
RetrySecure(t) ==
    /\ At(t, "secure")
    /\ copy[t] # {}
    /\ findFirstSetBit(copy[t]) \notin checkList
    /\ copy' = [copy EXCEPT ![t] = checkList]
    /\ UNCHANGED <<sharedVars, stackVars, pc, target, load, arg, source,
                   current, next, group, historyVars>>

(* NULL: the hand-off loop breaks, enqueue goes on without a worker. *)
NobodyIdle(t) ==
    /\ At(t, "secure")
    /\ copy[t] = {}
    /\ target' = [target EXCEPT ![t] = NoWorker]
    /\ Goto(t, IF HandingOff(t) THEN "scan" ELSE "count")
    /\ UNCHANGED <<sharedVars, stackVars, copy, load, arg, source, current,
                   next, group, historyVars>>

-----------------------------------------------------------------------------
(* enqueue, DArray::push and DArray::pop *)

(* Mutant: counts a task only when it goes to another worker. *)
CountRemoteOnly(t) ==
    /\ At(t, "count")
    /\ taskCount' = IF target[t] = NoWorker THEN taskCount ELSE taskCount + 1
    /\ overflowed' = IF t = Main /\ target[t] = NoWorker THEN TRUE ELSE overflowed
    /\ Goto(t, "push")
    /\ UNCHANGED <<checkList, hasWork, status, stackVars, copy, target, load,
                   arg, source, current, next, group, dispatched, runs>>

(* The counter goes up before the task is in any stack. *)
CountTask(t) ==
    /\ At(t, "count")
    /\ taskCount' = taskCount + 1
    /\ overflowed' = IF t = Main /\ target[t] = NoWorker THEN TRUE ELSE overflowed
    /\ Goto(t, "push")
    /\ UNCHANGED <<checkList, hasWork, status, stackVars, copy, target, load,
                   arg, source, current, next, group, dispatched, runs>>

Put(b, i, x) == IF i = Len(b) + 1 THEN Append(b, x) ELSE [b EXCEPT ![i] = x]

(* push, first half: memcpy to the slot at the size just read.  In the     *)
(* hand-off the element is read through a pointer into the owner's buffer  *)
(* although its slot has been popped already.                              *)
PushWrite(t) ==
    /\ At(t, "push")
    /\ LET w == Dest(t)
           x == IF HandingOff(t) THEN buffer[t][source[t]] ELSE arg[t]
       IN  /\ buffer' = [buffer EXCEPT ![w] = Put(@, size[w] + 1, x)]
           /\ load' = [load EXCEPT ![t] = size[w]]
    /\ Goto(t, "commit")
    /\ UNCHANGED <<sharedVars, size, copy, target, arg, source, current, next,
                   group, historyVars>>

(* Mutant: size counts one element too many. *)
CommitOffByOne(t) ==
    /\ At(t, "commit")
    /\ size' = [size EXCEPT ![Dest(t)] = load[t] + 2]
    /\ Goto(t, IF target[t] = NoWorker /\ t # Main THEN AfterPush(t) ELSE "notify")
    /\ UNCHANGED <<sharedVars, buffer, copy, target, load, arg, source,
                   current, next, group, historyVars>>

(* push, second half: size++ stores the value loaded plus one. *)
PushCommit(t) ==
    /\ At(t, "commit")
    /\ size' = [size EXCEPT ![Dest(t)] = load[t] + 1]
    /\ Goto(t, IF target[t] = NoWorker /\ t # Main THEN AfterPush(t) ELSE "notify")
    /\ UNCHANGED <<sharedVars, buffer, copy, target, load, arg, source,
                   current, next, group, historyVars>>

(* Mutant: notifies without having stored true, which wakes nobody. *)
NotifyOnly(t) ==
    /\ At(t, "notify")
    /\ Goto(t, AfterPush(t))
    /\ UNCHANGED <<sharedVars, stackVars, copy, target, load, arg, source,
                   current, next, group, historyVars>>

(* hasWork.store(true); hasWork.notify *)
Notify(t) ==
    /\ At(t, "notify")
    /\ hasWork' = [hasWork EXCEPT ![Dest(t)] = TRUE]
    /\ Goto(t, AfterPush(t))
    /\ UNCHANGED <<checkList, taskCount, status, stackVars, copy, target, load,
                   arg, source, current, next, group, historyVars>>

PopLoad(w) ==
    /\ At(w, "pop")
    /\ load' = [load EXCEPT ![w] = size[w]]
    /\ Goto(w, "popped")
    /\ UNCHANGED <<sharedVars, stackVars, copy, target, arg, source, current,
                   next, group, historyVars>>

PopStore(w) ==
    /\ At(w, "popped")
    /\ size' = [size EXCEPT ![w] = IF load[w] > 0 THEN load[w] - 1 ELSE @]
    /\ Goto(w, IF HandingOff(w) THEN "push" ELSE "run")
    /\ UNCHANGED <<sharedVars, buffer, copy, target, load, arg, source,
                   current, next, group, historyVars>>

-----------------------------------------------------------------------------
(* runWorker *)

(* hasWork.wait(false) *)
Wake(w) ==
    /\ At(w, "wait")
    /\ hasWork[w]
    /\ Goto(w, "scan")
    /\ UNCHANGED <<sharedVars, stackVars, copy, target, load, arg, source,
                   current, next, group, historyVars>>

(* while (stack.size > 0): copy the last task, then pop it. *)
TakeTask(w) ==
    /\ At(w, "scan")
    /\ size[w] > 0
    /\ current' = [current EXCEPT ![w] = buffer[w][size[w]]]
    /\ next' = [next EXCEPT ![w] = 1]
    /\ Goto(w, "pop")
    /\ UNCHANGED <<sharedVars, stackVars, copy, target, load, arg, source,
                   group, historyVars>>

(* Mutant: goes idle without clearing hasWork. *)
SkipClear(w) ==
    /\ At(w, "scan")
    /\ size[w] = 0
    /\ Goto(w, "list")
    /\ UNCHANGED <<sharedVars, stackVars, copy, target, load, arg, source,
                   current, next, group, historyVars>>

(* Mutant: stops with one task left on the stack. *)
LeaveLast(w) ==
    /\ At(w, "scan")
    /\ size[w] <= 1
    /\ Goto(w, "clear")
    /\ UNCHANGED <<sharedVars, stackVars, copy, target, load, arg, source,
                   current, next, group, historyVars>>

StackEmpty(w) ==
    /\ At(w, "scan")
    /\ size[w] = 0
    /\ Goto(w, "clear")
    /\ UNCHANGED <<sharedVars, stackVars, copy, target, load, arg, source,
                   current, next, group, historyVars>>

(* hasWork.store(false): it also wipes out a true stored since the stack   *)
(* was found empty.                                                        *)
ClearHasWork(w) ==
    /\ At(w, "clear")
    /\ hasWork' = [hasWork EXCEPT ![w] = FALSE]
    /\ Goto(w, "list")
    /\ UNCHANGED <<checkList, taskCount, status, stackVars, copy, target, load,
                   arg, source, current, next, group, historyVars>>

(* Mutant: forgets to set its bit again. *)
ForgetListing(w) ==
    /\ At(w, "list")
    /\ Goto(w, "wait")
    /\ UNCHANGED <<sharedVars, stackVars, copy, target, load, arg, source,
                   current, next, group, historyVars>>

ListAsIdle(w) ==
    /\ At(w, "list")
    /\ checkList' = checkList \cup {w}
    /\ Goto(w, "wait")
    /\ UNCHANGED <<taskCount, hasWork, status, stackVars, copy, target, load,
                   arg, source, current, next, group, historyVars>>

(* Mutant: dispatches without the compare-exchange on the file status. *)
DispatchUnguarded(t, x) ==
    /\ status' = [y \in Parse |-> IF y = x THEN "BUSY" ELSE status[y]]
    /\ arg' = [arg EXCEPT ![t] = x]
    /\ dispatched' = dispatched \cup {x}
    /\ Goto(t, "load")
    /\ next' = [next EXCEPT ![t] = @ + 1]
    /\ UNCHANGED <<checkList, taskCount, hasWork, stackVars, copy, target,
                   load, source, current, group, runs, overflowed>>

(* dispatch of one task by thread t: a parse task is enqueued only by the  *)
(* thread whose compare-exchange moves its file from FS_DIRTY to FS_BUSY.  *)
DispatchTask(t, x) ==
    /\ IF x \in Parse /\ status[x] # "DIRTY"
       THEN UNCHANGED <<status, arg, dispatched, pc>>
       ELSE /\ status' = [y \in Parse |-> IF y = x THEN "BUSY" ELSE status[y]]
            /\ arg' = [arg EXCEPT ![t] = x]
            /\ dispatched' = dispatched \cup {x}
            /\ Goto(t, "load")
    /\ next' = [next EXCEPT ![t] = @ + 1]
    /\ UNCHANGED <<checkList, taskCount, hasWork, stackVars, copy, target,
                   load, source, current, group, runs, overflowed>>

DispatchImport(w) ==
    /\ At(w, "run")
    /\ next[w] <= Len(Imports[current[w]])
    /\ DispatchTask(w, Imports[current[w]][next[w]])

(* The task function returns; a parse task leaves its file FS_READY. *)
TaskReturns(w) ==
    /\ At(w, "run")
    /\ next[w] > Len(Imports[current[w]])
    /\ status' = [y \in Parse |-> IF y = current[w] THEN "READY" ELSE status[y]]
    /\ runs' = [runs EXCEPT ![current[w]] = IF @ < 2 THEN @ + 1 ELSE @]
    /\ Goto(w, "finish")
    /\ UNCHANGED <<checkList, taskCount, hasWork, stackVars, copy, target,
                   load, arg, source, current, next, group, dispatched,
                   overflowed>>

(* gTaskCount.fetch_sub(1); notify_one *)
FinishTask(w) ==
    /\ At(w, "finish")
    /\ taskCount' = taskCount - 1
    /\ current' = [current EXCEPT ![w] = NoTask]
    /\ Goto(w, "share")
    /\ UNCHANGED <<checkList, hasWork, status, stackVars, copy, target, load,
                   arg, source, next, group, historyVars>>

(* while (stack.size > 1): look for an idle peer to pass a task to. *)
ShareBacklog(w) ==
    /\ At(w, "share")
    /\ Goto(w, IF size[w] > 1 THEN "load" ELSE "scan")
    /\ UNCHANGED <<sharedVars, stackVars, copy, target, load, arg, source,
                   current, next, group, historyVars>>

(* getLast returns a pointer; pop follows, push copies through it. *)
PointToLast(w) ==
    /\ At(w, "give")
    /\ source' = [source EXCEPT ![w] = size[w]]
    /\ Goto(w, "pop")
    /\ UNCHANGED <<sharedVars, stackVars, copy, target, load, arg, current,
                   next, group, historyVars>>

-----------------------------------------------------------------------------
(* The main thread: beginGroup, the dispatches of the group, wait. *)

BeginGroup ==
    /\ At(Main, "begin")
    /\ group <= Len(Groups)
    /\ taskCount' = 0
    /\ next' = [next EXCEPT ![Main] = 1]
    /\ Goto(Main, "dispatch")
    /\ UNCHANGED <<checkList, hasWork, status, stackVars, copy, target, load,
                   arg, source, current, group, historyVars>>

DispatchRoot ==
    /\ At(Main, "dispatch")
    /\ next[Main] <= Len(Groups[group])
    /\ DispatchTask(Main, Groups[group][next[Main]])

CallWait ==
    /\ At(Main, "dispatch")
    /\ next[Main] > Len(Groups[group])
    /\ Goto(Main, "await")
    /\ UNCHANGED <<sharedVars, stackVars, copy, target, load, arg, source,
                   current, next, group, historyVars>>

WaitReturns ==
    /\ At(Main, "await")
    /\ taskCount <= 0
    /\ group' = group + 1
    /\ Goto(Main, IF group = Len(Groups) THEN "done" ELSE "begin")
    /\ UNCHANGED <<sharedVars, stackVars, copy, target, load, arg, source,
                   current, next, historyVars>>

-----------------------------------------------------------------------------
EnqueueStep(t) ==
    \/ LoadCheckList(t) \/ SecureWorker(t) \/ RetrySecure(t) \/ NobodyIdle(t)
    \/ CountTask(t) \/ PushWrite(t) \/ PushCommit(t) \/ Notify(t)

WorkerStep(w) ==
    \/ Wake(w) \/ TakeTask(w) \/ StackEmpty(w) \/ ClearHasWork(w)
    \/ ListAsIdle(w) \/ PopLoad(w) \/ PopStore(w) \/ DispatchImport(w)
    \/ TaskReturns(w) \/ FinishTask(w) \/ ShareBacklog(w) \/ PointToLast(w)

MainStep == BeginGroup \/ DispatchRoot \/ CallWait \/ WaitReturns

(* Every group is over: main goes on to release, the workers stay blocked. *)
AllGroupsDone == At(Main, "done") /\ UNCHANGED vars

Next ==
    \/ \E t \in Thread : EnqueueStep(t)
    \/ \E w \in Worker : WorkerStep(w)
    \/ MainStep
    \/ AllGroupsDone

Spec == Init /\ [][Next]_vars

(* Every thread that can take a step eventually does: the operating system *)
(* schedules runnable threads, and notify follows every store waited for.  *)
FairSpec ==
    /\ Spec
    /\ \A t \in Thread : WF_vars(EnqueueStep(t))
    /\ \A w \in Worker : WF_vars(WorkerStep(w))
    /\ WF_vars(MainStep)

-----------------------------------------------------------------------------
(* What the pool promises: the abstract specification and its variables. *)

Pending  == {t \in dispatched : runs[t] = 0}
Finished == {t \in Task : runs[t] > 0}
GroupOpen == pc[Main] \notin {"begin", "done"}

Promise == INSTANCE TaskGroup WITH
    pending <- Pending, finished <- Finished, open <- GroupOpen

Label == {"begin", "dispatch", "await", "done",
          "load", "secure", "count", "push", "commit", "notify",
          "wait", "scan", "pop", "popped", "run", "finish", "share", "give",
          "clear", "list"}

(* Type invariant.  Stale slots above size belong to the buffer; no thread *)
(* ever holds an index beyond what has been written.                       *)
TypeOK ==
    /\ checkList \subseteq Worker
    /\ taskCount \in Int
    /\ hasWork \in [Worker -> BOOLEAN]
    /\ size \in [Worker -> Nat]
    /\ buffer \in [Worker -> Seq(Task)]
    /\ \A w \in Worker : size[w] <= Len(buffer[w])
    /\ status \in [Parse -> {"DIRTY", "BUSY", "READY"}]
    /\ pc \in [Thread -> Label]
    /\ copy \in [Thread -> SUBSET Worker]
    /\ target \in [Thread -> Worker \cup {NoWorker}]
    /\ load \in [Thread -> Nat]
    /\ arg \in [Thread -> Task \cup {NoTask}]
    /\ source \in [Worker -> Nat]
    /\ current \in [Worker -> Task \cup {NoTask}]
    /\ next \in [Thread -> Nat \ {0}]
    /\ group \in 1 .. Len(Groups) + 1
    /\ dispatched \subseteq Task
    /\ runs \in [Task -> 0 .. 2]
    /\ overflowed \in BOOLEAN

(* Thread t has cleared w's bit and has not yet told w to work. *)
Holds(t, w) ==
    /\ target[t] = w
    /\ \/ pc[t] \in {"count", "push", "commit", "notify"}
       \/ pc[t] \in {"give", "pop", "popped"} /\ HandingOff(t)

(* The accesses of a thread to a stack: while it pushes to it, and, for    *)
(* the owner, from the look at its size to the end of the pop.             *)
UsesStack(t, w) ==
    \/ Dest(t) = w /\ pc[t] \in {"push", "commit"}
    \/ t = w /\ pc[t] \in {"scan", "pop", "popped", "share", "give"}
    \/ t = w /\ pc[t] = "push" /\ HandingOff(t)

(* Worker 0 is exposed to main's unguarded fallback once it has happened. *)
Guarded(w) == w # 0 \/ ~overflowed

(* No two threads are inside one stack at a time, although nothing locks   *)
(* it: securing a worker is the only guard (secureWorker, runWorker).      *)
StackExclusive ==
    \A w \in Worker : Guarded(w) =>
        \A t, u \in Thread : UsesStack(t, w) /\ UsesStack(u, w) => t = u

(* A worker in the check list is blocked, has an empty stack and no        *)
(* wake-up on its way: the order of runWorker's last two stores.           *)
ListedIsIdle ==
    \A w \in checkList : Guarded(w) =>
        At(w, "wait") /\ size[w] = 0 /\ ~hasWork[w]

(* No worker is forgotten: one that blocks is in the check list, or some   *)
(* thread has secured it and will wake it.                                 *)
IdleIsListed ==
    \A w \in Worker : At(w, "wait") /\ ~hasWork[w] =>
        w \in checkList \/ \E t \in Thread : Holds(t, w)

(* No task runs twice. *)
RunsOnce == \A t \in Task : runs[t] <= 1

(* A worker that blocks has cleared its backlog, unless what it holds was  *)
(* just pushed by a thread that is about to wake it.                       *)
BacklogCleared ==
    \A w \in Worker : At(w, "wait") /\ ~hasWork[w] /\ size[w] > 0 =>
        \E t \in Thread : Dest(t) = w /\ At(t, "notify")

(* wait() returns when every task dispatched so far has run. *)
WaitCoversGroup == ~GroupOpen => Pending = {}

(* gTaskCount is exactly the number of unfinished tasks: those between     *)
(* their dispatch and fetch_add are not in it yet, those between the task  *)
(* function's return and fetch_sub still are.                              *)
Uncounted == {t \in Thread : pc[t] \in {"load", "secure", "count"} /\ ~HandingOff(t)}
Returned  == {w \in Worker : At(w, "finish")}
CountExact ==
    taskCount = Cardinality(Pending) - Cardinality(Uncounted)
                + Cardinality(Returned)

(* Nothing slips through the pool: no task runs twice, gTaskCount never    *)
(* loses or gains one, no worker blocks on a backlog of its own, and none  *)
(* is forgotten.  wait() and the hand-off rest on these four together.     *)
AllAccountedFor == RunsOnce /\ CountExact /\ BacklogCleared /\ IdleIsListed

(* Every wait() returns: no wake-up is lost and no decrement.              *)
WaitTerminates == <>At(Main, "done")

(* The pool implements the group interface of task_system.h. *)
ImplementsTaskGroup == Promise!GSpec
=============================================================================
