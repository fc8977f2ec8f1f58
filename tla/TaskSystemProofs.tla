-------------------------- MODULE TaskSystemProofs --------------------------
(***************************************************************************)
(* Proofs about TaskSystem, for every number of workers, every set of      *)
(* tasks, every import graph and every sequence of groups.                 *)
(***************************************************************************)
EXTENDS TaskSystem, FiniteSetTheorems, TLAPS

(* A thread inside enqueue holds a task to push, a worker inside a task    *)
(* function holds that task, and main is in a group until the last ends.   *)
HoldsTask ==
    /\ \A t \in Thread : pc[t] \in {"load", "secure", "count", "push"} /\ ~HandingOff(t)
                            => arg[t] \in Task
    /\ \A w \in Worker : pc[w] \in {"count", "run", "finish"} => ~HandingOff(w)
    /\ \A w \in Worker : pc[w] = "share" => HandingOff(w)
    /\ pc[Main] \notin {"begin", "done"} => group <= Len(Groups)

(* No index a thread remembers lies beyond the slots written so far, even  *)
(* when another thread uses the stack meanwhile.                           *)
IndexBounds ==
    /\ \A t \in Thread : pc[t] = "commit" => load[t] + 1 <= Len(buffer[Dest(t)])
    /\ \A w \in Worker : pc[w] = "popped" => load[w] <= Len(buffer[w])
    /\ \A w \in Worker : pc[w] \in {"pop", "popped", "push"} /\ HandingOff(w)
                            => source[w] \in 1 .. Len(buffer[w])
    /\ \A w \in Worker : pc[w] \in {"load", "secure", "give"} /\ HandingOff(w)
                            => size[w] >= 1

TypeInv == TypeOK /\ HoldsTask /\ IndexBounds

(* The thread identifiers: workers and the main thread. *)
LEMMA ThreadFacts ==
    /\ Worker \subseteq Thread
    /\ Main \in Thread
    /\ Main \notin Worker
    /\ NoWorker \notin Worker
    /\ 0 \in Worker
    /\ \A t \in Thread : t # Main => t \in Worker
BY PoolAssumption, SMT DEF Worker, Thread, Main, NoWorker

(* A push goes to the stack of an existing worker. *)
LEMMA DestIsWorker ==
    ASSUME TypeOK, NEW t \in Thread
    PROVE  Dest(t) \in Worker
BY ThreadFacts DEF TypeOK, Dest, Backlog

(* Writing a slot keeps the buffer a sequence of tasks, never shortens it  *)
(* and makes the slot part of it.                                          *)
LEMMA PutFacts ==
    ASSUME NEW b \in Seq(Task), NEW i \in 1 .. Len(b) + 1, NEW x \in Task
    PROVE  /\ Put(b, i, x) \in Seq(Task)
           /\ Len(Put(b, i, x)) \in Nat
           /\ Len(Put(b, i, x)) >= Len(b)
           /\ Len(Put(b, i, x)) >= i
<1>1. CASE i = Len(b) + 1
  BY <1>1, SMT DEF Put
<1>2. CASE i # Len(b) + 1
  BY <1>2, SMT DEF Put
<1>. QED BY <1>1, <1>2

(* What the type invariant says of one stack. *)
LEMMA StackTypes ==
    ASSUME TypeOK
    PROVE  /\ \A v \in Worker : /\ size[v] \in Nat
                               /\ buffer[v] \in Seq(Task)
                               /\ Len(buffer[v]) \in Nat
                               /\ size[v] <= Len(buffer[v])
                               /\ \A i \in 1 .. Len(buffer[v]) : buffer[v][i] \in Task
           /\ \A t \in Thread : load[t] \in Nat
<1>1. \A s \in Seq(Task) : Len(s) \in Nat /\ \A i \in 1 .. Len(s) : s[i] \in Task
  OBVIOUS
<1>. QED BY <1>1 DEF TypeOK

(* What Imports and Groups dispatch are tasks. *)
LEMMA DispatchedAreTasks ==
    /\ Parse \subseteq Task
    /\ \A x \in Task : /\ Len(Imports[x]) \in Nat
                       /\ \A i \in 1 .. Len(Imports[x]) : Imports[x][i] \in Task
    /\ Len(Groups) \in Nat \ {0}
    /\ \A g \in 1 .. Len(Groups) : /\ Len(Groups[g]) \in Nat
                                   /\ \A i \in 1 .. Len(Groups[g]) : Groups[g][i] \in Task
<1>1. /\ Parse \subseteq Task
      /\ \A x \in Task : Imports[x] \in Seq(Task)
      /\ Groups \in Seq(Seq(Task)) /\ Groups # <<>>
  BY PoolAssumption
<1>2. \A s \in Seq(Task) : Len(s) \in Nat /\ \A i \in 1 .. Len(s) : s[i] \in Task
  OBVIOUS
<1>3. Len(Groups) \in Nat \ {0} /\ \A g \in 1 .. Len(Groups) : Groups[g] \in Seq(Task)
  BY <1>1
<1>. QED BY <1>1, <1>2, <1>3

(* The pool starts well typed. *)
LEMMA TypeInit == Init => TypeInv
<1>. SUFFICES ASSUME Init PROVE TypeInv
  OBVIOUS
<1>1. checkList \subseteq Worker
  BY DEF Init, InitialMasks
<1>2. pc \in [Thread -> {"begin", "wait"}] /\ pc[Main] = "begin"
  BY ThreadFacts DEF Init
<1>3. /\ buffer \in [Worker -> Seq(Task)]
      /\ size \in [Worker -> Nat]
      /\ \A w \in Worker : size[w] <= Len(buffer[w])
  BY DEF Init
<1>4. /\ status \in [Parse -> {"DIRTY", "BUSY", "READY"}]
      /\ group \in 1 .. Len(Groups) + 1
      /\ runs \in [Task -> 0 .. 2]
  BY DispatchedAreTasks DEF Init
<1>5. pc \in [Thread -> Label]
  BY <1>2 DEF Label
<1>6. /\ taskCount \in Int
      /\ hasWork \in [Worker -> BOOLEAN]
      /\ copy \in [Thread -> SUBSET Worker]
      /\ target \in [Thread -> Worker \cup {NoWorker}]
      /\ load \in [Thread -> Nat]
      /\ next \in [Thread -> Nat \ {0}]
  BY DEF Init
<1>7. /\ arg \in [Thread -> Task \cup {NoTask}]
      /\ source \in [Worker -> Nat]
      /\ current \in [Worker -> Task \cup {NoTask}]
      /\ dispatched \subseteq Task
      /\ overflowed \in BOOLEAN
  BY DEF Init
<1>8. TypeOK
  BY <1>1, <1>3, <1>4, <1>5, <1>6, <1>7 DEF TypeOK
<1>. QED BY <1>2, <1>8, ThreadFacts DEF TypeInv, HoldsTask, IndexBounds

(* fetch_add: the counter stays an integer, no index moves. *)
LEMMA CountTaskType == ASSUME TypeInv, NEW t \in Thread, CountTask(t) PROVE TypeInv'
<1>a. overflowed' \in BOOLEAN
  <2>1. CASE t = Main /\ target[t] = NoWorker
    BY <2>1, Zenon DEF CountTask
  <2>2. CASE ~(t = Main /\ target[t] = NoWorker)
    BY <2>2, Zenon DEF CountTask, TypeInv, TypeOK
  <2>. QED BY <2>1, <2>2
<1>. USE ThreadFacts DEF TypeInv, CountTask, Goto, At, sharedVars, stackVars, historyVars
<1>1. TypeOK'
  <2>1. taskCount' \in Int /\ pc' \in [Thread -> Label]
    BY DEF TypeOK, Label
  <2>. QED BY <2>1, <1>a DEF TypeOK
<1>2. HoldsTask'
  BY DispatchedAreTasks DEF TypeOK, HoldsTask, HandingOff
<1>3. IndexBounds'
  BY DEF TypeOK, IndexBounds, HoldsTask, HandingOff, Dest, Backlog
<1>. QED BY <1>1, <1>2, <1>3

(* The write half of push: the buffer may grow by one slot, never shrink,  *)
(* and what is written is a task even when it is read through the pointer  *)
(* of the hand-off.                                                        *)
LEMMA PushWriteType == ASSUME TypeInv, NEW t \in Thread, PushWrite(t) PROVE TypeInv'
<1>. USE ThreadFacts DEF TypeInv, PushWrite, Goto, At, sharedVars, stackVars, historyVars
<1>. DEFINE d == Dest(t)
           x == IF HandingOff(t) THEN buffer[t][source[t]] ELSE arg[t]
<1>a. d \in Worker
  BY DestIsWorker
<1>b. x \in Task
  <2>1. CASE HandingOff(t)
    <3>1. t \in Worker /\ source[t] \in 1 .. Len(buffer[t]) /\ buffer[t] \in Seq(Task)
      BY <2>1 DEF TypeOK, IndexBounds, HandingOff
    <3>. QED BY <2>1, <3>1
  <2>. QED BY <2>1 DEF HoldsTask
<1>c. buffer[d] \in Seq(Task) /\ size[d] \in Nat /\ size[d] <= Len(buffer[d])
  BY <1>a DEF TypeOK
<1>d. /\ buffer' = [buffer EXCEPT ![d] = Put(@, size[d] + 1, x)]
      /\ load' = [load EXCEPT ![t] = size[d]]
      /\ pc' = [pc EXCEPT ![t] = "commit"]
  OBVIOUS
<1>. HIDE DEF d, x
<1>e. size[d] + 1 \in 1 .. Len(buffer[d]) + 1
  BY <1>c
<1>f. /\ Put(buffer[d], size[d] + 1, x) \in Seq(Task)
      /\ Len(Put(buffer[d], size[d] + 1, x)) >= Len(buffer[d])
      /\ Len(Put(buffer[d], size[d] + 1, x)) >= size[d] + 1
      /\ Len(Put(buffer[d], size[d] + 1, x)) \in Nat
  BY <1>b, <1>c, <1>e, PutFacts
<1>g. /\ \A v \in Worker : Len(buffer'[v]) >= Len(buffer[v]) /\ Len(buffer'[v]) \in Nat
      /\ Len(buffer'[d]) >= size[d] + 1
  <2>1. buffer'[d] = Put(buffer[d], size[d] + 1, x)
    BY <1>a, <1>d DEF TypeOK
  <2>2. \A v \in Worker \ {d} : buffer'[v] = buffer[v]
    BY <1>d DEF TypeOK
  <2>. QED BY <1>f, <2>1, <2>2, StackTypes
<1>h. /\ \A u \in Thread \ {t} : pc'[u] = pc[u] /\ load'[u] = load[u]
      /\ pc'[t] = "commit" /\ load'[t] = size[d]
      /\ \A v \in Worker : HandingOff(v)' <=> HandingOff(v)
  BY <1>d DEF TypeOK, HandingOff
<1>1. TypeOK'
  <2>0. buffer' \in [Worker -> Seq(Task)]
    BY <1>d, <1>f DEF TypeOK
  <2>1. load' \in [Thread -> Nat]
    BY <1>c, <1>d DEF TypeOK
  <2>2. \A v \in Worker : size[v] <= Len(buffer'[v])
    BY <1>g, StackTypes
  <2>3. pc' \in [Thread -> Label]
    BY DEF TypeOK, Label
  <2>. QED BY <2>0, <2>1, <2>2, <2>3 DEF TypeOK
<1>2. HoldsTask'
  BY DEF TypeOK, HoldsTask, HandingOff
<1>3. IndexBounds'
  <2>1. \A u \in Thread : Dest(u)' = Dest(u) /\ Dest(u) \in Worker
    BY DestIsWorker DEF Dest, Backlog
  <2>2. ASSUME NEW u \in Thread, pc'[u] = "commit"
        PROVE  load'[u] + 1 <= Len(buffer'[Dest(u)])
    <3>1. CASE u = t
      BY <3>1, <1>g, <1>h, <2>1 DEF d
    <3>2. CASE u # t
      <4>1. load[u] + 1 <= Len(buffer[Dest(u)])
        BY <3>2, <2>2, <1>h DEF IndexBounds
      <4>. QED BY <3>2, <4>1, <2>1, <1>g, <1>h, StackTypes
    <3>. QED BY <3>1, <3>2
  <2>3. \A v \in Worker : pc'[v] = "popped" => load'[v] <= Len(buffer'[v])
    BY <1>g, <1>h, StackTypes DEF IndexBounds
  <2>4. \A v \in Worker : pc'[v] \in {"pop", "popped", "push"} /\ HandingOff(v)
                            => source[v] \in 1 .. Len(buffer'[v])
    <3>1. ASSUME NEW v \in Worker, pc'[v] \in {"pop", "popped", "push"}, HandingOff(v)
          PROVE  source[v] \in 1 .. Len(buffer'[v])
      <4>1. source[v] \in 1 .. Len(buffer[v])
        BY <3>1, <1>h DEF IndexBounds
      <4>. QED BY <4>1, <1>g, StackTypes
    <3>. QED BY <3>1
  <2>5. \A v \in Worker : pc'[v] \in {"load", "secure", "give"} /\ HandingOff(v)
                            => size[v] >= 1
    BY <1>h DEF IndexBounds
  <2>. QED BY <2>1, <2>2, <2>3, <2>4, <2>5, <1>h DEF IndexBounds
<1>. QED BY <1>1, <1>2, <1>3

(* The store half of push: the size stored is covered by written slots. *)
LEMMA PushCommitType == ASSUME TypeInv, NEW t \in Thread, PushCommit(t) PROVE TypeInv'
<1>. USE ThreadFacts DEF TypeInv, PushCommit, Goto, At, sharedVars, stackVars, historyVars
<1>1. TypeOK'
  <2>. DEFINE d == Dest(t)
  <2>1. d \in Worker
    BY DestIsWorker
  <2>2. load[t] \in Nat /\ load[t] + 1 <= Len(buffer[d])
    BY StackTypes DEF IndexBounds
  <2>3. pc' \in [Thread -> Label]
    BY DEF TypeOK, Label, AfterPush
  <2>. HIDE DEF d
  <2>4. size' \in [Worker -> Nat] /\ \A w \in Worker : size'[w] <= Len(buffer[w])
    <3>1. size' = [size EXCEPT ![d] = load[t] + 1]
      BY DEF d
    <3>2. size \in [Worker -> Nat]
      BY DEF TypeOK
    <3>3. \A n \in Nat : n + 1 \in Nat
      OBVIOUS
    <3>. QED BY <2>1, <2>2, <3>1, <3>2, <3>3, StackTypes
  <2>. QED BY <2>3, <2>4 DEF TypeOK
<1>2. HoldsTask'
  BY DispatchedAreTasks DEF TypeOK, HoldsTask, HandingOff, AfterPush
<1>3. IndexBounds'
  <2>1. Dest(t) \in Worker
    BY DestIsWorker
  <2>2. \A u \in Thread : Dest(u)' = Dest(u)
    BY DEF Dest, Backlog
  <2>3. load[t] + 1 >= 1
    BY DEF TypeOK
  <2>. QED BY <2>1, <2>2, <2>3 DEF TypeOK, IndexBounds, HandingOff, AfterPush
<1>. QED BY <1>1, <1>2, <1>3

(* A worker takes a task, not a hole, from its stack. *)
LEMMA TakeTaskType == ASSUME TypeInv, NEW w \in Worker, TakeTask(w) PROVE TypeInv'
<1>a. size[w] \in 1 .. Len(buffer[w])
  BY StackTypes DEF TypeInv, TakeTask
<1>b. buffer[w][size[w]] \in Task
  BY <1>a, StackTypes DEF TypeInv
<1>. USE ThreadFacts DEF TypeInv, TakeTask, Goto, At, sharedVars, stackVars, historyVars
<1>1. TypeOK'
  <2>1. current' \in [Worker -> Task \cup {NoTask}]
    BY <1>b DEF TypeOK
  <2>2. next' \in [Thread -> Nat \ {0}]
    BY DEF TypeOK
  <2>3. pc' \in [Thread -> Label]
    BY DEF TypeOK, Label
  <2>. QED BY <2>1, <2>2, <2>3 DEF TypeOK
<1>2. HoldsTask'
  BY DispatchedAreTasks DEF TypeOK, HoldsTask, HandingOff
<1>3. IndexBounds'
  <2>1. current'[w] # NoTask
    BY <1>b, PoolAssumption DEF TypeOK
  <2>. QED BY <2>1 DEF TypeOK, IndexBounds, HandingOff, Dest, Backlog
<1>. QED BY <1>1, <1>2, <1>3

(* The store half of pop. *)
LEMMA PopStoreType == ASSUME TypeInv, NEW w \in Worker, PopStore(w) PROVE TypeInv'
<1>. USE ThreadFacts DEF TypeInv, PopStore, Goto, At, sharedVars, stackVars, historyVars
<1>1. TypeOK'
  <2>1. size' \in [Worker -> Nat] /\ \A v \in Worker : size'[v] <= Len(buffer[v])
    BY SMTT(30) DEF TypeOK, IndexBounds
  <2>2. pc' \in [Thread -> Label]
    BY DEF TypeOK, Label
  <2>. QED BY <2>1, <2>2 DEF TypeOK
<1>2. HoldsTask'
  BY DispatchedAreTasks DEF TypeOK, HoldsTask, HandingOff
<1>3. IndexBounds'
  BY DestIsWorker DEF TypeOK, IndexBounds, HandingOff, Dest, Backlog
<1>. QED BY <1>1, <1>2, <1>3

(* The end of a task function. *)
LEMMA TaskReturnsType == ASSUME TypeInv, NEW w \in Worker, TaskReturns(w) PROVE TypeInv'
<1>. USE ThreadFacts DEF TypeInv, TaskReturns, Goto, At, sharedVars, stackVars, historyVars
<1>1. TypeOK'
  <2>1. status' \in [Parse -> {"DIRTY", "BUSY", "READY"}]
    BY DEF TypeOK
  <2>2. runs' \in [Task -> 0 .. 2]
    <3>1. runs \in [Task -> 0 .. 2] /\ current[w] \in Task
      BY DEF TypeOK, HoldsTask, HandingOff
    <3>2. \A n \in 0 .. 2 : (IF n < 2 THEN n + 1 ELSE n) \in 0 .. 2
      OBVIOUS
    <3>. QED BY <3>1, <3>2
  <2>3. pc' \in [Thread -> Label]
    BY DEF TypeOK, Label
  <2>. QED BY <2>1, <2>2, <2>3 DEF TypeOK
<1>2. HoldsTask'
  BY DispatchedAreTasks DEF TypeOK, HoldsTask, HandingOff
<1>3. IndexBounds'
  BY DestIsWorker DEF TypeOK, IndexBounds, HandingOff, Dest, Backlog
<1>. QED BY <1>1, <1>2, <1>3

(* fetch_sub: afterwards the worker runs nothing. *)
LEMMA FinishTaskType == ASSUME TypeInv, NEW w \in Worker, FinishTask(w) PROVE TypeInv'
<1>. USE ThreadFacts DEF TypeInv, FinishTask, Goto, At, sharedVars, stackVars, historyVars
<1>1. TypeOK'
  <2>1. current' \in [Worker -> Task \cup {NoTask}] /\ taskCount' \in Int
    BY DEF TypeOK
  <2>2. pc' \in [Thread -> Label]
    BY DEF TypeOK, Label
  <2>. QED BY <2>1, <2>2 DEF TypeOK
<1>2. HoldsTask'
  BY DispatchedAreTasks DEF TypeOK, HoldsTask, HandingOff
<1>3. IndexBounds'
  BY DestIsWorker DEF TypeOK, IndexBounds, HandingOff, Dest, Backlog
<1>. QED BY <1>1, <1>2, <1>3

(* The hand-off loop starts only with a task to give away. *)
LEMMA ShareBacklogType == ASSUME TypeInv, NEW w \in Worker, ShareBacklog(w) PROVE TypeInv'
<1>. USE ThreadFacts DEF TypeInv, ShareBacklog, Goto, At, sharedVars, stackVars, historyVars
<1>1. TypeOK'
  BY DispatchedAreTasks, DestIsWorker DEF TypeOK, HoldsTask, IndexBounds, Label
<1>2. HoldsTask'
  BY DEF TypeOK, HoldsTask, IndexBounds, HandingOff
<1>3. IndexBounds'
  <2>1. pc'[w] = "load" => size[w] >= 1
    BY StackTypes DEF TypeOK
  <2>. QED BY <2>1 DEF TypeOK, IndexBounds, HandingOff, Dest, Backlog
<1>. QED BY <1>1, <1>2, <1>3

(* getLast in the hand-off loop points at a written slot. *)
LEMMA PointToLastType == ASSUME TypeInv, NEW w \in Worker, PointToLast(w) PROVE TypeInv'
<1>. USE ThreadFacts DEF TypeInv, PointToLast, Goto, At, sharedVars, stackVars, historyVars
<1>1. TypeOK'
  BY DispatchedAreTasks, DestIsWorker DEF TypeOK, HoldsTask, IndexBounds, Label
<1>2. HoldsTask'
  BY DispatchedAreTasks DEF TypeOK, HoldsTask, HandingOff
<1>3. IndexBounds'
  <2>1. /\ HandingOff(w) => size[w] \in 1 .. Len(buffer[w])
        /\ source' = [source EXCEPT ![w] = size[w]]
    BY DEF TypeOK, IndexBounds
  <2>. QED BY <2>1, SMTT(30) DEF TypeOK, IndexBounds, HandingOff, Dest, Backlog
<1>. QED BY <1>1, <1>2, <1>3

(* beginGroup. *)
LEMMA BeginGroupType == ASSUME TypeInv, BeginGroup PROVE TypeInv'
<1>. USE ThreadFacts DEF TypeInv, BeginGroup, Goto, At, sharedVars, stackVars, historyVars
<1>1. TypeOK'
  <2>1. next' \in [Thread -> Nat \ {0}]
    BY DEF TypeOK
  <2>2. pc' \in [Thread -> Label]
    BY DEF TypeOK, Label
  <2>. QED BY <2>1, <2>2 DEF TypeOK
<1>2. HoldsTask'
  BY DispatchedAreTasks DEF TypeOK, HoldsTask, HandingOff
<1>3. IndexBounds'
  BY DestIsWorker DEF TypeOK, IndexBounds, HandingOff, Dest, Backlog
<1>. QED BY <1>1, <1>2, <1>3

(* wait returns: at most one group past the last. *)
LEMMA WaitReturnsType == ASSUME TypeInv, WaitReturns PROVE TypeInv'
<1>. USE ThreadFacts DEF TypeInv, WaitReturns, Goto, At, sharedVars, stackVars, historyVars
<1>1. TypeOK'
  <2>1. group' \in 1 .. Len(Groups) + 1
    BY DispatchedAreTasks DEF TypeOK, HoldsTask
  <2>2. pc' \in [Thread -> Label]
    BY DEF TypeOK, Label
  <2>. QED BY <2>1, <2>2 DEF TypeOK
<1>2. HoldsTask'
  BY DispatchedAreTasks DEF TypeOK, HoldsTask, HandingOff
<1>3. IndexBounds'
  BY DestIsWorker DEF TypeOK, IndexBounds, HandingOff, Dest, Backlog
<1>. QED BY <1>1, <1>2, <1>3

(* Steps that change nothing. *)
LEMMA StutterType == ASSUME TypeInv, UNCHANGED vars PROVE TypeInv'
BY DEF vars, sharedVars, stackVars, threadVars, historyVars, TypeInv, TypeOK, HoldsTask, IndexBounds,
       HandingOff, Dest, Backlog

(* Dispatching a task, whoever does it. *)
LEMMA DispatchTaskType ==
    ASSUME TypeInv, NEW t \in Thread, NEW x \in Task, DispatchTask(t, x),
           ~HandingOff(t), t = Main => pc[t] = "dispatch"
    PROVE  TypeInv'
<1>. USE ThreadFacts DEF TypeInv, DispatchTask, Goto, At, sharedVars, stackVars, historyVars
<1>1. TypeOK'
  <2>1. status' \in [Parse -> {"DIRTY", "BUSY", "READY"}]
    BY DEF TypeOK
  <2>2. pc' \in [Thread -> Label] /\ next' \in [Thread -> Nat \ {0}]
    <3>1. pc \in [Thread -> Label] /\ next \in [Thread -> Nat \ {0}]
      BY DEF TypeOK
    <3>2. pc' = pc \/ pc' = [pc EXCEPT ![t] = "load"]
      OBVIOUS
    <3>3. "load" \in Label
      BY DEF Label
    <3>4. pc' \in [Thread -> Label]
      BY <3>1, <3>2, <3>3
    <3>5. next' = [next EXCEPT ![t] = next[t] + 1]
      OBVIOUS
    <3>. QED BY <3>1, <3>4, <3>5
  <2>3. CASE arg' = arg /\ dispatched' = dispatched
    BY <2>1, <2>2, <2>3 DEF TypeOK
  <2>4. CASE arg' = [arg EXCEPT ![t] = x] /\ dispatched' = dispatched \cup {x}
    BY <2>1, <2>2, <2>4 DEF TypeOK
  <2>. QED BY <2>3, <2>4
<1>2. HoldsTask'
  BY ZenonT(60) DEF TypeOK, HoldsTask, HandingOff
<1>3. IndexBounds'
  BY DEF TypeOK, IndexBounds, HandingOff, Dest, Backlog
<1>. QED BY <1>1, <1>2, <1>3

(* Every step of the pool preserves the type invariant. *)
LEMMA TypeStep == ASSUME TypeInv, [Next]_vars PROVE TypeInv'
<1>. USE ThreadFacts DEF TypeInv
<1>1. ASSUME NEW t \in Thread, LoadCheckList(t) PROVE TypeInv'
  <2>. USE <1>1 DEF LoadCheckList, Goto, At, sharedVars, stackVars, historyVars
  <2>1. TypeOK'
    BY DEF TypeOK, Label
  <2>2. HoldsTask'
    BY DEF TypeOK, HoldsTask, HandingOff
  <2>3. IndexBounds'
    BY DEF TypeOK, IndexBounds, HandingOff, Dest, Backlog
  <2>. QED BY <2>1, <2>2, <2>3
<1>2. ASSUME NEW t \in Thread, SecureWorker(t) PROVE TypeInv'
  <2>. USE <1>2 DEF SecureWorker, Goto, At, sharedVars, stackVars, historyVars
  <2>1. TypeOK'
    BY DEF TypeOK, Label
  <2>2. HoldsTask'
    BY DEF TypeOK, HoldsTask, HandingOff
  <2>3. IndexBounds'
    BY DEF TypeOK, IndexBounds, HandingOff, Dest, Backlog
  <2>. QED BY <2>1, <2>2, <2>3
<1>3. ASSUME NEW t \in Thread, RetrySecure(t) PROVE TypeInv'
  <2>. USE <1>3 DEF RetrySecure, Goto, At, sharedVars, stackVars, historyVars
  <2>1. TypeOK'
    BY DEF TypeOK, Label
  <2>2. HoldsTask'
    BY DEF TypeOK, HoldsTask, HandingOff
  <2>3. IndexBounds'
    BY DEF TypeOK, IndexBounds, HandingOff, Dest, Backlog
  <2>. QED BY <2>1, <2>2, <2>3
<1>4. ASSUME NEW t \in Thread, NobodyIdle(t) PROVE TypeInv'
  <2>. USE <1>4 DEF NobodyIdle, Goto, At, sharedVars, stackVars, historyVars
  <2>1. TypeOK'
    BY DEF TypeOK, Label
  <2>2. HoldsTask'
    BY DEF TypeOK, HoldsTask, HandingOff
  <2>3. IndexBounds'
    BY DEF TypeOK, IndexBounds, HandingOff, Dest, Backlog
  <2>. QED BY <2>1, <2>2, <2>3
<1>5. ASSUME NEW t \in Thread, CountTask(t) PROVE TypeInv'
  BY <1>5, CountTaskType
<1>6. ASSUME NEW t \in Thread, PushWrite(t) PROVE TypeInv'
  BY <1>6, PushWriteType
<1>7. ASSUME NEW t \in Thread, PushCommit(t) PROVE TypeInv'
  BY <1>7, PushCommitType
<1>8. ASSUME NEW t \in Thread, Notify(t) PROVE TypeInv'
  <2>. USE <1>8 DEF Notify, Goto, At, sharedVars, stackVars, historyVars
  <2>1. TypeOK'
    BY DEF TypeOK, Label, AfterPush
  <2>2. HoldsTask'
    BY DEF TypeOK, HoldsTask, HandingOff, AfterPush
  <2>3. IndexBounds'
    BY DEF TypeOK, IndexBounds, HandingOff, Dest, Backlog, AfterPush
  <2>. QED BY <2>1, <2>2, <2>3
<1>9. ASSUME NEW w \in Worker, Wake(w) PROVE TypeInv'
  <2>. USE <1>9 DEF Wake, Goto, At, sharedVars, stackVars, historyVars
  <2>1. TypeOK'
    BY DEF TypeOK, Label
  <2>2. HoldsTask'
    BY DEF TypeOK, HoldsTask, HandingOff
  <2>3. IndexBounds'
    BY DEF TypeOK, IndexBounds, HandingOff, Dest, Backlog
  <2>. QED BY <2>1, <2>2, <2>3
<1>10. ASSUME NEW w \in Worker, TakeTask(w) PROVE TypeInv'
  BY <1>10, TakeTaskType
<1>11. ASSUME NEW w \in Worker, StackEmpty(w) PROVE TypeInv'
  <2>. USE <1>11 DEF StackEmpty, Goto, At, sharedVars, stackVars, historyVars
  <2>1. TypeOK'
    BY DEF TypeOK, Label
  <2>2. HoldsTask'
    BY DEF TypeOK, HoldsTask, HandingOff
  <2>3. IndexBounds'
    BY DEF TypeOK, IndexBounds, HandingOff, Dest, Backlog
  <2>. QED BY <2>1, <2>2, <2>3
<1>12. ASSUME NEW w \in Worker, ClearHasWork(w) PROVE TypeInv'
  <2>. USE <1>12 DEF ClearHasWork, Goto, At, sharedVars, stackVars, historyVars
  <2>1. TypeOK'
    BY DEF TypeOK, Label
  <2>2. HoldsTask'
    BY DEF TypeOK, HoldsTask, HandingOff
  <2>3. IndexBounds'
    BY DEF TypeOK, IndexBounds, HandingOff, Dest, Backlog
  <2>. QED BY <2>1, <2>2, <2>3
<1>13. ASSUME NEW w \in Worker, ListAsIdle(w) PROVE TypeInv'
  <2>. USE <1>13 DEF ListAsIdle, Goto, At, sharedVars, stackVars, historyVars
  <2>1. TypeOK'
    BY DEF TypeOK, Label
  <2>2. HoldsTask'
    BY DEF TypeOK, HoldsTask, HandingOff
  <2>3. IndexBounds'
    BY DEF TypeOK, IndexBounds, HandingOff, Dest, Backlog
  <2>. QED BY <2>1, <2>2, <2>3
<1>14. ASSUME NEW w \in Worker, PopLoad(w) PROVE TypeInv'
  <2>. USE <1>14 DEF PopLoad, Goto, At, sharedVars, stackVars, historyVars
  <2>1. TypeOK'
    BY DEF TypeOK, Label
  <2>2. HoldsTask'
    BY DEF TypeOK, HoldsTask, HandingOff
  <2>3. IndexBounds'
    BY DEF TypeOK, IndexBounds, HandingOff, Dest, Backlog
  <2>. QED BY <2>1, <2>2, <2>3
<1>15. ASSUME NEW w \in Worker, PopStore(w) PROVE TypeInv'
  BY <1>15, PopStoreType
<1>16. ASSUME NEW w \in Worker, DispatchImport(w) PROVE TypeInv'
  <2>1. ~HandingOff(w) /\ current[w] \in Task /\ w \in Thread /\ w # Main
    BY <1>16 DEF DispatchImport, At, HoldsTask, HandingOff, TypeOK
  <2>2. Imports[current[w]][next[w]] \in Task
    BY <1>16, <2>1, DispatchedAreTasks, SMTT(30) DEF DispatchImport, TypeOK
  <2>. QED BY <1>16, <2>1, <2>2, DispatchTaskType DEF DispatchImport
<1>17. ASSUME NEW w \in Worker, TaskReturns(w) PROVE TypeInv'
  BY <1>17, TaskReturnsType
<1>18. ASSUME NEW w \in Worker, FinishTask(w) PROVE TypeInv'
  BY <1>18, FinishTaskType
<1>19. ASSUME NEW w \in Worker, ShareBacklog(w) PROVE TypeInv'
  BY <1>19, ShareBacklogType
<1>20. ASSUME NEW w \in Worker, PointToLast(w) PROVE TypeInv'
  BY <1>20, PointToLastType
<1>21. ASSUME BeginGroup PROVE TypeInv'
  BY <1>21, BeginGroupType
<1>22. ASSUME DispatchRoot PROVE TypeInv'
  <2>1. group \in 1 .. Len(Groups) /\ pc[Main] = "dispatch"
    BY <1>22, DispatchedAreTasks DEF DispatchRoot, At, HoldsTask, TypeOK
  <2>2. Groups[group][next[Main]] \in Task
    BY <1>22, <2>1, DispatchedAreTasks DEF DispatchRoot, TypeOK
  <2>3. ~HandingOff(Main)
    BY DEF HandingOff
  <2>. QED BY <1>22, <2>1, <2>2, <2>3, DispatchTaskType DEF DispatchRoot
<1>23. ASSUME CallWait PROVE TypeInv'
  <2>. USE <1>23 DEF CallWait, Goto, At, sharedVars, stackVars, historyVars
  <2>1. TypeOK'
    BY DEF TypeOK, Label
  <2>2. HoldsTask'
    BY DEF TypeOK, HoldsTask, HandingOff
  <2>3. IndexBounds'
    BY DEF TypeOK, IndexBounds, HandingOff, Dest, Backlog
  <2>. QED BY <2>1, <2>2, <2>3
<1>24. ASSUME WaitReturns PROVE TypeInv'
  BY <1>24, WaitReturnsType
<1>25. CASE UNCHANGED vars
  BY <1>25, StutterType
<1>26. ASSUME NEW t \in Thread, EnqueueStep(t) PROVE TypeInv'
  BY <1>26, <1>1, <1>2, <1>3, <1>4, <1>5, <1>6, <1>7, <1>8 DEF EnqueueStep
<1>27. ASSUME NEW w \in Worker, WorkerStep(w) PROVE TypeInv'
  BY <1>27, <1>9, <1>10, <1>11, <1>12, <1>13, <1>14, <1>15, <1>16, <1>17, <1>18, <1>19, <1>20
     DEF WorkerStep
<1>28. CASE MainStep
  BY <1>28, <1>21, <1>22, <1>23, <1>24 DEF MainStep
<1>. QED BY <1>25, <1>26, <1>27, <1>28 DEF Next, AllGroupsDone

(* TypeInv is an invariant of the pool. *)
LEMMA TypeInvariant == Spec => []TypeInv
<1>1. TypeInv /\ [Next]_vars => TypeInv'
  BY TypeStep
<1>. QED BY TypeInit, <1>1, PTL DEF Spec

(* Every reachable state of the pool is well typed, races included: a      *)
(* stack's size never exceeds what has been written to its buffer.         *)
THEOREM TypeCorrect == Spec => []TypeOK
<1>1. TypeInv => TypeOK
  BY DEF TypeInv
<1>. QED BY <1>1, TypeInvariant, PTL

-----------------------------------------------------------------------------
(* Who may touch a worker: it is listed, or held by the one thread that    *)
(* cleared its bit, or awake.  The three exclude each other.               *)

Listed(w) == w \in checkList =>
    At(w, "wait") /\ ~hasWork[w] /\ size[w] = 0 /\ \A t \in Thread : ~Holds(t, w)
Held(w) == \A t \in Thread : Holds(t, w) =>
    /\ At(w, "wait") /\ ~hasWork[w]
    /\ \A u \in Thread : Holds(u, w) => u = t
GoingIdle(w) ==
    /\ pc[w] = "list" => ~hasWork[w]
    /\ pc[w] \in {"clear", "list"} => size[w] = 0
OwnerInv == \A w \in Worker : Guarded(w) => Listed(w) /\ Held(w) /\ GoingIdle(w)

(* Main pushes without having secured a worker only after overflowed. *)
Overflow == pc[Main] \in {"push", "commit", "notify"} /\ target[Main] = NoWorker => overflowed

OwnInv == OwnerInv /\ Overflow

(* A step of thread t that neither blocks nor wakes anybody, gives no      *)
(* thread a new worker, and touches no stack but its own.                  *)
LEMMA QuietOwn ==
    ASSUME TypeInv, OwnInv, NEW t \in Thread, NEW l \in Label \ {"wait", "list"},
           pc[t] # "wait", pc' = [pc EXCEPT ![t] = l],
           UNCHANGED <<checkList, hasWork>>, overflowed => overflowed',
           \A w \in Worker : w # t => size'[w] = size[w],
           l = "clear" => size'[t] = 0,
           \A u \in Thread, w \in Worker : Holds(u, w)' => Holds(u, w),
           Overflow'
    PROVE  OwnInv'
<1>1. SUFFICES ASSUME NEW w \in Worker, Guarded(w)' PROVE Listed(w)' /\ Held(w)' /\ GoingIdle(w)'
  BY DEF OwnInv, OwnerInv
<1>2. Guarded(w) /\ Listed(w) /\ Held(w) /\ GoingIdle(w)
  BY <1>1 DEF Guarded, OwnInv, OwnerInv
<1>3. /\ pc[w] = "wait" => pc'[w] = "wait" /\ w # t
      /\ w # t => pc'[w] = pc[w]
      /\ w = t => pc'[w] = l
  BY ThreadFacts DEF TypeInv, TypeOK
<1>4. Listed(w)'
  BY <1>2, <1>3 DEF Listed, At
<1>5. Held(w)'
  BY <1>2, <1>3 DEF Held, At
<1>6. GoingIdle(w)'
  BY <1>2, <1>3 DEF GoingIdle
<1>. QED BY <1>4, <1>5, <1>6

(* Securing a listed worker: the thread becomes its only holder. *)
LEMMA SecureWorkerOwn == ASSUME TypeInv, OwnInv, NEW t \in Thread, SecureWorker(t) PROVE OwnInv'
<1>. DEFINE f == findFirstSetBit(copy[t])
<1>a. /\ pc[t] = "secure" /\ f \in checkList /\ f \in Worker
      /\ checkList' = checkList \ {f}
      /\ target' = [target EXCEPT ![t] = f]
      /\ pc' = [pc EXCEPT ![t] = IF HandingOff(t) THEN "give" ELSE "count"]
      /\ UNCHANGED <<hasWork, size, current, overflowed>>
  BY DEF SecureWorker, At, Goto, TypeInv, TypeOK, stackVars, historyVars
<1>. HIDE DEF f
<1>1. SUFFICES ASSUME NEW w \in Worker, Guarded(w)' PROVE Listed(w)' /\ Held(w)' /\ GoingIdle(w)'
  BY <1>a, ThreadFacts DEF TypeInv, TypeOK, OwnInv, OwnerInv, Overflow
<1>2. Guarded(w) /\ Listed(w) /\ Held(w) /\ GoingIdle(w)
  BY <1>1, <1>a DEF Guarded, OwnInv, OwnerInv
<1>3. \A u \in Thread : Holds(u, w)' => Holds(u, w) \/ (u = t /\ f = w)
  BY <1>a DEF TypeInv, TypeOK, Holds, HandingOff
<1>4. pc[w] # "secure" => pc'[w] = pc[w]
  BY <1>a DEF TypeInv, TypeOK
<1>5. Listed(w)'
  BY <1>a, <1>2, <1>3, <1>4 DEF Listed, At
<1>6. Held(w)'
  <2>1. CASE f = w
    BY <2>1, <1>a, <1>2, <1>3, <1>4 DEF Listed, Held, At
  <2>2. CASE f # w
    BY <2>2, <1>a, <1>2, <1>3, <1>4 DEF Held, At
  <2>. QED BY <2>1, <2>2
<1>7. GoingIdle(w)'
  BY <1>a, <1>2, ThreadFacts DEF TypeInv, TypeOK, GoingIdle
<1>. QED BY <1>5, <1>6, <1>7

(* Storing size: only the holder or the owner of a guarded stack does. *)
LEMMA PushCommitOwn == ASSUME TypeInv, OwnInv, NEW t \in Thread, PushCommit(t) PROVE OwnInv'
<1>1. SUFFICES ASSUME NEW w \in Worker, Guarded(w)' PROVE Listed(w)' /\ Held(w)' /\ GoingIdle(w)'
  BY ThreadFacts DEF TypeInv, TypeOK, PushCommit, AfterPush, Goto, At, sharedVars, stackVars, historyVars, OwnInv, OwnerInv, Overflow
<1>2. Guarded(w) /\ Listed(w) /\ Held(w) /\ GoingIdle(w)
  BY <1>1 DEF Guarded, PushCommit, historyVars, OwnInv, OwnerInv
<1>3. \A u \in Thread : Holds(u, w)' => Holds(u, w)
  BY ThreadFacts, <1>1, <1>2 DEF TypeInv, TypeOK, PushCommit, Goto, At, sharedVars, stackVars, historyVars, AfterPush, Holds, HandingOff
<1>4. Dest(t) = w => Holds(t, w) \/ t = w
  BY ThreadFacts, <1>2 DEF PushCommit, At, OwnInv, Overflow, Guarded, Dest, Backlog, Holds
<1>5. pc[w] = "wait" => pc'[w] = "wait" /\ hasWork'[w] = hasWork[w]
  BY ThreadFacts, <1>1, <1>2 DEF TypeInv, TypeOK, PushCommit, Goto, At, sharedVars, stackVars, historyVars
<1>6. Listed(w)'
  <2>1. w \in checkList => t # w /\ Dest(t) # w
    BY <1>2, <1>4 DEF PushCommit, At, Listed
  <2>. QED BY <2>1, <1>2, <1>3, <1>5 DEF TypeInv, TypeOK, PushCommit, At, sharedVars, Listed
<1>7. Held(w)'
  BY <1>2, <1>3, <1>5 DEF Held, At
<1>8. GoingIdle(w)'
  <2>1. CASE pc'[w] \in {"clear", "list"}
    <3>1. t # w /\ pc[w] = pc'[w]
      BY <2>1, ThreadFacts DEF TypeInv, TypeOK, PushCommit, AfterPush, Goto
    <3>2. Dest(t) # w
      BY <1>2, <1>4, <2>1, <3>1 DEF Held, At
    <3>. QED BY <1>2, <3>1, <3>2 DEF TypeInv, TypeOK, PushCommit, sharedVars, GoingIdle
  <2>. QED BY <2>1 DEF GoingIdle
<1>. QED BY <1>6, <1>7, <1>8

(* Waking the worker ends the hold on it. *)
LEMMA NotifyOwn == ASSUME TypeInv, OwnInv, NEW t \in Thread, Notify(t) PROVE OwnInv'
<1>1. SUFFICES ASSUME NEW w \in Worker, Guarded(w)' PROVE Listed(w)' /\ Held(w)' /\ GoingIdle(w)'
  BY ThreadFacts DEF TypeInv, TypeOK, Notify, AfterPush, Goto, At, sharedVars, stackVars, historyVars, OwnInv, OwnerInv, Overflow
<1>2. Guarded(w) /\ Listed(w) /\ Held(w) /\ GoingIdle(w)
  BY <1>1 DEF Guarded, Notify, historyVars, OwnInv, OwnerInv
<1>3. \A u \in Thread : Holds(u, w)' => Holds(u, w)
  BY ThreadFacts, <1>1, <1>2 DEF TypeInv, TypeOK, Notify, Goto, At, sharedVars, stackVars, historyVars, AfterPush, Holds, HandingOff
<1>4. Dest(t) = w => Holds(t, w) \/ t = w
  BY ThreadFacts, <1>2 DEF Notify, At, OwnInv, Overflow, Guarded, Dest, Backlog, Holds
<1>5. ~Holds(t, w)'
  BY ThreadFacts, <1>1, <1>2 DEF TypeInv, TypeOK, Notify, Goto, At, sharedVars, stackVars, historyVars, AfterPush, Holds, HandingOff
<1>6. pc[w] = "wait" => pc'[w] = "wait"
  BY ThreadFacts, <1>1, <1>2 DEF TypeInv, TypeOK, Notify, Goto, At, sharedVars, stackVars, historyVars
<1>7. Listed(w)'
  <2>1. w \in checkList => t # w /\ Dest(t) # w
    BY <1>2, <1>4 DEF Notify, At, Listed
  <2>. QED BY <2>1, <1>2, <1>3, <1>6 DEF TypeInv, TypeOK, Notify, At, stackVars, Listed
<1>8. Held(w)'
  <2>1. ASSUME NEW u \in Thread, Holds(u, w)'
        PROVE  At(w, "wait")' /\ ~hasWork'[w] /\ \A x \in Thread : Holds(x, w)' => x = u
    <3>1. u # t /\ Holds(u, w)
      BY <1>3, <1>5, <2>1
    <3>2. ~Holds(t, w) /\ pc[w] = "wait" /\ ~hasWork[w]
      BY <1>2, <3>1 DEF Held, At
    <3>3. Dest(t) # w
      BY <1>4, <3>2 DEF Notify, At
    <3>4. ~hasWork'[w]
      BY <3>2, <3>3 DEF TypeInv, TypeOK, Notify
    <3>. QED BY <1>2, <1>3, <1>6, <3>1, <3>2, <3>4 DEF Held, At
  <2>. QED BY <2>1 DEF Held
<1>9. GoingIdle(w)'
  <2>1. CASE pc'[w] \in {"clear", "list"}
    <3>1. t # w /\ pc[w] = pc'[w]
      BY <2>1, ThreadFacts DEF TypeInv, TypeOK, Notify, AfterPush, Goto
    <3>2. Dest(t) # w
      BY <1>2, <1>4, <2>1, <3>1 DEF Held, At
    <3>. QED BY <1>2, <3>1, <3>2 DEF TypeInv, TypeOK, Notify, stackVars, GoingIdle
  <2>. QED BY <2>1 DEF GoingIdle
<1>. QED BY <1>7, <1>8, <1>9

(* A worker wakes only when nobody holds it. *)
LEMMA WakeOwn == ASSUME TypeInv, OwnInv, NEW v \in Worker, Wake(v) PROVE OwnInv'
<1>1. SUFFICES ASSUME NEW w \in Worker, Guarded(w)' PROVE Listed(w)' /\ Held(w)' /\ GoingIdle(w)'
  BY ThreadFacts DEF TypeInv, TypeOK, Wake, Goto, At, sharedVars, stackVars, historyVars, OwnInv, OwnerInv, Overflow
<1>2. Guarded(w) /\ Listed(w) /\ Held(w) /\ GoingIdle(w)
  BY <1>1 DEF Guarded, Wake, historyVars, OwnInv, OwnerInv
<1>3. \A u \in Thread : Holds(u, w)' => Holds(u, w)
  BY ThreadFacts, <1>1, <1>2 DEF TypeInv, TypeOK, Wake, Goto, At, sharedVars, stackVars, historyVars, Holds, HandingOff
<1>4. pc[w] = "wait" /\ ~hasWork[w] => pc'[w] = "wait" /\ ~hasWork'[w]
  BY ThreadFacts, <1>1, <1>2 DEF TypeInv, TypeOK, Wake, Goto, At, sharedVars, stackVars, historyVars
<1>5. Listed(w)'
  BY ThreadFacts, <1>1, <1>2 DEF TypeInv, TypeOK, Wake, Goto, At, sharedVars, stackVars, historyVars, Listed, Held, GoingIdle, Holds, HandingOff
<1>6. Held(w)'
  BY <1>2, <1>3, <1>4 DEF Held, At
<1>7. GoingIdle(w)'
  BY ThreadFacts, <1>1, <1>2 DEF TypeInv, TypeOK, Wake, Goto, At, sharedVars, stackVars, historyVars, Listed, Held, GoingIdle
<1>. QED BY <1>5, <1>6, <1>7

(* The worker clears its own flag while nobody holds it. *)
LEMMA ClearHasWorkOwn == ASSUME TypeInv, OwnInv, NEW v \in Worker, ClearHasWork(v) PROVE OwnInv'
<1>1. SUFFICES ASSUME NEW w \in Worker, Guarded(w)' PROVE Listed(w)' /\ Held(w)' /\ GoingIdle(w)'
  BY ThreadFacts DEF TypeInv, TypeOK, ClearHasWork, Goto, At, sharedVars, stackVars, historyVars, OwnInv, OwnerInv, Overflow
<1>2. Guarded(w) /\ Listed(w) /\ Held(w) /\ GoingIdle(w)
  BY <1>1 DEF Guarded, ClearHasWork, historyVars, OwnInv, OwnerInv
<1>3. \A u \in Thread : Holds(u, w)' => Holds(u, w)
  BY ThreadFacts, <1>1, <1>2 DEF TypeInv, TypeOK, ClearHasWork, Goto, At, sharedVars, stackVars, historyVars, Holds, HandingOff
<1>4. pc[w] = "wait" /\ ~hasWork[w] => pc'[w] = "wait" /\ ~hasWork'[w]
  BY ThreadFacts, <1>1, <1>2 DEF TypeInv, TypeOK, ClearHasWork, Goto, At, sharedVars, stackVars, historyVars
<1>5. Listed(w)'
  BY ThreadFacts, <1>1, <1>2 DEF TypeInv, TypeOK, ClearHasWork, Goto, At, sharedVars, stackVars, historyVars, Listed, Held, GoingIdle, Holds, HandingOff
<1>6. Held(w)'
  BY <1>2, <1>3, <1>4 DEF Held, At
<1>7. GoingIdle(w)'
  BY ThreadFacts, <1>1, <1>2 DEF TypeInv, TypeOK, ClearHasWork, Goto, At, sharedVars, stackVars, historyVars, Listed, Held, GoingIdle
<1>. QED BY <1>5, <1>6, <1>7

(* The worker offers itself again, flag cleared and stack empty. *)
LEMMA ListAsIdleOwn == ASSUME TypeInv, OwnInv, NEW v \in Worker, ListAsIdle(v) PROVE OwnInv'
<1>1. SUFFICES ASSUME NEW w \in Worker, Guarded(w)' PROVE Listed(w)' /\ Held(w)' /\ GoingIdle(w)'
  BY ThreadFacts DEF TypeInv, TypeOK, ListAsIdle, Goto, At, sharedVars, stackVars, historyVars, OwnInv, OwnerInv, Overflow
<1>2. Guarded(w) /\ Listed(w) /\ Held(w) /\ GoingIdle(w)
  BY <1>1 DEF Guarded, ListAsIdle, historyVars, OwnInv, OwnerInv
<1>3. \A u \in Thread : Holds(u, w)' => Holds(u, w)
  BY ThreadFacts, <1>1, <1>2 DEF TypeInv, TypeOK, ListAsIdle, Goto, At, sharedVars, stackVars, historyVars, Holds, HandingOff
<1>4. pc[w] = "wait" /\ ~hasWork[w] => pc'[w] = "wait" /\ ~hasWork'[w]
  BY ThreadFacts, <1>1, <1>2 DEF TypeInv, TypeOK, ListAsIdle, Goto, At, sharedVars, stackVars, historyVars
<1>5. Listed(w)'
  BY ThreadFacts, <1>1, <1>2 DEF TypeInv, TypeOK, ListAsIdle, Goto, At, sharedVars, stackVars, historyVars, Listed, Held, GoingIdle, Holds, HandingOff
<1>6. Held(w)'
  BY <1>2, <1>3, <1>4 DEF Held, At
<1>7. GoingIdle(w)'
  BY ThreadFacts, <1>1, <1>2 DEF TypeInv, TypeOK, ListAsIdle, Goto, At, sharedVars, stackVars, historyVars, Listed, Held, GoingIdle
<1>. QED BY <1>5, <1>6, <1>7

(* Every step of the pool preserves the ownership of the workers. *)
LEMMA OwnStep == ASSUME TypeInv, OwnInv, [Next]_vars PROVE OwnInv'
<1>. USE ThreadFacts
<1>1. ASSUME NEW t \in Thread, LoadCheckList(t) PROVE OwnInv'
  <2>1. Overflow' /\ \A u \in Thread, x \in Worker : Holds(u, x)' => Holds(u, x)
    BY <1>1 DEF TypeInv, TypeOK, LoadCheckList, Goto, At, stackVars, historyVars,
           Holds, HandingOff, OwnInv, Overflow
  <2>2. pc[t] # "wait" /\ pc' = [pc EXCEPT ![t] = pc'[t]] /\ pc'[t] \in Label \ {"wait", "list"}
    BY <1>1 DEF TypeInv, TypeOK, Label, LoadCheckList, Goto, At
  <2>. QED BY <1>1, <2>1, <2>2, QuietOwn
       DEF TypeInv, TypeOK, LoadCheckList, Goto, At, sharedVars, stackVars, historyVars
<1>2. ASSUME NEW t \in Thread, SecureWorker(t) PROVE OwnInv'
  BY <1>2, SecureWorkerOwn
<1>3. ASSUME NEW t \in Thread, RetrySecure(t) PROVE OwnInv'
  <2>1. Overflow' /\ \A u \in Thread, x \in Worker : Holds(u, x)' => Holds(u, x)
    BY <1>3 DEF TypeInv, TypeOK, RetrySecure, Goto, At, stackVars, historyVars,
           Holds, HandingOff, OwnInv, Overflow
  <2>2. pc[t] # "wait" /\ pc' = [pc EXCEPT ![t] = pc'[t]] /\ pc'[t] \in Label \ {"wait", "list"}
    BY <1>3 DEF TypeInv, TypeOK, Label, RetrySecure, Goto, At
  <2>. QED BY <1>3, <2>1, <2>2, QuietOwn
       DEF TypeInv, TypeOK, RetrySecure, Goto, At, sharedVars, stackVars, historyVars
<1>4. ASSUME NEW t \in Thread, NobodyIdle(t) PROVE OwnInv'
  <2>1. Overflow' /\ \A u \in Thread, x \in Worker : Holds(u, x)' => Holds(u, x)
    BY <1>4 DEF TypeInv, TypeOK, NobodyIdle, Goto, At, stackVars, historyVars,
           Holds, HandingOff, OwnInv, Overflow
  <2>2. pc[t] # "wait" /\ pc' = [pc EXCEPT ![t] = pc'[t]] /\ pc'[t] \in Label \ {"wait", "list"}
    BY <1>4 DEF TypeInv, TypeOK, Label, NobodyIdle, Goto, At
  <2>. QED BY <1>4, <2>1, <2>2, QuietOwn
       DEF TypeInv, TypeOK, NobodyIdle, Goto, At, sharedVars, stackVars, historyVars
<1>5. ASSUME NEW t \in Thread, CountTask(t) PROVE OwnInv'
  <2>1. Overflow' /\ \A u \in Thread, x \in Worker : Holds(u, x)' => Holds(u, x)
    BY <1>5 DEF TypeInv, TypeOK, CountTask, Goto, At, stackVars, historyVars,
           Holds, HandingOff, OwnInv, Overflow
  <2>2. pc[t] # "wait" /\ pc' = [pc EXCEPT ![t] = pc'[t]] /\ pc'[t] \in Label \ {"wait", "list"}
    BY <1>5 DEF TypeInv, TypeOK, Label, CountTask, Goto, At
  <2>. QED BY <1>5, <2>1, <2>2, QuietOwn
       DEF TypeInv, TypeOK, CountTask, Goto, At, sharedVars, stackVars, historyVars
<1>6. ASSUME NEW t \in Thread, PushWrite(t) PROVE OwnInv'
  <2>1. Overflow' /\ \A u \in Thread, x \in Worker : Holds(u, x)' => Holds(u, x)
    BY <1>6 DEF TypeInv, TypeOK, PushWrite, Goto, At, stackVars, historyVars,
           Holds, HandingOff, OwnInv, Overflow
  <2>2. pc[t] # "wait" /\ pc' = [pc EXCEPT ![t] = pc'[t]] /\ pc'[t] \in Label \ {"wait", "list"}
    BY <1>6 DEF TypeInv, TypeOK, Label, PushWrite, Goto, At
  <2>. QED BY <1>6, <2>1, <2>2, QuietOwn
       DEF TypeInv, TypeOK, PushWrite, Goto, At, sharedVars, stackVars, historyVars
<1>7. ASSUME NEW t \in Thread, PushCommit(t) PROVE OwnInv'
  BY <1>7, PushCommitOwn
<1>8. ASSUME NEW t \in Thread, Notify(t) PROVE OwnInv'
  BY <1>8, NotifyOwn
<1>9. ASSUME NEW w \in Worker, Wake(w) PROVE OwnInv'
  BY <1>9, WakeOwn
<1>10. ASSUME NEW w \in Worker, TakeTask(w) PROVE OwnInv'
  <2>0. current'[w] # NoTask /\ current' = [current EXCEPT ![w] = current'[w]]
    <3>1. size[w] \in 1 .. Len(buffer[w])
      BY <1>10, StackTypes DEF TypeInv, TakeTask
    <3>2. buffer[w][size[w]] \in Task
      BY <3>1, StackTypes DEF TypeInv
    <3>. QED BY <1>10, <3>2, PoolAssumption DEF TypeInv, TypeOK, TakeTask
  <2>1. Overflow' /\ \A u \in Thread, x \in Worker : Holds(u, x)' => Holds(u, x)
    BY <2>0, <1>10 DEF TypeInv, TypeOK, TakeTask, Goto, At, stackVars, historyVars,
           Holds, HandingOff, OwnInv, Overflow
  <2>2. pc[w] # "wait" /\ pc' = [pc EXCEPT ![w] = pc'[w]] /\ pc'[w] \in Label \ {"wait", "list"}
    BY <1>10 DEF TypeInv, TypeOK, Label, TakeTask, Goto, At
  <2>. QED BY <1>10, <2>1, <2>2, QuietOwn
       DEF TypeInv, TypeOK, TakeTask, Goto, At, sharedVars, stackVars, historyVars
<1>11. ASSUME NEW w \in Worker, StackEmpty(w) PROVE OwnInv'
  <2>1. Overflow' /\ \A u \in Thread, x \in Worker : Holds(u, x)' => Holds(u, x)
    BY <1>11 DEF TypeInv, TypeOK, StackEmpty, Goto, At, stackVars, historyVars,
           Holds, HandingOff, OwnInv, Overflow
  <2>2. pc[w] # "wait" /\ pc' = [pc EXCEPT ![w] = pc'[w]] /\ pc'[w] \in Label \ {"wait", "list"}
    BY <1>11 DEF TypeInv, TypeOK, Label, StackEmpty, Goto, At
  <2>. QED BY <1>11, <2>1, <2>2, QuietOwn
       DEF TypeInv, TypeOK, StackEmpty, Goto, At, sharedVars, stackVars, historyVars
<1>12. ASSUME NEW w \in Worker, ClearHasWork(w) PROVE OwnInv'
  BY <1>12, ClearHasWorkOwn
<1>13. ASSUME NEW w \in Worker, ListAsIdle(w) PROVE OwnInv'
  BY <1>13, ListAsIdleOwn
<1>14. ASSUME NEW w \in Worker, PopLoad(w) PROVE OwnInv'
  <2>1. Overflow' /\ \A u \in Thread, x \in Worker : Holds(u, x)' => Holds(u, x)
    BY <1>14 DEF TypeInv, TypeOK, PopLoad, Goto, At, stackVars, historyVars,
           Holds, HandingOff, OwnInv, Overflow
  <2>2. pc[w] # "wait" /\ pc' = [pc EXCEPT ![w] = pc'[w]] /\ pc'[w] \in Label \ {"wait", "list"}
    BY <1>14 DEF TypeInv, TypeOK, Label, PopLoad, Goto, At
  <2>. QED BY <1>14, <2>1, <2>2, QuietOwn
       DEF TypeInv, TypeOK, PopLoad, Goto, At, sharedVars, stackVars, historyVars
<1>15. ASSUME NEW w \in Worker, PopStore(w) PROVE OwnInv'
  <2>1. Overflow' /\ \A u \in Thread, x \in Worker : Holds(u, x)' => Holds(u, x)
    BY <1>15 DEF TypeInv, TypeOK, PopStore, Goto, At, stackVars, historyVars,
           Holds, HandingOff, OwnInv, Overflow
  <2>2. pc[w] # "wait" /\ pc' = [pc EXCEPT ![w] = pc'[w]] /\ pc'[w] \in Label \ {"wait", "list"}
    BY <1>15 DEF TypeInv, TypeOK, Label, PopStore, Goto, At
  <2>. QED BY <1>15, <2>1, <2>2, QuietOwn
       DEF TypeInv, TypeOK, PopStore, Goto, At, sharedVars, stackVars, historyVars
<1>16. ASSUME NEW w \in Worker, DispatchImport(w) PROVE OwnInv'
  <2>1. Overflow' /\ \A u \in Thread, x \in Worker : Holds(u, x)' => Holds(u, x)
    BY <1>16 DEF TypeInv, TypeOK, DispatchImport, DispatchTask, Goto, At, stackVars, historyVars,
           Holds, HandingOff, OwnInv, Overflow
  <2>2. pc[w] # "wait" /\ pc' = [pc EXCEPT ![w] = pc'[w]] /\ pc'[w] \in Label \ {"wait", "list"}
    BY <1>16 DEF TypeInv, TypeOK, Label, DispatchImport, DispatchTask, Goto, At
  <2>. QED BY <1>16, <2>1, <2>2, QuietOwn
       DEF TypeInv, TypeOK, DispatchImport, DispatchTask, Goto, At, sharedVars, stackVars, historyVars
<1>17. ASSUME NEW w \in Worker, TaskReturns(w) PROVE OwnInv'
  <2>1. Overflow' /\ \A u \in Thread, x \in Worker : Holds(u, x)' => Holds(u, x)
    BY <1>17 DEF TypeInv, TypeOK, TaskReturns, Goto, At, stackVars, historyVars,
           Holds, HandingOff, OwnInv, Overflow
  <2>2. pc[w] # "wait" /\ pc' = [pc EXCEPT ![w] = pc'[w]] /\ pc'[w] \in Label \ {"wait", "list"}
    BY <1>17 DEF TypeInv, TypeOK, Label, TaskReturns, Goto, At
  <2>. QED BY <1>17, <2>1, <2>2, QuietOwn
       DEF TypeInv, TypeOK, TaskReturns, Goto, At, sharedVars, stackVars, historyVars
<1>18. ASSUME NEW w \in Worker, FinishTask(w) PROVE OwnInv'
  <2>1. Overflow' /\ \A u \in Thread, x \in Worker : Holds(u, x)' => Holds(u, x)
    BY <1>18 DEF TypeInv, TypeOK, FinishTask, Goto, At, stackVars, historyVars,
           Holds, HandingOff, OwnInv, Overflow
  <2>2. pc[w] # "wait" /\ pc' = [pc EXCEPT ![w] = pc'[w]] /\ pc'[w] \in Label \ {"wait", "list"}
    BY <1>18 DEF TypeInv, TypeOK, Label, FinishTask, Goto, At
  <2>. QED BY <1>18, <2>1, <2>2, QuietOwn
       DEF TypeInv, TypeOK, FinishTask, Goto, At, sharedVars, stackVars, historyVars
<1>19. ASSUME NEW w \in Worker, ShareBacklog(w) PROVE OwnInv'
  <2>1. Overflow' /\ \A u \in Thread, x \in Worker : Holds(u, x)' => Holds(u, x)
    BY <1>19 DEF TypeInv, TypeOK, ShareBacklog, Goto, At, stackVars, historyVars,
           Holds, HandingOff, OwnInv, Overflow
  <2>2. pc[w] # "wait" /\ pc' = [pc EXCEPT ![w] = pc'[w]] /\ pc'[w] \in Label \ {"wait", "list"}
    BY <1>19 DEF TypeInv, TypeOK, Label, ShareBacklog, Goto, At
  <2>. QED BY <1>19, <2>1, <2>2, QuietOwn
       DEF TypeInv, TypeOK, ShareBacklog, Goto, At, sharedVars, stackVars, historyVars
<1>20. ASSUME NEW w \in Worker, PointToLast(w) PROVE OwnInv'
  <2>1. Overflow' /\ \A u \in Thread, x \in Worker : Holds(u, x)' => Holds(u, x)
    BY <1>20 DEF TypeInv, TypeOK, PointToLast, Goto, At, stackVars, historyVars,
           Holds, HandingOff, OwnInv, Overflow
  <2>2. pc[w] # "wait" /\ pc' = [pc EXCEPT ![w] = pc'[w]] /\ pc'[w] \in Label \ {"wait", "list"}
    BY <1>20 DEF TypeInv, TypeOK, Label, PointToLast, Goto, At
  <2>. QED BY <1>20, <2>1, <2>2, QuietOwn
       DEF TypeInv, TypeOK, PointToLast, Goto, At, sharedVars, stackVars, historyVars
<1>21. ASSUME BeginGroup PROVE OwnInv'
  <2>1. Overflow' /\ \A u \in Thread, x \in Worker : Holds(u, x)' => Holds(u, x)
    BY <1>21 DEF TypeInv, TypeOK, BeginGroup, Goto, At, stackVars, historyVars,
           Holds, HandingOff, OwnInv, Overflow
  <2>2. pc[Main] # "wait" /\ pc' = [pc EXCEPT ![Main] = pc'[Main]] /\ pc'[Main] \in Label \ {"wait", "list"}
    BY <1>21 DEF TypeInv, TypeOK, Label, BeginGroup, Goto, At
  <2>. QED BY <1>21, <2>1, <2>2, QuietOwn
       DEF TypeInv, TypeOK, BeginGroup, Goto, At, sharedVars, stackVars, historyVars
<1>22. ASSUME DispatchRoot PROVE OwnInv'
  <2>1. Overflow' /\ \A u \in Thread, x \in Worker : Holds(u, x)' => Holds(u, x)
    BY <1>22 DEF TypeInv, TypeOK, DispatchRoot, DispatchTask, Goto, At, stackVars, historyVars,
           Holds, HandingOff, OwnInv, Overflow
  <2>2. pc[Main] # "wait" /\ pc' = [pc EXCEPT ![Main] = pc'[Main]] /\ pc'[Main] \in Label \ {"wait", "list"}
    BY <1>22 DEF TypeInv, TypeOK, Label, DispatchRoot, DispatchTask, Goto, At
  <2>. QED BY <1>22, <2>1, <2>2, QuietOwn
       DEF TypeInv, TypeOK, DispatchRoot, DispatchTask, Goto, At, sharedVars, stackVars, historyVars
<1>23. ASSUME CallWait PROVE OwnInv'
  <2>1. Overflow' /\ \A u \in Thread, x \in Worker : Holds(u, x)' => Holds(u, x)
    BY <1>23 DEF TypeInv, TypeOK, CallWait, Goto, At, stackVars, historyVars,
           Holds, HandingOff, OwnInv, Overflow
  <2>2. pc[Main] # "wait" /\ pc' = [pc EXCEPT ![Main] = pc'[Main]] /\ pc'[Main] \in Label \ {"wait", "list"}
    BY <1>23 DEF TypeInv, TypeOK, Label, CallWait, Goto, At
  <2>. QED BY <1>23, <2>1, <2>2, QuietOwn
       DEF TypeInv, TypeOK, CallWait, Goto, At, sharedVars, stackVars, historyVars
<1>24. ASSUME WaitReturns PROVE OwnInv'
  <2>1. Overflow' /\ \A u \in Thread, x \in Worker : Holds(u, x)' => Holds(u, x)
    BY <1>24 DEF TypeInv, TypeOK, WaitReturns, Goto, At, stackVars, historyVars,
           Holds, HandingOff, OwnInv, Overflow
  <2>2. pc[Main] # "wait" /\ pc' = [pc EXCEPT ![Main] = pc'[Main]] /\ pc'[Main] \in Label \ {"wait", "list"}
    BY <1>24 DEF TypeInv, TypeOK, Label, WaitReturns, Goto, At
  <2>. QED BY <1>24, <2>1, <2>2, QuietOwn
       DEF TypeInv, TypeOK, WaitReturns, Goto, At, sharedVars, stackVars, historyVars
<1>25. CASE UNCHANGED vars
  BY <1>25 DEF vars, sharedVars, stackVars, threadVars, historyVars, OwnInv, OwnerInv,
     Overflow, Guarded, Listed, Held, GoingIdle, Holds, HandingOff, At
<1>26. ASSUME NEW t \in Thread, EnqueueStep(t) PROVE OwnInv'
  BY <1>26, <1>1, <1>2, <1>3, <1>4, <1>5, <1>6, <1>7, <1>8 DEF EnqueueStep
<1>27. ASSUME NEW w \in Worker, WorkerStep(w) PROVE OwnInv'
  BY <1>27, <1>9, <1>10, <1>11, <1>12, <1>13, <1>14, <1>15, <1>16, <1>17, <1>18, <1>19, <1>20
     DEF WorkerStep
<1>28. CASE MainStep
  BY <1>28, <1>21, <1>22, <1>23, <1>24 DEF MainStep
<1>. QED BY <1>25, <1>26, <1>27, <1>28 DEF Next, AllGroupsDone

(* At the start every worker is blocked with an empty stack. *)
LEMMA OwnInit == Init => OwnInv
BY ThreadFacts DEF Init, OwnInv, OwnerInv, Overflow, Listed, Held, GoingIdle, Holds, HandingOff, At

(* OwnInv is an invariant of the pool. *)
LEMMA OwnInvariant == Spec => []OwnInv
<1>1. TypeInv /\ OwnInv /\ [Next]_vars => OwnInv'
  BY OwnStep
<1>. QED BY OwnInit, TypeInvariant, <1>1, PTL DEF Spec

(* Whatever the number of workers, the import graph and the groups, two    *)
(* threads are never inside the stack of one worker at a time, worker 0    *)
(* excepted once main has found all workers busy.                          *)
THEOREM StacksAreExclusive == Spec => []StackExclusive
<1>1. TypeInv /\ OwnInv => StackExclusive
  <2>1. SUFFICES ASSUME TypeInv, OwnInv, NEW w \in Worker, Guarded(w),
                        NEW t \in Thread, NEW u \in Thread, UsesStack(t, w), UsesStack(u, w)
                 PROVE  t = u
    BY DEF StackExclusive
  <2>2. ASSUME NEW x \in Thread, UsesStack(x, w)
        PROVE  Holds(x, w) \/ (x = w /\ pc[w] # "wait")
    BY <2>1, <2>2, ThreadFacts DEF UsesStack, Holds, Dest, Backlog, OwnInv, Overflow, Guarded
  <2>3. Held(w)
    BY <2>1 DEF OwnInv, OwnerInv
  <2>4. /\ Holds(t, w) \/ (t = w /\ pc[w] # "wait")
        /\ Holds(u, w) \/ (u = w /\ pc[w] # "wait")
    BY <2>1, <2>2
  <2>. QED BY <2>3, <2>4 DEF Held, At
<1>. QED BY <1>1, TypeInvariant, OwnInvariant, PTL

(* A worker offered in the check list is blocked, has an empty stack and   *)
(* no wake-up pending, for every instance of the pool.                     *)
THEOREM ListedWorkersAreIdle == Spec => []ListedIsIdle
<1>1. TypeInv /\ OwnInv => ListedIsIdle
  BY DEF ListedIsIdle, OwnInv, OwnerInv, Listed, TypeInv, TypeOK
<1>. QED BY <1>1, TypeInvariant, OwnInvariant, PTL

-----------------------------------------------------------------------------
(***************************************************************************)
(* No task slips through the pool: each runs once, the counter is exact    *)
(* and wait() covers the group, for every number of workers, every import  *)
(* graph and every sequence of groups, as long as the main thread finds an *)
(* idle worker whenever it dispatches.  Once it did not, it pushes to the  *)
(* stack of worker 0 unguarded, and all of this is lost.                   *)
(*                                                                         *)
(* The argument is a ledger: every task that was dispatched and has not    *)
(* run is in at most one place, a stack, a thread's hands, or the task     *)
(* function of a worker, whatever stale copies the buffers hold.           *)
(***************************************************************************)

(* Parse tasks are guarded by their file's status; of the others the main   *)
(* thread dispatches each once.                                             *)
DispatchedOnce ==
    \A g, h \in DOMAIN Groups : \A i \in DOMAIN Groups[g], j \in DOMAIN Groups[h] :
        Groups[g][i] = Groups[h][j] /\ Groups[g][i] \notin Parse => g = h /\ i = j

(* The tasks in a stack: the top one is gone when its owner set out to pop. *)
Live(w) == IF pc[w] \in {"pop", "popped"} THEN size[w] - 1 ELSE size[w]

Carries(t) ==
    \/ ~HandingOff(t) /\ pc[t] \in {"load", "secure", "count", "push", "commit"}
    \/ HandingOff(t) /\ pc[t] \in {"pop", "popped", "push", "commit"}
Carried(t) == IF HandingOff(t) THEN buffer[t][source[t]] ELSE arg[t]

Doing(w) == current[w] # NoTask /\ pc[w] # "finish"

(* A place is a thread and a number: a slot of its stack, 0 for its hands, *)
(* -1 for the task function it is in.                                      *)
Occupied(t, k) ==
    \/ k = 0 /\ Carries(t)
    \/ k = -1 /\ t \in Worker /\ Doing(t)
    \/ k >= 1 /\ t \in Worker /\ k <= Live(t)
Content(t, k) ==
    IF k = 0 THEN Carried(t) ELSE IF k = -1 THEN current[t] ELSE buffer[t][k]

Slot == Int
Ledger ==
    /\ \A t \in Thread : \A k \in Slot : Occupied(t, k) => Content(t, k) \in Pending
    /\ \A t, u \in Thread : \A j, k \in Slot :
         Occupied(t, j) /\ Occupied(u, k) /\ Content(t, j) = Content(u, k) => t = u /\ j = k

(* What a thread remembers of a stack is still so when it uses it.          *)
HandsOf(t) ==
    /\ t \in Worker =>
         /\ pc[t] \in {"wait", "scan", "clear", "list", "share", "give"} => HandingOff(t)
         /\ pc[t] \in {"pop", "popped"} => size[t] >= 1
         /\ pc[t] = "popped" => load[t] = size[t]
    /\ HandingOff(t) /\ pc[t] \in {"give", "pop", "popped", "push", "commit"} =>
         target[t] \in Worker
    /\ HandingOff(t) /\ pc[t] \in {"pop", "popped", "push", "commit"} =>
         source[t] = Live(t) + 1
    /\ pc[t] = "commit" =>
         /\ load[t] = size[Dest(t)]
         /\ buffer[Dest(t)][load[t] + 1] = Carried(t)
Hands == \A t \in Thread : HandsOf(t)

(* What has been dispatched is never dispatched again.                      *)
Past(g, i) == g < group \/ (g = group /\ pc[Main] \notin {"begin", "done"} /\ i < next[Main])
Once ==
    /\ \A x \in Parse : status[x] = "DIRTY" <=> x \notin dispatched
    /\ \A x \in dispatched \ Parse :
         \E g \in DOMAIN Groups : \E i \in DOMAIN Groups[g] : x = Groups[g][i] /\ Past(g, i)
    /\ \A x \in Task : runs[x] > 0 => x \in dispatched

Counted ==
    /\ IsFiniteSet(dispatched)
    /\ CountExact
    /\ WaitCoversGroup
    /\ pc[Main] = "begin" => taskCount = 0

GroupInv == ~overflowed => Hands /\ Ledger /\ Once /\ Counted /\ RunsOnce

-----------------------------------------------------------------------------
(* Who pushes to another worker's stack holds that worker, which waits.     *)
LEMMA PusherHolds ==
    ASSUME TypeInv, OwnInv, ~overflowed, NEW t \in Thread, pc[t] \in {"push", "commit", "notify"}
    PROVE  /\ Dest(t) \in Worker
           /\ Dest(t) # t => /\ target[t] = Dest(t) /\ Holds(t, Dest(t)) /\ pc[Dest(t)] = "wait"
                             /\ \A u \in Thread : Holds(u, Dest(t)) => u = t
<1>1. Dest(t) \in Worker
  BY DestIsWorker DEF TypeInv
<1>2. Dest(t) # t => target[t] = Dest(t)
  BY ThreadFacts DEF Dest, Backlog, OwnInv, Overflow
<1>3. Dest(t) # t => Holds(t, Dest(t))
  BY <1>2 DEF Holds
<1>4. Held(Dest(t))
  BY <1>1 DEF OwnInv, OwnerInv, Guarded
<1>. QED BY <1>1, <1>2, <1>3, <1>4 DEF Held, At

(* No two threads push to one stack. *)
LEMMA PushersApart ==
    ASSUME TypeInv, OwnInv, ~overflowed, NEW t \in Thread, NEW u \in Thread, t # u,
           pc[t] \in {"push", "commit", "notify"}, pc[u] \in {"push", "commit", "notify"}
    PROVE  Dest(t) # Dest(u)
<1>1. SUFFICES ASSUME Dest(t) = Dest(u) PROVE FALSE
  OBVIOUS
<1>2. CASE Dest(t) # t
  BY <1>1, <1>2, PusherHolds
<1>3. CASE Dest(u) # u
  BY <1>1, <1>3, PusherHolds
<1>. QED BY <1>1, <1>2, <1>3

(* Nobody pushes to a worker that is awake but itself. *)
LEMMA AwakeIsAlone ==
    ASSUME TypeInv, OwnInv, ~overflowed, NEW w \in Worker, pc[w] # "wait",
           NEW u \in Thread, u # w, pc[u] \in {"push", "commit", "notify"}
    PROVE  Dest(u) # w
BY PusherHolds

(* Whose hands and stacks a step leaves alone. *)
LEMMA OthersHands ==
    ASSUME NEW u \in Thread, HandsOf(u),
           pc'[u] = pc[u], target'[u] = target[u], load'[u] = load[u], arg'[u] = arg[u],
           u \in Worker => current'[u] = current[u] /\ source'[u] = source[u],
           u \in Worker /\ pc[u] \in {"pop", "popped", "push", "commit"} => size'[u] = size[u],
           HandingOff(u) /\ pc[u] = "commit" => buffer'[u][source[u]] = buffer[u][source[u]],
           pc[u] = "commit" => /\ size'[Dest(u)] = size[Dest(u)]
                              /\ buffer'[Dest(u)][load[u] + 1] = buffer[Dest(u)][load[u] + 1]
    PROVE  HandsOf(u)'
<1>1. HandingOff(u)' <=> HandingOff(u)
  BY ThreadFacts DEF HandingOff
<1>2. Dest(u)' = Dest(u)
  BY DEF Dest, Backlog
<1>3. HandingOff(u) => u \in Worker
  BY ThreadFacts DEF HandingOff
<1>4. u \in Worker /\ pc[u] \in {"pop", "popped", "push", "commit"} => Live(u)' = Live(u)
  BY DEF Live
<1>5. pc[u] = "commit" => Carried(u)' = Carried(u)
  BY <1>1, <1>3 DEF Carried
<1>6. u \in Worker =>
         /\ pc'[u] \in {"wait", "scan", "clear", "list", "share", "give"} => HandingOff(u)'
         /\ pc'[u] \in {"pop", "popped"} => size'[u] >= 1
         /\ pc'[u] = "popped" => load'[u] = size'[u]
  BY <1>1 DEF HandsOf
<1>7. HandingOff(u)' /\ pc'[u] \in {"give", "pop", "popped", "push", "commit"} => target'[u] \in Worker
  BY <1>1 DEF HandsOf
<1>8. HandingOff(u)' /\ pc'[u] \in {"pop", "popped", "push", "commit"} => source'[u] = Live(u)' + 1
  BY <1>1, <1>3, <1>4 DEF HandsOf
<1>9. pc'[u] = "commit" => load'[u] = size'[Dest(u)'] /\ buffer'[Dest(u)'][load'[u] + 1] = Carried(u)'
  BY <1>2, <1>5 DEF HandsOf
<1>. QED BY <1>6, <1>7, <1>8, <1>9 DEF HandsOf

(* A step that brings no task anywhere. *)
LEMMA SamePlaces ==
    ASSUME Ledger, Pending' = Pending,
           \A t \in Thread : \A k \in Slot :
              Occupied(t, k)' => Occupied(t, k) /\ Content(t, k)' = Content(t, k)
    PROVE  Ledger'
BY DEF Ledger, Slot

(* A step that brings a task from one place to another. *)
LEMMA MovedPlace ==
    ASSUME Ledger, Pending' = Pending,
           NEW t0 \in Thread, NEW k0 \in Slot, NEW t1 \in Thread, NEW k1 \in Slot,
           Occupied(t0, k0), ~Occupied(t1, k1), Content(t1, k1)' = Content(t0, k0),
           ~Occupied(t0, k0)',
           \A t \in Thread : \A k \in Slot : ~(t = t1 /\ k = k1) /\ Occupied(t, k)' =>
              Occupied(t, k) /\ Content(t, k)' = Content(t, k)
    PROVE  Ledger'
<1>1. ASSUME NEW t \in Thread, NEW k \in Slot, Occupied(t, k)'
      PROVE  Content(t, k)' \in Pending
  BY <1>1 DEF Ledger
<1>2. ASSUME NEW t \in Thread, NEW u \in Thread, NEW j \in Slot, NEW k \in Slot,
             Occupied(t, j)', Occupied(u, k)', Content(t, j)' = Content(u, k)'
      PROVE  t = u /\ j = k
  <2>1. CASE ~(t = t1 /\ j = k1) /\ ~(u = t1 /\ k = k1)
    BY <1>2, <2>1 DEF Ledger
  <2>2. CASE t = t1 /\ j = k1 /\ ~(u = t1 /\ k = k1)
    <3>1. Occupied(u, k) /\ Content(u, k) = Content(t0, k0)
      BY <1>2, <2>2
    <3>2. u = t0 /\ k = k0
      BY <3>1 DEF Ledger
    <3>. QED BY <1>2, <3>2
  <2>3. CASE u = t1 /\ k = k1 /\ ~(t = t1 /\ j = k1)
    <3>1. Occupied(t, j) /\ Content(t, j) = Content(t0, k0)
      BY <1>2, <2>3
    <3>2. t = t0 /\ j = k0
      BY <3>1 DEF Ledger
    <3>. QED BY <1>2, <3>2
  <2>. QED BY <2>1, <2>2, <2>3
<1>. QED BY <1>1, <1>2 DEF Ledger, Slot

(* The places of a thread that a step leaves alone. *)
LEMMA PlacesStay ==
    ASSUME NEW u \in Thread, NEW k \in Slot, pc'[u] = pc[u], arg'[u] = arg[u],
           u \in Worker => current'[u] = current[u] /\ source'[u] = source[u] /\ size'[u] = size[u],
           u \in Worker => \A i \in Slot : i >= 1 /\ i <= Live(u) => buffer'[u][i] = buffer[u][i],
           HandingOff(u) /\ Carries(u) => buffer'[u][source[u]] = buffer[u][source[u]],
           Occupied(u, k)'
    PROVE  Occupied(u, k) /\ Content(u, k)' = Content(u, k)
<1>1. (HandingOff(u)' <=> HandingOff(u)) /\ (HandingOff(u) => u \in Worker)
  BY ThreadFacts DEF HandingOff
<1>2. Carries(u)' <=> Carries(u)
  BY <1>1 DEF Carries
<1>3. Carries(u) => Carried(u)' = Carried(u)
  BY <1>1 DEF Carried
<1>4. u \in Worker => (Doing(u)' <=> Doing(u)) /\ Live(u)' = Live(u)
  BY DEF Doing, Live
<1>5. Occupied(u, k)
  BY <1>2, <1>4 DEF Occupied
<1>6. Content(u, k)' = Content(u, k)
  <2>1. CASE k = 0
    BY <1>3, <1>5, <2>1 DEF Content, Occupied
  <2>2. CASE k = -1
    BY <1>5, <2>2 DEF Content, Occupied
  <2>3. CASE k # 0 /\ k # -1
    BY <1>5, <2>3 DEF Content, Occupied
  <2>. QED BY <2>1, <2>2, <2>3
<1>. QED BY <1>5, <1>6

(* A step that changes neither a stack nor what anybody works on. *)
LEMMA QuietStep ==
    ASSUME TypeInv, Hands, Ledger, NEW t \in Thread, NEW l \in Label,
           pc' = [pc EXCEPT ![t] = l],
           UNCHANGED <<size, buffer, source, current, arg, runs, dispatched>>,
           \A u \in Thread : u # t => target'[u] = target[u] /\ load'[u] = load[u],
           t \in Worker => /\ pc[t] \in {"pop", "popped"} <=> l \in {"pop", "popped"}
                           /\ pc[t] # "finish",
           Carries(t)' => Carries(t),
           HandsOf(t)'
    PROVE  Hands' /\ Ledger'
<1>1. pc'[t] = l /\ \A u \in Thread : u # t => pc'[u] = pc[u]
  BY DEF TypeInv, TypeOK
<1>2. ASSUME NEW u \in Thread, u # t PROVE HandsOf(u)'
  BY <1>1, <1>2, OthersHands DEF Hands
<1>3. Pending' = Pending
  BY DEF Pending
<1>4. ASSUME NEW u \in Thread, NEW k \in Slot, Occupied(u, k)'
      PROVE  Occupied(u, k) /\ Content(u, k)' = Content(u, k)
  <2>1. CASE u # t
    BY <1>1, <1>4, <2>1, PlacesStay
  <2>2. CASE u = t
    <3>1. (Carried(t)' = Carried(t)) /\ Content(t, k)' = Content(t, k)
      BY DEF Carried, Content, HandingOff
    <3>2. t \in Worker => Live(t)' = Live(t) /\ (Doing(t)' => Doing(t))
      BY <1>1 DEF Live, Doing
    <3>. QED BY <1>4, <2>2, <3>1, <3>2 DEF Occupied
  <2>. QED BY <2>1, <2>2
<1>5. Ledger'
  BY <1>3, <1>4, SamePlaces
<1>. QED BY <1>2, <1>5 DEF Hands

Places == Hands /\ Ledger

(* The steps of enqueue that bring no task anywhere. *)
LEMMA SecuringPlaces ==
    ASSUME TypeInv, Places, NEW t \in Thread,
           LoadCheckList(t) \/ SecureWorker(t) \/ RetrySecure(t) \/ NobodyIdle(t)
    PROVE  Places'
<1>. USE DEF Places, Goto, At, sharedVars, stackVars, historyVars
<1>0. TypeOK /\ pc \in [Thread -> Label] /\ target \in [Thread -> Worker \cup {NoWorker}]
  BY DEF TypeInv, TypeOK
<1>1. CASE LoadCheckList(t)
  <2>1. pc[t] = "load" /\ pc' = [pc EXCEPT ![t] = "secure"] /\ pc'[t] = "secure"
    BY <1>0, <1>1 DEF LoadCheckList
  <2>2. HandsOf(t)' /\ (Carries(t)' => Carries(t))
    BY <1>1, <2>1 DEF LoadCheckList, HandsOf, Carries, HandingOff
  <2>. QED BY <1>1, <2>1, <2>2, QuietStep DEF LoadCheckList, Label
<1>2. CASE SecureWorker(t)
  <2>. DEFINE l == IF HandingOff(t) THEN "give" ELSE "count"
  <2>1. pc[t] = "secure" /\ pc' = [pc EXCEPT ![t] = l] /\ pc'[t] = l /\ l \in Label
    BY <1>0, <1>2 DEF SecureWorker, Label
  <2>2. target'[t] \in Worker /\ \A u \in Thread : u # t => target'[u] = target[u]
    BY <1>0, <1>2 DEF SecureWorker, TypeOK
  <2>3. HandsOf(t)' /\ (Carries(t)' => Carries(t))
    BY <1>2, <2>1, <2>2 DEF SecureWorker, HandsOf, Carries, HandingOff
  <2>4. UNCHANGED <<size, buffer, source, current, arg, runs, dispatched, load>>
    BY <1>2 DEF SecureWorker
  <2>. HIDE DEF l
  <2>. QED BY <2>1, <2>2, <2>3, <2>4, QuietStep DEF l
<1>3. CASE RetrySecure(t)
  <2>1. pc[t] = "secure" /\ pc' = [pc EXCEPT ![t] = "secure"] /\ pc'[t] = "secure"
    BY <1>0, <1>3 DEF RetrySecure
  <2>2. HandsOf(t)' /\ (Carries(t)' => Carries(t))
    BY <1>3, <2>1 DEF RetrySecure, HandsOf, Carries, HandingOff
  <2>. QED BY <1>3, <2>1, <2>2, QuietStep DEF RetrySecure, Label
<1>4. CASE NobodyIdle(t)
  <2>. DEFINE l == IF HandingOff(t) THEN "scan" ELSE "count"
  <2>1. pc[t] = "secure" /\ pc' = [pc EXCEPT ![t] = l] /\ pc'[t] = l /\ l \in Label
    BY <1>0, <1>4 DEF NobodyIdle, Label
  <2>2. \A u \in Thread : u # t => target'[u] = target[u]
    BY <1>0, <1>4 DEF NobodyIdle
  <2>3. HandsOf(t)' /\ (Carries(t)' => Carries(t))
    BY <1>4, <2>1 DEF NobodyIdle, HandsOf, Carries, HandingOff
  <2>4. UNCHANGED <<size, buffer, source, current, arg, runs, dispatched, load>>
    BY <1>4 DEF NobodyIdle
  <2>. HIDE DEF l
  <2>. QED BY <2>1, <2>2, <2>3, <2>4, QuietStep DEF l
<1>. QED BY <1>1, <1>2, <1>3, <1>4

LEMMA TellingPlaces ==
    ASSUME TypeInv, Places, NEW t \in Thread, CountTask(t) \/ Notify(t)
    PROVE  Places'
<1>. USE DEF Places, Goto, At, sharedVars, stackVars, historyVars
<1>0. TypeOK /\ pc \in [Thread -> Label] /\ HoldsTask
  BY DEF TypeInv, TypeOK
<1>1. CASE CountTask(t)
  <2>1. pc[t] = "count" /\ pc' = [pc EXCEPT ![t] = "push"] /\ pc'[t] = "push"
    BY <1>0, <1>1 DEF CountTask
  <2>2. ~HandingOff(t)
    BY <1>0, <2>1, ThreadFacts DEF HoldsTask, HandingOff
  <2>3. HandsOf(t)' /\ (Carries(t)' => Carries(t))
    BY <1>1, <2>1, <2>2 DEF CountTask, HandsOf, Carries, HandingOff
  <2>4. UNCHANGED <<size, buffer, source, current, arg, runs, dispatched, load, target>>
    BY <1>1 DEF CountTask
  <2>. QED BY <2>1, <2>3, <2>4, QuietStep DEF Label
<1>2. CASE Notify(t)
  <2>. DEFINE l == AfterPush(t)
  <2>1. pc[t] = "notify" /\ pc' = [pc EXCEPT ![t] = l] /\ pc'[t] = l /\ l \in {"dispatch", "run", "share"}
        /\ (l = "share" => HandingOff(t))
    BY <1>0, <1>2 DEF Notify, AfterPush
  <2>2. HandsOf(t)' /\ (Carries(t)' => Carries(t))
    BY <1>2, <2>1 DEF Notify, HandsOf, Carries, HandingOff
  <2>3. UNCHANGED <<size, buffer, source, current, arg, runs, dispatched, load, target>>
    BY <1>2 DEF Notify
  <2>. HIDE DEF l
  <2>. QED BY <2>1, <2>2, <2>3, QuietStep DEF Label
<1>. QED BY <1>1, <1>2

(* The steps of a worker that bring no task anywhere. *)
LEMMA IdlingPlaces ==
    ASSUME TypeInv, Places, NEW w \in Worker,
           Wake(w) \/ StackEmpty(w) \/ ClearHasWork(w) \/ ListAsIdle(w) \/ ShareBacklog(w)
    PROVE  Places'
<1>. USE DEF Places
<1>0. pc \in [Thread -> Label] /\ w \in Thread /\ w # Main
  BY ThreadFacts DEF TypeInv, TypeOK
<1>1. PICK l \in Label :
        /\ pc[w] \in {"wait", "scan", "clear", "list", "share"}
        /\ l \in {"wait", "scan", "clear", "list", "load"}
        /\ pc' = [pc EXCEPT ![w] = l] /\ pc'[w] = l
  BY <1>0 DEF Wake, StackEmpty, ClearHasWork, ListAsIdle, ShareBacklog, Goto, At, Label
<1>2. UNCHANGED <<size, buffer, source, current, arg, runs, dispatched, load, target>>
  BY DEF Wake, StackEmpty, ClearHasWork, ListAsIdle, ShareBacklog, stackVars, historyVars
<1>3. HandingOff(w) /\ HandingOff(w)'
  BY <1>0, <1>1, <1>2 DEF Hands, HandsOf, HandingOff
<1>4. HandsOf(w)' /\ (Carries(w)' => Carries(w))
  BY <1>1, <1>2, <1>3 DEF HandsOf, Carries
<1>. QED BY <1>0, <1>1, <1>2, <1>4, QuietStep

LEMMA PopLoadPlaces ==
    ASSUME TypeInv, Places, NEW w \in Worker, PopLoad(w)
    PROVE  Places'
<1>. USE DEF Places
<1>0. pc \in [Thread -> Label] /\ load \in [Thread -> Nat] /\ w \in Thread /\ w # Main
  BY ThreadFacts DEF TypeInv, TypeOK
<1>1. pc[w] = "pop" /\ pc' = [pc EXCEPT ![w] = "popped"] /\ pc'[w] = "popped"
      /\ load' = [load EXCEPT ![w] = size[w]]
  BY <1>0 DEF PopLoad, Goto, At
<1>2. UNCHANGED <<size, buffer, source, current, arg, runs, dispatched, target>>
  BY DEF PopLoad, stackVars, historyVars
<1>3. load'[w] = size[w] /\ \A u \in Thread : u # w => load'[u] = load[u]
  BY <1>0, <1>1
<1>4. HandingOff(w)' <=> HandingOff(w)
  BY <1>2 DEF HandingOff
<1>5. Live(w)' = Live(w) /\ (Carries(w)' => Carries(w))
  BY <1>1, <1>2, <1>4 DEF Carries, Live
<1>6. HandsOf(w)
  BY <1>0 DEF Hands
<1>7. HandsOf(w)'
  BY <1>1, <1>2, <1>3, <1>4, <1>5, <1>6 DEF HandsOf
<1>. QED BY <1>0, <1>1, <1>2, <1>3, <1>5, <1>7, QuietStep DEF Label

(* The steps of main outside enqueue. *)
LEMMA MainPlaces ==
    ASSUME TypeInv, Places, BeginGroup \/ CallWait \/ WaitReturns
    PROVE  Places'
<1>. USE DEF Places
<1>0. pc \in [Thread -> Label] /\ Main \in Thread /\ Main \notin Worker
  BY ThreadFacts DEF TypeInv, TypeOK
<1>1. PICK l \in Label :
        /\ l \in {"dispatch", "await", "done", "begin"}
        /\ pc' = [pc EXCEPT ![Main] = l] /\ pc'[Main] = l
  BY <1>0 DEF BeginGroup, CallWait, WaitReturns, Goto, At, Label
<1>2. UNCHANGED <<size, buffer, source, current, arg, runs, dispatched, load, target>>
  BY DEF BeginGroup, CallWait, WaitReturns, stackVars, historyVars
<1>3. HandsOf(Main)' /\ (Carries(Main)' => Carries(Main))
  BY <1>0, <1>1, <1>2 DEF HandsOf, Carries
<1>. QED BY <1>0, <1>1, <1>2, <1>3, QuietStep

(* Writing a slot changes that slot. *)
LEMMA PutSlots ==
    ASSUME NEW b \in Seq(Task), NEW i \in 1 .. Len(b) + 1, NEW x \in Task
    PROVE  /\ Put(b, i, x)[i] = x
           /\ \A j \in 1 .. Len(b) : j # i => Put(b, i, x)[j] = b[j]
<1>1. CASE i = Len(b) + 1
  BY <1>1, SMT DEF Put
<1>2. CASE i # Len(b) + 1
  BY <1>2, SMT DEF Put
<1>. QED BY <1>1, <1>2

(* The task is written above the top of the stack, where nobody looks.     *)
LEMMA PushWritePlaces ==
    ASSUME TypeInv, OwnInv, Places, ~overflowed, NEW t \in Thread, PushWrite(t)
    PROVE  Places'
<1>. DEFINE d == Dest(t)
            x == IF HandingOff(t) THEN buffer[t][source[t]] ELSE arg[t]
<1>0. /\ pc \in [Thread -> Label] /\ load \in [Thread -> Nat] /\ buffer \in [Worker -> Seq(Task)]
      /\ \A w \in Worker : size[w] \in Nat /\ Len(buffer[w]) \in Nat /\ size[w] <= Len(buffer[w])
      /\ Hands /\ Ledger
  BY StackTypes DEF TypeInv, TypeOK, Places
<1>1. /\ pc[t] = "push" /\ pc' = [pc EXCEPT ![t] = "commit"] /\ pc'[t] = "commit"
      /\ buffer' = [buffer EXCEPT ![d] = Put(@, size[d] + 1, x)]
      /\ load' = [load EXCEPT ![t] = size[d]]
      /\ UNCHANGED <<size, target, arg, source, current, runs, dispatched>>
  BY <1>0 DEF PushWrite, Goto, At, historyVars
<1>2. d \in Worker /\ (d # t => pc[d] = "wait")
  BY <1>1, PusherHolds
<1>3. x \in Task
  <2>1. HandingOff(t) => t \in Worker
    BY ThreadFacts DEF HandingOff
  <2>2. HandingOff(t) => source[t] \in 1 .. Len(buffer[t])
    BY <1>1, <2>1 DEF TypeInv, IndexBounds
  <2>3. ~HandingOff(t) => arg[t] \in Task
    BY <1>1 DEF TypeInv, HoldsTask
  <2>. QED BY <2>1, <2>2, <2>3, StackTypes DEF TypeInv
<1>4. HandingOff(t) => d # t
  <2>1. HandingOff(t) => target[t] \in Worker
    BY <1>0, <1>1 DEF Hands, HandsOf
  <2>2. HandingOff(t) => d = target[t]
    BY <2>1, ThreadFacts DEF Dest
  <2>3. HandingOff(t) => Holds(t, d)
    BY <1>1, <2>2 DEF Holds
  <2>4. Held(d)
    BY <1>2 DEF OwnInv, OwnerInv, Guarded
  <2>. QED BY <1>1, <2>3, <2>4 DEF Held, At
<1>5. size[d] + 1 \in 1 .. Len(buffer[d]) + 1
  BY <1>0, <1>2
<1>. HIDE DEF d, x
<1>6. /\ buffer'[d][size[d] + 1] = x
      /\ \A j \in 1 .. Len(buffer[d]) : j # size[d] + 1 => buffer'[d][j] = buffer[d][j]
      /\ \A w \in Worker : w # d => buffer'[w] = buffer[w]
  <2>1. buffer'[d] = Put(buffer[d], size[d] + 1, x)
    BY <1>0, <1>1, <1>2
  <2>2. buffer[d] \in Seq(Task)
    BY <1>0, <1>2
  <2>3. \A w \in Worker : w # d => buffer'[w] = buffer[w]
    BY <1>0, <1>1
  <2>. QED BY <1>3, <1>5, <2>1, <2>2, <2>3, PutSlots
<1>7. HandsOf(t)'
  <2>1. HandingOff(t)' <=> HandingOff(t)
    BY <1>1 DEF HandingOff
  <2>2. Dest(t)' = d /\ load'[t] = size[d]
    BY <1>0, <1>1 DEF Dest, d
  <2>3. Carried(t)' = x
    <3>1. HandingOff(t) => t \in Worker
      BY ThreadFacts DEF HandingOff
    <3>. QED BY <1>1, <1>4, <1>6, <2>1, <3>1 DEF Carried, x
  <2>4. HandingOff(t) => source[t] = Live(t) + 1 /\ Live(t)' = Live(t)
    BY <1>0, <1>1 DEF Hands, HandsOf, Live
  <2>5. HandingOff(t) => target[t] \in Worker
    BY <1>0, <1>1 DEF Hands, HandsOf
  <2>. QED BY <1>1, <1>6, <2>1, <2>2, <2>3, <2>4, <2>5 DEF HandsOf
<1>8. ASSUME NEW u \in Thread, u # t PROVE HandsOf(u)'
  <2>1. /\ pc'[u] = pc[u] /\ load'[u] = load[u]
    BY <1>0, <1>1, <1>8
  <2>2. HandsOf(u)
    BY <1>0 DEF Hands
  <2>3. HandingOff(u) /\ pc[u] = "commit" => buffer'[u][source[u]] = buffer[u][source[u]]
    <3>1. HandingOff(u) => u \in Worker
      BY ThreadFacts DEF HandingOff
    <3>2. pc[u] = "commit" => u # d
      BY <1>2, <1>8
    <3>. QED BY <1>6, <3>1, <3>2
  <2>4. pc[u] = "commit" => Dest(u) # d /\ Dest(u) \in Worker
    BY <1>1, <1>8, PushersApart, PusherHolds DEF d
  <2>5. pc[u] = "commit" => buffer'[Dest(u)][load[u] + 1] = buffer[Dest(u)][load[u] + 1]
    BY <1>6, <2>4
  <2>. QED BY <1>1, <2>1, <2>2, <2>3, <2>5, OthersHands
<1>9. ASSUME NEW u \in Thread, NEW k \in Slot, Occupied(u, k)'
      PROVE  Occupied(u, k) /\ Content(u, k)' = Content(u, k)
  <2>1. u \in Worker => \A i \in Slot : i >= 1 /\ i <= Live(u) => buffer'[u][i] = buffer[u][i]
    <3>1. SUFFICES ASSUME u = d, NEW i \in Slot, i >= 1, i <= Live(u) PROVE buffer'[d][i] = buffer[d][i]
      BY <1>6
    <3>2. i <= size[d]
      BY <1>0, <1>2, <3>1 DEF Live, Slot
    <3>3. i \in 1 .. Len(buffer[d]) /\ i # size[d] + 1
      BY <1>0, <1>2, <3>1, <3>2 DEF Slot
    <3>. QED BY <1>6, <3>3
  <2>2. HandingOff(u) /\ Carries(u) => buffer'[u][source[u]] = buffer[u][source[u]]
    <3>1. HandingOff(u) => u \in Worker
      BY ThreadFacts DEF HandingOff
    <3>2. HandingOff(u) /\ Carries(u) => u # d
      BY <1>2, <1>4 DEF Carries
    <3>. QED BY <1>6, <3>1, <3>2
  <2>3. CASE u # t
    <3>1. pc'[u] = pc[u]
      BY <1>0, <1>1, <2>3
    <3>. QED BY <1>1, <1>9, <2>1, <2>2, <3>1, PlacesStay
  <2>4. CASE u = t
    <3>1. HandingOff(t)' <=> HandingOff(t)
      BY <1>1 DEF HandingOff
    <3>2. Carries(t) /\ Carried(t)' = Carried(t)
      BY <1>1, <2>2, <2>4, <3>1 DEF Carries, Carried
    <3>3. t \in Worker => Live(t)' = Live(t) /\ (Doing(t)' <=> Doing(t))
      BY <1>1 DEF Live, Doing
    <3>4. Occupied(t, k)
      BY <1>9, <2>4, <3>2, <3>3 DEF Occupied
    <3>5. Content(t, k)' = Content(t, k)
      <4>1. CASE k = 0
        BY <3>2, <4>1 DEF Content
      <4>2. CASE k = -1
        BY <1>1, <4>2 DEF Content
      <4>3. CASE k # 0 /\ k # -1
        BY <2>1, <2>4, <3>4, <4>3 DEF Content, Occupied
      <4>. QED BY <4>1, <4>2, <4>3
    <3>. QED BY <2>4, <3>4, <3>5
  <2>. QED BY <2>3, <2>4
<1>10. Ledger'
  BY <1>0, <1>1, <1>9, SamePlaces DEF Pending
<1>. QED BY <1>7, <1>8, <1>10 DEF Places, Hands

(* The new size makes the slot written a place, and the hands are empty.   *)
LEMMA PushCommitPlaces ==
    ASSUME TypeInv, OwnInv, Places, ~overflowed, NEW t \in Thread, PushCommit(t)
    PROVE  Places'
<1>. DEFINE l == IF target[t] = NoWorker /\ t # Main THEN AfterPush(t) ELSE "notify"
<1>0. /\ pc \in [Thread -> Label] /\ \A w \in Worker : size[w] \in Nat
      /\ size \in [Worker -> Nat] /\ Hands /\ Ledger
  BY DEF TypeInv, TypeOK, Places
<1>2. PICK d \in Worker : d = Dest(t) /\ d \in Thread /\ (d # t => pc[d] = "wait")
  BY PusherHolds, ThreadFacts DEF PushCommit, At
<1>1. /\ pc[t] = "commit" /\ pc' = [pc EXCEPT ![t] = l] /\ pc'[t] = l
      /\ l \in {"dispatch", "run", "share", "notify"} /\ (l = "share" => HandingOff(t))
      /\ size' = [size EXCEPT ![d] = load[t] + 1]
      /\ UNCHANGED <<buffer, target, load, arg, source, current, runs, dispatched>>
  BY <1>0, <1>2 DEF PushCommit, Goto, At, historyVars, AfterPush
<1>3. load[t] = size[d] /\ buffer[d][size[d] + 1] = Carried(t)
  BY <1>0, <1>1, <1>2 DEF Hands, HandsOf
<1>. HIDE DEF l
<1>4. size'[d] = size[d] + 1 /\ size[d] \in Nat /\ \A w \in Worker : w # d => size'[w] = size[w]
  BY <1>0, <1>1, <1>2, <1>3
<1>k. PICK k1 \in Slot : k1 = size[d] + 1 /\ k1 >= 1
  BY <1>4 DEF Slot
<1>5. HandsOf(t)'
  <2>1. HandingOff(t)' <=> HandingOff(t)
    BY <1>1 DEF HandingOff
  <2>. QED BY <1>1, <2>1 DEF HandsOf
<1>6. ASSUME NEW u \in Thread, u # t PROVE HandsOf(u)'
  <2>1. pc'[u] = pc[u] /\ HandsOf(u)
    BY <1>0, <1>1, <1>6 DEF Hands
  <2>2. u \in Worker /\ pc[u] \in {"pop", "popped", "push", "commit"} => size'[u] = size[u]
    BY <1>2, <1>4, <1>6
  <2>3. pc[u] = "commit" => Dest(u) # d /\ Dest(u) \in Worker
    BY <1>1, <1>2, <1>6, PushersApart, PusherHolds
  <2>. QED BY <1>1, <1>4, <2>1, <2>2, <2>3, OthersHands
<1>7. ASSUME NEW u \in Thread, NEW k \in Slot, ~(u = d /\ k = k1), Occupied(u, k)'
      PROVE  Occupied(u, k) /\ Content(u, k)' = Content(u, k)
  <2>1. CASE u # t /\ u # d
    <3>1. pc'[u] = pc[u] /\ (u \in Worker => size'[u] = size[u])
      BY <1>0, <1>1, <1>4, <2>1
    <3>. QED BY <1>1, <1>7, <3>1, PlacesStay
  <2>2. CASE u = t \/ u = d
    <3>1. ~Carries(u)'
      BY <1>0, <1>1, <1>2, <2>2 DEF Carries
    <3>2. u \in Worker => (Doing(u)' => Doing(u))
      BY <1>0, <1>1, <2>2 DEF Doing
    <3>3. u \in Worker => Live(u) = size[u] /\ Live(u)' = size'[u]
      BY <1>0, <1>1, <1>2, <2>2 DEF Live
    <3>4. k >= 1 /\ u \in Worker /\ k <= Live(u)' => k <= Live(u)
      BY <1>4, <1>k, <1>7, <3>3 DEF Slot
    <3>5. Content(u, k)' = Content(u, k) \/ k = 0
      BY <1>1 DEF Content
    <3>. QED BY <1>7, <3>1, <3>2, <3>4, <3>5 DEF Occupied
  <2>. QED BY <2>1, <2>2
<1>8. Occupied(t, 0) /\ ~Occupied(t, 0)'
  <2>1. Carries(t)
    BY <1>1 DEF Carries
  <2>2. ~Carries(t)'
    BY <1>1 DEF Carries
  <2>. QED BY <2>1, <2>2 DEF Occupied
<1>9. ~Occupied(d, k1)
  BY <1>4, <1>k DEF Occupied, Live
<1>10. Content(d, k1)' = Content(t, 0)
  <2>1. Content(d, k1)' = buffer[d][k1]
    BY <1>1, <1>k DEF Content, Slot
  <2>. QED BY <1>3, <1>k, <2>1 DEF Content
<1>11. Ledger'
  <2>1. Pending' = Pending /\ 0 \in Slot
    BY <1>1 DEF Pending, Slot
  <2>. QED BY <1>0, <1>2, <1>7, <1>8, <1>9, <1>10, <2>1, MovedPlace
<1>. QED BY <1>5, <1>6, <1>11 DEF Places, Hands

(* The slot popped was no place any more. *)
LEMMA PopStorePlaces ==
    ASSUME TypeInv, OwnInv, Places, ~overflowed, NEW w \in Worker, PopStore(w)
    PROVE  Places'
<1>. DEFINE l == IF HandingOff(w) THEN "push" ELSE "run"
<1>0. /\ pc \in [Thread -> Label] /\ size \in [Worker -> Nat] /\ Hands /\ Ledger
      /\ w \in Thread /\ w # Main
  BY ThreadFacts DEF TypeInv, TypeOK, Places
<1>1. /\ pc[w] = "popped" /\ pc' = [pc EXCEPT ![w] = l] /\ pc'[w] = l
      /\ UNCHANGED <<buffer, target, load, arg, source, current, runs, dispatched>>
  BY <1>0 DEF PopStore, Goto, At, historyVars
<1>2. load[w] = size[w] /\ size[w] >= 1 /\ size[w] \in Nat
  BY <1>0, <1>1 DEF Hands, HandsOf
<1>3. size' = [size EXCEPT ![w] = size[w] - 1]
  <2>1. load[w] > 0
    BY <1>2
  <2>. QED BY <1>2, <2>1 DEF PopStore
<1>4. size'[w] = size[w] - 1 /\ \A v \in Worker : v # w => size'[v] = size[v]
  BY <1>0, <1>3
<1>5. HandingOff(w)' <=> HandingOff(w)
  BY <1>1 DEF HandingOff
<1>6. Live(w)' = Live(w)
  BY <1>1, <1>4 DEF Live
<1>7. HandsOf(w)'
  <2>1. HandsOf(w)
    BY <1>0 DEF Hands
  <2>. QED BY <1>1, <1>5, <1>6, <2>1 DEF HandsOf
<1>8. ASSUME NEW u \in Thread, u # w PROVE HandsOf(u)'
  <2>1. pc'[u] = pc[u] /\ HandsOf(u)
    BY <1>0, <1>1, <1>8 DEF Hands
  <2>2. pc[u] = "commit" => Dest(u) # w /\ Dest(u) \in Worker
    BY <1>1, <1>8, AwakeIsAlone, PusherHolds
  <2>. QED BY <1>1, <1>4, <1>8, <2>1, <2>2, OthersHands
<1>9. ASSUME NEW u \in Thread, NEW k \in Slot, Occupied(u, k)'
      PROVE  Occupied(u, k) /\ Content(u, k)' = Content(u, k)
  <2>1. CASE u # w
    <3>1. pc'[u] = pc[u] /\ (u \in Worker => size'[u] = size[u])
      BY <1>0, <1>1, <1>4, <2>1
    <3>. QED BY <1>1, <1>9, <3>1, PlacesStay
  <2>2. CASE u = w
    <3>1. (Carries(w)' => Carries(w)) /\ (Doing(w)' => Doing(w))
      BY <1>1, <1>5 DEF Carries, Doing
    <3>2. Content(w, k)' = Content(w, k)
      BY <1>1, <1>5 DEF Content, Carried
    <3>. QED BY <1>6, <1>9, <2>2, <3>1, <3>2 DEF Occupied
  <2>. QED BY <2>1, <2>2
<1>10. Ledger'
  BY <1>0, <1>1, <1>9, SamePlaces DEF Pending
<1>. QED BY <1>7, <1>8, <1>10 DEF Places, Hands

(* A step of a worker that takes a task from the top of its stack.         *)
LEMMA TopPlaces ==
    ASSUME TypeInv, OwnInv, Places, ~overflowed, NEW w \in Worker, TakeTask(w) \/ PointToLast(w)
    PROVE  Places'
<1>0. /\ pc \in [Thread -> Label] /\ size \in [Worker -> Nat] /\ Hands /\ Ledger
      /\ w \in Thread /\ w # Main /\ size[w] \in Nat
      /\ current \in [Worker -> Task \cup {NoTask}] /\ source \in [Worker -> Nat]
  BY ThreadFacts DEF TypeInv, TypeOK, Places
<1>1. /\ pc[w] \in {"scan", "give"} /\ pc' = [pc EXCEPT ![w] = "pop"] /\ pc'[w] = "pop"
      /\ UNCHANGED <<buffer, size, target, load, arg, runs, dispatched>>
  BY <1>0 DEF TakeTask, PointToLast, Goto, At, historyVars, stackVars
<1>2. HandingOff(w) /\ (pc[w] = "give" => target[w] \in Worker)
  BY <1>0, <1>1 DEF Hands, HandsOf
<1>3. size[w] >= 1
  BY <1>0, <1>2 DEF TakeTask, PointToLast, At, TypeInv, IndexBounds
<1>4. /\ \A v \in Worker : v # w => current'[v] = current[v] /\ source'[v] = source[v]
      /\ TakeTask(w) => current'[w] = buffer[w][size[w]] /\ current'[w] \in Task /\ pc[w] = "scan"
      /\ PointToLast(w) => source'[w] = size[w] /\ current'[w] = NoTask /\ pc[w] = "give"
  <2>1. buffer[w][size[w]] \in Task
    BY <1>0, <1>3, StackTypes DEF TypeInv
  <2>. QED BY <1>0, <1>2, <2>1 DEF TakeTask, PointToLast, HandingOff, At
<1>5. Live(w) = size[w] /\ Live(w)' = size[w] - 1
  BY <1>1 DEF Live
<1>6. NoTask \notin Task
  BY PoolAssumption
<1>7. HandsOf(w)'
  BY <1>0, <1>1, <1>2, <1>3, <1>4, <1>5, <1>6 DEF HandsOf, HandingOff
<1>8. ASSUME NEW u \in Thread, u # w PROVE HandsOf(u)'
  <2>1. pc'[u] = pc[u] /\ HandsOf(u)
    BY <1>0, <1>1, <1>8 DEF Hands
  <2>. QED BY <1>1, <1>4, <1>8, <2>1, OthersHands
<1>9. PICK k1 \in {0, -1} : (TakeTask(w) => k1 = -1) /\ (PointToLast(w) => k1 = 0)
  BY <1>4
<1>k. PICK k0 \in Slot : k0 = size[w] /\ k0 >= 1
  BY <1>0, <1>3 DEF Slot
<1>10. ASSUME NEW u \in Thread, NEW k \in Slot, ~(u = w /\ k = k1), Occupied(u, k)'
      PROVE  Occupied(u, k) /\ Content(u, k)' = Content(u, k)
  <2>1. CASE u # w
    <3>1. pc'[u] = pc[u]
      BY <1>0, <1>1, <2>1
    <3>. QED BY <1>1, <1>4, <1>10, <2>1, <3>1, PlacesStay
  <2>2. CASE u = w
    <3>1. k # 0 /\ k # -1
      <4>1. TakeTask(w) => ~Carries(w)'
        BY <1>1, <1>4, <1>6 DEF Carries, HandingOff
      <4>2. PointToLast(w) => ~Doing(w)'
        BY <1>4 DEF Doing
      <4>. QED BY <1>9, <1>10, <2>2, <4>1, <4>2 DEF Occupied
    <3>2. k <= Live(w) /\ Content(w, k)' = Content(w, k)
      BY <1>0, <1>1, <1>5, <1>10, <2>2, <3>1 DEF Occupied, Content, Slot
    <3>. QED BY <1>10, <2>2, <3>1, <3>2 DEF Occupied
  <2>. QED BY <2>1, <2>2
<1>11. Occupied(w, k0) /\ ~Occupied(w, k0)'
  BY <1>5, <1>k DEF Occupied, Slot
<1>12. ~Occupied(w, k1)
  <2>1. ~Doing(w) /\ ~Carries(w)
    BY <1>1, <1>2 DEF Doing, Carries, HandingOff
  <2>. QED BY <1>9, <2>1 DEF Occupied
<1>13. Content(w, k1)' = Content(w, k0)
  <2>1. Content(w, k0) = buffer[w][size[w]]
    BY <1>k DEF Content, Slot
  <2>2. CASE TakeTask(w)
    BY <1>4, <1>9, <2>1, <2>2 DEF Content
  <2>3. CASE PointToLast(w)
    <3>1. Content(w, k1)' = buffer'[w][source'[w]]
      BY <1>0, <1>4, <1>9, <2>3 DEF Content, Carried, HandingOff
    <3>. QED BY <1>1, <1>4, <2>1, <2>3, <3>1
  <2>. QED BY <2>2, <2>3
<1>14. Ledger'
  <2>1. Pending' = Pending /\ k1 \in Slot
    BY <1>1 DEF Pending, Slot
  <2>. QED BY <1>0, <1>10, <1>11, <1>12, <1>13, <2>1, MovedPlace
<1>. QED BY <1>7, <1>8, <1>14 DEF Places, Hands
(* A task function returns: its task has run, and is in no place any more. *)
LEMMA TaskReturnsPlaces ==
    ASSUME TypeInv, Places, NEW w \in Worker, TaskReturns(w)
    PROVE  /\ Places'
           /\ current[w] \in Pending
           /\ Pending' = Pending \ {current[w]}
<1>0. /\ pc \in [Thread -> Label] /\ runs \in [Task -> 0 .. 2] /\ dispatched \subseteq Task
      /\ w \in Thread /\ w # Main /\ Hands /\ Ledger
  BY ThreadFacts DEF TypeInv, TypeOK, Places
<1>1. /\ pc[w] = "run" /\ pc' = [pc EXCEPT ![w] = "finish"] /\ pc'[w] = "finish"
      /\ UNCHANGED <<size, buffer, target, load, arg, source, current, dispatched>>
  BY <1>0 DEF TaskReturns, Goto, At, stackVars
<1>2. PICK x \in Task : x = current[w]
  BY <1>0, <1>1 DEF TypeInv, TypeOK, HoldsTask, HandingOff
<1>3. runs' = [runs EXCEPT ![x] = IF runs[x] < 2 THEN runs[x] + 1 ELSE runs[x]]
  BY <1>2 DEF TaskReturns
<1>4. x # NoTask /\ runs[x] \in 0 .. 2
  BY <1>0, PoolAssumption
<1>5. runs'[x] > 0 /\ \A y \in Task : y # x => runs'[y] = runs[y]
  BY <1>0, <1>3, <1>4
<1>6. Pending' = Pending \ {x}
  BY <1>0, <1>1, <1>5 DEF Pending
<1>7. Occupied(w, -1) /\ Content(w, -1) = x /\ -1 \in Slot
  BY <1>0, <1>1, <1>2, <1>4 DEF Occupied, Content, Doing, Slot
<1>8. HandsOf(w)'
  BY <1>1 DEF HandsOf
<1>9. ASSUME NEW u \in Thread, u # w PROVE HandsOf(u)'
  <2>1. pc'[u] = pc[u] /\ HandsOf(u)
    BY <1>0, <1>1, <1>9 DEF Hands
  <2>. QED BY <1>1, <2>1, OthersHands
<1>10. ASSUME NEW u \in Thread, NEW k \in Slot, Occupied(u, k)'
       PROVE  Occupied(u, k) /\ Content(u, k)' = Content(u, k) /\ ~(u = w /\ k = -1)
  <2>1. CASE u # w
    <3>1. pc'[u] = pc[u]
      BY <1>0, <1>1, <2>1
    <3>2. Occupied(u, k) /\ Content(u, k)' = Content(u, k)
      BY <1>1, <1>10, <3>1, PlacesStay
    <3>. QED BY <2>1, <3>2
  <2>2. CASE u = w
    <3>1. ~Carries(w)' /\ ~Doing(w)' /\ Live(w)' = Live(w)
      BY <1>1 DEF Carries, Doing, Live
    <3>2. k # 0 /\ k # -1
      BY <1>10, <2>2, <3>1 DEF Occupied
    <3>3. Content(w, k)' = Content(w, k)
      BY <1>1, <3>2 DEF Content
    <3>. QED BY <1>10, <2>2, <3>1, <3>2, <3>3 DEF Occupied
  <2>. QED BY <2>1, <2>2
<1>11. Ledger'
  <2>1. ASSUME NEW u \in Thread, NEW k \in Slot, Occupied(u, k)' PROVE Content(u, k)' \in Pending'
    <3>1. Occupied(u, k) /\ Content(u, k)' = Content(u, k) /\ ~(u = w /\ k = -1)
      BY <1>10, <2>1
    <3>2. Content(u, k) \in Pending /\ Content(u, k) # x
      BY <1>0, <1>7, <3>1 DEF Ledger
    <3>. QED BY <1>6, <3>1, <3>2
  <2>2. ASSUME NEW t \in Thread, NEW u \in Thread, NEW j \in Slot, NEW k \in Slot,
               Occupied(t, j)', Occupied(u, k)', Content(t, j)' = Content(u, k)'
        PROVE  t = u /\ j = k
    BY <1>0, <1>10, <2>2 DEF Ledger
  <2>. QED BY <2>1, <2>2 DEF Ledger, Slot
<1>12. x \in Pending
  BY <1>0, <1>7 DEF Ledger
<1>. QED BY <1>2, <1>6, <1>8, <1>9, <1>11, <1>12 DEF Places, Hands

(* fetch_sub: the worker's task is in no place already.                    *)
LEMMA FinishTaskPlaces ==
    ASSUME TypeInv, Places, NEW w \in Worker, FinishTask(w)
    PROVE  Places'
<1>0. /\ pc \in [Thread -> Label] /\ current \in [Worker -> Task \cup {NoTask}]
      /\ w \in Thread /\ w # Main /\ Hands /\ Ledger
  BY ThreadFacts DEF TypeInv, TypeOK, Places
<1>1. /\ pc[w] = "finish" /\ pc' = [pc EXCEPT ![w] = "share"] /\ pc'[w] = "share"
      /\ current' = [current EXCEPT ![w] = NoTask] /\ current'[w] = NoTask
      /\ UNCHANGED <<size, buffer, target, load, arg, source, dispatched, runs>>
  BY <1>0 DEF FinishTask, Goto, At, stackVars, historyVars
<1>2. HandsOf(w)'
  BY <1>0, <1>1 DEF HandsOf, HandingOff
<1>3. \A u \in Thread : u # w => pc'[u] = pc[u] /\ (u \in Worker => current'[u] = current[u])
  BY <1>0, <1>1
<1>4. ASSUME NEW u \in Thread, u # w PROVE HandsOf(u)'
  <2>1. HandsOf(u)
    BY <1>0 DEF Hands
  <2>. QED BY <1>1, <1>3, <1>4, <2>1, OthersHands
<1>5. ASSUME NEW u \in Thread, NEW k \in Slot, Occupied(u, k)'
      PROVE  Occupied(u, k) /\ Content(u, k)' = Content(u, k)
  <2>1. CASE u # w
    BY <1>1, <1>3, <1>5, <2>1, PlacesStay
  <2>2. CASE u = w
    <3>1. ~Carries(w)' /\ ~Doing(w)' /\ Live(w)' = Live(w)
      BY <1>1 DEF Carries, Doing, Live
    <3>2. k # 0 /\ k # -1
      BY <1>5, <2>2, <3>1 DEF Occupied
    <3>3. Content(w, k)' = Content(w, k)
      BY <1>1, <3>2 DEF Content
    <3>. QED BY <1>5, <2>2, <3>1, <3>2, <3>3 DEF Occupied
  <2>. QED BY <2>1, <2>2
<1>6. Ledger'
  BY <1>0, <1>1, <1>5, SamePlaces DEF Pending
<1>. QED BY <1>2, <1>4, <1>6 DEF Places, Hands

(* A dispatch that is skipped, and every other step that changes nothing   *)
(* of stacks, hands and tasks.                                             *)
LEMMA NothingMoves ==
    ASSUME Places, UNCHANGED <<pc, size, buffer, target, load, arg, source, current, dispatched, runs>>
    PROVE  Places' /\ Pending' = Pending
<1>1. Hands'
  BY OthersHands DEF Places, Hands
<1>2. Pending' = Pending
  BY DEF Pending
<1>3. Ledger'
  BY <1>2, SamePlaces, PlacesStay DEF Places
<1>. QED BY <1>1, <1>2, <1>3 DEF Places

(* The task a thread passes to enqueue is in its hands.                    *)
LEMMA DispatchPlaces ==
    ASSUME TypeInv, Places, NEW t \in Thread, NEW x \in Task, DispatchTask(t, x),
           ~HandingOff(t), pc[t] \in {"run", "dispatch"},
           ~(x \in Parse /\ status[x] # "DIRTY"), x \notin dispatched, runs[x] = 0
    PROVE  Places' /\ Pending' = Pending \cup {x} /\ x \notin Pending
<1>0. /\ pc \in [Thread -> Label] /\ arg \in [Thread -> Task \cup {NoTask}] /\ Hands /\ Ledger
  BY DEF TypeInv, TypeOK, Places
<1>1. /\ pc' = [pc EXCEPT ![t] = "load"] /\ arg' = [arg EXCEPT ![t] = x]
      /\ dispatched' = dispatched \cup {x}
      /\ UNCHANGED <<size, buffer, target, load, source, current, runs>>
  BY DEF DispatchTask, Goto, stackVars
<1>2. /\ pc'[t] = "load" /\ arg'[t] = x
      /\ \A u \in Thread : u # t => pc'[u] = pc[u] /\ arg'[u] = arg[u]
  BY <1>0, <1>1
<1>3. Pending' = Pending \cup {x} /\ x \notin Pending
  BY <1>1 DEF Pending
<1>4. ~HandingOff(t)'
  BY <1>1 DEF HandingOff
<1>5. HandsOf(t)'
  BY <1>2, <1>4 DEF HandsOf
<1>6. ASSUME NEW u \in Thread, u # t PROVE HandsOf(u)'
  <2>1. HandsOf(u)
    BY <1>0 DEF Hands
  <2>. QED BY <1>1, <1>2, <1>6, <2>1, OthersHands
<1>7. Occupied(t, 0)' /\ Content(t, 0)' = x
  BY <1>2, <1>4 DEF Occupied, Carries, Content, Carried
<1>8. ASSUME NEW u \in Thread, NEW k \in Slot, ~(u = t /\ k = 0), Occupied(u, k)'
      PROVE  Occupied(u, k) /\ Content(u, k)' = Content(u, k)
  <2>1. CASE u # t
    BY <1>1, <1>2, <1>8, <2>1, PlacesStay
  <2>2. CASE u = t
    <3>1. k # 0
      BY <1>8, <2>2
    <3>2. t \in Worker => Live(t)' = Live(t) /\ (Doing(t)' => Doing(t))
      BY <1>1, <1>2 DEF Live, Doing
    <3>3. Content(t, k)' = Content(t, k)
      BY <1>1, <3>1 DEF Content
    <3>. QED BY <1>8, <2>2, <3>1, <3>2, <3>3 DEF Occupied
  <2>. QED BY <2>1, <2>2
<1>9. Ledger'
  <2>1. ASSUME NEW u \in Thread, NEW k \in Slot, Occupied(u, k)' PROVE Content(u, k)' \in Pending'
    <3>1. CASE u = t /\ k = 0
      BY <1>3, <1>7, <3>1
    <3>2. CASE ~(u = t /\ k = 0)
      BY <1>0, <1>3, <1>8, <2>1, <3>2 DEF Ledger
    <3>. QED BY <3>1, <3>2
  <2>2. ASSUME NEW u \in Thread, NEW v \in Thread, NEW j \in Slot, NEW k \in Slot,
               Occupied(u, j)', Occupied(v, k)', Content(u, j)' = Content(v, k)'
        PROVE  u = v /\ j = k
    <3>1. CASE ~(u = t /\ j = 0) /\ ~(v = t /\ k = 0)
      BY <1>0, <1>8, <2>2, <3>1 DEF Ledger
    <3>2. CASE u = t /\ j = 0 /\ ~(v = t /\ k = 0)
      <4>1. Content(v, k)' \in Pending
        BY <1>0, <1>8, <2>2, <3>2 DEF Ledger
      <4>. QED BY <1>3, <1>7, <2>2, <3>2, <4>1
    <3>3. CASE v = t /\ k = 0 /\ ~(u = t /\ j = 0)
      <4>1. Content(u, j)' \in Pending
        BY <1>0, <1>8, <2>2, <3>3 DEF Ledger
      <4>. QED BY <1>3, <1>7, <2>2, <3>3, <4>1
    <3>. QED BY <3>1, <3>2, <3>3
  <2>. QED BY <2>1, <2>2 DEF Ledger, Slot
<1>. QED BY <1>3, <1>5, <1>6, <1>9 DEF Places, Hands

-----------------------------------------------------------------------------
(* A thread that dispatches is main or inside a task function, and what it *)
(* dispatches is a form of its list.                                       *)
Dispatches(t, x) ==
    /\ t \in Thread /\ x \in Task /\ DispatchTask(t, x) /\ ~HandingOff(t)
    /\ \/ /\ t = Main /\ pc[Main] = "dispatch" /\ group \in DOMAIN Groups
          /\ next[Main] \in DOMAIN Groups[group] /\ x = Groups[group][next[Main]]
       \/ t # Main /\ pc[t] = "run" /\ x \in Parse

LEMMA WhoDispatches ==
    ASSUME TypeInv
    PROVE  /\ DispatchRoot => Dispatches(Main, Groups[group][next[Main]])
           /\ \A w \in Worker : DispatchImport(w) => Dispatches(w, Imports[current[w]][next[w]])
<1>0. next \in [Thread -> Nat \ {0}] /\ group \in 1 .. Len(Groups) + 1
  BY DEF TypeInv, TypeOK
<1>1. ASSUME DispatchRoot PROVE Dispatches(Main, Groups[group][next[Main]])
  <2>1. /\ pc[Main] = "dispatch" /\ next[Main] <= Len(Groups[group])
        /\ DispatchTask(Main, Groups[group][next[Main]])
    BY <1>1 DEF DispatchRoot, At
  <2>2. group \in 1 .. Len(Groups)
    BY <1>0, <2>1, DispatchedAreTasks DEF TypeInv, HoldsTask
  <2>3. next[Main] \in 1 .. Len(Groups[group]) /\ Groups[group][next[Main]] \in Task
    BY <1>0, <2>1, <2>2, ThreadFacts, DispatchedAreTasks
  <2>4. DOMAIN Groups = 1 .. Len(Groups) /\ DOMAIN Groups[group] = 1 .. Len(Groups[group])
    <3>1. Groups \in Seq(Seq(Task))
      BY PoolAssumption
    <3>2. Groups[group] \in Seq(Task)
      BY <2>2, <3>1
    <3>. QED BY <3>1, <3>2
  <2>5. ~HandingOff(Main)
    BY DEF HandingOff
  <2>. QED BY <2>1, <2>2, <2>3, <2>4, <2>5, ThreadFacts DEF Dispatches
<1>2. ASSUME NEW w \in Worker, DispatchImport(w) PROVE Dispatches(w, Imports[current[w]][next[w]])
  <2>1. pc[w] = "run" /\ next[w] <= Len(Imports[current[w]]) /\ w # Main /\ w \in Thread
        /\ DispatchTask(w, Imports[current[w]][next[w]])
    BY <1>2, ThreadFacts DEF DispatchImport, At
  <2>2. ~HandingOff(w) /\ current[w] \in Task
    BY <2>1 DEF TypeInv, TypeOK, HoldsTask, HandingOff
  <2>3. Imports[current[w]] \in Seq(Parse)
    BY <2>2, PoolAssumption
  <2>4. next[w] \in 1 .. Len(Imports[current[w]])
    BY <1>0, <2>1, <2>3
  <2>5. Imports[current[w]][next[w]] \in Parse
    BY <2>3, <2>4
  <2>. QED BY <2>1, <2>2, <2>5, DispatchedAreTasks DEF Dispatches
<1>. QED BY <1>1, <1>2

(* What gets past the guard has never been dispatched.                     *)
LEMMA FreshTask ==
    ASSUME TypeInv, DispatchedOnce, Once, NEW t, NEW x, Dispatches(t, x),
           ~(x \in Parse /\ status[x] # "DIRTY")
    PROVE  x \notin dispatched /\ runs[x] = 0
<1>1. x \in Task /\ runs[x] \in 0 .. 2
  BY DEF Dispatches, TypeInv, TypeOK
<1>2. CASE x \in Parse
  <2>1. x \notin dispatched
    BY <1>2 DEF Once
  <2>. QED BY <1>1, <2>1 DEF Once
<1>3. CASE x \notin Parse
  <2>1. /\ group \in DOMAIN Groups /\ next[Main] \in DOMAIN Groups[group]
        /\ x = Groups[group][next[Main]] /\ next[Main] \in Nat /\ group \in Nat
    BY <1>3, ThreadFacts DEF Dispatches, TypeInv, TypeOK
  <2>2. SUFFICES ASSUME x \in dispatched PROVE FALSE
    BY <1>1 DEF Once
  <2>3. PICK g \in DOMAIN Groups : \E i \in DOMAIN Groups[g] : x = Groups[g][i] /\ Past(g, i)
    BY <1>3, <2>2 DEF Once
  <2>4. PICK i \in DOMAIN Groups[g] : x = Groups[g][i] /\ Past(g, i)
    BY <2>3
  <2>5. g = group /\ i = next[Main]
    BY <1>3, <2>1, <2>4 DEF DispatchedOnce
  <2>. QED BY <2>1, <2>4, <2>5 DEF Past
<1>. QED BY <1>2, <1>3
(* What the steps of the pool leave alone. *)
LEMMA EnqueueKeeps ==
    ASSUME TypeInv, NEW t \in Thread, EnqueueStep(t)
    PROVE  /\ UNCHANGED <<status, dispatched, runs, group, next, current>>
           /\ pc'[Main] \in {"begin", "done"} <=> pc[Main] \in {"begin", "done"}
           /\ pc'[Main] = "begin" <=> pc[Main] = "begin"
           /\ \A u \in Thread : u # t => pc'[u] = pc[u]
           /\ overflowed => overflowed'
<1>. DEFINE Kept == /\ UNCHANGED <<status, dispatched, runs, group, next, current>>
                    /\ pc[t] \in {"load", "secure", "count", "push", "commit", "notify"}
                    /\ \E l \in Label \ {"begin", "done"} : pc' = [pc EXCEPT ![t] = l]
                    /\ overflowed => overflowed'
<1>0. pc \in [Thread -> Label]
  BY DEF TypeInv, TypeOK
<1>1. Kept
  <2>. USE DEF Goto, At, sharedVars, stackVars, historyVars, Label
  <2>1. CASE LoadCheckList(t)
    BY <2>1 DEF LoadCheckList
  <2>2. CASE SecureWorker(t)
    BY <2>2 DEF SecureWorker
  <2>3. CASE RetrySecure(t)
    BY <1>0, <2>3 DEF RetrySecure
  <2>4. CASE NobodyIdle(t)
    BY <2>4 DEF NobodyIdle
  <2>5. CASE CountTask(t)
    BY <2>5 DEF CountTask
  <2>6. CASE PushWrite(t)
    BY <2>6 DEF PushWrite
  <2>7. CASE PushCommit(t)
    BY <2>7 DEF PushCommit, AfterPush
  <2>8. CASE Notify(t)
    BY <2>8 DEF Notify, AfterPush
  <2>. QED BY <2>1, <2>2, <2>3, <2>4, <2>5, <2>6, <2>7, <2>8 DEF EnqueueStep
<1>2. PICK l \in Label \ {"begin", "done"} : pc' = [pc EXCEPT ![t] = l]
  BY <1>1
<1>3. /\ \A u \in Thread : u # t => pc'[u] = pc[u]
      /\ pc'[t] \notin {"begin", "done"} /\ pc[t] \notin {"begin", "done"}
  BY <1>0, <1>1, <1>2
<1>. QED BY <1>1, <1>3, ThreadFacts

LEMMA WorkerKeeps ==
    ASSUME TypeInv, NEW w \in Worker, WorkerStep(w)
    PROVE  /\ pc'[Main] = pc[Main] /\ next'[Main] = next[Main] /\ group' = group
           /\ overflowed' = overflowed
           /\ DispatchImport(w) \/ TaskReturns(w) \/ UNCHANGED <<status, dispatched, runs>>
           /\ TaskReturns(w) => dispatched' = dispatched
<1>0. /\ pc \in [Thread -> Label] /\ next \in [Thread -> Nat \ {0}]
      /\ w \in Thread /\ w # Main /\ Main \in Thread
  BY ThreadFacts DEF TypeInv, TypeOK
<1>. USE <1>0 DEF Goto, At, sharedVars, stackVars, historyVars
<1>1. CASE Wake(w)
  BY <1>1 DEF Wake
<1>2. CASE TakeTask(w)
  BY <1>2 DEF TakeTask
<1>3. CASE StackEmpty(w)
  BY <1>3 DEF StackEmpty
<1>4. CASE ClearHasWork(w)
  BY <1>4 DEF ClearHasWork
<1>5. CASE ListAsIdle(w)
  BY <1>5 DEF ListAsIdle
<1>6. CASE PopLoad(w)
  BY <1>6 DEF PopLoad
<1>7. CASE PopStore(w)
  BY <1>7 DEF PopStore
<1>8. CASE DispatchImport(w)
  BY <1>8 DEF DispatchImport, DispatchTask, TaskReturns
<1>9. CASE TaskReturns(w)
  BY <1>9 DEF TaskReturns
<1>10. CASE FinishTask(w)
  BY <1>10 DEF FinishTask
<1>11. CASE ShareBacklog(w)
  BY <1>11 DEF ShareBacklog
<1>12. CASE PointToLast(w)
  BY <1>12 DEF PointToLast
<1>. QED BY <1>1, <1>2, <1>3, <1>4, <1>5, <1>6, <1>7, <1>8, <1>9, <1>10, <1>11, <1>12 DEF WorkerStep

(* Places that are past stay past, and what happened stays known.          *)
LEMMA OnceKept ==
    ASSUME Once, UNCHANGED <<status, dispatched, runs>>,
           \A g \in DOMAIN Groups : \A i \in DOMAIN Groups[g] : Past(g, i) => Past(g, i)'
    PROVE  Once'
<1>1. \A x \in Parse : status'[x] = "DIRTY" <=> x \notin dispatched'
  BY DEF Once
<1>2. \A x \in dispatched' \ Parse :
         \E g \in DOMAIN Groups : \E i \in DOMAIN Groups[g] : x = Groups[g][i] /\ Past(g, i)'
  BY DEF Once
<1>3. \A x \in Task : runs'[x] > 0 => x \in dispatched'
  BY DEF Once
<1>. QED BY <1>1, <1>2, <1>3 DEF Once

LEMMA OnceDispatch ==
    ASSUME TypeInv, DispatchedOnce, Once, NEW t, NEW x, Dispatches(t, x)
    PROVE  Once'
<1>0. /\ next \in [Thread -> Nat \ {0}] /\ group \in Nat /\ t \in Thread /\ x \in Task
      /\ pc \in [Thread -> Label] /\ Main \in Thread /\ next[Main] \in Nat
      /\ status \in [Parse -> {"DIRTY", "BUSY", "READY"}]
  BY ThreadFacts DEF TypeInv, TypeOK, Dispatches
<1>1. /\ group' = group /\ runs' = runs /\ next' = [next EXCEPT ![t] = next[t] + 1]
      /\ UNCHANGED <<status, dispatched, pc>> \/
           /\ pc' = [pc EXCEPT ![t] = "load"]
           /\ status' = [y \in Parse |-> IF y = x THEN "BUSY" ELSE status[y]]
           /\ dispatched' = dispatched \cup {x}
  BY DEF Dispatches, DispatchTask, Goto
<1>2. /\ next'[Main] = next[Main] \/ next'[Main] = next[Main] + 1
      /\ t = Main => next'[Main] = next[Main] + 1
      /\ pc'[Main] \in {"begin", "done"} <=> pc[Main] \in {"begin", "done"}
  BY <1>0, <1>1 DEF Dispatches
<1>3. ASSUME NEW g \in DOMAIN Groups, NEW i \in DOMAIN Groups[g], Past(g, i) PROVE Past(g, i)'
  <2>1. i \in Nat
    <3>1. \A s \in Seq(Task) : DOMAIN s \subseteq Nat
      OBVIOUS
    <3>2. Groups[g] \in Seq(Task)
      BY PoolAssumption
    <3>. QED BY <3>1, <3>2
  <2>. QED BY <1>0, <1>1, <1>2, <1>3, <2>1 DEF Past
<1>4. CASE UNCHANGED <<status, dispatched, pc>>
  BY <1>1, <1>3, <1>4, OnceKept
<1>5. CASE /\ pc' = [pc EXCEPT ![t] = "load"]
           /\ status' = [y \in Parse |-> IF y = x THEN "BUSY" ELSE status[y]]
           /\ dispatched' = dispatched \cup {x}
  <2>1. \A y \in Parse : status'[y] = "DIRTY" <=> y \notin dispatched'
    BY <1>5 DEF Once
  <2>2. ASSUME NEW y \in dispatched' \ Parse
        PROVE  \E g \in DOMAIN Groups : \E i \in DOMAIN Groups[g] : y = Groups[g][i] /\ Past(g, i)'
    <3>1. CASE y \in dispatched
      BY <1>3, <2>2, <3>1 DEF Once
    <3>2. CASE y = x
      <4>1. t = Main /\ group \in DOMAIN Groups /\ next[Main] \in DOMAIN Groups[group]
            /\ x = Groups[group][next[Main]] /\ pc[Main] = "dispatch"
        BY <2>2, <3>2 DEF Dispatches
      <4>g. PICK g \in DOMAIN Groups : g = group
        BY <4>1
      <4>2. PICK i \in DOMAIN Groups[g] : g = group /\ i = next[Main]
        BY <4>1, <4>g
      <4>3. Past(g, i)'
        BY <1>0, <1>1, <1>2, <4>1, <4>2 DEF Past
      <4>. QED BY <3>2, <4>1, <4>2, <4>3
    <3>. QED BY <1>5, <2>2, <3>1, <3>2
  <2>3. \A y \in Task : runs'[y] > 0 => y \in dispatched'
    BY <1>1, <1>5 DEF Once
  <2>. QED BY <2>1, <2>2, <2>3 DEF Once
<1>. QED BY <1>1, <1>4, <1>5

(* Every step keeps what has been dispatched from being dispatched again.  *)
LEMMA OnceStep ==
    ASSUME TypeInv, DispatchedOnce, Places, Once, [Next]_vars
    PROVE  Once'
<1>0. /\ pc \in [Thread -> Label] /\ group \in Nat /\ Main \in Thread
      /\ runs \in [Task -> 0 .. 2] /\ status \in [Parse -> {"DIRTY", "BUSY", "READY"}]
  BY ThreadFacts DEF TypeInv, TypeOK
<1>d. \A g \in DOMAIN Groups : g \in Nat
  <2>1. Groups \in Seq(Seq(Task))
    BY PoolAssumption
  <2>. QED BY <2>1
<1>1. ASSUME NEW t \in Thread, EnqueueStep(t) PROVE Once'
  BY <1>1, EnqueueKeeps, OnceKept DEF Past
<1>2. ASSUME NEW w \in Worker, WorkerStep(w) PROVE Once'
  <2>1. CASE DispatchImport(w)
    BY <2>1, WhoDispatches, OnceDispatch
  <2>2. CASE TaskReturns(w)
    <3>1. current[w] \in Pending /\ current[w] \in Task
      BY <2>2, TaskReturnsPlaces DEF Pending, TypeInv, TypeOK
    <3>2. /\ status' = [y \in Parse |-> IF y = current[w] THEN "READY" ELSE status[y]]
          /\ \A y \in Task : y # current[w] => runs'[y] = runs[y]
      BY <1>0, <2>2, <3>1 DEF TaskReturns
    <3>3. \A y \in Parse : status'[y] = "DIRTY" <=> y \notin dispatched'
      BY <1>2, <3>1, <3>2, <2>2, WorkerKeeps DEF Once, Pending
    <3>4. \A y \in dispatched' \ Parse :
             \E g \in DOMAIN Groups : \E i \in DOMAIN Groups[g] : y = Groups[g][i] /\ Past(g, i)'
      BY <1>2, <2>2, WorkerKeeps DEF Once, Past
    <3>5. \A y \in Task : runs'[y] > 0 => y \in dispatched'
      BY <1>2, <2>2, <3>1, <3>2, WorkerKeeps DEF Once, Pending
    <3>. QED BY <3>3, <3>4, <3>5 DEF Once
  <2>3. CASE ~DispatchImport(w) /\ ~TaskReturns(w)
    BY <1>2, <2>3, WorkerKeeps, OnceKept DEF Past
  <2>. QED BY <2>1, <2>2, <2>3
<1>3. CASE BeginGroup
  <2>1. /\ pc[Main] = "begin" /\ group' = group /\ UNCHANGED <<status, dispatched, runs>>
    BY <1>3 DEF BeginGroup, At, historyVars
  <2>. QED BY <2>1, OnceKept DEF Past
<1>4. CASE DispatchRoot
  BY <1>4, WhoDispatches, OnceDispatch
<1>5. CASE CallWait
  <2>1. /\ pc[Main] = "dispatch" /\ pc'[Main] = "await"
        /\ UNCHANGED <<group, next, status, dispatched, runs>>
    BY <1>0, <1>5 DEF CallWait, At, Goto, sharedVars, historyVars
  <2>. QED BY <2>1, OnceKept DEF Past
<1>6. CASE WaitReturns
  <2>1. group' = group + 1 /\ UNCHANGED <<status, dispatched, runs>>
    BY <1>6 DEF WaitReturns, sharedVars, historyVars
  <2>. QED BY <1>0, <1>d, <2>1, OnceKept DEF Past
<1>7. CASE UNCHANGED vars
  BY <1>7, OnceKept DEF Past, vars, sharedVars, threadVars, historyVars
<1>. QED BY <1>1, <1>2, <1>3, <1>4, <1>5, <1>6, <1>7 DEF Next, MainStep, AllGroupsDone
-----------------------------------------------------------------------------
(* The three sets the counter is made of are finite.                       *)
LEMMA CountingSets ==
    ASSUME TypeInv, IsFiniteSet(dispatched)
    PROVE  /\ IsFiniteSet(Pending) /\ IsFiniteSet(Uncounted) /\ IsFiniteSet(Returned)
           /\ Cardinality(Pending) \in Nat /\ Cardinality(Uncounted) \in Nat
           /\ Cardinality(Returned) \in Nat
<1>1. IsFiniteSet(Thread)
  BY PoolAssumption, FS_Interval DEF Thread
<1>2. Pending \subseteq dispatched /\ Uncounted \subseteq Thread /\ Returned \subseteq Thread
  BY ThreadFacts DEF Pending, Uncounted, Returned
<1>3. IsFiniteSet(Pending) /\ IsFiniteSet(Uncounted) /\ IsFiniteSet(Returned)
  BY <1>1, <1>2, FS_Subset
<1>. QED BY <1>3, FS_CardinalityType

(* A step that neither counts nor dispatches nor returns.                  *)
LEMMA SameCount ==
    ASSUME Counted, UNCHANGED <<dispatched, runs, taskCount>>,
           Uncounted' = Uncounted, Returned' = Returned,
           GroupOpen' <=> GroupOpen, pc'[Main] = "begin" <=> pc[Main] = "begin"
    PROVE  Counted'
<1>1. Pending' = Pending
  BY DEF Pending
<1>. QED BY <1>1 DEF Counted, CountExact, WaitCoversGroup

(* A thread between its dispatch and fetch_add carries a pending task.     *)
LEMMA UncountedCarry ==
    ASSUME Ledger, NEW t \in Uncounted
    PROVE  t \in Thread /\ Occupied(t, 0) /\ Content(t, 0) = arg[t] /\ arg[t] \in Pending
<1>1. t \in Thread /\ Carries(t) /\ ~HandingOff(t)
  BY DEF Uncounted, Carries
<1>2. Occupied(t, 0) /\ Content(t, 0) = arg[t] /\ 0 \in Slot
  BY <1>1 DEF Occupied, Content, Carried, Slot
<1>. QED BY <1>1, <1>2 DEF Ledger

(* Nothing is left when wait sees the counter at zero: as many threads are *)
(* on their way to fetch_add as tasks are pending at most, and each of     *)
(* them, main waiting, is inside a task that is pending, too.              *)
LEMMA AwaitCovers ==
    ASSUME TypeInv, Ledger, Counted, pc[Main] = "await", taskCount <= 0
    PROVE  Pending = {} /\ taskCount = 0
<1>. DEFINE f == [t \in Uncounted |-> arg[t]]
<1>0. /\ IsFiniteSet(Pending) /\ IsFiniteSet(Uncounted)
      /\ Cardinality(Pending) \in Nat /\ Cardinality(Uncounted) \in Nat
      /\ Cardinality(Returned) \in Nat
      /\ taskCount = Cardinality(Pending) - Cardinality(Uncounted) + Cardinality(Returned)
  BY CountingSets DEF Counted, CountExact
<1>1. f \in Injection(Uncounted, Pending)
  <2>1. f \in [Uncounted -> Pending]
    BY UncountedCarry
  <2>2. ASSUME NEW t \in Uncounted, NEW u \in Uncounted, f[t] = f[u] PROVE t = u
    <3>1. 0 \in Slot /\ t \in Thread /\ u \in Thread /\ arg[t] = arg[u]
      BY <2>2, UncountedCarry DEF Slot
    <3>. QED BY <3>1, UncountedCarry DEF Ledger
  <2>. QED BY <2>1, <2>2 DEF Injection, IsInjective
<1>. HIDE DEF f
<1>2. /\ Cardinality(Uncounted) <= Cardinality(Pending)
      /\ Cardinality(Uncounted) = Cardinality(Pending) => f \in Surjection(Uncounted, Pending)
  BY <1>0, <1>1, FS_Injection
<1>3. Cardinality(Uncounted) = Cardinality(Pending) /\ Cardinality(Returned) = 0 /\ taskCount = 0
  BY <1>0, <1>2 DEF TypeInv, TypeOK
<1>4. \A x \in Pending : \E u \in Uncounted : arg[u] = x
  BY <1>2, <1>3 DEF Surjection, f
<1>5. Pending = {}
  <2>1. SUFFICES ASSUME NEW x \in Pending PROVE FALSE
    OBVIOUS
  <2>2. PICK t \in Uncounted : TRUE
    BY <1>4
  <2>3. t \in Worker /\ current[t] # NoTask /\ pc[t] # "finish"
    BY ThreadFacts DEF Uncounted, HandingOff
  <2>4. Occupied(t, -1) /\ Content(t, -1) = current[t] /\ -1 \in Slot /\ t \in Thread
    BY <2>3, ThreadFacts DEF Occupied, Content, Doing, Slot
  <2>5. current[t] \in Pending
    BY <2>4 DEF Ledger
  <2>6. PICK u \in Uncounted : arg[u] = current[t]
    BY <1>4, <2>5
  <2>7. u \in Thread /\ Occupied(u, 0) /\ Content(u, 0) = Content(t, -1) /\ 0 \in Slot
    BY <2>4, <2>6, UncountedCarry DEF Slot
  <2>8. 0 = -1
    BY <2>4, <2>7 DEF Ledger
  <2>. QED BY <2>8
<1>. QED BY <1>3, <1>5

(* Between two groups every thread's hands are empty.                      *)
LEMMA NothingBetween ==
    ASSUME TypeInv, Ledger, Counted, ~GroupOpen
    PROVE  Pending = {} /\ Uncounted = {} /\ \A w \in Worker : pc[w] # "run"
<1>1. Pending = {}
  BY DEF Counted, WaitCoversGroup
<1>2. Uncounted = {}
  BY <1>1, UncountedCarry
<1>3. ASSUME NEW w \in Worker, pc[w] = "run" PROVE FALSE
  <2>1. Occupied(w, -1) /\ -1 \in Slot /\ w \in Thread
    BY <1>3, ThreadFacts DEF TypeInv, HoldsTask, HandingOff, Occupied, Doing, Slot
  <2>. QED BY <1>1, <2>1 DEF Ledger
<1>. QED BY <1>1, <1>2, <1>3

(* fetch_add takes a thread out of those on their way to it.               *)
LEMMA CountTaskCounted ==
    ASSUME TypeInv, Ledger, Counted, NEW t \in Thread, CountTask(t)
    PROVE  Counted'
<1>0. /\ pc \in [Thread -> Label] /\ taskCount \in Int /\ pc[t] = "count" /\ ~HandingOff(t)
  BY ThreadFacts DEF TypeInv, TypeOK, HoldsTask, CountTask, At, HandingOff
<1>1. /\ pc' = [pc EXCEPT ![t] = "push"] /\ taskCount' = taskCount + 1
      /\ UNCHANGED <<dispatched, runs, current>>
  BY DEF CountTask, Goto
<1>2. t \in Uncounted /\ Uncounted' = Uncounted \ {t}
  BY <1>0, <1>1 DEF Uncounted, HandingOff
<1>3. Returned' = Returned /\ Pending' = Pending
  BY <1>0, <1>1, ThreadFacts DEF Returned, At, Pending
<1>4. GroupOpen
  BY <1>2, NothingBetween
<1>5. GroupOpen' /\ pc'[Main] # "begin"
  BY <1>0, <1>1, <1>4, ThreadFacts DEF GroupOpen
<1>6. Cardinality(Uncounted') = Cardinality(Uncounted) - 1
  BY <1>2, CountingSets, FS_RemoveElement DEF Counted
<1>7. CountExact'
  BY <1>1, <1>3, <1>6, CountingSets DEF Counted, CountExact
<1>. QED BY <1>1, <1>5, <1>7 DEF Counted, WaitCoversGroup

(* The end of a task function moves a task over to those returned.         *)
LEMMA TaskReturnsCounted ==
    ASSUME TypeInv, Places, Counted, NEW w \in Worker, TaskReturns(w)
    PROVE  Counted'
<1>0. /\ pc \in [Thread -> Label] /\ pc[w] = "run" /\ w \in Thread /\ w # Main
  BY ThreadFacts DEF TypeInv, TypeOK, TaskReturns, At
<1>1. /\ pc' = [pc EXCEPT ![w] = "finish"] /\ UNCHANGED <<dispatched, current, taskCount>>
  BY DEF TaskReturns, Goto
<1>2. PICK x \in Pending : Pending' = Pending \ {x}
  BY TaskReturnsPlaces
<1>3. Uncounted' = Uncounted
  BY <1>0, <1>1 DEF Uncounted, HandingOff
<1>4. w \notin Returned /\ Returned' = Returned \cup {w}
  BY <1>0, <1>1, ThreadFacts DEF Returned, At
<1>5. GroupOpen
  BY <1>0, NothingBetween DEF Places
<1>6. GroupOpen' /\ pc'[Main] # "begin"
  BY <1>0, <1>1, <1>5, ThreadFacts DEF GroupOpen
<1>7. Cardinality(Pending') = Cardinality(Pending) - 1
  BY <1>2, CountingSets, FS_RemoveElement DEF Counted
<1>8. Cardinality(Returned') = Cardinality(Returned) + 1
  BY <1>4, CountingSets, FS_AddElement DEF Counted
<1>9. CountExact'
  BY <1>1, <1>3, <1>7, <1>8, CountingSets DEF Counted, CountExact
<1>. QED BY <1>1, <1>6, <1>9 DEF Counted, WaitCoversGroup

(* fetch_sub takes a task out of those returned.                           *)
LEMMA FinishTaskCounted ==
    ASSUME TypeInv, Ledger, Counted, NEW w \in Worker, FinishTask(w)
    PROVE  Counted'
<1>0. /\ pc \in [Thread -> Label] /\ pc[w] = "finish" /\ w \in Thread /\ w # Main
      /\ Main \in Thread /\ taskCount \in Int /\ current \in [Worker -> Task \cup {NoTask}]
  BY ThreadFacts DEF TypeInv, TypeOK, FinishTask, At
<1>1. /\ pc' = [pc EXCEPT ![w] = "share"] /\ UNCHANGED <<dispatched, runs>>
      /\ taskCount' = taskCount - 1 /\ current' = [current EXCEPT ![w] = NoTask]
  BY DEF FinishTask, Goto, historyVars
<1>2. Pending' = Pending /\ (GroupOpen' <=> GroupOpen) /\ pc'[Main] = pc[Main]
  BY <1>0, <1>1 DEF Pending, GroupOpen
<1>3. Uncounted' = Uncounted
  BY <1>0, <1>1 DEF Uncounted, HandingOff
<1>4. w \in Returned /\ Returned' = Returned \ {w}
  BY <1>0, <1>1, ThreadFacts DEF Returned, At
<1>5. Cardinality(Returned') = Cardinality(Returned) - 1
  BY <1>4, CountingSets, FS_RemoveElement DEF Counted
<1>6. CountExact'
  BY <1>0, <1>1, <1>2, <1>3, <1>5, CountingSets DEF Counted, CountExact
<1>7. pc[Main] # "begin"
  <2>1. SUFFICES ASSUME pc[Main] = "begin" PROVE FALSE
    OBVIOUS
  <2>2. Pending = {} /\ Uncounted = {} /\ taskCount = 0
    BY <2>1, NothingBetween DEF GroupOpen, Counted
  <2>3. Cardinality(Returned) = 0
    BY <2>2, FS_EmptySet, CountingSets DEF Counted, CountExact
  <2>. QED BY <1>4, <2>3, CountingSets, FS_EmptySet DEF Counted
<1>. QED BY <1>1, <1>2, <1>6, <1>7 DEF Counted, WaitCoversGroup

(* A dispatched task is pending and not yet counted.                       *)
LEMMA DispatchCounted ==
    ASSUME TypeInv, DispatchedOnce, Once, Places, Counted, NEW t, NEW x, Dispatches(t, x)
    PROVE  Counted'
<1>0. /\ t \in Thread /\ x \in Task /\ pc \in [Thread -> Label] /\ Main \in Thread
      /\ ~HandingOff(t) /\ pc[t] \in {"run", "dispatch"} /\ taskCount \in Int
      /\ (t = Main => pc[t] = "dispatch") /\ (t # Main => pc[t] = "run" /\ t \in Worker)
  BY ThreadFacts DEF TypeInv, TypeOK, Dispatches
<1>1. DispatchTask(t, x) /\ UNCHANGED <<current, runs, taskCount>>
  BY DEF Dispatches, DispatchTask
<1>2. CASE x \in Parse /\ status[x] # "DIRTY"
  <2>1. UNCHANGED <<pc, dispatched>>
    BY <1>1, <1>2 DEF DispatchTask
  <2>2. Uncounted' = Uncounted /\ Returned' = Returned /\ (GroupOpen' <=> GroupOpen)
    BY <1>1, <2>1 DEF Uncounted, HandingOff, Returned, At, GroupOpen
  <2>. QED BY <1>1, <2>1, <2>2, SameCount
<1>3. CASE ~(x \in Parse /\ status[x] # "DIRTY")
  <2>1. pc' = [pc EXCEPT ![t] = "load"] /\ dispatched' = dispatched \cup {x}
    BY <1>1, <1>3 DEF DispatchTask, Goto
  <2>2. x \notin dispatched /\ runs[x] = 0
    BY <1>3, FreshTask
  <2>3. Pending' = Pending \cup {x} /\ x \notin Pending
    BY <1>0, <1>1, <1>3, <2>2, DispatchPlaces
  <2>4. t \notin Uncounted /\ Uncounted' = Uncounted \cup {t}
    BY <1>0, <1>1, <2>1 DEF Uncounted, HandingOff
  <2>5. Returned' = Returned
    BY <1>0, <2>1, ThreadFacts DEF Returned, At
  <2>6. GroupOpen
    <3>1. CASE t = Main
      BY <1>0, <3>1 DEF GroupOpen
    <3>2. CASE t # Main
      BY <1>0, <3>2, NothingBetween DEF Places
    <3>. QED BY <3>1, <3>2
  <2>7. GroupOpen' /\ pc'[Main] # "begin"
    BY <1>0, <2>1, <2>6 DEF GroupOpen
  <2>8. IsFiniteSet(dispatched')
    BY <2>1, FS_AddElement DEF Counted
  <2>9. /\ Cardinality(Pending') = Cardinality(Pending) + 1
        /\ Cardinality(Uncounted') = Cardinality(Uncounted) + 1
    BY <2>3, <2>4, CountingSets, FS_AddElement DEF Counted
  <2>10. CountExact'
    BY <1>0, <1>1, <2>5, <2>9, CountingSets DEF Counted, CountExact
  <2>. QED BY <2>7, <2>8, <2>10 DEF Counted, WaitCoversGroup
<1>. QED BY <1>2, <1>3

(* The steps of enqueue that count nothing.                                *)
LEMMA EnqueueCounted ==
    ASSUME TypeInv, Counted, NEW t \in Thread, EnqueueStep(t), ~CountTask(t)
    PROVE  Counted'
<1>0. pc \in [Thread -> Label]
  BY DEF TypeInv, TypeOK
<1>1. UNCHANGED <<dispatched, runs, current>> /\ \A u \in Thread : u # t => pc'[u] = pc[u]
  BY EnqueueKeeps
<1>2. UNCHANGED taskCount /\ pc[t] # "finish" /\ pc'[t] # "finish"
      /\ (pc[t] \in {"load", "secure", "count"} /\ ~HandingOff(t)
            <=> pc'[t] \in {"load", "secure", "count"} /\ ~HandingOff(t))
  <2>. USE <1>0 DEF Goto, At, sharedVars, stackVars, historyVars
  <2>1. CASE LoadCheckList(t)
    BY <2>1 DEF LoadCheckList
  <2>2. CASE SecureWorker(t)
    BY <2>2 DEF SecureWorker
  <2>3. CASE RetrySecure(t)
    BY <2>3 DEF RetrySecure
  <2>4. CASE NobodyIdle(t)
    BY <2>4 DEF NobodyIdle
  <2>6. CASE PushWrite(t)
    BY <2>6 DEF PushWrite
  <2>7. CASE PushCommit(t)
    BY <2>7 DEF PushCommit, AfterPush
  <2>8. CASE Notify(t)
    BY <2>8 DEF Notify, AfterPush
  <2>. QED BY <2>1, <2>2, <2>3, <2>4, <2>6, <2>7, <2>8 DEF EnqueueStep
<1>3. \A u \in Thread : HandingOff(u)' <=> HandingOff(u)
  BY <1>1 DEF HandingOff
<1>4. Uncounted' = Uncounted
  BY <1>1, <1>2, <1>3 DEF Uncounted
<1>5. Returned' = Returned
  BY <1>1, <1>2, ThreadFacts DEF Returned, At
<1>6. (GroupOpen' <=> GroupOpen) /\ (pc'[Main] = "begin" <=> pc[Main] = "begin")
  BY EnqueueKeeps DEF GroupOpen
<1>. QED BY <1>1, <1>2, <1>4, <1>5, <1>6, SameCount

(* The steps of a worker around its tasks.                                 *)
LEMMA WorkerCounted ==
    ASSUME TypeInv, Counted, NEW w \in Worker, WorkerStep(w),
           ~DispatchImport(w), ~TaskReturns(w), ~FinishTask(w)
    PROVE  Counted'
<1>0. /\ pc \in [Thread -> Label] /\ w \in Thread /\ w # Main /\ HoldsTask
      /\ current \in [Worker -> Task \cup {NoTask}]
  BY ThreadFacts DEF TypeInv, TypeOK
<1>1. /\ UNCHANGED <<dispatched, runs>> /\ pc'[Main] = pc[Main]
  BY WorkerKeeps
<1>2. /\ UNCHANGED taskCount /\ pc[w] \notin {"finish", "load", "secure", "count"}
      /\ pc' = [pc EXCEPT ![w] = pc'[w]] /\ pc'[w] \notin {"finish", "secure", "count"}
      /\ pc'[w] = "load" => HandingOff(w) /\ current' = current
      /\ \A u \in Worker : u # w => current'[u] = current[u]
  <2>. USE <1>0 DEF Goto, At, sharedVars, stackVars, historyVars
  <2>1. CASE Wake(w)
    BY <2>1 DEF Wake
  <2>2. CASE TakeTask(w)
    BY <2>2 DEF TakeTask
  <2>3. CASE StackEmpty(w)
    BY <2>3 DEF StackEmpty
  <2>4. CASE ClearHasWork(w)
    BY <2>4 DEF ClearHasWork
  <2>5. CASE ListAsIdle(w)
    BY <2>5 DEF ListAsIdle
  <2>6. CASE PopLoad(w)
    BY <2>6 DEF PopLoad
  <2>7. CASE PopStore(w)
    BY <2>7 DEF PopStore
  <2>11. CASE ShareBacklog(w)
    BY <2>11 DEF ShareBacklog, HoldsTask
  <2>12. CASE PointToLast(w)
    BY <2>12 DEF PointToLast
  <2>. QED BY <2>1, <2>2, <2>3, <2>4, <2>5, <2>6, <2>7, <2>11, <2>12 DEF WorkerStep
<1>4. \A u \in Thread : u # w => pc'[u] = pc[u]
  BY <1>0, <1>2
<1>5. Uncounted' = Uncounted
  <2>1. \A u \in Thread : u # w => (HandingOff(u)' <=> HandingOff(u))
    BY <1>2, ThreadFacts DEF HandingOff
  <2>2. w \notin Uncounted
    BY <1>2 DEF Uncounted
  <2>3. ~(pc'[w] \in {"load", "secure", "count"} /\ ~HandingOff(w)')
    BY <1>2 DEF HandingOff
  <2>. QED BY <1>4, <2>1, <2>2, <2>3 DEF Uncounted
<1>6. Returned' = Returned
  BY <1>2, <1>4, ThreadFacts DEF Returned, At
<1>. QED BY <1>1, <1>2, <1>5, <1>6, SameCount DEF GroupOpen

(* The steps of main: the counter is reset at zero, and wait sees it there *)
(* only when nothing is left.                                              *)
LEMMA MainCounted ==
    ASSUME TypeInv, Ledger, Counted, BeginGroup \/ CallWait \/ WaitReturns
    PROVE  Counted'
<1>0. pc \in [Thread -> Label] /\ Main \in Thread /\ Main \notin Worker
  BY ThreadFacts DEF TypeInv, TypeOK
<1>1. PICK l \in Label :
        /\ l \in {"dispatch", "await", "done", "begin"}
        /\ pc' = [pc EXCEPT ![Main] = l] /\ pc'[Main] = l
  BY <1>0 DEF BeginGroup, CallWait, WaitReturns, Goto, At, Label
<1>2. UNCHANGED <<dispatched, runs, current>> /\ pc[Main] \in {"begin", "dispatch", "await"}
  BY DEF BeginGroup, CallWait, WaitReturns, historyVars, At
<1>3. Uncounted' = Uncounted
  BY <1>0, <1>1, <1>2 DEF Uncounted, HandingOff
<1>4. Returned' = Returned
  BY <1>0, <1>1, ThreadFacts DEF Returned, At
<1>5. Pending' = Pending
  BY <1>2 DEF Pending
<1>6. taskCount' = taskCount
  <2>1. CASE BeginGroup
    BY <2>1 DEF BeginGroup, At, Counted
  <2>2. CASE CallWait \/ WaitReturns
    BY <2>2 DEF CallWait, WaitReturns, sharedVars
  <2>. QED BY <2>1, <2>2
<1>7. CASE BeginGroup \/ CallWait
  <2>1. pc'[Main] \in {"dispatch", "await"}
    BY <1>0, <1>7 DEF BeginGroup, CallWait, Goto
  <2>. QED BY <1>2, <1>3, <1>4, <1>5, <1>6, <2>1 DEF Counted, CountExact, WaitCoversGroup, GroupOpen
<1>8. CASE WaitReturns
  <2>1. Pending = {} /\ taskCount = 0
    BY <1>8, AwaitCovers DEF WaitReturns, At
  <2>. QED BY <1>2, <1>3, <1>4, <1>5, <1>6, <2>1 DEF Counted, CountExact, WaitCoversGroup
<1>. QED BY <1>7, <1>8

(* The counter is exact and wait covers the group, step by step.           *)
LEMMA CountedStep ==
    ASSUME TypeInv, DispatchedOnce, Places, Once, Counted, [Next]_vars
    PROVE  Counted'
<1>1. ASSUME NEW t \in Thread, EnqueueStep(t) PROVE Counted'
  BY <1>1, EnqueueCounted, CountTaskCounted DEF Places
<1>2. ASSUME NEW w \in Worker, WorkerStep(w) PROVE Counted'
  BY <1>2, WorkerCounted, WhoDispatches, DispatchCounted, TaskReturnsCounted, FinishTaskCounted DEF Places
<1>3. CASE MainStep
  BY <1>3, MainCounted, WhoDispatches, DispatchCounted DEF MainStep, Places
<1>4. CASE UNCHANGED vars
  <2>1. UNCHANGED <<pc, current, dispatched, runs, taskCount>>
    BY <1>4 DEF vars, sharedVars, threadVars, historyVars
  <2>. QED BY <2>1, SameCount DEF Uncounted, HandingOff, Returned, At, GroupOpen
<1>. QED BY <1>1, <1>2, <1>3, <1>4 DEF Next, AllGroupsDone
(* Every step keeps each task in one place.                                *)
LEMMA PlacesStep ==
    ASSUME TypeInv, OwnInv, DispatchedOnce, Once, Places, ~overflowed, [Next]_vars
    PROVE  Places'
<1>d. ASSUME NEW t, NEW x, Dispatches(t, x) PROVE Places'
  <2>1. t \in Thread /\ x \in Task /\ DispatchTask(t, x) /\ ~HandingOff(t) /\ pc[t] \in {"run", "dispatch"}
    BY <1>d DEF Dispatches
  <2>2. CASE x \in Parse /\ status[x] # "DIRTY"
    <3>1. UNCHANGED <<pc, size, buffer, target, load, arg, source, current, dispatched, runs>>
      BY <2>1, <2>2 DEF DispatchTask, stackVars
    <3>. QED BY <3>1, NothingMoves
  <2>3. CASE ~(x \in Parse /\ status[x] # "DIRTY")
    BY <1>d, <2>1, <2>3, FreshTask, DispatchPlaces
  <2>. QED BY <2>2, <2>3
<1>1. ASSUME NEW t \in Thread, EnqueueStep(t) PROVE Places'
  BY <1>1, SecuringPlaces, TellingPlaces, PushWritePlaces, PushCommitPlaces DEF EnqueueStep
<1>2. ASSUME NEW w \in Worker, WorkerStep(w) PROVE Places'
  <2>1. CASE DispatchImport(w)
    BY <1>d, <2>1, WhoDispatches
  <2>2. CASE ~DispatchImport(w)
    BY <1>2, <2>2, IdlingPlaces, TopPlaces, PopLoadPlaces, PopStorePlaces, TaskReturnsPlaces,
       FinishTaskPlaces DEF WorkerStep
  <2>. QED BY <2>1, <2>2
<1>3. CASE MainStep
  BY <1>d, <1>3, MainPlaces, WhoDispatches DEF MainStep
<1>4. CASE UNCHANGED vars
  <2>1. UNCHANGED <<pc, size, buffer, target, load, arg, source, current, dispatched, runs>>
    BY <1>4 DEF vars, stackVars, threadVars, historyVars
  <2>. QED BY <2>1, NothingMoves
<1>. QED BY <1>1, <1>2, <1>3, <1>4 DEF Next, AllGroupsDone

(* A task that returns had not run: it was pending.                        *)
LEMMA RunsOnceStep ==
    ASSUME TypeInv, Places, RunsOnce, [Next]_vars
    PROVE  RunsOnce'
<1>0. runs \in [Task -> 0 .. 2]
  BY DEF TypeInv, TypeOK
<1>1. ASSUME NEW w \in Worker, TaskReturns(w) PROVE RunsOnce'
  <2>1. PICK x \in Task : x = current[w] /\ runs[x] = 0
    BY <1>1, TaskReturnsPlaces DEF Pending, TypeInv, TypeOK
  <2>2. runs' = [runs EXCEPT ![x] = 1]
    BY <1>0, <1>1, <2>1 DEF TaskReturns
  <2>. QED BY <1>0, <2>2 DEF RunsOnce
<1>2. CASE runs' = runs
  BY <1>2 DEF RunsOnce
<1>3. (\E w \in Worker : TaskReturns(w)) \/ runs' = runs
  <2>1. ASSUME NEW t \in Thread, EnqueueStep(t) PROVE runs' = runs
    BY <2>1, EnqueueKeeps
  <2>2. ASSUME NEW w \in Worker, WorkerStep(w) PROVE TaskReturns(w) \/ runs' = runs
    BY <2>2, WorkerKeeps DEF DispatchImport, DispatchTask
  <2>3. CASE MainStep
    BY <2>3 DEF MainStep, BeginGroup, DispatchRoot, DispatchTask, CallWait, WaitReturns, historyVars
  <2>. QED BY <2>1, <2>2, <2>3 DEF Next, AllGroupsDone, vars, historyVars
<1>. QED BY <1>1, <1>2, <1>3

(* Main stays overflowed once it was.                                      *)
LEMMA OverflowStays == ASSUME TypeInv, [Next]_vars, overflowed PROVE overflowed'
<1>1. ASSUME NEW t \in Thread, EnqueueStep(t) PROVE overflowed'
  BY <1>1, EnqueueKeeps
<1>2. ASSUME NEW w \in Worker, WorkerStep(w) PROVE overflowed'
  BY <1>2, WorkerKeeps
<1>3. CASE MainStep
  BY <1>3 DEF MainStep, BeginGroup, DispatchRoot, DispatchTask, CallWait, WaitReturns, historyVars
<1>. QED BY <1>1, <1>2, <1>3 DEF Next, AllGroupsDone, vars, historyVars

LEMMA GroupInit == ASSUME Init, DispatchedOnce PROVE GroupInv
<1>0. TypeInv /\ Main \in Thread /\ Main \notin Worker
  BY TypeInit, ThreadFacts
<1>1. /\ pc = [t \in Thread |-> IF t = Main THEN "begin" ELSE "wait"]
      /\ size = [w \in Worker |-> 0] /\ current = [w \in Worker |-> NoTask]
      /\ dispatched = {} /\ runs = [t \in Task |-> 0] /\ taskCount = 0
      /\ status = [t \in Parse |-> "DIRTY"]
  BY DEF Init
<1>2. \A t \in Thread : pc[t] = IF t = Main THEN "begin" ELSE "wait"
  BY <1>1
<1>3. \A w \in Worker : size[w] = 0 /\ current[w] = NoTask /\ w \in Thread /\ w # Main
  BY <1>1, ThreadFacts
<1>4. Hands
  BY <1>2, <1>3 DEF Hands, HandsOf, HandingOff
<1>5. \A t \in Thread : \A k \in Slot : ~Occupied(t, k)
  BY <1>2, <1>3 DEF Occupied, Carries, Doing, Live, Slot
<1>6. Ledger
  BY <1>5 DEF Ledger
<1>7. Once
  BY <1>1, DispatchedAreTasks DEF Once
<1>8. Pending = {} /\ Uncounted = {} /\ Returned = {}
  BY <1>1, <1>2, <1>3 DEF Pending, Uncounted, Returned, At
<1>9. Counted
  BY <1>1, <1>8, FS_EmptySet DEF Counted, CountExact, WaitCoversGroup
<1>10. RunsOnce
  BY <1>1 DEF RunsOnce
<1>. QED BY <1>4, <1>6, <1>7, <1>9, <1>10 DEF GroupInv

LEMMA GroupStep ==
    ASSUME TypeInv, OwnInv, DispatchedOnce, GroupInv, [Next]_vars
    PROVE  GroupInv'
<1>1. SUFFICES ASSUME ~overflowed' PROVE (Hands /\ Ledger /\ Once /\ Counted /\ RunsOnce)'
  BY DEF GroupInv
<1>2. ~overflowed /\ Places /\ Once /\ Counted /\ RunsOnce
  BY <1>1, OverflowStays DEF GroupInv, Places
<1>3. Places' /\ Once' /\ Counted' /\ RunsOnce'
  BY <1>2, PlacesStep, OnceStep, CountedStep, RunsOnceStep
<1>. QED BY <1>3 DEF Places

(* GroupInv is an invariant of the pool. *)
LEMMA GroupInvariant == ASSUME DispatchedOnce PROVE Spec => []GroupInv
<1>1. GroupInv /\ TypeInv /\ OwnInv /\ [Next]_vars => GroupInv'
  BY GroupStep
<1>2. Init => GroupInv
  BY GroupInit
<1>. QED BY <1>1, <1>2, TypeInvariant, OwnInvariant, PTL DEF Spec
-----------------------------------------------------------------------------
(* A step of thread t that leads nobody into wait and wakes nobody.        *)
Elsewhere(t) ==
    /\ pc[t] # "notify" /\ pc'[t] # "wait" /\ pc' = [pc EXCEPT ![t] = pc'[t]]
    /\ UNCHANGED <<checkList, hasWork>>
    /\ \A u \in Thread : u # t => target'[u] = target[u]
    /\ \A w \in Worker : w # t => current'[w] = current[w] /\ size'[w] = size[w]
    /\ \A w \in Worker : Holds(t, w) => Holds(t, w)'

LEMMA WaitersStay ==
    ASSUME TypeInv, NEW t \in Thread, Elsewhere(t)
    PROVE  (IdleIsListed => IdleIsListed') /\ (BacklogCleared => BacklogCleared')
<1>1. pc \in [Thread -> Label] /\ \A u \in Thread : u # t => pc'[u] = pc[u]
  BY DEF Elsewhere, TypeInv, TypeOK
<1>2. ASSUME IdleIsListed, NEW w \in Worker, pc'[w] = "wait", ~hasWork'[w]
      PROVE  w \in checkList' \/ \E u \in Thread : Holds(u, w)'
  <2>1. pc[w] = "wait" /\ ~hasWork[w]
    BY <1>1, <1>2, ThreadFacts DEF Elsewhere
  <2>2. CASE w \in checkList
    BY <2>2 DEF Elsewhere
  <2>3. CASE \E u \in Thread : Holds(u, w)
    <3>1. PICK u \in Thread : Holds(u, w)
      BY <2>3
    <3>2. CASE u = t
      BY <3>1, <3>2 DEF Elsewhere
    <3>3. CASE u # t
      BY <1>1, <3>1, <3>3, ThreadFacts DEF Elsewhere, Holds, HandingOff
    <3>. QED BY <3>2, <3>3
  <2>. QED BY <1>2, <2>1, <2>2, <2>3 DEF IdleIsListed, At
<1>3. ASSUME BacklogCleared, NEW w \in Worker, pc'[w] = "wait", ~hasWork'[w], size'[w] > 0
      PROVE  \E u \in Thread : Dest(u)' = w /\ pc'[u] = "notify"
  <2>1. pc[w] = "wait" /\ ~hasWork[w] /\ size[w] > 0
    BY <1>1, <1>3, ThreadFacts DEF Elsewhere
  <2>2. PICK u \in Thread : Dest(u) = w /\ pc[u] = "notify"
    BY <1>3, <2>1 DEF BacklogCleared, At
  <2>3. u # t
    BY <2>2 DEF Elsewhere
  <2>. QED BY <1>1, <2>2, <2>3 DEF Elsewhere, Dest, Backlog
<1>. QED BY <1>2, <1>3 DEF IdleIsListed, BacklogCleared, At

(* Most steps lead nobody into wait and wake nobody. *)
LEMMA EnqueueElsewhere ==
    ASSUME TypeInv, NEW t \in Thread,
           LoadCheckList(t) \/ RetrySecure(t) \/ NobodyIdle(t) \/ CountTask(t) \/ PushWrite(t)
    PROVE  Elsewhere(t)
<1>. USE DEF TypeInv, TypeOK, Goto, At, sharedVars, stackVars, historyVars, Elsewhere, Holds, HandingOff
<1>1. CASE LoadCheckList(t)
  BY <1>1 DEF LoadCheckList
<1>2. CASE RetrySecure(t)
  BY <1>2 DEF RetrySecure
<1>3. CASE NobodyIdle(t)
  BY <1>3 DEF NobodyIdle
<1>4. CASE CountTask(t)
  BY <1>4 DEF CountTask
<1>5. CASE PushWrite(t)
  BY <1>5 DEF PushWrite
<1>. QED BY <1>1, <1>2, <1>3, <1>4, <1>5

LEMMA WorkerElsewhere ==
    ASSUME TypeInv, NEW w \in Worker, WorkerStep(w), ~ClearHasWork(w), ~ListAsIdle(w)
    PROVE  Elsewhere(w)
<1>. USE ThreadFacts
         DEF TypeInv, TypeOK, Goto, At, sharedVars, stackVars, historyVars, Elsewhere, Holds, HandingOff
<1>1. CASE Wake(w)
  BY <1>1 DEF Wake
<1>2. CASE TakeTask(w)
  BY <1>2 DEF TakeTask
<1>3. CASE StackEmpty(w)
  BY <1>3 DEF StackEmpty
<1>4. CASE PopLoad(w)
  BY <1>4 DEF PopLoad
<1>5. CASE PopStore(w)
  BY <1>5 DEF PopStore
<1>6. CASE DispatchImport(w)
  BY <1>6 DEF DispatchImport, DispatchTask
<1>7. CASE TaskReturns(w)
  BY <1>7 DEF TaskReturns
<1>8. CASE FinishTask(w)
  BY <1>8 DEF FinishTask
<1>9. CASE ShareBacklog(w)
  BY <1>9 DEF ShareBacklog
<1>10. CASE PointToLast(w)
  BY <1>10 DEF PointToLast
<1>. QED BY <1>1, <1>2, <1>3, <1>4, <1>5, <1>6, <1>7, <1>8, <1>9, <1>10 DEF WorkerStep

LEMMA MainElsewhere ==
    ASSUME TypeInv, MainStep
    PROVE  Elsewhere(Main)
<1>. USE ThreadFacts
         DEF TypeInv, TypeOK, Goto, At, sharedVars, stackVars, historyVars, Elsewhere, Holds, HandingOff
<1>1. CASE BeginGroup
  BY <1>1 DEF BeginGroup
<1>2. CASE DispatchRoot
  BY <1>2 DEF DispatchRoot, DispatchTask
<1>3. CASE CallWait
  BY <1>3 DEF CallWait
<1>4. CASE WaitReturns
  BY <1>4 DEF WaitReturns
<1>. QED BY <1>1, <1>2, <1>3, <1>4 DEF MainStep

(* No worker that blocks is forgotten. *)
LEMMA IdleStep == ASSUME TypeInv, IdleIsListed, [Next]_vars PROVE IdleIsListed'
<1>0. /\ pc \in [Thread -> Label] /\ target \in [Thread -> Worker \cup {NoWorker}]
      /\ hasWork \in [Worker -> BOOLEAN] /\ checkList \subseteq Worker
  BY DEF TypeInv, TypeOK
<1>1. ASSUME NEW t \in Thread, SecureWorker(t) PROVE IdleIsListed'
  <2>. DEFINE f == findFirstSetBit(copy[t])
  <2>1. /\ pc[t] = "secure" /\ f \in Worker
        /\ checkList' = checkList \ {f}
        /\ target' = [target EXCEPT ![t] = f]
        /\ pc' = [pc EXCEPT ![t] = IF HandingOff(t) THEN "give" ELSE "count"]
        /\ UNCHANGED <<hasWork, current>>
    BY <1>0, <1>1 DEF SecureWorker, At, Goto
  <2>. HIDE DEF f
  <2>2. SUFFICES ASSUME NEW w \in Worker, pc'[w] = "wait", ~hasWork'[w]
                 PROVE  w \in checkList' \/ \E u \in Thread : Holds(u, w)'
    BY DEF IdleIsListed, At
  <2>3. CASE w = f
    <3>1. Holds(t, w)'
      BY <1>0, <2>1, <2>3 DEF Holds, HandingOff
    <3>. QED BY <3>1
  <2>4. CASE w # f
    <3>1. pc[w] = "wait" /\ ~hasWork[w]
      BY <1>0, <2>1, <2>2, ThreadFacts
    <3>2. CASE w \in checkList
      BY <2>1, <2>4, <3>2
    <3>3. CASE \E u \in Thread : Holds(u, w)
      <4>1. PICK u \in Thread : Holds(u, w)
        BY <3>3
      <4>2. Holds(u, w)'
        BY <1>0, <2>1, <4>1 DEF Holds, HandingOff
      <4>. QED BY <4>2
    <3>. QED BY <3>1, <3>2, <3>3 DEF IdleIsListed, At
  <2>. QED BY <2>3, <2>4
<1>2. ASSUME NEW t \in Thread, PushCommit(t) PROVE IdleIsListed'
  <2>1. /\ pc[t] = "commit" /\ pc'[t] # "wait"
        /\ target[t] # NoWorker => pc'[t] = "notify"
        /\ \A u \in Thread : u # t => pc'[u] = pc[u]
        /\ UNCHANGED <<checkList, hasWork, target, current>>
    BY <1>0, <1>2 DEF PushCommit, Goto, At, AfterPush, sharedVars
  <2>2. \A u \in Thread, w \in Worker : Holds(u, w) => Holds(u, w)'
    BY <2>1, ThreadFacts DEF Holds, HandingOff
  <2>. QED BY <2>1, <2>2, ThreadFacts DEF IdleIsListed, At
<1>3. ASSUME NEW t \in Thread, Notify(t) PROVE IdleIsListed'
  <2>1. /\ pc[t] = "notify" /\ pc'[t] # "wait" /\ Dest(t) \in Worker
        /\ \A u \in Thread : u # t => pc'[u] = pc[u]
        /\ hasWork'[Dest(t)] = TRUE
        /\ \A w \in Worker : w # Dest(t) => hasWork'[w] = hasWork[w]
        /\ UNCHANGED <<checkList, target, current>>
    BY <1>0, <1>3, DestIsWorker DEF Notify, Goto, At, AfterPush, TypeInv
  <2>2. \A u \in Thread, w \in Worker : Holds(u, w) /\ w # Dest(t) => Holds(u, w)'
    BY <2>1, ThreadFacts DEF Holds, HandingOff, Dest
  <2>. QED BY <2>1, <2>2, ThreadFacts DEF IdleIsListed, At
<1>4. ASSUME NEW v \in Worker, ClearHasWork(v) PROVE IdleIsListed'
  <2>1. /\ pc[v] = "clear" /\ pc'[v] = "list"
        /\ \A u \in Thread : u # v => pc'[u] = pc[u]
        /\ \A w \in Worker : w # v => hasWork'[w] = hasWork[w]
        /\ UNCHANGED <<checkList, target, current>>
    BY <1>0, <1>4, ThreadFacts DEF ClearHasWork, Goto, At
  <2>2. \A u \in Thread, w \in Worker : Holds(u, w) => Holds(u, w)'
    BY <2>1, ThreadFacts DEF Holds, HandingOff
  <2>. QED BY <2>1, <2>2, ThreadFacts DEF IdleIsListed, At
<1>5. ASSUME NEW v \in Worker, ListAsIdle(v) PROVE IdleIsListed'
  <2>1. /\ pc[v] = "list" /\ pc'[v] = "wait" /\ checkList' = checkList \cup {v}
        /\ \A u \in Thread : u # v => pc'[u] = pc[u]
        /\ UNCHANGED <<hasWork, target, current>>
    BY <1>0, <1>5, ThreadFacts DEF ListAsIdle, Goto, At
  <2>2. \A u \in Thread, w \in Worker : Holds(u, w) => Holds(u, w)'
    BY <2>1, ThreadFacts DEF Holds, HandingOff
  <2>. QED BY <2>1, <2>2, ThreadFacts DEF IdleIsListed, At
<1>6. ASSUME NEW t \in Thread, EnqueueStep(t) PROVE IdleIsListed'
  BY <1>1, <1>2, <1>3, <1>6, EnqueueElsewhere, WaitersStay DEF EnqueueStep
<1>7. ASSUME NEW w \in Worker, WorkerStep(w) PROVE IdleIsListed'
  BY <1>4, <1>5, <1>7, WorkerElsewhere, WaitersStay, ThreadFacts
<1>8. CASE MainStep
  BY <1>8, MainElsewhere, WaitersStay, ThreadFacts
<1>9. CASE UNCHANGED vars
  BY <1>9 DEF vars, sharedVars, threadVars, IdleIsListed, At, Holds, HandingOff
<1>. QED BY <1>6, <1>7, <1>8, <1>9 DEF Next, AllGroupsDone

(* No worker blocks on a backlog nobody is about to wake it for.           *)
LEMMA BacklogStep ==
    ASSUME TypeInv, OwnInv, ~overflowed, BacklogCleared, [Next]_vars
    PROVE  BacklogCleared'
<1>0. /\ pc \in [Thread -> Label] /\ hasWork \in [Worker -> BOOLEAN]
      /\ size \in [Worker -> Nat] /\ target \in [Thread -> Worker \cup {NoWorker}]
  BY DEF TypeInv, TypeOK
<1>1. ASSUME NEW t \in Thread, SecureWorker(t) PROVE BacklogCleared'
  <2>1. /\ pc[t] = "secure" /\ pc'[t] \in {"give", "count"}
        /\ \A u \in Thread : u # t => pc'[u] = pc[u] /\ target'[u] = target[u]
        /\ UNCHANGED <<hasWork, size>>
    BY <1>0, <1>1 DEF SecureWorker, Goto, At, stackVars
  <2>2. \A u \in Thread : pc[u] = "notify" => u # t /\ Dest(u)' = Dest(u)
    BY <2>1 DEF Dest, Backlog
  <2>. QED BY <2>1, <2>2, ThreadFacts DEF BacklogCleared, At
<1>2. ASSUME NEW t \in Thread, PushCommit(t) PROVE BacklogCleared'
  <2>1. /\ pc[t] = "commit" /\ pc'[t] # "wait" /\ Dest(t) \in Worker
        /\ ~(target[t] = NoWorker /\ t # Main) => pc'[t] = "notify"
        /\ \A u \in Thread : u # t => pc'[u] = pc[u]
        /\ \A w \in Worker : w # Dest(t) => size'[w] = size[w]
        /\ UNCHANGED <<hasWork, target>>
    BY <1>0, <1>2, DestIsWorker DEF PushCommit, Goto, At, AfterPush, sharedVars, TypeInv
  <2>2. \A u \in Thread : Dest(u)' = Dest(u)
    BY <2>1 DEF Dest, Backlog
  <2>3. SUFFICES ASSUME NEW w \in Worker, pc'[w] = "wait", ~hasWork'[w], size'[w] > 0
                 PROVE  \E u \in Thread : Dest(u)' = w /\ pc'[u] = "notify"
    BY DEF BacklogCleared, At
  <2>4. CASE w = Dest(t)
    <3>1. w # t
      BY <2>1, <2>3
    <3>2. pc'[t] = "notify"
      BY <2>1, <2>4, <3>1 DEF Dest, Backlog
    <3>. QED BY <2>2, <2>4, <3>2
  <2>5. CASE w # Dest(t)
    <3>1. pc[w] = "wait" /\ ~hasWork[w] /\ size[w] > 0
      BY <2>1, <2>3, <2>5, ThreadFacts
    <3>2. PICK u \in Thread : Dest(u) = w /\ pc[u] = "notify"
      BY <3>1 DEF BacklogCleared, At
    <3>. QED BY <2>1, <2>2, <3>2
  <2>. QED BY <2>4, <2>5
<1>3. ASSUME NEW t \in Thread, Notify(t) PROVE BacklogCleared'
  <2>1. /\ pc[t] = "notify" /\ pc'[t] # "wait" /\ Dest(t) \in Worker
        /\ \A u \in Thread : u # t => pc'[u] = pc[u]
        /\ hasWork'[Dest(t)] = TRUE
        /\ \A w \in Worker : w # Dest(t) => hasWork'[w] = hasWork[w]
        /\ UNCHANGED <<size, target>>
    BY <1>0, <1>3, DestIsWorker DEF Notify, Goto, At, AfterPush, stackVars, TypeInv
  <2>2. \A u \in Thread : Dest(u)' = Dest(u)
    BY <2>1 DEF Dest, Backlog
  <2>3. SUFFICES ASSUME NEW w \in Worker, pc'[w] = "wait", ~hasWork'[w], size'[w] > 0
                 PROVE  \E u \in Thread : Dest(u)' = w /\ pc'[u] = "notify"
    BY DEF BacklogCleared, At
  <2>4. w # Dest(t) /\ pc[w] = "wait" /\ ~hasWork[w] /\ size[w] > 0
    BY <2>1, <2>3, ThreadFacts
  <2>5. PICK u \in Thread : Dest(u) = w /\ pc[u] = "notify"
    BY <2>4 DEF BacklogCleared, At
  <2>. QED BY <2>1, <2>2, <2>4, <2>5
<1>4. ASSUME NEW v \in Worker, ClearHasWork(v) PROVE BacklogCleared'
  <2>1. /\ pc[v] = "clear" /\ pc'[v] = "list"
        /\ \A u \in Thread : u # v => pc'[u] = pc[u]
        /\ \A w \in Worker : w # v => hasWork'[w] = hasWork[w]
        /\ UNCHANGED <<size, target>>
    BY <1>0, <1>4, ThreadFacts DEF ClearHasWork, Goto, At, stackVars
  <2>2. \A u \in Thread : Dest(u)' = Dest(u)
    BY <2>1 DEF Dest, Backlog
  <2>. QED BY <2>1, <2>2, ThreadFacts DEF BacklogCleared, At
<1>5. ASSUME NEW v \in Worker, ListAsIdle(v) PROVE BacklogCleared'
  <2>1. /\ pc[v] = "list" /\ pc'[v] = "wait"
        /\ \A u \in Thread : u # v => pc'[u] = pc[u]
        /\ UNCHANGED <<hasWork, size, target>>
    BY <1>0, <1>5, ThreadFacts DEF ListAsIdle, Goto, At, stackVars
  <2>2. \A u \in Thread : Dest(u)' = Dest(u)
    BY <2>1 DEF Dest, Backlog
  <2>3. size[v] = 0
    BY <2>1 DEF OwnInv, OwnerInv, Guarded, GoingIdle
  <2>. QED BY <2>1, <2>2, <2>3, ThreadFacts DEF BacklogCleared, At
<1>6. ASSUME NEW t \in Thread, EnqueueStep(t) PROVE BacklogCleared'
  BY <1>1, <1>2, <1>3, <1>6, EnqueueElsewhere, WaitersStay DEF EnqueueStep
<1>7. ASSUME NEW w \in Worker, WorkerStep(w) PROVE BacklogCleared'
  BY <1>4, <1>5, <1>7, WorkerElsewhere, WaitersStay, ThreadFacts
<1>8. CASE MainStep
  BY <1>8, MainElsewhere, WaitersStay, ThreadFacts
<1>9. CASE UNCHANGED vars
  BY <1>9 DEF vars, sharedVars, stackVars, threadVars, BacklogCleared, At, Dest, Backlog
<1>. QED BY <1>6, <1>7, <1>8, <1>9 DEF Next, AllGroupsDone
(* With fewer workers than the mask has bits the check list starts full.   *)
LEMMA WaitingInit == ASSUME Init, WorkerCount < MaskBits PROVE IdleIsListed /\ BacklogCleared
<1>1. checkList = Worker /\ \A w \in Worker : size[w] = 0
  BY DEF Init, InitialMasks
<1>. QED BY <1>1 DEF IdleIsListed, BacklogCleared

(* Nothing slips through the pool (secureWorker, enqueue, runWorker,       *)
(* wait): as long as main found an idle worker for what it dispatched, no  *)
(* task runs twice, the group counter neither loses nor gains one, no      *)
(* worker blocks on a backlog of its own, and none is forgotten.           *)
THEOREM NothingSlips ==
    DispatchedOnce /\ WorkerCount < MaskBits => (Spec => [](~overflowed => AllAccountedFor))
<1>. SUFFICES ASSUME DispatchedOnce, WorkerCount < MaskBits
              PROVE  Spec => [](~overflowed => AllAccountedFor)
  OBVIOUS
<1>. DEFINE W == IdleIsListed /\ (~overflowed => BacklogCleared)
<1>1. Init => W
  BY WaitingInit
<1>2. W /\ TypeInv /\ OwnInv /\ [Next]_vars => W'
  <2>. SUFFICES ASSUME W, TypeInv, OwnInv, [Next]_vars PROVE W'
    OBVIOUS
  <2>1. IdleIsListed'
    BY IdleStep
  <2>2. ~overflowed' => BacklogCleared'
    BY BacklogStep, OverflowStays
  <2>. QED BY <2>1, <2>2
<1>3. GroupInv /\ W => (~overflowed => AllAccountedFor)
  BY DEF GroupInv, Counted, AllAccountedFor
<1>4. Spec => []GroupInv
  BY GroupInvariant
<1>. QED BY <1>1, <1>2, <1>3, <1>4, TypeInvariant, OwnInvariant, PTL DEF Spec

(* wait() returns only when every task of the group has run, those         *)
(* dispatched by tasks included, unless main had to push unguarded.        *)
THEOREM WaitCovers == DispatchedOnce => (Spec => [](~overflowed => WaitCoversGroup))
<1>. SUFFICES ASSUME DispatchedOnce PROVE Spec => [](~overflowed => WaitCoversGroup)
  OBVIOUS
<1>1. GroupInv => (~overflowed => WaitCoversGroup)
  BY DEF GroupInv, Counted
<1>2. Spec => []GroupInv
  BY GroupInvariant
<1>. QED BY <1>1, <1>2, PTL

-----------------------------------------------------------------------------
(* The pool does step by step what TaskGroup promises: a dispatch that     *)
(* passes its guard dispatches, a task function's return processes, every  *)
(* other step of the pool is hidden.                                       *)
LEMMA DispatchIsDispatch ==
    ASSUME TypeInv, DispatchedOnce, Places, Once, Counted, NEW t, NEW x, Dispatches(t, x)
    PROVE  [Promise!GNext]_(Promise!gvars)
<1>0. /\ t \in Thread /\ x \in Task /\ DispatchTask(t, x) /\ ~HandingOff(t)
      /\ pc[t] \in {"run", "dispatch"} /\ Main \in Thread /\ pc \in [Thread -> Label]
      /\ (t = Main => pc[t] = "dispatch") /\ (t # Main => pc[t] = "run" /\ t \in Worker)
  BY ThreadFacts DEF Dispatches, TypeInv, TypeOK
<1>1. CASE x \in Parse /\ status[x] # "DIRTY"
  <2>1. UNCHANGED <<pc, dispatched, runs>>
    BY <1>0, <1>1 DEF DispatchTask
  <2>. QED BY <2>1 DEF Promise!gvars, Pending, Finished, GroupOpen
<1>2. CASE ~(x \in Parse /\ status[x] # "DIRTY")
  <2>1. x \notin dispatched /\ runs[x] = 0
    BY <1>2, FreshTask
  <2>2. Pending' = Pending \cup {x} /\ x \notin Pending
    BY <1>0, <1>2, <2>1, DispatchPlaces
  <2>3. Finished' = Finished /\ x \notin Finished
    BY <1>0, <2>1 DEF DispatchTask, Finished
  <2>4. GroupOpen
    <3>1. CASE t = Main
      BY <1>0, <3>1 DEF GroupOpen
    <3>2. CASE t # Main
      BY <1>0, <3>2, NothingBetween DEF Places
    <3>. QED BY <3>1, <3>2
  <2>5. pc' = [pc EXCEPT ![t] = "load"]
    BY <1>0, <1>2 DEF DispatchTask, Goto
  <2>6. GroupOpen' = GroupOpen
    BY <1>0, <2>4, <2>5 DEF GroupOpen
  <2>7. Promise!Dispatch(x)
    BY <2>2, <2>3, <2>4, <2>6 DEF Promise!Dispatch
  <2>. QED BY <1>0, <2>7 DEF Promise!GNext
<1>. QED BY <1>1, <1>2

LEMMA ReturnIsProcess ==
    ASSUME TypeInv, Places, NEW w \in Worker, TaskReturns(w)
    PROVE  Promise!GNext
<1>0. /\ runs \in [Task -> 0 .. 2] /\ pc \in [Thread -> Label] /\ dispatched \subseteq Task
  BY DEF TypeInv, TypeOK
<1>1. PICK x \in Task : x = current[w] /\ x \in Pending /\ runs[x] = 0
  BY <1>0, TaskReturnsPlaces DEF Pending
<1>2. Pending' = Pending \ {x}
  BY <1>1, TaskReturnsPlaces
<1>3. runs' = [runs EXCEPT ![x] = 1] /\ pc' = [pc EXCEPT ![w] = "finish"]
  BY <1>0, <1>1 DEF TaskReturns, Goto
<1>4. Finished' = Finished \cup {x}
  BY <1>0, <1>1, <1>3 DEF Finished
<1>5. GroupOpen' = GroupOpen
  BY <1>0, <1>3, ThreadFacts DEF GroupOpen
<1>6. Promise!Process(x)
  BY <1>1, <1>2, <1>4, <1>5 DEF Promise!Process
<1>. QED BY <1>1, <1>6 DEF Promise!GNext

LEMMA GroupRefinementStep ==
    ASSUME TypeInv, DispatchedOnce, GroupInv, ~overflowed, [Next]_vars
    PROVE  [Promise!GNext]_(Promise!gvars)
<1>0. Places /\ Once /\ Counted /\ pc \in [Thread -> Label] /\ Main \in Thread
  BY ThreadFacts DEF GroupInv, Places, TypeInv, TypeOK
<1>1. ASSUME NEW t \in Thread, EnqueueStep(t) PROVE [Promise!GNext]_(Promise!gvars)
  <2>1. UNCHANGED <<dispatched, runs>> /\ GroupOpen' = GroupOpen
    BY <1>1, EnqueueKeeps DEF GroupOpen
  <2>. QED BY <2>1 DEF Promise!gvars, Pending, Finished
<1>2. ASSUME NEW w \in Worker, WorkerStep(w) PROVE [Promise!GNext]_(Promise!gvars)
  <2>1. CASE DispatchImport(w)
    BY <1>0, <2>1, WhoDispatches, DispatchIsDispatch
  <2>2. CASE TaskReturns(w)
    BY <1>0, <2>2, ReturnIsProcess
  <2>3. CASE ~DispatchImport(w) /\ ~TaskReturns(w)
    <3>1. UNCHANGED <<dispatched, runs>> /\ GroupOpen' = GroupOpen
      BY <1>2, <2>3, WorkerKeeps DEF GroupOpen
    <3>. QED BY <3>1 DEF Promise!gvars, Pending, Finished
  <2>. QED BY <2>1, <2>2, <2>3
<1>3. CASE BeginGroup
  <2>1. /\ pc[Main] = "begin" /\ pc'[Main] = "dispatch" /\ UNCHANGED <<dispatched, runs>>
    BY <1>0, <1>3 DEF BeginGroup, At, Goto, historyVars
  <2>2. Promise!Open
    BY <2>1 DEF Promise!Open, Pending, Finished, GroupOpen
  <2>. QED BY <2>2 DEF Promise!GNext
<1>4. CASE DispatchRoot
  BY <1>0, <1>4, WhoDispatches, DispatchIsDispatch
<1>5. CASE CallWait
  <2>1. /\ pc[Main] = "dispatch" /\ pc'[Main] = "await" /\ UNCHANGED <<dispatched, runs>>
    BY <1>0, <1>5 DEF CallWait, At, Goto, historyVars
  <2>2. GroupOpen' = GroupOpen
    BY <2>1 DEF GroupOpen
  <2>. QED BY <2>1, <2>2 DEF Promise!gvars, Pending, Finished
<1>6. CASE WaitReturns
  <2>1. /\ pc[Main] = "await" /\ taskCount <= 0 /\ pc'[Main] \in {"done", "begin"}
        /\ UNCHANGED <<dispatched, runs>>
    BY <1>0, <1>6 DEF WaitReturns, At, Goto, historyVars
  <2>2. Pending = {}
    BY <1>0, <2>1, AwaitCovers DEF Places
  <2>3. Promise!Close
    BY <2>1, <2>2 DEF Promise!Close, Pending, Finished, GroupOpen
  <2>. QED BY <2>3 DEF Promise!GNext
<1>7. CASE UNCHANGED vars
  <2>1. UNCHANGED <<pc, dispatched, runs>>
    BY <1>7 DEF vars, threadVars, historyVars
  <2>. QED BY <2>1 DEF Promise!gvars, Pending, Finished, GroupOpen
<1>. QED BY <1>1, <1>2, <1>3, <1>4, <1>5, <1>6, <1>7 DEF Next, MainStep, AllGroupsDone

(* The pool implements the group interface of task_system.h, its liveness  *)
(* aside, on every behaviour on which main never had to push unguarded.    *)
THEOREM PoolIsAGroup ==
    DispatchedOnce => (Spec /\ []~overflowed => Promise!GInit /\ [][Promise!GNext]_(Promise!gvars))
<1>. SUFFICES ASSUME DispatchedOnce
              PROVE  Spec /\ []~overflowed => Promise!GInit /\ [][Promise!GNext]_(Promise!gvars)
  OBVIOUS
<1>1. Init => Promise!GInit
  BY ThreadFacts DEF Init, Promise!GInit, Pending, Finished, GroupOpen
<1>2. TypeInv /\ GroupInv /\ ~overflowed /\ [Next]_vars => [Promise!GNext]_(Promise!gvars)
  BY GroupRefinementStep
<1>3. Spec => []GroupInv
  BY GroupInvariant
<1>. QED BY <1>1, <1>2, <1>3, TypeInvariant, PTL DEF Spec
-----------------------------------------------------------------------------
(* The compiler's first group is one dispatch: parse the entry file.  Until *)
(* main has secured a worker for it, every worker waits in the check list.  *)
OneRoot == Len(Groups[1]) = 1 /\ WorkerCount < MaskBits
InFirstGroup == group = 1 \/ (group = 2 /\ pc[Main] \in {"begin", "done"})

Untouched ==
    /\ checkList = Worker
    /\ \A w \in Worker : pc[w] = "wait" /\ ~hasWork[w]

FirstDispatch ==
    /\ ~overflowed
    /\ pc[Main] \in {"begin", "load", "secure"} => Untouched
    /\ pc[Main] = "dispatch" => Untouched \/ next[Main] > 1
    /\ pc[Main] = "secure" => copy[Main] = Worker
    /\ pc[Main] = "count" => target[Main] # NoWorker
    /\ pc[Main] \in {"load", "secure", "count", "push", "commit", "notify"} => next[Main] > 1

FirstInv == (group = 1 => FirstDispatch) /\ (InFirstGroup => ~overflowed)

(* A worker that is untouched takes no step.                               *)
LEMMA UntouchedRest ==
    ASSUME Untouched, NEW w \in Worker
    PROVE  ~EnqueueStep(w) /\ ~WorkerStep(w)
<1>1. pc[w] = "wait" /\ ~hasWork[w]
  BY DEF Untouched
<1>2. ~EnqueueStep(w)
  BY <1>1 DEF EnqueueStep, At, LoadCheckList, SecureWorker, RetrySecure, NobodyIdle, CountTask,
              PushWrite, PushCommit, Notify
<1>3. ~WorkerStep(w)
  BY <1>1 DEF WorkerStep, At, Wake, TakeTask, StackEmpty, ClearHasWork, ListAsIdle, PopLoad, PopStore,
              DispatchImport, TaskReturns, FinishTask, ShareBacklog, PointToLast
<1>. QED BY <1>2, <1>3

(* The steps of the workers touch nothing of main's.                       *)
LEMMA WorkersLeaveMain ==
    ASSUME TypeInv, NEW w \in Worker, EnqueueStep(w) \/ WorkerStep(w)
    PROVE  /\ pc'[Main] = pc[Main] /\ next'[Main] = next[Main] /\ group' = group
           /\ target'[Main] = target[Main] /\ copy'[Main] = copy[Main]
           /\ overflowed' = overflowed
<1>0. /\ pc \in [Thread -> Label] /\ target \in [Thread -> Worker \cup {NoWorker}]
      /\ copy \in [Thread -> SUBSET Worker] /\ w \in Thread /\ w # Main /\ Main \in Thread
  BY ThreadFacts DEF TypeInv, TypeOK
<1>1. CASE EnqueueStep(w)
  <2>. USE <1>0 DEF Goto, At, sharedVars, stackVars, historyVars
  <2>1. pc'[Main] = pc[Main] /\ next' = next /\ group' = group
    BY <1>0, <1>1, EnqueueKeeps
  <2>2. CASE LoadCheckList(w)
    BY <2>1, <2>2 DEF LoadCheckList
  <2>3. CASE SecureWorker(w)
    BY <2>1, <2>3 DEF SecureWorker
  <2>4. CASE RetrySecure(w)
    BY <2>1, <2>4 DEF RetrySecure
  <2>5. CASE NobodyIdle(w)
    BY <2>1, <2>5 DEF NobodyIdle
  <2>6. CASE CountTask(w)
    BY <2>1, <2>6 DEF CountTask
  <2>7. CASE PushWrite(w)
    BY <2>1, <2>7 DEF PushWrite
  <2>8. CASE PushCommit(w)
    BY <2>1, <2>8 DEF PushCommit
  <2>9. CASE Notify(w)
    BY <2>1, <2>9 DEF Notify
  <2>. QED BY <1>1, <2>2, <2>3, <2>4, <2>5, <2>6, <2>7, <2>8, <2>9 DEF EnqueueStep
<1>2. CASE WorkerStep(w)
  <2>1. target' = target /\ copy' = copy
    BY <1>2 DEF WorkerStep, Wake, TakeTask, StackEmpty, ClearHasWork, ListAsIdle, PopLoad, PopStore,
                DispatchImport, DispatchTask, TaskReturns, FinishTask, ShareBacklog, PointToLast
  <2>. QED BY <1>2, <2>1, WorkerKeeps
<1>. QED BY <1>1, <1>2

(* Main secures a worker for its first task at the first attempt or later. *)
LEMMA MainSecures ==
    ASSUME TypeInv, FirstDispatch, group = 1, EnqueueStep(Main)
    PROVE  FirstDispatch'
<1>0. /\ pc \in [Thread -> Label] /\ target \in [Thread -> Worker \cup {NoWorker}]
      /\ copy \in [Thread -> SUBSET Worker] /\ Main \in Thread /\ next[Main] \in Nat
      /\ checkList \subseteq Worker /\ Main \notin Worker /\ 0 \in Worker /\ NoWorker \notin Worker
  BY ThreadFacts DEF TypeInv, TypeOK
<1>. USE DEF At, sharedVars, stackVars, historyVars
<1>1. CASE LoadCheckList(Main)
  <2>1. /\ pc[Main] = "load" /\ pc' = [pc EXCEPT ![Main] = "secure"]
        /\ copy' = [copy EXCEPT ![Main] = checkList] /\ UNCHANGED <<checkList, hasWork, next, overflowed>>
    BY <1>1 DEF LoadCheckList, Goto
  <2>2. pc'[Main] = "secure" /\ copy'[Main] = checkList /\ \A w \in Worker : pc'[w] = pc[w]
    BY <1>0, <2>1, ThreadFacts
  <2>. QED BY <2>1, <2>2 DEF FirstDispatch, Untouched
<1>2. CASE SecureWorker(Main)
  <2>1. /\ pc[Main] = "secure" /\ pc'[Main] = "count" /\ target'[Main] \in Worker
        /\ UNCHANGED <<next, overflowed>>
    BY <1>0, <1>2 DEF SecureWorker, Goto, HandingOff
  <2>. QED BY <1>0, <2>1 DEF FirstDispatch
<1>3. CASE RetrySecure(Main)
  <2>1. /\ pc[Main] = "secure" /\ copy'[Main] = checkList
        /\ UNCHANGED <<pc, checkList, hasWork, next, overflowed>>
    BY <1>0, <1>3 DEF RetrySecure
  <2>. QED BY <2>1 DEF FirstDispatch, Untouched
<1>4. CASE NobodyIdle(Main)
  BY <1>0, <1>4 DEF NobodyIdle, FirstDispatch
<1>5. CASE CountTask(Main)
  <2>1. pc[Main] = "count" /\ pc'[Main] = "push" /\ next' = next /\ target[Main] # NoWorker
    BY <1>0, <1>5 DEF CountTask, Goto, FirstDispatch
  <2>2. overflowed' = overflowed
    BY <1>5, <2>1 DEF CountTask
  <2>. QED BY <2>1, <2>2 DEF FirstDispatch
<1>6. CASE PushWrite(Main)
  <2>1. pc[Main] = "push" /\ pc'[Main] = "commit" /\ UNCHANGED <<next, overflowed>>
    BY <1>0, <1>6 DEF PushWrite, Goto
  <2>. QED BY <2>1 DEF FirstDispatch
<1>7. CASE PushCommit(Main)
  <2>1. pc[Main] = "commit" /\ pc'[Main] = "notify" /\ UNCHANGED <<next, overflowed>>
    BY <1>0, <1>7 DEF PushCommit, Goto, AfterPush
  <2>. QED BY <2>1 DEF FirstDispatch
<1>8. CASE Notify(Main)
  <2>1. pc[Main] = "notify" /\ pc'[Main] = "dispatch" /\ UNCHANGED <<next, overflowed>>
    BY <1>0, <1>8 DEF Notify, Goto, AfterPush
  <2>. QED BY <2>1 DEF FirstDispatch
<1>. QED BY <1>1, <1>2, <1>3, <1>4, <1>5, <1>6, <1>7, <1>8 DEF EnqueueStep

LEMMA FirstStep == ASSUME TypeInv, OneRoot, FirstInv, [Next]_vars PROVE FirstInv'
<1>0. /\ pc \in [Thread -> Label] /\ Main \in Thread /\ next[Main] \in Nat /\ group \in Nat
      /\ next \in [Thread -> Nat \ {0}] /\ Main \notin Worker
  BY ThreadFacts DEF TypeInv, TypeOK
<1>n. next[Main] >= 1 /\ group >= 1
  <2>1. group \in 1 .. Len(Groups) + 1 /\ Len(Groups) \in Nat /\ next[Main] \in Nat \ {0}
    BY <1>0, DispatchedAreTasks DEF TypeInv, TypeOK
  <2>. QED BY <2>1
<1>1. ASSUME NEW w \in Worker, EnqueueStep(w) \/ WorkerStep(w) PROVE FirstInv'
  <2>1. /\ pc'[Main] = pc[Main] /\ next'[Main] = next[Main] /\ group' = group
        /\ target'[Main] = target[Main] /\ copy'[Main] = copy[Main] /\ overflowed' = overflowed
    BY <1>1, WorkersLeaveMain
  <2>2. ~Untouched
    BY <1>1, UntouchedRest
  <2>. QED BY <2>1, <2>2 DEF FirstInv, FirstDispatch, InFirstGroup
<1>2. CASE EnqueueStep(Main)
  <2>1. group' = group /\ (pc'[Main] \in {"begin", "done"} <=> pc[Main] \in {"begin", "done"})
    BY <1>0, <1>2, EnqueueKeeps
  <2>2. pc[Main] \notin {"begin", "done"}
    BY <1>2 DEF EnqueueStep, At, LoadCheckList, SecureWorker, RetrySecure, NobodyIdle, CountTask,
                PushWrite, PushCommit, Notify
  <2>3. group = 1 => FirstDispatch'
    BY <1>2, MainSecures DEF FirstInv
  <2>. QED BY <2>1, <2>2, <2>3 DEF FirstInv, InFirstGroup, FirstDispatch
<1>3. CASE BeginGroup
  <2>1. /\ pc[Main] = "begin" /\ pc' = [pc EXCEPT ![Main] = "dispatch"]
        /\ UNCHANGED <<group, checkList, hasWork, overflowed>>
    BY <1>3 DEF BeginGroup, Goto, At, historyVars
  <2>2. pc'[Main] = "dispatch" /\ \A w \in Worker : pc'[w] = pc[w]
    BY <1>0, <2>1, ThreadFacts
  <2>. QED BY <2>1, <2>2 DEF FirstInv, FirstDispatch, InFirstGroup, Untouched
<1>4. CASE DispatchRoot
  <2>1. /\ pc[Main] = "dispatch" /\ next[Main] <= Len(Groups[group])
        /\ next'[Main] = next[Main] + 1
        /\ UNCHANGED <<group, checkList, hasWork, overflowed>>
        /\ pc' = pc \/ pc' = [pc EXCEPT ![Main] = "load"]
    BY <1>0, <1>4 DEF DispatchRoot, DispatchTask, Goto, At
  <2>2. pc'[Main] \in {"dispatch", "load"} /\ \A w \in Worker : pc'[w] = pc[w]
    BY <1>0, <2>1, ThreadFacts
  <2>3. group = 1 => next[Main] = 1
    <3>1. group = 1 => next[Main] <= 1
      BY <2>1 DEF OneRoot
    <3>. QED BY <1>0, <1>n, <3>1
  <2>4. group = 1 => Untouched /\ next'[Main] > 1
    BY <1>0, <2>1, <2>3 DEF FirstInv, FirstDispatch
  <2>5. group = 1 => Untouched'
    BY <2>1, <2>2, <2>4 DEF Untouched
  <2>. QED BY <2>1, <2>2, <2>4, <2>5 DEF FirstInv, FirstDispatch, InFirstGroup
<1>5. CASE CallWait
  <2>1. /\ pc[Main] = "dispatch" /\ pc'[Main] = "await" /\ UNCHANGED <<group, overflowed>>
    BY <1>0, <1>5 DEF CallWait, Goto, At, historyVars
  <2>. QED BY <2>1 DEF FirstInv, FirstDispatch, InFirstGroup
<1>6. CASE WaitReturns
  <2>1. /\ pc[Main] = "await" /\ group' = group + 1 /\ overflowed' = overflowed
    BY <1>6 DEF WaitReturns, At, historyVars
  <2>2. InFirstGroup' => group = 1 /\ group' # 1
    <3>1. group \in Nat /\ group >= 1 /\ group' = group + 1
      BY <1>0, <1>n, <2>1
    <3>2. group' = 2 => group = 1
      BY <3>1
    <3>3. group' # 1
      BY <3>1
    <3>. QED BY <3>2, <3>3 DEF InFirstGroup
  <2>. QED BY <2>1, <2>2 DEF FirstInv, FirstDispatch, InFirstGroup
<1>7. CASE UNCHANGED vars
  <2>1. UNCHANGED <<pc, group, next, target, copy, checkList, hasWork, overflowed>>
    BY <1>7 DEF vars, sharedVars, threadVars, historyVars
  <2>. QED BY <2>1 DEF FirstInv, FirstDispatch, InFirstGroup, Untouched
<1>8. ASSUME NEW t \in Thread, EnqueueStep(t) PROVE FirstInv'
  BY <1>1, <1>2, <1>8, ThreadFacts
<1>. QED BY <1>1, <1>3, <1>4, <1>5, <1>6, <1>7, <1>8 DEF Next, MainStep, AllGroupsDone

(* While the first group runs nothing is conditional: main secured a       *)
(* worker for the entry file (compiler.cpp:85-87), so that every file is   *)
(* parsed once, the counter is exact, and wait() returns when all are.     *)
THEOREM FirstGroupIsSafe ==
    DispatchedOnce /\ OneRoot => (Spec => [](InFirstGroup => AllAccountedFor /\ WaitCoversGroup))
<1>. SUFFICES ASSUME DispatchedOnce, OneRoot
              PROVE  Spec => [](InFirstGroup => AllAccountedFor /\ WaitCoversGroup)
  OBVIOUS
<1>1. Init => FirstInv
  <2>. SUFFICES ASSUME Init PROVE FirstInv
    OBVIOUS
  <2>1. /\ pc[Main] = "begin" /\ checkList = Worker /\ ~overflowed
        /\ \A w \in Worker : pc[w] = "wait" /\ ~hasWork[w]
    BY ThreadFacts DEF Init, InitialMasks, OneRoot
  <2>. QED BY <2>1 DEF FirstInv, FirstDispatch, Untouched
<1>2. FirstInv /\ TypeInv /\ [Next]_vars => FirstInv'
  BY FirstStep
<1>3. Spec => [](~overflowed => AllAccountedFor)
  BY NothingSlips DEF OneRoot
<1>4. Spec => [](~overflowed => WaitCoversGroup)
  BY WaitCovers
<1>5. FirstInv => (InFirstGroup => ~overflowed)
  BY DEF FirstInv
<1>. QED BY <1>1, <1>2, <1>3, <1>4, <1>5, TypeInvariant, PTL DEF Spec
=============================================================================
