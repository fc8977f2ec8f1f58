-------------------------- MODULE CompileTasksProofs --------------------------
(***************************************************************************)
(* Building on demand, for every program, every set of functions that fail *)
(* to compile and every distribution of jobs over any workers: one worker   *)
(* builds a function, once; a request is through when it returns; what a    *)
(* job runs is there.                                                      *)
(*                                                                         *)
(* A call is dispatched only if its function has no exe block.  That the    *)
(* call is answered for all the same is the heart of the invariant: a       *)
(* function with an exe block is through, or a worker is building it, and   *)
(* a function that is dispatched stays in the hands of a worker, on its     *)
(* local stack or as the one it builds or waits for, until it is through.   *)
(* Only what the root of a unit dispatches does not count: the worker that  *)
(* has it goes on to run its job first.                                    *)
(***************************************************************************)
EXTENDS CompileTasks, SequenceTheorems, TLAPS

Busy(w) == pc[w] \in {"secure", "wait", "compile", "body", "release"}
Draining(w) == pc[w] = "drain" \/ (Busy(w) /\ back[w] = "drain")

Typed ==
    /\ calls \in [Fcn -> Seq(Fcn)]
    /\ jobs \in [Worker -> Seq(Job)] /\ stack \in [Worker -> Seq(Job)]
    /\ compilationStatus \in [Fcn -> {"PENDING", "RUNNING", "READY"}]
    /\ exe \in [Fcn -> {"none", "empty", "filled"}]
    /\ localStack \in [Worker -> Seq(Fcn)]
    /\ job \in [Worker -> Job]
    /\ asked \in [Worker -> SUBSET Fcn]
    /\ pc \in [Worker -> {"loop", "job", "drain", "local",
                          "secure", "wait", "compile", "body", "release"}]
    /\ fcn \in [Worker -> Fcn \cup {NoFcn}]
    /\ pos \in [Worker -> Nat \ {0}]
    /\ back \in [Worker -> {"loop", "drain", "local"}]
    /\ \A w \in Worker : Busy(w) => fcn[w] \in Fcn /\ back[w] \in {"drain", "local"}
    /\ \A w \in Worker : pc[w] = "body" => pos[w] <= Len(calls[fcn[w]]) + 1

(* A request finds an empty local stack, so that the loop it starts empties *)
(* the stack: dispatchCompileTimeBuild could as well come back to nothing.  *)
RequestsFindNothing ==
    /\ startSize = [w \in Worker |-> 0]
    /\ \A w \in Worker :
         pc[w] = "loop" \/ (pc[w] = "job" /\ job[w].todo # <<>>) => localStack[w] = <<>>

(* How far a function is: its exe block is made by the worker that builds   *)
(* it, and a function is through when it is filled or has failed.           *)
BuildStages ==
    /\ \A w \in Worker :
         /\ pc[w] = "compile" => exe[fcn[w]] = "none"
         /\ pc[w] = "body" => exe[fcn[w]] = "empty"
         /\ pc[w] = "release" => exe[fcn[w]] = "filled"
                                 \/ (exe[fcn[w]] = "empty" /\ fcn[w] \in broken)
         /\ pc[w] = "wait" => compilationStatus[fcn[w]] # "PENDING"
    /\ \A f \in Fcn :
         /\ compilationStatus[f] = "PENDING" => exe[f] = "none"
         /\ compilationStatus[f] = "RUNNING" => \E w \in Worker : IsBuilding(w) /\ fcn[w] = f
         /\ compilationStatus[f] = "READY" => exe[f] = "filled"
                                              \/ (exe[f] = "empty" /\ f \in broken)

(* Somebody answers for f: it is through, or in the hands of a worker that  *)
(* will not run its job before f is.                                       *)
Owes(v, f) == pc[v] # "job" /\ f \in InHands(v)
Answered(f) == compilationStatus[f] = "READY" \/ \E v \in Worker : Owes(v, f)

CallsAreAnswered ==
    /\ \A f \in Fcn : exe[f] = "filled" => \A i \in 1..Len(calls[f]) : Answered(calls[f][i])
    /\ \A w \in Worker : pc[w] = "body" =>
         \A i \in 1..(pos[w] - 1) : Answered(calls[fcn[w]][i])

(* A request that has not returned is in the hands of who made it.          *)
RequestsAreAnswered ==
    \A w \in Worker : \A f \in asked[w] :
        compilationStatus[f] = "READY" \/ (Draining(w) /\ f \in InHands(w))

(* Roots that call their own functions leave nothing on the local stack.    *)
RootsLeaveNothing ==
    \A w \in Worker : RootsAreOwn(w) =>
        /\ \A i \in 1..Len(stack[w]) : ToSet(stack[w][i].root) \subseteq ToSet(stack[w][i].todo)
        /\ ToSet(job[w].root) \subseteq asked[w] \cup ToSet(job[w].todo)
        /\ pc[w] \in {"job", "local"} => localStack[w] = <<>>
        /\ Busy(w) => back[w] = "drain"

BuildInv ==
    /\ Typed /\ RequestsFindNothing /\ OneCompiler /\ BuildStages
    /\ CallsAreAnswered /\ RequestsAreAnswered /\ RootsLeaveNothing

USE BuildAssumption

(* What is on a stack after a push, under its top, and behind its head. *)
LEMMA PushFacts ==
    ASSUME NEW S, NEW s \in Seq(S), NEW x \in S
    PROVE  Append(s, x) \in Seq(S) /\ ToSet(Append(s, x)) = ToSet(s) \cup {x}
<1>1. /\ Append(s, x) \in Seq(S) /\ Len(s) \in Nat
      /\ DOMAIN s = 1..Len(s) /\ DOMAIN Append(s, x) = 1..(Len(s) + 1)
      /\ \A i \in 1..Len(s) : Append(s, x)[i] = s[i]
      /\ Append(s, x)[Len(s) + 1] = x
  OBVIOUS
<1>2. \A i \in 1..(Len(s) + 1) : i \in 1..Len(s) \/ i = Len(s) + 1
  BY <1>1
<1>3. \A i \in 1..Len(s) : i \in 1..(Len(s) + 1)
  BY <1>1
<1>4. Len(s) + 1 \in 1..(Len(s) + 1)
  BY <1>1
<1>5. ToSet(Append(s, x)) \subseteq ToSet(s) \cup {x}
  BY <1>1, <1>2 DEF ToSet
<1>6. ToSet(s) \subseteq ToSet(Append(s, x))
  BY <1>1, <1>3 DEF ToSet
<1>7. x \in ToSet(Append(s, x))
  BY <1>1, <1>4 DEF ToSet
<1> QED
  BY <1>1, <1>5, <1>6, <1>7

LEMMA TopFacts ==
    ASSUME NEW S, NEW s \in Seq(S), s # <<>>
    PROVE  /\ Front(s) \in Seq(S) /\ Last(s) \in S
           /\ Len(Front(s)) = Len(s) - 1 /\ Len(s) \in Nat \ {0}
           /\ \A i \in 1..(Len(s) - 1) : Front(s)[i] = s[i]
           /\ Last(s) = s[Len(s)]
           /\ ToSet(s) = ToSet(Front(s)) \cup {Last(s)}
<1>0. Len(s) \in Nat \ {0} /\ DOMAIN s = 1..Len(s) /\ Len(s) \in 1..Len(s)
  OBVIOUS
<1>f. /\ Front(s) \in Seq(S) /\ DOMAIN Front(s) = 1..(Len(s) - 1)
      /\ Len(Front(s)) = Len(s) - 1
      /\ \A i \in 1..(Len(s) - 1) : Front(s)[i] = s[i]
  <2>1. Front(s) = SubSeq(s, 1, Len(s) - 1)
    BY DEF Front
  <2>2. /\ Front(s) \in Seq(S) /\ DOMAIN Front(s) = 1..(Len(s) - 1)
        /\ Len(Front(s)) = Len(s) - 1
    BY <1>0, <2>1
  <2>3. ASSUME NEW i \in 1..(Len(s) - 1) PROVE Front(s)[i] = s[i]
    <3>1. /\ \A j \in 1..(Len(s) - 1) : s[j] \in S
          /\ i \in 1..((Len(s) - 1) - 1 + 1) /\ 1 + i - 1 = i
          /\ 1 \in Int /\ Len(s) - 1 \in Int
      BY <1>0
    <3>2. SubSeq(s, 1, Len(s) - 1)[i] = s[1 + i - 1]
      BY <3>1, SubSeqProperties
    <3> QED
      BY <2>1, <3>1, <3>2
  <2> QED
    BY <2>2, <2>3
<1>l. Last(s) \in S /\ Last(s) = s[Len(s)]
  BY <1>0 DEF Last
<1>1. /\ Front(s) \in Seq(S) /\ Last(s) \in S /\ Last(s) = s[Len(s)]
      /\ Len(s) \in Nat \ {0} /\ Len(Front(s)) = Len(s) - 1
      /\ DOMAIN s = 1..Len(s) /\ DOMAIN Front(s) = 1..(Len(s) - 1)
      /\ \A i \in 1..(Len(s) - 1) : Front(s)[i] = s[i]
  BY <1>0, <1>f, <1>l
<1>2. /\ \A i \in 1..Len(s) : i \in 1..(Len(s) - 1) \/ i = Len(s)
      /\ \A i \in 1..(Len(s) - 1) : i \in 1..Len(s)
      /\ Len(s) \in 1..Len(s)
  BY <1>1
<1>3. ToSet(s) \subseteq ToSet(Front(s)) \cup {Last(s)}
  BY <1>1, <1>2 DEF ToSet
<1>4. ToSet(Front(s)) \subseteq ToSet(s)
  BY <1>1, <1>2 DEF ToSet
<1>5. Last(s) \in ToSet(s)
  BY <1>1, <1>2 DEF ToSet
<1> QED
  BY <1>1, <1>3, <1>4, <1>5

LEMMA HeadFacts ==
    ASSUME NEW S, NEW s \in Seq(S), s # <<>>
    PROVE  /\ Tail(s) \in Seq(S) /\ Head(s) \in S
           /\ ToSet(s) = {Head(s)} \cup ToSet(Tail(s))
<1>1. /\ Tail(s) \in Seq(S) /\ Head(s) \in S /\ Head(s) = s[1]
      /\ Len(s) \in Nat \ {0}
      /\ DOMAIN s = 1..Len(s) /\ DOMAIN Tail(s) = 1..(Len(s) - 1)
      /\ \A i \in 1..(Len(s) - 1) : Tail(s)[i] = s[i + 1]
  OBVIOUS
<1>2. /\ \A i \in 1..Len(s) : i = 1 \/ (i - 1 \in 1..(Len(s) - 1) /\ i = (i - 1) + 1)
      /\ \A i \in 1..(Len(s) - 1) : i + 1 \in 1..Len(s)
      /\ 1 \in 1..Len(s)
  BY <1>1
<1>3. ToSet(s) \subseteq {Head(s)} \cup ToSet(Tail(s))
  <2>1. ASSUME NEW i \in 1..Len(s) PROVE s[i] = Head(s) \/ s[i] \in ToSet(Tail(s))
    <3>1. CASE i = 1
      BY <1>1, <3>1
    <3>2. CASE i # 1
      <4>1. i - 1 \in DOMAIN Tail(s) /\ Tail(s)[i - 1] = s[i]
        BY <1>1, <1>2, <3>2
      <4> QED
        BY <4>1 DEF ToSet
    <3> QED
      BY <3>1, <3>2
  <2> QED
    BY <1>1, <2>1 DEF ToSet
<1>4. ToSet(Tail(s)) \subseteq ToSet(s)
  BY <1>1, <1>2 DEF ToSet
<1>5. Head(s) \in ToSet(s)
  BY <1>1, <1>2 DEF ToSet
<1> QED
  BY <1>1, <1>3, <1>4, <1>5

LEMMA ToSetFacts ==
    ASSUME NEW S, NEW s \in Seq(S)
    PROVE  /\ ToSet(s) \subseteq S
           /\ ToSet(s) = {} <=> s = <<>>
           /\ ToSet(s) = {s[i] : i \in 1..Len(s)}
           /\ Len(s) \in Nat
           /\ \A i \in 1..Len(s) : s[i] \in S
<1>1. Len(s) \in Nat /\ DOMAIN s = 1..Len(s) /\ \A i \in 1..Len(s) : s[i] \in S
  OBVIOUS
<1>2. s # <<>> => 1 \in 1..Len(s)
  OBVIOUS
<1>3. s = <<>> => ToSet(s) = {}
  BY DEF ToSet
<1> QED
  BY <1>1, <1>2, <1>3 DEF ToSet

(* Every step keeps the types. *)
LEMMA TypedStep ==
    ASSUME Typed, RequestsFindNothing, BuildStages, NEW w \in Worker, Step(w)
    PROVE  Typed'
<1> USE DEF Typed, Goto, functions, RunLocalTask, Busy
<1>1. CASE TakeTask(w)
  <2>1. stack[w] \in Seq(Job) /\ stack[w] # <<>>
    BY <1>1 DEF TakeTask
  <2>2. Front(stack[w]) \in Seq(Job) /\ Last(stack[w]) \in Job
    BY <2>1, TopFacts
  <2> QED
    BY <1>1, <2>2 DEF TakeTask
<1>2. CASE Execute(w)
  BY <1>2 DEF Execute
<1>3. CASE LocalTask(w)
  <2>1. localStack[w] \in Seq(Fcn) /\ localStack[w] # <<>>
    BY <1>3 DEF LocalTask, NoLocalTasks
  <2>2. Last(localStack[w]) \in Fcn
    BY <2>1, TopFacts
  <2>3. PopShared(w) \in Seq(Job)
    <3>1. stack[w] # <<>> => Front(stack[w]) \in Seq(Job)
      BY TopFacts
    <3> QED
      BY <3>1 DEF PopShared
  <2> QED
    BY <1>3, <2>2, <2>3 DEF LocalTask
<1>4. CASE TaskDone(w)
  BY <1>4 DEF TaskDone
<1>5. CASE Request(w)
  <2>1. /\ job[w].todo \in Seq(Fcn) /\ job[w].todo # <<>> /\ job[w] \in Job
        /\ localStack[w] \in Seq(Fcn)
    BY <1>5 DEF Request, Job
  <2>2. Head(job[w].todo) \in Fcn /\ Tail(job[w].todo) \in Seq(Fcn)
    BY <2>1, HeadFacts
  <2>3. [job[w] EXCEPT !.todo = Tail(@)] \in Job
    BY <2>1, <2>2 DEF Job
  <2>4. Append(localStack[w], Head(job[w].todo)) \in Seq(Fcn)
    BY <2>1, <2>2
  <2>5. job' \in [Worker -> Job] /\ asked' \in [Worker -> SUBSET Fcn]
    BY <1>5, <2>2, <2>3 DEF Request
  <2>6. UNCHANGED <<functions, stack, fcn, pos, back>> /\ pc[w] = "job"
    BY <1>5 DEF Request
  <2>7. CASE UNCHANGED <<pc, localStack>>
    BY <2>5, <2>6, <2>7
  <2>8. CASE ~ UNCHANGED <<pc, localStack>>
    <3>1. /\ localStack' = [localStack EXCEPT ![w] = Append(@, Head(job[w].todo))]
          /\ pc' = [pc EXCEPT ![w] = "drain"]
      BY <1>5, <2>8 DEF Request
    <3> QED
      BY <2>4, <2>5, <2>6, <3>1
  <2> QED
    BY <2>7, <2>8
<1>6. CASE Drain(w)
  <2>1. localStack[w] \in Seq(Fcn) /\ localStack[w] # <<>>
    BY <1>6 DEF Drain, RequestsFindNothing
  <2>2. Last(localStack[w]) \in Fcn /\ Front(localStack[w]) \in Seq(Fcn)
    BY <2>1, TopFacts
  <2> QED
    BY <1>6, <2>2 DEF Drain
<1>7. CASE Drained(w)
  BY <1>7 DEF Drained
<1>8. CASE RootCall(w)
  <2>1. /\ job[w].root \in Seq(Fcn) /\ job[w].root # <<>> /\ job[w] \in Job
        /\ localStack[w] \in Seq(Fcn)
    BY <1>8 DEF RootCall, Job
  <2>2. Head(job[w].root) \in Fcn /\ Tail(job[w].root) \in Seq(Fcn)
    BY <2>1, HeadFacts
  <2>3. [job[w] EXCEPT !.root = Tail(@)] \in Job
    BY <2>1, <2>2 DEF Job
  <2>4. Dispatched(w, Head(job[w].root)) \in Seq(Fcn)
    BY <2>1, <2>2 DEF Dispatched
  <2> QED
    BY <1>8, <2>3, <2>4 DEF RootCall
<1>9. CASE Secure(w)
  BY <1>9 DEF Secure
<1>10. CASE NotSecured(w)
  BY <1>10 DEF NotSecured
<1>11. CASE WaitForBuild(w)
  BY <1>11 DEF WaitForBuild
<1>12. CASE Begin(w)
  <2>1. calls[fcn[w]] \in Seq(Fcn) /\ Len(calls[fcn[w]]) \in Nat
    BY <1>12 DEF Begin
  <2> QED
    BY <1>12, <2>1 DEF Begin
<1>13. CASE CompileCall(w)
  <2>1. /\ calls[fcn[w]] \in Seq(Fcn) /\ Len(calls[fcn[w]]) \in Nat
        /\ pos[w] \in Nat \ {0} /\ pos[w] <= Len(calls[fcn[w]])
        /\ localStack[w] \in Seq(Fcn)
    BY <1>13 DEF CompileCall
  <2>2. calls[fcn[w]][pos[w]] \in Fcn
    BY <2>1
  <2>3. Dispatched(w, calls[fcn[w]][pos[w]]) \in Seq(Fcn)
    BY <2>1, <2>2 DEF Dispatched
  <2>4. localStack' \in [Worker -> Seq(Fcn)]
    BY <1>13, <2>3 DEF CompileCall
  <2>5. UNCHANGED <<functions, stack, job, asked, pc, fcn, back>>
    BY <1>13 DEF CompileCall
  <2>6. /\ pos' \in [Worker -> Nat \ {0}]
        /\ pos'[w] <= Len(calls[fcn[w]]) + 1
        /\ \A v \in Worker : v # w => pos'[v] = pos[v]
    BY <1>13, <2>1 DEF CompileCall, NextCall
  <2>7. \A v \in Worker : pc'[v] = "body" => pos'[v] <= Len(calls'[fcn'[v]]) + 1
    BY <2>5, <2>6
  <2> QED
    BY <2>4, <2>5, <2>6, <2>7
<1>14. CASE Commit(w)
  BY <1>14 DEF Commit
<1>15. CASE Fail(w)
  BY <1>15 DEF Fail
<1>16. CASE Release(w)
  BY <1>16 DEF Release, ReleasedAs
<1> QED
  BY <1>1, <1>2, <1>3, <1>4, <1>5, <1>6, <1>7, <1>8, <1>9, <1>10, <1>11, <1>12,
     <1>13, <1>14, <1>15, <1>16 DEF Step, Build

(* A step is one worker's; the program does not change and a function that  *)
(* is through stays so.                                                    *)
LEMMA StepShape ==
    ASSUME Typed, NEW w \in Worker, Step(w)
    PROVE  /\ calls' = calls /\ broken' = broken /\ jobs' = jobs
           /\ \A v \in Worker \ {w} :
                /\ stack'[v] = stack[v] /\ localStack'[v] = localStack[v]
                /\ job'[v] = job[v] /\ asked'[v] = asked[v] /\ pc'[v] = pc[v]
                /\ fcn'[v] = fcn[v] /\ pos'[v] = pos[v] /\ back'[v] = back[v]
           /\ \A f \in Fcn : compilationStatus[f] = "READY" => compilationStatus'[f] = "READY"
<1> USE DEF Typed, Goto, functions, RunLocalTask
<1>1. CASE TakeTask(w) \/ Execute(w) \/ LocalTask(w) \/ TaskDone(w)
  BY <1>1 DEF TakeTask, Execute, LocalTask, TaskDone
<1>2. CASE Request(w)
  <2>1. /\ UNCHANGED <<functions, stack, fcn, pos, back>>
        /\ \A v \in Worker \ {w} : job'[v] = job[v] /\ asked'[v] = asked[v]
    BY <1>2 DEF Request
  <2>2. \A v \in Worker \ {w} : pc'[v] = pc[v] /\ localStack'[v] = localStack[v]
    BY <1>2 DEF Request
  <2> QED
    BY <2>1, <2>2
<1>3. CASE Drain(w) \/ Drained(w) \/ RootCall(w)
  BY <1>3 DEF Drain, Drained, RootCall
<1>4. CASE Secure(w) \/ NotSecured(w) \/ WaitForBuild(w) \/ Begin(w)
  BY <1>4 DEF Secure, IsPending, NotSecured, WaitForBuild, Begin
<1>5. CASE CompileCall(w) \/ Commit(w) \/ Fail(w) \/ Release(w)
  BY <1>5 DEF CompileCall, Commit, Fail, Release, ReleasedAs
<1> QED
  BY <1>1, <1>2, <1>3, <1>4, <1>5 DEF Step, Build

LEMMA RequestsFindNothingStep ==
    ASSUME Typed, RequestsFindNothing, NEW w \in Worker, Step(w)
    PROVE  RequestsFindNothing'
<1> USE DEF Goto, functions, RunLocalTask
<1>1. CASE Request(w)
  <2>1. /\ localStack[w] = <<>> /\ localStack[w] \in Seq(Fcn)
        /\ pc[w] = "job" /\ job[w].todo # <<>>
    BY <1>1 DEF Request, RequestsFindNothing, Typed
  <2>2. Len(localStack[w]) = 0
    BY <2>1
  <2>3. startSize' = startSize \/ startSize' = [startSize EXCEPT ![w] = 0]
    BY <1>1, <2>2 DEF Request, Start
  <2>4. startSize' = [v \in Worker |-> 0]
    BY <2>3 DEF RequestsFindNothing
  <2>5. /\ \A v \in Worker \ {w} : /\ pc'[v] = pc[v] /\ job'[v] = job[v]
                                   /\ localStack'[v] = localStack[v]
        /\ pc'[w] = "drain" \/ (pc'[w] = "job" /\ localStack'[w] = localStack[w])
    BY <1>1, <2>1 DEF Request, Typed
  <2> QED
    BY <2>1, <2>4, <2>5 DEF RequestsFindNothing
<1>2. CASE Drained(w)
  <2>1. localStack[w] = <<>>
    <3>1. localStack[w] \in Seq(Fcn) /\ Len(localStack[w]) <= 0
      BY <1>2 DEF Drained, Typed, RequestsFindNothing
    <3> QED
      BY <3>1
  <2> QED
    BY <1>2, <2>1 DEF Drained, RequestsFindNothing, Typed
<1>3. CASE RootCall(w)
  <2>1. job'[w].todo = <<>>
    BY <1>3 DEF RootCall, Typed
  <2> QED
    BY <1>3, <2>1 DEF RootCall, RequestsFindNothing, Typed
<1>4. CASE TakeTask(w) \/ Execute(w) \/ LocalTask(w) \/ TaskDone(w) \/ Drain(w)
  <2>1. CASE TakeTask(w)
    BY <2>1 DEF TakeTask, RequestsFindNothing, Typed
  <2>2. CASE Execute(w)
    BY <2>2 DEF Execute, RequestsFindNothing, Typed
  <2>3. CASE LocalTask(w)
    BY <2>3 DEF LocalTask, NoLocalTasks, RequestsFindNothing, Typed
  <2>4. CASE TaskDone(w)
    BY <2>4 DEF TaskDone, NoLocalTasks, RequestsFindNothing, Typed
  <2>5. CASE Drain(w)
    BY <2>5 DEF Drain, RequestsFindNothing, Typed
  <2> QED
    BY <1>4, <2>1, <2>2, <2>3, <2>4, <2>5
<1>5. CASE Secure(w) \/ NotSecured(w) \/ WaitForBuild(w) \/ Begin(w)
  <2>1. /\ UNCHANGED <<localStack, job, startSize>>
        /\ pc'[w] \notin {"loop", "job"}
    <3>1. CASE Secure(w) \/ NotSecured(w)
      BY <3>1 DEF Secure, NotSecured, Typed
    <3>2. CASE WaitForBuild(w)
      BY <3>2 DEF WaitForBuild, Typed, Busy
    <3>3. CASE Begin(w)
      BY <3>3 DEF Begin, Typed
    <3> QED
      BY <1>5, <3>1, <3>2, <3>3
  <2>2. \A v \in Worker \ {w} : pc'[v] = pc[v]
    BY StepShape
  <2> QED
    BY <2>1, <2>2 DEF RequestsFindNothing
<1>6. CASE CompileCall(w) \/ Commit(w) \/ Fail(w) \/ Release(w)
  <2>1. CASE CompileCall(w)
    BY <2>1 DEF CompileCall, RequestsFindNothing, Typed
  <2>2. CASE Commit(w) \/ Fail(w)
    BY <2>2 DEF Commit, Fail, RequestsFindNothing, Typed
  <2>3. CASE Release(w)
    BY <2>3 DEF Release, RequestsFindNothing, Typed, Busy
  <2> QED
    BY <1>6, <2>1, <2>2, <2>3
<1> QED
  BY <1>1, <1>2, <1>3, <1>4, <1>5, <1>6 DEF Step, Build

(* The exchange lets one worker in, and the exe block follows the status.   *)
LEMMA BuildStep ==
    ASSUME Typed, OneCompiler, BuildStages, NEW w \in Worker, Step(w)
    PROVE  OneCompiler' /\ BuildStages'
<1>1. CASE Secure(w)
  <2>1. /\ pc[w] = "secure" /\ pc' = [pc EXCEPT ![w] = "compile"]
        /\ compilationStatus[fcn[w]] = "PENDING"
        /\ compilationStatus' = [compilationStatus EXCEPT ![fcn[w]] = "RUNNING"]
        /\ exe' = exe /\ fcn' = fcn /\ broken' = broken /\ fcn[w] \in Fcn
    BY <1>1 DEF Secure, IsPending, Goto, Typed, Busy
  <2>2. OneCompiler'
    BY <2>1 DEF OneCompiler, IsBuilding, Typed, Busy
  <2>3. BuildStages'
    BY <2>1 DEF BuildStages, OneCompiler, IsBuilding, Typed, Busy
  <2> QED
    BY <2>2, <2>3
<1>2. CASE Begin(w)
  <2>1. /\ pc[w] = "compile" /\ fcn[w] \in Fcn /\ exe[fcn[w]] = "none"
        /\ pc' = [pc EXCEPT ![w] = "body"]
        /\ exe' = [exe EXCEPT ![fcn[w]] = "empty"]
        /\ compilationStatus' = compilationStatus /\ fcn' = fcn /\ broken' = broken
    BY <1>2 DEF Begin, Goto, Typed, Busy, BuildStages
  <2>2. OneCompiler'
    BY <2>1 DEF OneCompiler, IsBuilding, Typed, Busy
  <2>3. BuildStages'
    BY <2>1 DEF BuildStages, OneCompiler, IsBuilding, Typed, Busy
  <2> QED
    BY <2>2, <2>3
<1>3. CASE Commit(w)
  <2>1. /\ pc[w] = "body" /\ fcn[w] \in Fcn /\ pc' = [pc EXCEPT ![w] = "release"]
        /\ exe' = [exe EXCEPT ![fcn[w]] = "filled"]
        /\ compilationStatus' = compilationStatus /\ fcn' = fcn /\ broken' = broken
    BY <1>3 DEF Commit, Goto, Typed, Busy
  <2>2. OneCompiler'
    BY <2>1 DEF OneCompiler, IsBuilding, Typed, Busy
  <2>3. BuildStages'
    BY <2>1 DEF BuildStages, OneCompiler, IsBuilding, Typed, Busy
  <2> QED
    BY <2>2, <2>3
<1>4. CASE Fail(w)
  <2>1. /\ pc[w] = "body" /\ fcn[w] \in Fcn /\ pc' = [pc EXCEPT ![w] = "release"]
        /\ exe' = exe /\ fcn[w] \in broken
        /\ compilationStatus' = compilationStatus /\ fcn' = fcn /\ broken' = broken
    BY <1>4 DEF Fail, Goto, Typed, Busy, functions
  <2>2. OneCompiler'
    BY <2>1 DEF OneCompiler, IsBuilding, Typed, Busy
  <2>3. BuildStages'
    BY <2>1 DEF BuildStages, OneCompiler, IsBuilding, Typed, Busy
  <2> QED
    BY <2>2, <2>3
<1>5. CASE Release(w)
  <2>1. /\ pc[w] = "release" /\ fcn[w] \in Fcn /\ pc' = [pc EXCEPT ![w] = back[w]]
        /\ back[w] \in {"drain", "local"}
        /\ exe' = exe /\ fcn' = fcn /\ broken' = broken
        /\ compilationStatus' = [compilationStatus EXCEPT ![fcn[w]] = "READY"]
    BY <1>5 DEF Release, ReleasedAs, Goto, Typed, Busy
  <2>2. OneCompiler'
    BY <2>1 DEF OneCompiler, IsBuilding, Typed, Busy
  <2>3. BuildStages'
    BY <2>1 DEF BuildStages, OneCompiler, IsBuilding, Typed, Busy
  <2> QED
    BY <2>2, <2>3
<1>6. CASE NotSecured(w) \/ WaitForBuild(w) \/ CompileCall(w)
  <2>1. /\ ~ IsBuilding(w) \/ pc' = pc
        /\ fcn' = fcn /\ exe' = exe /\ broken' = broken /\ compilationStatus' = compilationStatus
        /\ \E l : pc' = [pc EXCEPT ![w] = l] /\ (l = pc[w] \/ l \in {"wait", "drain", "local"})
        /\ pc'[w] = "wait" => compilationStatus[fcn[w]] # "PENDING"
    <3>1. CASE NotSecured(w)
      BY <3>1 DEF NotSecured, IsPending, Goto, Typed, Busy, functions, IsBuilding
    <3>2. CASE WaitForBuild(w)
      BY <3>2 DEF WaitForBuild, Goto, Typed, Busy, functions, IsBuilding
    <3>3. CASE CompileCall(w)
      BY <3>3 DEF CompileCall, Typed, functions, IsBuilding
    <3> QED
      BY <1>6, <3>1, <3>2, <3>3
  <2>2. OneCompiler'
    BY <2>1 DEF OneCompiler, IsBuilding, Typed, Busy
  <2>3. BuildStages'
    BY <2>1 DEF BuildStages, OneCompiler, IsBuilding, Typed, Busy
  <2> QED
    BY <2>2, <2>3
<1>7. ASSUME \/ TakeTask(w) \/ Execute(w) \/ LocalTask(w) \/ TaskDone(w)
             \/ Request(w) \/ Drain(w) \/ Drained(w) \/ RootCall(w)
      PROVE  OneCompiler' /\ BuildStages'
  <2>1. /\ ~ IsBuilding(w) /\ pc'[w] \notin {"compile", "body", "release", "wait"}
        /\ exe' = exe /\ broken' = broken /\ compilationStatus' = compilationStatus
    BY <1>7 DEF TakeTask, Execute, LocalTask, TaskDone, Request, Drain, Drained, RootCall,
                Goto, Typed, functions, IsBuilding, RunLocalTask
  <2>2. \A v \in Worker \ {w} : pc'[v] = pc[v] /\ fcn'[v] = fcn[v]
    BY StepShape
  <2>3. OneCompiler'
    BY <2>1, <2>2 DEF OneCompiler, IsBuilding
  <2>4. BuildStages'
    BY <2>1, <2>2 DEF BuildStages, IsBuilding
  <2> QED
    BY <2>3, <2>4
<1> QED
  BY <1>1, <1>2, <1>3, <1>4, <1>5, <1>6, <1>7 DEF Step, Build

(* What a worker owes it goes on to owe until it is through. *)
LEMMA DebtStep ==
    ASSUME Typed, Typed', RequestsFindNothing, BuildStages, OneCompiler,
           NEW w \in Worker, Step(w), NEW f \in Fcn, Owes(w, f)
    PROVE  Owes(w, f)' \/ compilationStatus'[f] = "READY"
<1> USE DEF Goto, functions, RunLocalTask
<1>1. localStack[w] \in Seq(Fcn) /\ (localStack[w] = <<>> => ToSet(localStack[w]) = {})
  BY ToSetFacts DEF Typed
<1>2. /\ pc[w] # "job"
      /\ f \in ToSet(localStack[w]) \/ (Busy(w) /\ f = fcn[w])
  BY DEF Owes, InHands, Busy
<1>3. ~ Execute(w) /\ ~ Request(w) /\ ~ RootCall(w)
  BY <1>2 DEF Execute, Request, RootCall
<1>4. CASE TakeTask(w)
  BY <1>1, <1>2, <1>4 DEF TakeTask, RequestsFindNothing, Busy
<1>5. CASE LocalTask(w)
  <2>1. pc'[w] = "secure" /\ localStack' = localStack /\ ~ Busy(w)
    BY <1>5 DEF LocalTask, Typed, Busy
  <2> QED
    BY <1>2, <2>1 DEF Owes, InHands
<1>6. CASE TaskDone(w)
  BY <1>1, <1>2, <1>6 DEF TaskDone, NoLocalTasks, Busy
<1>7. CASE Drain(w)
  <2>1. /\ pc'[w] = "secure" /\ ~ Busy(w) /\ localStack[w] # <<>>
        /\ localStack'[w] = Front(localStack[w]) /\ fcn'[w] = Last(localStack[w])
    BY <1>1, <1>7 DEF Drain, Typed, Busy, RequestsFindNothing
  <2>2. ToSet(localStack[w]) = ToSet(Front(localStack[w])) \cup {Last(localStack[w])}
    BY <1>1, <2>1, TopFacts
  <2> QED
    BY <1>2, <2>1, <2>2 DEF Owes, InHands
<1>8. CASE Drained(w)
  <2>1. localStack[w] = <<>> /\ ~ Busy(w)
    BY <1>1, <1>8 DEF Drained, RequestsFindNothing, Busy
  <2> QED
    BY <1>1, <1>2, <2>1
<1>9. CASE Secure(w) \/ NotSecured(w) \/ Begin(w) \/ Commit(w) \/ Fail(w)
  <2>1. /\ localStack' = localStack /\ fcn' = fcn
        /\ pc'[w] \in {"wait", "compile", "body", "release"}
    BY <1>9 DEF Secure, NotSecured, Begin, Commit, Fail, Typed
  <2> QED
    BY <1>2, <2>1 DEF Owes, InHands
<1>10. CASE WaitForBuild(w)
  <2>1. /\ localStack' = localStack /\ compilationStatus' = compilationStatus
        /\ pc'[w] \in {"drain", "local"}
        /\ fcn[w] \in Fcn /\ compilationStatus[fcn[w]] = "READY"
    BY <1>10 DEF WaitForBuild, Built, Typed, Busy, BuildStages
  <2> QED
    BY <1>2, <2>1 DEF Owes, InHands
<1>11. CASE CompileCall(w)
  <2>1. /\ fcn[w] \in Fcn /\ calls[fcn[w]] \in Seq(Fcn) /\ pos[w] \in 1..Len(calls[fcn[w]])
    BY <1>11 DEF CompileCall, Typed, Busy
  <2>2. calls[fcn[w]][pos[w]] \in Fcn
    BY <2>1
  <2>3. /\ fcn' = fcn /\ pc' = pc
        /\ \/ localStack'[w] = localStack[w]
           \/ localStack'[w] = Append(localStack[w], calls[fcn[w]][pos[w]])
    BY <1>11 DEF CompileCall, Dispatched, Typed
  <2>4. ToSet(localStack[w]) \subseteq ToSet(localStack'[w])
    <3>1. ToSet(Append(localStack[w], calls[fcn[w]][pos[w]]))
            = ToSet(localStack[w]) \cup {calls[fcn[w]][pos[w]]}
      BY <1>1, <2>2, PushFacts
    <3> QED
      BY <2>3, <3>1
  <2> QED
    BY <1>2, <2>3, <2>4 DEF Owes, InHands, Busy
<1>12. CASE Release(w)
  <2>1. /\ localStack' = localStack /\ pc'[w] \in {"drain", "local"}
        /\ fcn[w] \in Fcn /\ compilationStatus'[fcn[w]] = "READY"
    BY <1>12 DEF Release, ReleasedAs, Typed, Busy
  <2> QED
    BY <1>2, <2>1 DEF Owes, InHands
<1> QED
  BY <1>3, <1>4, <1>5, <1>6, <1>7, <1>8, <1>9, <1>10, <1>11, <1>12 DEF Step, Build

LEMMA AnsweredStep ==
    ASSUME Typed, Typed', RequestsFindNothing, BuildStages, OneCompiler,
           NEW w \in Worker, Step(w), NEW f \in Fcn, Answered(f)
    PROVE  Answered(f)'
<1>1. CASE compilationStatus[f] = "READY"
  BY <1>1, StepShape DEF Answered
<1>2. ASSUME NEW v \in Worker, Owes(v, f) PROVE Answered(f)'
  <2>1. CASE v = w
    BY <1>2, <2>1, DebtStep DEF Answered
  <2>2. CASE v # w
    <3>1. Owes(v, f)'
      BY <1>2, <2>2, StepShape DEF Owes, InHands
    <3> QED
      BY <3>1 DEF Answered
  <2> QED
    BY <2>1, <2>2
<1> QED
  BY <1>1, <1>2 DEF Answered

(* A call that is not dispatched is answered for already: its function has  *)
(* an exe block, so that a worker is building it or it is through.          *)
LEMMA CallsAreAnsweredStep ==
    ASSUME Typed, Typed', RequestsFindNothing, BuildStages, OneCompiler, CallsAreAnswered,
           NEW w \in Worker, Step(w)
    PROVE  CallsAreAnswered'
<1> DEFINE Then(c) == \/ compilationStatus'[c] = "READY"
                   \/ \E v \in Worker : pc'[v] # "job" /\ c \in InHands(v)'
<1>0. /\ calls' = calls
      /\ \A f \in Fcn : calls[f] \in Seq(Fcn) /\ Len(calls[f]) \in Nat
                        /\ \A i \in 1..Len(calls[f]) : calls[f][i] \in Fcn
  <2>1. calls' = calls
    BY StepShape
  <2>2. ASSUME NEW f \in Fcn
        PROVE  /\ calls[f] \in Seq(Fcn) /\ Len(calls[f]) \in Nat
               /\ \A i \in 1..Len(calls[f]) : calls[f][i] \in Fcn
    <3>1. calls[f] \in Seq(Fcn)
      BY DEF Typed
    <3> QED
      BY <3>1, ToSetFacts
  <2> QED
    BY <2>1, <2>2
<1>1. \A c \in Fcn : Answered(c) => Then(c)
  BY AnsweredStep DEF Answered, Owes
<1>2. \A c \in Fcn : exe[c] # "none" \/ compilationStatus[c] = "READY" => Answered(c)
  <2> SUFFICES ASSUME NEW c \in Fcn, exe[c] # "none", compilationStatus[c] # "READY"
               PROVE  Answered(c)
    BY DEF Answered
  <2>1. PICK v \in Worker : IsBuilding(v) /\ fcn[v] = c
    BY DEF BuildStages, Typed
  <2> QED
    BY <2>1 DEF Answered, Owes, InHands, IsBuilding
<1>m. CallsAreAnswered' <=>
        /\ \A f \in Fcn : exe'[f] = "filled" => \A i \in 1..Len(calls[f]) : Then(calls[f][i])
        /\ \A v \in Worker : pc'[v] = "body" =>
             \A i \in 1..(pos'[v] - 1) : Then(calls[fcn'[v]][i])
  BY <1>0 DEF CallsAreAnswered, Answered, Owes
<1> HIDE DEF Then
<1>3. ASSUME NEW g \in Fcn, NEW i \in 1..Len(calls[g]), Answered(calls[g][i])
      PROVE  Then(calls[g][i])
  BY <1>0, <1>1, <1>3
<1>4. \A v \in Worker : pc[v] = "body" =>
        fcn[v] \in Fcn /\ pos[v] \in Nat \ {0} /\ pos[v] <= Len(calls[fcn[v]]) + 1
  BY DEF Typed, Busy
<1>5. ASSUME NEW v \in Worker, pc[v] = "body", NEW i \in 1..(pos[v] - 1)
      PROVE  i \in 1..Len(calls[fcn[v]]) /\ Then(calls[fcn[v]][i])
  <2>1. fcn[v] \in Fcn /\ i \in 1..Len(calls[fcn[v]])
    BY <1>0, <1>4, <1>5
  <2>2. Answered(calls[fcn[v]][i])
    BY <1>5 DEF CallsAreAnswered
  <2> DEFINE g == fcn[v]
  <2>3. g \in Fcn /\ i \in 1..Len(calls[g]) /\ Answered(calls[g][i])
    BY <2>1, <2>2
  <2> QED
    BY <1>3, <2>3
<1>6. \A v \in Worker \ {w} : pc'[v] = pc[v] /\ fcn'[v] = fcn[v] /\ pos'[v] = pos[v]
  BY StepShape
<1>7. CASE CompileCall(w)
  <2> DEFINE c == calls[fcn[w]][pos[w]]
  <2>1. /\ fcn[w] \in Fcn /\ pos[w] \in 1..Len(calls[fcn[w]]) /\ c \in Fcn
        /\ pc[w] = "body" /\ pc' = pc /\ fcn' = fcn /\ exe' = exe
        /\ pos' = [pos EXCEPT ![w] = pos[w] + 1]
        /\ localStack'[w] = Dispatched(w, c)
    BY <1>0, <1>7 DEF CompileCall, NextCall, Typed, Busy, functions
  <2>2. Then(c)
    <3>1. CASE exe[c] # "none" \/ compilationStatus[c] = "READY"
      BY <1>1, <1>2, <2>1, <3>1
    <3>2. CASE ~ (exe[c] # "none" \/ compilationStatus[c] = "READY")
      <4>1. localStack[w] \in Seq(Fcn) /\ localStack'[w] = Append(localStack[w], c)
        BY <2>1, <3>2 DEF Dispatched, Typed
      <4>2. c \in ToSet(localStack'[w])
        BY <2>1, <4>1, PushFacts
      <4> QED
        BY <2>1, <4>2 DEF Then, InHands
    <3> QED
      BY <3>1, <3>2
  <2>3. ASSUME NEW v \in Worker, pc'[v] = "body", NEW i \in 1..(pos'[v] - 1)
        PROVE  Then(calls[fcn'[v]][i])
    <3>1. CASE v = w /\ i = pos[w]
      BY <1>0, <2>1, <2>2, <3>1
    <3>2. CASE ~ (v = w /\ i = pos[w])
      <4>1. pc[v] = "body" /\ fcn'[v] = fcn[v] /\ i \in 1..(pos[v] - 1)
        BY <1>0, <1>4, <1>6, <2>1, <2>3, <3>2 DEF Typed
      <4> QED
        BY <1>0, <1>5, <4>1
    <3> QED
      BY <3>1, <3>2
  <2> QED
    BY <1>0, <1>3, <1>m, <2>1, <2>3 DEF CallsAreAnswered
<1>8. ASSUME exe' = exe, ~ CompileCall(w)
      PROVE  CallsAreAnswered'
  <2>1. pos' = pos /\ (pc'[w] = "body" => pc[w] = "body" /\ fcn'[w] = fcn[w])
    <3>1. ~ Begin(w)
      BY <1>8 DEF Begin, Typed, Busy, BuildStages
    <3>2. CASE Secure(w) \/ NotSecured(w) \/ Commit(w) \/ Fail(w)
      BY <3>2 DEF Secure, NotSecured, Commit, Fail, Goto, Typed
    <3>3. CASE WaitForBuild(w) \/ Release(w)
      <4>1. back[w] \in {"drain", "local"} /\ pos' = pos /\ pc' = [pc EXCEPT ![w] = back[w]]
        BY <3>3 DEF WaitForBuild, Release, Goto, Typed, Busy
      <4> QED
        BY <4>1 DEF Typed
    <3>4. ASSUME \/ TakeTask(w) \/ Execute(w) \/ LocalTask(w) \/ TaskDone(w)
                 \/ Request(w) \/ Drain(w) \/ Drained(w) \/ RootCall(w)
          PROVE  pos' = pos /\ pc'[w] # "body"
      <4>1. CASE TakeTask(w) \/ Execute(w) \/ TaskDone(w) \/ Drained(w)
        BY <4>1 DEF TakeTask, Execute, TaskDone, Drained, Goto, Typed
      <4>2. CASE LocalTask(w) \/ Drain(w)
        BY <4>2 DEF LocalTask, Drain, RunLocalTask, Goto, Typed
      <4>3. CASE Request(w) \/ RootCall(w)
        BY <4>3 DEF Request, RootCall, Goto, Typed
      <4> QED
        BY <3>4, <4>1, <4>2, <4>3
    <3> QED
      BY <1>8, <3>1, <3>2, <3>3, <3>4 DEF Step, Build
  <2> QED
    BY <1>0, <1>3, <1>5, <1>m, <1>6, <1>8, <2>1 DEF CallsAreAnswered
<1>9. CASE Begin(w)
  <2>1. /\ fcn[w] \in Fcn /\ pc[w] = "compile" /\ exe[fcn[w]] = "none"
        /\ exe' = [exe EXCEPT ![fcn[w]] = "empty"]
        /\ pos' = [pos EXCEPT ![w] = 1] /\ fcn' = fcn /\ pc' = [pc EXCEPT ![w] = "body"]
    BY <1>9 DEF Begin, Typed, Busy, Goto, BuildStages
  <2>2. \A g \in Fcn : exe'[g] = "filled" => exe[g] = "filled"
    BY <2>1 DEF Typed
  <2>3. \A v \in Worker : pc'[v] = "body" =>
            IF v = w THEN pos'[v] = 1 ELSE pc[v] = "body" /\ pos'[v] = pos[v]
    BY <2>1 DEF Typed
  <2>4. \A i \in 1..(1 - 1) : FALSE
    OBVIOUS
  <2> QED
    BY <1>0, <1>3, <1>5, <1>m, <2>1, <2>2, <2>3, <2>4 DEF CallsAreAnswered
<1>10. CASE Commit(w)
  <2>1. /\ fcn[w] \in Fcn /\ pc[w] = "body" /\ pos[w] = Len(calls[fcn[w]]) + 1
        /\ exe' = [exe EXCEPT ![fcn[w]] = "filled"]
        /\ pos' = pos /\ fcn' = fcn /\ pc' = [pc EXCEPT ![w] = "release"]
    BY <1>0, <1>10, <1>4 DEF Commit, Typed, Goto
  <2>2. \A i \in 1..Len(calls[fcn[w]]) : Then(calls[fcn[w]][i])
    <3>1. 1..(pos[w] - 1) = 1..Len(calls[fcn[w]])
      BY <1>0, <2>1
    <3> QED
      BY <1>5, <2>1, <3>1
  <2>3. \A g \in Fcn : exe'[g] = "filled" => g = fcn[w] \/ exe[g] = "filled"
    BY <2>1 DEF Typed
  <2>4. \A v \in Worker : pc'[v] = "body" => pc[v] = "body"
    BY <2>1 DEF Typed
  <2> QED
    BY <1>0, <1>3, <1>5, <1>m, <2>1, <2>2, <2>3, <2>4 DEF CallsAreAnswered
<1> QED
  BY <1>7, <1>8, <1>9, <1>10 DEF Step, Build, TakeTask, Execute, LocalTask, TaskDone, Request,
     Drain, Drained, RootCall, Secure, NotSecured, WaitForBuild, Fail, Release, functions

(* A request stays with the worker that made it until it is through, and    *)
(* the loop that serves it goes on until the local stack is empty.          *)
LEMMA RequestsAreAnsweredStep ==
    ASSUME Typed, Typed', RequestsFindNothing, BuildStages, OneCompiler, RequestsAreAnswered,
           NEW w \in Worker, Step(w)
    PROVE  RequestsAreAnswered'
<1> SUFFICES ASSUME NEW v \in Worker, NEW f \in Fcn, f \in asked'[v],
                    compilationStatus'[f] # "READY"
             PROVE  Draining(v)' /\ f \in InHands(v)'
  BY DEF RequestsAreAnswered, Typed
<1>1. compilationStatus[f] # "READY"
  BY StepShape
<1>2. CASE v # w
  <2>1. /\ asked'[v] = asked[v] /\ pc'[v] = pc[v] /\ fcn'[v] = fcn[v] /\ back'[v] = back[v]
        /\ localStack'[v] = localStack[v]
    BY <1>2, StepShape
  <2>2. Draining(v) /\ f \in InHands(v)
    BY <1>1, <2>1 DEF RequestsAreAnswered
  <2> QED
    BY <2>1, <2>2 DEF Draining, Busy, InHands
<1>3. CASE v = w /\ ~ Request(w)
  <2>1. ~ TakeTask(w) /\ asked'[w] = asked[w]
    <3>1. ~ TakeTask(w)
      BY <1>3 DEF TakeTask, Typed
    <3>2. Build(w) => asked' = asked
      BY Zenon DEF Build, Secure, NotSecured, WaitForBuild, Begin, CompileCall, Commit, Fail,
         Release
    <3>3. Execute(w) \/ LocalTask(w) \/ TaskDone(w) => asked' = asked
      BY Zenon DEF Execute, LocalTask, TaskDone
    <3>4. Drain(w) \/ Drained(w) \/ RootCall(w) => asked' = asked
      BY Zenon DEF Drain, Drained, RootCall
    <3> QED
      BY <1>3, <3>1, <3>2, <3>3, <3>4 DEF Step
  <2>2. Draining(w) /\ f \in InHands(w)
    BY <1>1, <1>3, <2>1 DEF RequestsAreAnswered
  <2>3. Owes(w, f)
    BY <2>2 DEF Owes, Draining, Busy
  <2>4. Owes(w, f)'
    BY <2>3, DebtStep
  <2>5. f \in InHands(w)'
    BY <2>4 DEF Owes
  <2>6. Draining(w)'
    <3>1. ~ Drained(w)
      <4>1. ASSUME Drained(w) PROVE FALSE
        <5>1. localStack[w] \in Seq(Fcn) /\ Len(localStack[w]) <= 0 /\ pc[w] = "drain"
          BY <4>1 DEF Drained, Typed, RequestsFindNothing
        <5>2. ToSet(localStack[w]) = {}
          BY <5>1, ToSetFacts
        <5> QED
          BY <2>2, <5>1, <5>2 DEF InHands
      <4> QED
        BY <4>1
    <3>2. CASE Drain(w)
      BY <3>2 DEF Drain, RunLocalTask, Goto, Draining, Busy, Typed
    <3>3. CASE Secure(w) \/ NotSecured(w) \/ Begin(w) \/ CompileCall(w) \/ Commit(w) \/ Fail(w)
      <4>1. back' = back /\ Busy(w)
        BY <3>3 DEF Secure, NotSecured, Begin, CompileCall, Commit, Fail, Busy
      <4>2. ASSUME Begin(w) PROVE pc'[w] \in {"body", "release"}
        BY <4>2 DEF Begin, Goto, Typed
      <4>3. ASSUME Secure(w) \/ NotSecured(w) \/ CompileCall(w) \/ Commit(w) \/ Fail(w)
            PROVE  pc'[w] \in {"wait", "compile", "body", "release"}
        BY <4>3 DEF Secure, NotSecured, CompileCall, Commit, Fail, Goto, Typed
      <4>4. pc'[w] \in {"wait", "compile", "body", "release"}
        BY <3>3, <4>2, <4>3
      <4> QED
        BY <2>2, <4>1, <4>4 DEF Draining, Busy
    <3>4. CASE WaitForBuild(w) \/ Release(w)
      <4>1. pc'[w] = back[w] /\ Busy(w)
        BY <3>4 DEF WaitForBuild, Release, Goto, Busy, Typed
      <4> QED
        BY <2>2, <4>1 DEF Draining, Busy
    <3> QED
      BY <1>3, <2>1, <2>2, <3>1, <3>2, <3>3, <3>4 DEF Step, Build, Draining, Busy, Execute,
         LocalTask, TaskDone, RootCall
  <2> QED
    BY <1>3, <2>5, <2>6
<1>4. CASE v = w /\ Request(w)
  <2> DEFINE x == Head(job[w].todo)
  <2>1. pc[w] = "job" /\ asked'[w] = asked[w] \cup {x} /\ ~ Draining(w)
    BY <1>4 DEF Request, Draining, Busy, Typed
  <2>2. f = x
    BY <1>1, <1>4, <2>1 DEF RequestsAreAnswered
  <2>3. pc'[w] = "drain" /\ localStack'[w] = Append(localStack[w], f)
    BY <1>1, <1>4, <2>2 DEF Request, Goto, Typed
  <2>4. f \in ToSet(localStack'[w])
    <3>1. localStack[w] \in Seq(Fcn)
      BY DEF Typed
    <3> QED
      BY <2>3, <3>1, PushFacts
  <2> QED
    BY <1>4, <2>3, <2>4 DEF Draining, InHands
<1> QED
  BY <1>2, <1>3, <1>4

(* A root that calls functions of its unit meets functions that are through *)
(* and dispatches nothing.                                                 *)
LEMMA RootsLeaveNothingStep ==
    ASSUME Typed, Typed', RequestsFindNothing, RequestsAreAnswered, RootsLeaveNothing,
           NEW w \in Worker, Step(w)
    PROVE  RootsLeaveNothing'
<1> DEFINE OwnStack(v) == \A i \in 1..Len(stack[v]) :
                            ToSet(stack[v][i].root) \subseteq ToSet(stack[v][i].todo)
           OwnJob(v) == ToSet(job[v].root) \subseteq asked[v] \cup ToSet(job[v].todo)
           Nothing(v) == pc[v] \in {"job", "local"} => localStack[v] = <<>>
           Back(v) == Busy(v) => back[v] = "drain"
<1>1. \A v \in Worker : RootsAreOwn(v)' <=> RootsAreOwn(v)
  BY StepShape DEF RootsAreOwn
<1> SUFFICES ASSUME NEW v \in Worker, RootsAreOwn(v)
             PROVE  OwnStack(v)' /\ OwnJob(v)' /\ Nothing(v)' /\ Back(v)'
  BY <1>1 DEF RootsLeaveNothing
<1>2. OwnStack(v) /\ OwnJob(v) /\ Nothing(v) /\ Back(v)
  BY DEF RootsLeaveNothing
<1>3. CASE v # w
  <2>1. /\ stack'[v] = stack[v] /\ job'[v] = job[v] /\ asked'[v] = asked[v]
        /\ localStack'[v] = localStack[v] /\ pc'[v] = pc[v] /\ back'[v] = back[v]
    BY <1>3, StepShape
  <2> QED
    BY <1>2, <2>1 DEF Busy
<1>4. CASE v = w
  <2> USE DEF Goto
  <2>1. CASE TakeTask(w)
    <3>1. /\ stack[w] \in Seq(Job) /\ stack[w] # <<>>
          /\ stack'[w] = Front(stack[w]) /\ job'[w] = Last(stack[w])
          /\ localStack'[w] = <<>> /\ pc'[w] = "job"
      BY <2>1 DEF TakeTask, Typed, RequestsFindNothing
    <3>2. /\ Len(Front(stack[w])) = Len(stack[w]) - 1 /\ Len(stack[w]) \in Nat \ {0}
          /\ \A i \in 1..(Len(stack[w]) - 1) : Front(stack[w])[i] = stack[w][i]
          /\ Last(stack[w]) = stack[w][Len(stack[w])]
      BY <3>1, TopFacts
    <3>3. /\ Len(stack[w]) \in 1..Len(stack[w])
          /\ \A i \in 1..(Len(stack[w]) - 1) : i \in 1..Len(stack[w])
      BY <3>2
    <3>4. OwnStack(v)' /\ OwnJob(v)'
      BY <1>2, <1>4, <3>1, <3>2, <3>3
    <3> QED
      BY <1>4, <3>1, <3>4 DEF Busy
  <2>2. CASE LocalTask(w)
    BY <1>2, <1>4, <2>2 DEF LocalTask, NoLocalTasks
  <2>3. CASE Request(w)
    <3>1. /\ job[w].todo \in Seq(Fcn) /\ job[w].todo # <<>> /\ pc[w] = "job"
          /\ stack' = stack /\ asked'[w] = asked[w] \cup {Head(job[w].todo)}
          /\ job'[w].todo = Tail(job[w].todo) /\ job'[w].root = job[w].root
      BY <2>3 DEF Request, Typed, Job
    <3>2. OwnJob(v)'
      BY <1>2, <1>4, <3>1, HeadFacts
    <3>3. pc'[w] = "drain" \/ (pc'[w] = "job" /\ localStack'[w] = localStack[w])
      BY <2>3 DEF Request, Typed
    <3> QED
      BY <1>2, <1>4, <3>1, <3>2, <3>3 DEF Busy
  <2>4. CASE Drained(w)
    <3>1. localStack[w] \in Seq(Fcn) /\ Len(localStack[w]) <= 0
      BY <2>4 DEF Drained, Typed, RequestsFindNothing
    <3>2. localStack[w] = <<>>
      BY <3>1
    <3>3. /\ stack' = stack /\ job' = job /\ asked' = asked
          /\ localStack' = localStack /\ pc'[w] = "job"
      BY <2>4 DEF Drained, Typed
    <3> QED
      BY <1>2, <1>4, <3>2, <3>3 DEF Busy
  <2>5. CASE RootCall(w)
    <3> DEFINE x == Head(job[w].root)
    <3>1. /\ job[w].root \in Seq(Fcn) /\ job[w].root # <<>> /\ pc[w] = "job"
          /\ job[w].todo = <<>> /\ job[w].todo \in Seq(Fcn)
          /\ stack' = stack /\ asked' = asked /\ pc' = pc
          /\ job'[w].root = Tail(job[w].root) /\ job'[w].todo = job[w].todo
          /\ localStack'[w] = Dispatched(w, x)
      BY <2>5 DEF RootCall, Typed, Job
    <3>2. ToSet(job[w].todo) = {} /\ ToSet(job[w].root) = {x} \cup ToSet(job'[w].root)
      <4>1. ToSet(job[w].todo) = {}
        BY <3>1, ToSetFacts
      <4>2. ToSet(job[w].root) = {x} \cup ToSet(Tail(job[w].root))
        BY <3>1, HeadFacts
      <4> QED
        BY <3>1, <4>1, <4>2
    <3>3. x \in asked[w]
      BY <1>2, <1>4, <3>2
    <3>4. compilationStatus[x] = "READY"
      BY <3>1, <3>3 DEF RequestsAreAnswered, Draining, Busy
    <3>5. localStack'[w] = <<>>
      BY <1>2, <1>4, <3>1, <3>4 DEF Dispatched
    <3>6. OwnJob(v)'
      BY <1>2, <1>4, <3>1, <3>2
    <3> QED
      BY <1>2, <1>4, <3>1, <3>5, <3>6 DEF Busy
  <2>6. CASE Execute(w) \/ TaskDone(w) \/ Drain(w)
    <3>1. /\ stack' = stack /\ job' = job /\ asked' = asked
          /\ pc'[w] = "local" => localStack' = localStack /\ pc[w] = "job"
          /\ pc'[w] \in {"local", "loop", "secure"} /\ (pc'[w] = "secure" => back'[w] = "drain")
      <4>1. CASE Execute(w)
        BY <4>1 DEF Execute, Typed
      <4>2. CASE TaskDone(w)
        BY <4>2 DEF TaskDone, Typed
      <4>3. CASE Drain(w)
        BY <4>3 DEF Drain, RunLocalTask, Typed
      <4> QED
        BY <2>6, <4>1, <4>2, <4>3
    <3> QED
      BY <1>2, <1>4, <3>1 DEF Busy
  <2>7. CASE Secure(w) \/ NotSecured(w) \/ CompileCall(w) \/ Commit(w) \/ Fail(w)
    <3>1. /\ stack' = stack /\ job' = job /\ asked' = asked /\ back' = back /\ Busy(w)
      BY <2>7 DEF Secure, NotSecured, CompileCall, Commit, Fail, Busy
    <3>2. pc'[w] \notin {"job", "local"}
      <4>1. CASE Secure(w) \/ NotSecured(w)
        BY <4>1 DEF Secure, NotSecured, Typed
      <4>2. CASE CompileCall(w)
        BY <4>2 DEF CompileCall
      <4>3. CASE Commit(w) \/ Fail(w)
        BY <4>3 DEF Commit, Fail, Typed
      <4> QED
        BY <2>7, <4>1, <4>2, <4>3
    <3> QED
      BY <1>2, <1>4, <3>1, <3>2
  <2>8. CASE Begin(w)
    <3>1. /\ stack' = stack /\ job' = job /\ asked' = asked /\ back' = back /\ Busy(w)
          /\ pc'[w] \notin {"job", "local"}
      BY <2>8 DEF Begin, Typed, Busy
    <3> QED
      BY <1>2, <1>4, <3>1
  <2>9. CASE WaitForBuild(w) \/ Release(w)
    <3>1. /\ stack' = stack /\ job' = job /\ asked' = asked /\ back' = back /\ Busy(w)
          /\ pc'[w] = back[w]
      BY <2>9 DEF WaitForBuild, Release, Typed, Busy
    <3> QED
      BY <1>2, <1>4, <3>1 DEF Busy
  <2> QED
    BY <2>1, <2>2, <2>3, <2>4, <2>5, <2>6, <2>7, <2>8, <2>9 DEF Step, Build
<1> QED
  BY <1>3, <1>4

LEMMA BuildInvInit == Init => BuildInv
<1> SUFFICES ASSUME Init PROVE BuildInv
  OBVIOUS
<1> USE DEF Init
<1>1. /\ calls \in [Fcn -> Seq(Fcn)] /\ jobs \in [Worker -> Seq(Job)] /\ stack = jobs
      /\ \A w \in Worker : /\ pc[w] = "loop" /\ asked[w] = {} /\ localStack[w] = <<>>
                            /\ job[w] = NoJob
      /\ \A f \in Fcn : compilationStatus[f] = "PENDING" /\ exe[f] = "none"
  OBVIOUS
<1>2. NoJob \in Job /\ <<>> \in Seq(Fcn)
  BY DEF NoJob, Job
<1>3. Typed
  BY <1>1, <1>2 DEF Typed, Busy
<1>4. RequestsFindNothing /\ OneCompiler /\ BuildStages
  BY <1>1 DEF RequestsFindNothing, OneCompiler, BuildStages, IsBuilding
<1>5. CallsAreAnswered /\ RequestsAreAnswered
  BY <1>1 DEF CallsAreAnswered, RequestsAreAnswered
<1>6. RootsLeaveNothing
  <2>1. ToSet(<<>>) = {}
    BY DEF ToSet
  <2>2. \A w \in Worker : DOMAIN jobs[w] = 1..Len(jobs[w])
    BY <1>1
  <2>3. \A w \in Worker : RootsAreOwn(w) =>
          \A i \in 1..Len(stack[w]) : ToSet(stack[w][i].root) \subseteq ToSet(stack[w][i].todo)
    BY <1>1, <2>2 DEF RootsAreOwn
  <2> QED
    BY <1>1, <2>1, <2>3 DEF RootsLeaveNothing, Busy, NoJob
<1> QED
  BY <1>3, <1>4, <1>5, <1>6 DEF BuildInv

LEMMA BuildInvStep == BuildInv /\ [Next]_vars => BuildInv'
<1>1. ASSUME BuildInv, NEW w \in Worker, Step(w) PROVE BuildInv'
  <2>1. Typed'
    BY <1>1, TypedStep DEF BuildInv
  <2>2. RequestsFindNothing'
    BY <1>1, RequestsFindNothingStep DEF BuildInv
  <2>3. OneCompiler' /\ BuildStages'
    BY <1>1, BuildStep DEF BuildInv
  <2>4. CallsAreAnswered'
    BY <1>1, <2>1, CallsAreAnsweredStep DEF BuildInv
  <2>5. RequestsAreAnswered'
    BY <1>1, <2>1, RequestsAreAnsweredStep DEF BuildInv
  <2>6. RootsLeaveNothing'
    BY <1>1, <2>1, RootsLeaveNothingStep DEF BuildInv
  <2> QED
    BY <2>1, <2>2, <2>3, <2>4, <2>5, <2>6 DEF BuildInv
<1>2. ASSUME BuildInv, UNCHANGED vars PROVE BuildInv'
  <2>1. /\ Typed' /\ RequestsFindNothing' /\ OneCompiler'
    BY <1>2 DEF BuildInv, vars, functions, Typed, Busy, RequestsFindNothing, OneCompiler,
       IsBuilding
  <2>2. BuildStages'
    BY <1>2 DEF BuildInv, vars, functions, BuildStages, IsBuilding
  <2>3. CallsAreAnswered'
    <3>1. \A f : Answered(f)' <=> Answered(f)
      BY <1>2 DEF vars, functions, Answered, Owes, InHands, Busy
    <3> QED
      BY <1>2, <3>1 DEF BuildInv, vars, functions, CallsAreAnswered
  <2>5. RequestsAreAnswered'
    BY <1>2 DEF BuildInv, vars, functions, RequestsAreAnswered, InHands, Draining, Busy
  <2>4. RootsLeaveNothing'
    BY <1>2 DEF BuildInv, vars, functions, RootsLeaveNothing, RootsAreOwn, Busy
  <2> QED
    BY <2>1, <2>2, <2>3, <2>4, <2>5 DEF BuildInv
<1> QED
  BY <1>1, <1>2 DEF Next

THEOREM BuildInvHolds == Spec => []BuildInv
BY BuildInvInit, BuildInvStep, PTL DEF Spec

(* One worker builds a function at a time, and it is marked as being built: *)
(* the exchange in secureFunction is what the shared exe block needs.       *)
THEOREM BuiltByOne == Spec => []OneCompiler
<1>1. BuildInv => OneCompiler
  BY DEF BuildInv
<1> QED
  BY <1>1, BuildInvHolds, PTL

(* What a request asked for is through when it returns, what a job runs     *)
(* calls only functions that are filled, have failed, or are in the hands   *)
(* of another worker, and no local task is left behind by a job whose root  *)
(* calls functions of its own unit.                                        *)
THEOREM JobsRunWhatIsThere == Spec => []RunsWhatIsThere
<1>1. BuildInv => TypeOK
  <2> SUFFICES ASSUME BuildInv PROVE TypeOK
    OBVIOUS
  <2>1. \A w \in Worker : pc[w] = "body" =>
          /\ fcn[w] \in Fcn /\ Len(calls[fcn[w]]) \in Nat /\ pos[w] \in Nat \ {0}
          /\ pos[w] <= Len(calls[fcn[w]]) + 1
    BY ToSetFacts DEF BuildInv, Typed, Busy
  <2> QED
    BY <2>1 DEF BuildInv, Typed, Busy, TypeOK
<1>2. BuildInv => SyncDone
  BY DEF BuildInv, RequestsAreAnswered, SyncDone, Draining, Busy
<1>3. BuildInv => TreeInHands
  <2> SUFFICES ASSUME BuildInv, NEW w \in Worker, pc[w] = "job", job[w] = NoJob
               PROVE  \E tree \in SUBSET Fcn :
                        /\ asked[w] \subseteq tree /\ Callees(tree) \subseteq tree
                        /\ \A f \in tree : IsThere(w, f)
    BY DEF TreeInHands
  <2> DEFINE tree == {f \in Fcn : IsThere(w, f)}
  <2>1. \A f \in Fcn : Answered(f) => f \in tree
    <3>1. \A f \in Fcn : compilationStatus[f] = "READY" => exe[f] = "filled" \/ f \in broken
      BY DEF BuildInv, BuildStages
    <3>2. \A f \in Fcn, v \in Worker : Owes(v, f) => v # w /\ f \in InHands(v)
      BY DEF Owes
    <3> QED
      BY <3>1, <3>2 DEF Answered, IsThere
  <2>2. asked[w] \subseteq tree
    BY <2>1 DEF BuildInv, RequestsAreAnswered, Draining, Busy, Answered, Typed
  <2>3. ASSUME NEW f \in tree, exe[f] = "filled" PROVE ToSet(calls[f]) \subseteq tree
    <3>1. /\ calls[f] \in Seq(Fcn) /\ f \in Fcn
          /\ \A i \in 1..Len(calls[f]) : Answered(calls[f][i])
      BY <2>3 DEF BuildInv, Typed, CallsAreAnswered
    <3>2. ToSet(calls[f]) = {calls[f][i] : i \in 1..Len(calls[f])} /\ ToSet(calls[f]) \subseteq Fcn
      BY <3>1, ToSetFacts
    <3> HIDE DEF tree
    <3> QED
      BY <2>1, <3>1, <3>2
  <2>4. Callees(tree) \subseteq tree
    <3> HIDE DEF tree
    <3> QED
      BY <2>3 DEF Callees
  <2>5. tree \in SUBSET Fcn /\ \A f \in tree : IsThere(w, f)
    OBVIOUS
  <2> HIDE DEF tree
  <2> QED
    BY <2>2, <2>4, <2>5
<1>4. BuildInv => NothingLeft
  BY DEF BuildInv, RootsLeaveNothing, NothingLeft
<1> QED
  BY <1>1, <1>2, <1>3, <1>4, BuildInvHolds, PTL DEF RunsWhatIsThere

(* A build is tried once: no status goes back, a function that is through   *)
(* keeps its exe block as it is, and no exe block goes.                    *)
THEOREM BuildsAreTriedOnce == Spec => BuiltOnce
<1> DEFINE Once == \A f \in Fcn :
        /\ compilationStatus[f] # "PENDING" => compilationStatus'[f] # "PENDING"
        /\ compilationStatus[f] = "READY" => compilationStatus'[f] = "READY" /\ exe'[f] = exe[f]
        /\ exe[f] # "none" => exe'[f] # "none"
<1>1. ASSUME BuildInv, NEW w \in Worker, Step(w) PROVE Once
  <2>1. Typed /\ OneCompiler
    BY <1>1 DEF BuildInv
  <2>2. CASE Begin(w)
    BY <2>1, <2>2 DEF Begin, Typed, Busy, OneCompiler, IsBuilding
  <2>3. CASE Commit(w)
    BY <2>1, <2>3 DEF Commit, Typed, Busy, OneCompiler, IsBuilding
  <2>4. CASE Secure(w) \/ Release(w)
    BY <2>1, <2>4 DEF Secure, IsPending, Release, ReleasedAs, Typed, Busy
  <2>5. CASE ~ (Begin(w) \/ Commit(w) \/ Secure(w) \/ Release(w))
    <3>1. compilationStatus' = compilationStatus /\ exe' = exe
      BY <1>1, <2>5 DEF Step, Build, TakeTask, Execute, LocalTask, TaskDone, Request, Drain,
         Drained, RootCall, NotSecured, WaitForBuild, CompileCall, Fail, functions
    <3> QED
      BY <3>1
  <2> QED
    BY <2>2, <2>3, <2>4, <2>5
<1>2. BuildInv /\ [Next]_vars => [Once]_vars
  BY <1>1 DEF Next
<1> QED
  BY <1>2, BuildInvHolds, PTL DEF BuiltOnce, Spec
=============================================================================
