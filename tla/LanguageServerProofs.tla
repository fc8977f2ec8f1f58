------------------------ MODULE LanguageServerProofs ------------------------
(***************************************************************************)
(* The language server, for any number of workers and any clients that     *)
(* open a document once, a single document where there is a master thread: *)
(* queries are safe and find something.                                    *)
(*                                                                         *)
(* With more documents, or one that is opened again, groups of the loop    *)
(* and the master overlap, and the group counter they share is reset while *)
(* tasks run: nothing below would hold.                                    *)
(*                                                                         *)
(* The invariant follows the one parse there is at a time: from the thread *)
(* that begins the group, through the queue and the worker that takes it,  *)
(* to the thread that waits for it.  A document is parsed twice.  The first *)
(* parse leaves its tree in unit 0 and its nodes in arena 1, the second     *)
(* writes unit 1 and arena 0, so that a query that reads unit 0 meets a     *)
(* whole tree whatever it checked in at.                                   *)
(***************************************************************************)
EXTENDS LanguageServer, TLAPS

(* The clients and builds the theorems are about. *)
OneDocument ==
    \A s \in Setups : s.opens = 1 /\ (s.async => \A p, q \in s.paths : p = q)

Leader == {"loop", "master"}
InGroup(t) == pc[t] \in {"begin", "dispatch", "wait"}
Quiet == queue = <<>> /\ \A w \in Worker : pc[w] = "sleep"

(* A tree in unit 0, its nodes in an arena that was cleared for it alone. *)
Whole(x) ==
    /\ x.unit[0].text \in 1..MaxVersion /\ x.unit[0].arena = 1
    /\ x.unit[0].age = 1 /\ x.age[1] = 1

(* Every token is in its list. *)
Listed(x) == x.tokens = "all"

(* A file before and after its first (n = 0) and its second parse (n = 1). *)
(* Nobody edits a text under its first parse.                              *)
Before(x, n) ==
    /\ x.parses = n /\ x.committed = n
    /\ IF n = 0 THEN x.age[1] = 0 ELSE Whole(x) /\ Listed(x)
Parsed(x, n) == x.parses = n + 1 /\ x.committed = n /\ Whole(x)
After(x, n) == x.parses = n + 1 /\ x.committed = 1 - n /\ Whole(x) /\ Listed(x)
Begun(x, n) ==
    /\ x.parses = n /\ x.committed = n
    /\ IF n = 0 THEN /\ x.age[1] = 1 /\ x.unit[0].arena = 1 /\ x.unit[0].age = 1
                     /\ ~ x.edited
                ELSE Whole(x) /\ Listed(x)

(* Which parse of its file a thread's group is about. *)
Nth(t) == IF t = "loop" /\ slot["loop"] = 1 THEN 0 ELSE 1

(* How far the file is at a step of runParse. *)
StepOf(step, x, n) ==
    /\ x.status = (IF step = "done" THEN "READY" ELSE "BUSY")
    /\ \/ step = "drain" /\ Before(x, n)
       \/ step = "parse" /\ Begun(x, n)
       \/ step = "tokens" /\ Parsed(x, n) /\ (n = 1 => Listed(x))
       \/ step \in {"collect", "sort"} /\ Parsed(x, n)
       \/ step = "commit" /\ Parsed(x, n) /\ Listed(x)
       \/ step \in {"ready", "done"} /\ After(x, n)
AtStep(w, x, n) == slot[w] = 1 - n /\ StepOf(pc[w], x, n)

Waiting(f, n) ==
    \/ /\ queue = <<f>> /\ \A w \in Worker : pc[w] = "sleep"
       /\ taskCount = 1 /\ files[f].status = "BUSY" /\ Before(files[f], n)
    \/ /\ queue = <<>> /\ taskCount = 1
       /\ \E w \in Worker : /\ \A v \in Worker \ {w} : pc[v] = "sleep"
                            /\ job[w] = f /\ AtStep(w, files[f], n)
    \/ Quiet /\ taskCount = 0 /\ files[f].status = "READY" /\ After(files[f], n)

File == [open : BOOLEAN, status : {"DIRTY", "BUSY", "READY"}, text : 1..MaxVersion,
         committed : 0..1, readers : [0..1 -> Nat], unit : [0..1 -> Tree],
         age : [0..1 -> Nat], tokens : {"none", "some", "all"}, edited : BOOLEAN,
         parses : Nat]

SharedTyped ==
    /\ setup \in Setups
    /\ files \in Seq(File)
    /\ entry \in [Path -> 0..Len(files)] /\ current \in [Path -> 0..Len(files)]
    /\ client \in [Path -> [opens : Nat, open : BOOLEAN]]
    /\ taskCount \in Int /\ hasWork \in BOOLEAN
    /\ queue \in Seq(1..Len(files)) /\ stack \in Seq(1..Len(files))

Labels == {"receive", "begin", "dispatch", "wait", "enqueue", "wake",
           "check in", "recheck", "unlucky", "read", "dead",
           "sleep", "look", "clear",
           "drain", "parse", "tokens", "collect", "sort", "commit", "ready", "done"}
ThreadsTyped ==
    /\ job \in [Thread -> 0..Len(files)] /\ slot \in [Thread -> 0..1]
    /\ pc \in [Thread -> Labels]
    /\ \A t \in Leader : InGroup(t) => job[t] \in 1..Len(files)
    /\ \A w \in Worker : pc[w] # "sleep" => job[w] \in 1..Len(files)

Typed == SharedTyped /\ ThreadsTyped

(* A document is opened once, and found under its path. *)
OpenedOnce ==
    /\ \A p \in Path :
         /\ client[p].open => client[p].opens = 1
         /\ IF client[p].opens = 0 THEN entry[p] = NoFile
              ELSE client[p].opens = 1 /\ entry[p] = current[p] /\ entry[p] \in 1..Len(files)
    /\ setup.async => /\ Len(files) <= 1
                      /\ files # <<>> => \A p \in setup.paths : client[p].opens = 1

(* One group at a time, one parse in it, and every other file rests. *)
OneGroup ==
    /\ ~ (InGroup("loop") /\ InGroup("master"))
    /\ ~ InGroup("loop") /\ ~ InGroup("master") => Quiet
    /\ \A t \in Leader :
         /\ pc[t] \in {"begin", "dispatch"} =>
              Quiet /\ files[job[t]].status = "DIRTY" /\ Before(files[job[t]], Nth(t))
         /\ pc[t] = "dispatch" => taskCount = 0
         /\ pc[t] = "wait" => Waiting(job[t], Nth(t))
    /\ \A f \in 1..Len(files) :
         \/ \E t \in Leader : InGroup(t) /\ job[t] = f
         \/ After(files[f], 0) \/ After(files[f], 1)

(* The master has work once the first parse is over. *)
Queued(f) == files[f].status = "DIRTY" /\ After(files[f], 0)
MasterHasItsTurn ==
    /\ pc["loop"] \in {"enqueue", "wake"} \/ pc["master"] # "sleep" \/ hasWork
         \/ stack # <<>> => setup.async
    /\ setup.async /\ (InGroup("loop") \/ pc["loop"] = "enqueue" \/ files = <<>>) =>
         stack = <<>> /\ ~ hasWork /\ pc["master"] = "sleep"
    /\ setup.async /\ InGroup("loop") => slot["loop"] = 1
    /\ pc["loop"] = "enqueue" => job["loop"] \in 1..Len(files) /\ Queued(job["loop"])
    /\ pc["loop"] = "wake" => files # <<>>
    /\ stack # <<>> => Len(stack) = 1 /\ Queued(stack[1]) /\ ~ InGroup("master")

(* A query that checked in at unit 0 did so after the second parse. *)
Querying == pc["loop"] \in {"check in", "recheck", "unlucky", "read"}
QueriesCheckedIn ==
    Querying =>
        /\ job["loop"] \in 1..Len(files)
        /\ slot["loop"] = 0 => After(files[job["loop"]], 1)
        /\ pc["loop"] # "check in" => files[job["loop"]].readers[slot["loop"]] > 0

ServerInv == Typed /\ OpenedOnce /\ OneGroup /\ MasterHasItsTurn /\ QueriesCheckedIn

-----------------------------------------------------------------------------
USE ThreadAssumption

LEMMA Threads ==
    /\ Leader \subseteq Thread /\ Worker \subseteq Thread /\ Leader \cap Worker = {}
    /\ "loop" \in Leader /\ "master" \in Leader /\ Thread = Leader \cup Worker
BY DEF Leader, Thread

LEMMA SeqUpdate ==
    ASSUME NEW S, NEW s \in Seq(S), NEW i \in 1..Len(s), NEW x \in S
    PROVE  /\ [s EXCEPT ![i] = x] \in Seq(S) /\ Len([s EXCEPT ![i] = x]) = Len(s)
           /\ [s EXCEPT ![i] = x][i] = x
           /\ \A j \in 1..Len(s) : j # i => [s EXCEPT ![i] = x][j] = s[j]
OBVIOUS

(* A step changes the file f to x and no other. *)
Becomes(f, x) ==
    /\ files' \in Seq(File) /\ Len(files') = Len(files) /\ files'[f] = x
    /\ \A g \in 1..Len(files) : g # f => files'[g] = files[g]

LEMMA FileFacts ==
    ASSUME Typed, NEW f \in 1..Len(files), NEW x \in File, files' = [files EXCEPT ![f] = x]
    PROVE  Becomes(f, x)
<1>1. files \in Seq(File)
  BY DEF Typed, SharedTyped, ThreadsTyped
<1> HIDE DEF File
<1> QED
  BY <1>1, SeqUpdate DEF Becomes

LEMMA FileTyped ==
    ASSUME Typed, NEW f \in 1..Len(files)
    PROVE  files[f] \in File /\ files \in Seq(File)
<1>1. files \in Seq(File)
  BY DEF Typed, SharedTyped, ThreadsTyped
<1> HIDE DEF File
<1> QED
  BY <1>1

(* Whoever works on a parse works on the one a group waits for. *)
LEMMA WorkerFacts ==
    ASSUME Typed, OneGroup, NEW w \in Worker, pc[w] # "sleep"
    PROVE  \E t \in Leader :
             /\ pc[t] = "wait" /\ job[w] = job[t] /\ job[w] \in 1..Len(files)
             /\ queue = <<>> /\ taskCount = 1
             /\ \A v \in Worker \ {w} : pc[v] = "sleep"
             /\ AtStep(w, files[job[w]], Nth(t))
<1>1. PICK t \in Leader : InGroup(t)
  BY DEF OneGroup, Quiet, Leader
<1>2. pc[t] = "wait" /\ Waiting(job[t], Nth(t))
  BY <1>1 DEF OneGroup, InGroup, Quiet
<1>3. PICK v \in Worker : /\ \A u \in Worker \ {v} : pc[u] = "sleep"
                          /\ job[v] = job[t] /\ AtStep(v, files[job[t]], Nth(t))
                          /\ queue = <<>> /\ taskCount = 1
  BY <1>2 DEF Waiting, Quiet
<1>4. v = w
  BY <1>3
<1>5. job[w] \in 1..Len(files)
  BY DEF Typed, SharedTyped, ThreadsTyped
<1> QED
  BY <1>2, <1>3, <1>4, <1>5

(* A step of the parse a group waits for touches nothing else. *)
LEMMA WorkerKeeps ==
    ASSUME Typed, OpenedOnce, OneGroup, MasterHasItsTurn, QueriesCheckedIn,
           NEW t \in Leader, pc[t] = "wait", NEW f \in 1..Len(files), f = job[t],
           NEW n, n = Nth(t),
           Len(files') = Len(files),
           \A g \in 1..Len(files) : g # f => files'[g] = files[g],
           files'[f].readers = files[f].readers, files[f].status # "DIRTY",
           After(files[f], 1) => After(files'[f], 1),
           \A u \in Leader : pc'[u] = pc[u] /\ job'[u] = job[u] /\ slot'[u] = slot[u],
           UNCHANGED <<setup, entry, client, current, stack, hasWork>>,
           files \in Seq(File), files' \in Seq(File),
           Waiting(f, n)'
    PROVE  OpenedOnce' /\ OneGroup' /\ MasterHasItsTurn' /\ QueriesCheckedIn'
<1>0. /\ Len(files) \in Nat /\ (files = <<>> <=> Len(files) = 0)
      /\ (files' = <<>> <=> Len(files) = 0)
  OBVIOUS
<1>1. OpenedOnce'
  BY <1>0 DEF OpenedOnce
<1>2. /\ \A u \in Leader : (InGroup(u)' <=> InGroup(u)) /\ (InGroup(u) => u = t)
      /\ InGroup(t) /\ Nth(t)' = Nth(t)
  BY DEF InGroup, OneGroup, Leader, Nth
<1>3. OneGroup'
  <2>1. ~ (InGroup("loop") /\ InGroup("master"))'
    BY <1>2 DEF Leader
  <2>2. ~ (~ InGroup("loop") /\ ~ InGroup("master"))'
    BY <1>2 DEF Leader
  <2>3. \A u \in Leader : pc'[u] \notin {"begin", "dispatch"} /\ (pc'[u] = "wait" => u = t)
    BY <1>2 DEF InGroup
  <2>4. \A g \in 1..Len(files) :
         \/ \E u \in Leader : InGroup(u)' /\ job'[u] = g
         \/ After(files'[g], 0) \/ After(files'[g], 1)
    BY <1>2 DEF OneGroup
  <2>5. ASSUME NEW u \in Leader, pc'[u] = "wait" PROVE Waiting(job[u], Nth(u))'
    <3>1. u = t /\ job'[u] = f /\ Nth(u)' = n
      BY <1>2, <2>3, <2>5
    <3> QED
      BY <3>1 DEF Waiting, AtStep, Quiet
  <2> QED
    BY <2>1, <2>2, <2>3, <2>4, <2>5 DEF OneGroup
<1>4. MasterHasItsTurn'
  <2>1. stack # <<>> => stack[1] # f /\ stack[1] \in 1..Len(files)
    <3>1. stack \in Seq(1..Len(files))
      BY DEF Typed, SharedTyped, ThreadsTyped
    <3>2. stack # <<>> => stack[1] \in 1..Len(files)
      BY <3>1
    <3> QED
      BY <3>2 DEF MasterHasItsTurn, Queued
  <2>2. pc["loop"] = "enqueue" => job["loop"] # f
    BY DEF MasterHasItsTurn, Queued
  <2>3. \A g \in 1..Len(files) : g # f /\ Queued(g) => files'[g].status = "DIRTY" /\ After(files'[g], 0)
    BY DEF Queued
  <2> QED
    BY <1>0, <1>2, <2>1, <2>2, <2>3 DEF MasterHasItsTurn, Queued, Leader
<1>5. QueriesCheckedIn'
  <2>1. "loop" \in Leader /\ slot["loop"] \in 0..1
    BY Threads DEF Typed, ThreadsTyped
  <2>2. ASSUME NEW g \in 1..Len(files)
        PROVE  (After(files[g], 1) => After(files'[g], 1)) /\ files'[g].readers = files[g].readers
    BY <2>2
  <2> QED
    BY <2>1, <2>2, ZenonT(60) DEF QueriesCheckedIn, Querying
<1> QED
  BY <1>1, <1>3, <1>4, <1>5

(* A step of a worker changes its own step, file and unit. *)
WorkerMoves(w, f, n, l) ==
    /\ job' = [job EXCEPT ![w] = f] /\ slot' = [slot EXCEPT ![w] = n]
    /\ pc' = [pc EXCEPT ![w] = l]
    /\ UNCHANGED <<setup, entry, client, current, stack, hasWork>>

LEMMA WorkerTyped ==
    ASSUME Typed, NEW w \in Worker, NEW f \in 1..Len(files), NEW n \in 0..1,
           NEW l \in {"drain", "parse", "tokens", "collect", "sort", "commit", "ready",
                      "done", "sleep"},
           WorkerMoves(w, f, n, l),
           files' \in Seq(File), Len(files') = Len(files), taskCount' \in Int,
           queue' = queue \/ queue' = <<>>
    PROVE  /\ Typed'
           /\ pc'[w] = l /\ job'[w] = f /\ slot'[w] = n
           /\ \A u \in Thread \ {w} : pc'[u] = pc[u] /\ job'[u] = job[u] /\ slot'[u] = slot[u]
<1> USE DEF WorkerMoves
<1>1. /\ pc \in [Thread -> Labels]
      /\ job \in [Thread -> 0..Len(files)] /\ slot \in [Thread -> 0..1]
      /\ \A t \in Leader : InGroup(t) => job[t] \in 1..Len(files)
      /\ \A v \in Worker : pc[v] # "sleep" => job[v] \in 1..Len(files)
  BY DEF Typed, SharedTyped, ThreadsTyped
<1>2. w \in Thread /\ w \notin Leader /\ Leader \subseteq Thread /\ Worker \subseteq Thread
  BY Threads
<1>3. f \in 0..Len(files)
  OBVIOUS
<1>4. /\ pc'[w] = l /\ job'[w] = f /\ slot'[w] = n
      /\ \A u \in Thread \ {w} : pc'[u] = pc[u] /\ job'[u] = job[u] /\ slot'[u] = slot[u]
  BY <1>1, <1>2
<1>5. /\ pc' \in [Thread -> Labels]
      /\ job' \in [Thread -> 0..Len(files')] /\ slot' \in [Thread -> 0..1]
  BY <1>1, <1>2, <1>3 DEF Labels
<1>6. /\ \A t \in Leader : InGroup(t)' => job'[t] \in 1..Len(files')
      /\ \A v \in Worker : pc'[v] # "sleep" => job'[v] \in 1..Len(files')
  BY <1>1, <1>2, <1>4 DEF InGroup
<1>7. queue' \in Seq(1..Len(files')) /\ stack' \in Seq(1..Len(files'))
  <2>1. queue \in Seq(1..Len(files)) /\ stack \in Seq(1..Len(files))
    BY DEF Typed, SharedTyped, ThreadsTyped
  <2>2. <<>> \in Seq(1..Len(files))
    OBVIOUS
  <2> QED
    BY <2>1, <2>2 DEF WorkerMoves
<1>8. /\ setup' \in Setups
      /\ entry' \in [Path -> 0..Len(files')] /\ current' \in [Path -> 0..Len(files')]
      /\ client' \in [Path -> [opens : Nat, open : BOOLEAN]]
      /\ hasWork' \in BOOLEAN
  BY DEF Typed, SharedTyped, ThreadsTyped
<1> HIDE DEF WorkerMoves
<1> QED
  BY <1>4, <1>5, <1>6, <1>7, <1>8 DEF Typed, SharedTyped, ThreadsTyped

LEMMA TakeParseStep ==
    ASSUME ServerInv, NEW w \in Worker, TakeParse(w)
    PROVE  ServerInv'
<1> USE DEF ServerInv
<1>1. PICK t \in Leader : InGroup(t)
  BY DEF OneGroup, Quiet, Leader, TakeParse
<1>2. pc[t] = "wait" /\ Waiting(job[t], Nth(t))
  BY <1>1 DEF OneGroup, InGroup, Quiet, TakeParse
<1>3. PICK f \in 1..Len(files), n \in 0..1 : f = job[t] /\ n = Nth(t)
  <2>1. job[t] \in 1..Len(files)
    BY <1>1 DEF Typed, SharedTyped, ThreadsTyped
  <2>2. Nth(t) \in 0..1
    BY DEF Nth
  <2> QED
    BY <2>1, <2>2
<1>4. /\ queue = <<f>> /\ \A v \in Worker : pc[v] = "sleep"
      /\ taskCount = 1 /\ files[f].status = "BUSY" /\ Before(files[f], n)
  BY <1>2, <1>3 DEF Waiting, Quiet, TakeParse
<1>5. /\ job' = [job EXCEPT ![w] = f] /\ queue' = <<>>
      /\ slot' = [slot EXCEPT ![w] = 1 - n] /\ pc' = [pc EXCEPT ![w] = "drain"]
      /\ UNCHANGED <<setup, entry, files, client, current, taskCount, stack, hasWork>>
  <2>1. Head(queue) = f /\ Tail(queue) = <<>>
    BY <1>4
  <2> QED
    BY <1>4, <2>1 DEF TakeParse, Go, Before
<1>6. 1 - n \in 0..1 /\ Len(files') = Len(files) /\ files \in Seq(File) /\ files' \in Seq(File)
  <2>1. files \in Seq(File)
    BY DEF Typed, SharedTyped, ThreadsTyped
  <2> QED
    BY <1>5, <2>1
<1>7. WorkerMoves(w, f, 1 - n, "drain") /\ taskCount' \in Int
  BY <1>4, <1>5 DEF WorkerMoves
<1>8. /\ Typed'
      /\ pc'[w] = "drain" /\ job'[w] = f /\ slot'[w] = 1 - n
      /\ \A u \in Thread \ {w} : pc'[u] = pc[u] /\ job'[u] = job[u] /\ slot'[u] = slot[u]
  BY <1>5, <1>6, <1>7, WorkerTyped
<1>9. Waiting(f, n)'
  <2>1. AtStep(w, files[f], n)'
    BY <1>4, <1>5, <1>8 DEF AtStep, StepOf, Before, Whole
  <2>2. \A v \in Worker \ {w} : pc'[v] = "sleep"
    BY <1>4, <1>8, Threads
  <2> QED
    BY <1>4, <1>5, <1>8, <2>1, <2>2 DEF Waiting
<1>10. \A u \in Leader : pc'[u] = pc[u] /\ job'[u] = job[u] /\ slot'[u] = slot[u]
  BY <1>8, Threads
<1> QED
  BY <1>2, <1>3, <1>4, <1>5, <1>6, <1>8, <1>9, <1>10, WorkerKeeps

(* The same of a step in the middle of a parse. *)
LEMMA WorkerGoesOn ==
    ASSUME ServerInv, NEW w \in Worker, pc[w] # "sleep",
           NEW t \in Leader, pc[t] = "wait", job[w] = job[t],
           NEW f \in 1..Len(files), f = job[w], NEW n \in 0..1, n = Nth(t),
           queue = <<>>, \A v \in Worker \ {w} : pc[v] = "sleep", slot[w] = 1 - n,
           NEW l \in {"drain", "parse", "tokens", "collect", "sort", "commit", "ready",
                      "done", "sleep"},
           NEW x \in File, files' = [files EXCEPT ![f] = x],
           x.readers = files[f].readers, files[f].status # "DIRTY",
           After(files[f], 1) => After(x, 1),
           pc' = [pc EXCEPT ![w] = l],
           UNCHANGED <<setup, entry, client, current, queue, stack, hasWork, job, slot>>,
           IF l = "sleep" THEN taskCount' = 0 /\ x.status = "READY" /\ After(x, n)
                          ELSE taskCount' = 1 /\ StepOf(l, x, n)
    PROVE  ServerInv'
<1> USE DEF ServerInv
<1> HIDE DEF File
<1>1. Becomes(f, x)
  BY FileFacts
<1>2. WorkerMoves(w, f, 1 - n, l) /\ taskCount' \in Int /\ 1 - n \in 0..1
  <2>1. w \in Thread /\ job \in [Thread -> 0..Len(files)] /\ slot \in [Thread -> 0..1]
    BY Threads DEF Typed, SharedTyped, ThreadsTyped
  <2>2. job' = [job EXCEPT ![w] = f] /\ slot' = [slot EXCEPT ![w] = 1 - n]
    BY <2>1
  <2>3. taskCount' \in Int /\ 1 - n \in 0..1
    OBVIOUS
  <2> QED
    BY <2>2, <2>3 DEF WorkerMoves
<1>3. /\ Typed'
      /\ pc'[w] = l /\ job'[w] = f /\ slot'[w] = 1 - n
      /\ \A u \in Thread \ {w} : pc'[u] = pc[u] /\ job'[u] = job[u] /\ slot'[u] = slot[u]
  BY <1>1, <1>2, WorkerTyped DEF Becomes
<1>4. \A u \in Leader : pc'[u] = pc[u] /\ job'[u] = job[u] /\ slot'[u] = slot[u]
  BY <1>3, Threads
<1>5. \A v \in Worker \ {w} : pc'[v] = "sleep"
  BY <1>3, Threads
<1>6. Waiting(f, n)'
  BY <1>1, <1>3, <1>5 DEF Waiting, AtStep, Quiet, Becomes
<1>7. files \in Seq(File)
  BY FileTyped
<1> QED
  BY <1>1, <1>3, <1>4, <1>6, <1>7, WorkerKeeps DEF Becomes, WorkerMoves

LEMMA ParseBeginsStep ==
    ASSUME ServerInv, NEW w \in Worker, ParseBegins(w)
    PROVE  ServerInv'
<1> USE DEF ServerInv
<1>1. pc[w] = "drain"
  BY DEF ParseBegins, Ready
<1>2. PICK t \in Leader :
        /\ pc[t] = "wait" /\ job[w] = job[t] /\ job[w] \in 1..Len(files)
        /\ queue = <<>> /\ taskCount = 1
        /\ \A v \in Worker \ {w} : pc[v] = "sleep"
        /\ AtStep(w, files[job[w]], Nth(t))
  BY <1>1, WorkerFacts
<1>3. PICK f \in 1..Len(files), n \in 0..1 : f = job[w] /\ n = Nth(t)
  BY <1>2 DEF Nth
<1>4. slot[w] = 1 - n /\ files[f].status = "BUSY" /\ Before(files[f], n)
  BY <1>1, <1>2, <1>3 DEF AtStep, StepOf
<1>5. files \in Seq(File) /\ files[f] \in File
  BY FileTyped
<1> DEFINE root == [text |-> 0, arena |-> 1 - n, age |-> files[f].age[1 - n] + 1]
           x == [files[f] EXCEPT !.age[1 - n] = files[f].age[1 - n] + 1, !.unit[n] = root,
                                 !.edited = FALSE]
<1>6. /\ files' = [files EXCEPT ![f] = x]
      /\ UNCHANGED <<setup, entry, client, current, queue, taskCount, stack, hasWork, job, slot>>
      /\ pc' = [pc EXCEPT ![w] = "parse"]
  BY <1>3, <1>4, <1>5 DEF ParseBegins, Go, WorkingUnit, Get, Before
<1>7. /\ x.readers = files[f].readers /\ x.status = "BUSY"
      /\ x.parses = files[f].parses /\ x.committed = files[f].committed
      /\ x.age = [files[f].age EXCEPT ![1 - n] = files[f].age[1 - n] + 1]
      /\ x.unit = [files[f].unit EXCEPT ![n] = root]
      /\ x.open = files[f].open /\ x.text = files[f].text /\ x.tokens = files[f].tokens
      /\ x.edited = FALSE
  BY <1>4, <1>5 DEF File
<1>8. x \in File
  <2>1. files[f].age[1 - n] \in Nat
    <3>1. 1 - n \in 0..1
      OBVIOUS
    <3>2. files[f].age \in [0..1 -> Nat]
      BY <1>5 DEF File
    <3> QED
      BY <3>1, <3>2
  <2>2. root \in Tree
    BY <2>1 DEF Tree, MaxVersion, Mixed
  <2>3. x.age \in [0..1 -> Nat]
    <3>1. files[f].age \in [0..1 -> Nat]
      BY <1>5 DEF File
    <3> HIDE DEF x
    <3> QED
      BY <1>7, <2>1, <3>1
  <2>4. x.unit \in [0..1 -> Tree]
    BY <1>5, <1>7, <2>2 DEF File
  <2> QED
    BY <1>5, <2>3, <2>4 DEF File
<1> HIDE DEF x
<1>9. StepOf("parse", x, n) /\ (After(files[f], 1) => After(x, 1))
  <2>1. /\ files[f].age \in [0..1 -> Nat] /\ files[f].unit \in [0..1 -> Tree]
    BY <1>5 DEF File
  <2>2. ~ After(files[f], 1)
    BY <1>4 DEF After, Before
  <2>3. CASE n = 0
    <3>1. x.age[1] = 1 /\ x.unit[0] = root
      BY <1>4, <1>7, <2>1, <2>3 DEF Before
    <3> QED
      BY <1>4, <1>7, <2>2, <2>3, <3>1 DEF StepOf, Before, Begun
  <2>4. CASE n = 1
    <3>1. x.age[1] = files[f].age[1] /\ x.unit[0] = files[f].unit[0]
      BY <1>7, <2>1, <2>4
    <3> QED
      BY <1>4, <1>7, <2>2, <2>4, <3>1 DEF StepOf, Before, Begun, Whole, Listed
  <2> QED
    BY <2>3, <2>4
<1> QED
  BY <1>1, <1>2, <1>3, <1>4, <1>6, <1>7, <1>8, <1>9, WorkerGoesOn

LEMMA ParseEndsStep ==
    ASSUME ServerInv, NEW w \in Worker, ParseEnds(w)
    PROVE  ServerInv'
<1> USE DEF ServerInv
<1>1. pc[w] = "parse"
  BY DEF ParseEnds, Ready
<1>2. PICK t \in Leader :
        /\ pc[t] = "wait" /\ job[w] = job[t] /\ job[w] \in 1..Len(files)
        /\ queue = <<>> /\ taskCount = 1
        /\ \A v \in Worker \ {w} : pc[v] = "sleep"
        /\ AtStep(w, files[job[w]], Nth(t))
  BY <1>1, WorkerFacts
<1>3. PICK f \in 1..Len(files), n \in 0..1 : f = job[w] /\ n = Nth(t)
  BY <1>2 DEF Nth
<1>4. slot[w] = 1 - n /\ files[f].status = "BUSY" /\ Begun(files[f], n)
  BY <1>1, <1>2, <1>3 DEF AtStep, StepOf
<1>5. files \in Seq(File) /\ files[f] \in File
  BY FileTyped
<1> DEFINE read == IF files[f].edited THEN Mixed ELSE files[f].text
           x == [files[f] EXCEPT !.unit[n].text = read, !.parses = files[f].parses + 1]
<1>6. /\ files' = [files EXCEPT ![f] = x]
      /\ UNCHANGED <<setup, entry, client, current, queue, taskCount, stack, hasWork, job, slot>>
      /\ pc' = [pc EXCEPT ![w] = "tokens"]
  <2>1. job[w] = f /\ WorkingUnit(w) = n
    BY <1>3, <1>4 DEF WorkingUnit, Get, Begun
  <2> QED
    BY <2>1 DEF ParseEnds, Go
<1>7. /\ x.readers = files[f].readers /\ x.status = "BUSY" /\ x.age = files[f].age
      /\ x.parses = files[f].parses + 1 /\ x.committed = files[f].committed
      /\ x.unit = [files[f].unit EXCEPT ![n] = [files[f].unit[n] EXCEPT !.text = read]]
      /\ x.open = files[f].open /\ x.text = files[f].text /\ x.tokens = files[f].tokens
      /\ x.edited = files[f].edited
  BY <1>4, <1>5 DEF File
<1>t. /\ files[f].unit \in [0..1 -> Tree] /\ files[f].text \in 1..MaxVersion
      /\ files[f].parses \in Nat /\ read \in 0..Mixed
      /\ ~ files[f].edited => read \in 1..MaxVersion
  <2>1. /\ files[f].unit \in [0..1 -> Tree] /\ files[f].text \in 1..MaxVersion
        /\ files[f].parses \in Nat
    BY <1>5 DEF File
  <2>2. read = Mixed \/ read = files[f].text
    OBVIOUS
  <2>3. ~ files[f].edited => read = files[f].text
    OBVIOUS
  <2> HIDE DEF read
  <2> QED
    BY <2>1, <2>2, <2>3 DEF Mixed, MaxVersion
<1>8. x \in File
  <2>1. [files[f].unit[n] EXCEPT !.text = read] \in Tree
    BY <1>t DEF Tree
  <2>2. x.unit \in [0..1 -> Tree]
    BY <1>7, <1>t, <2>1
  <2>3. x.parses \in Nat
    BY <1>7, <1>t
  <2> QED
    BY <1>5, <2>2, <2>3 DEF File
<1> HIDE DEF x, read
<1>9. StepOf("tokens", x, n) /\ (After(files[f], 1) => After(x, 1))
  <2>1. ~ After(files[f], 1)
    BY <1>4 DEF After, Begun
  <2>2. Whole(x)
    <3>1. CASE n = 0
      <4>1. /\ x.unit[0].text = read /\ x.unit[0].arena = files[f].unit[0].arena
            /\ x.unit[0].age = files[f].unit[0].age
        BY <1>7, <1>t, <3>1 DEF Tree
      <4> QED
        BY <1>4, <1>7, <1>t, <3>1, <4>1 DEF Begun, Whole
    <3>2. CASE n = 1
      <4>1. x.unit[0] = files[f].unit[0]
        BY <1>7, <1>t, <3>2
      <4> QED
        BY <1>4, <1>7, <3>2, <4>1 DEF Begun, Whole
    <3> QED
      BY <3>1, <3>2
  <2>3. n = 1 => Listed(x)
    BY <1>4, <1>7 DEF Begun, Listed
  <2> QED
    BY <1>4, <1>7, <2>1, <2>2, <2>3 DEF StepOf, Parsed, Begun
<1> QED
  BY <1>1, <1>2, <1>3, <1>4, <1>6, <1>7, <1>8, <1>9, WorkerGoesOn

(* The steps behind the parse: each writes one field of the file or none.   *)
LEMMA ParseDoneStep ==
    ASSUME ServerInv, NEW w \in Worker,
           updateSemanticTokens(w) \/ Commit(w) \/ StatusReady(w) \/ TaskDone(w)
    PROVE  ServerInv'
<1> USE DEF ServerInv
<1>1. pc[w] \in {"tokens", "collect", "sort", "commit", "ready", "done"}
  BY DEF updateSemanticTokens, ClearTokens, CollectTokens, SortTokens, Commit, StatusReady, TaskDone, Ready
<1>2. PICK t \in Leader :
        /\ pc[t] = "wait" /\ job[w] = job[t] /\ job[w] \in 1..Len(files)
        /\ queue = <<>> /\ taskCount = 1
        /\ \A v \in Worker \ {w} : pc[v] = "sleep"
        /\ AtStep(w, files[job[w]], Nth(t))
  BY <1>1, WorkerFacts
<1>3. PICK f \in 1..Len(files), n \in 0..1 : f = job[w] /\ n = Nth(t)
  BY <1>2 DEF Nth
<1>4. slot[w] = 1 - n /\ StepOf(pc[w], files[f], n) /\ files[f].status # "DIRTY"
  BY <1>1, <1>2, <1>3 DEF AtStep, StepOf
<1>5. files \in Seq(File) /\ files[f] \in File
  BY FileTyped
<1>t. 1 - n \in 0..1
  OBVIOUS
<1>6. CASE updateSemanticTokens(w)
  <2>1. PICK l \in {"collect", "sort", "commit"}, k \in {"none", "some", "all"} :
          /\ files' = [files EXCEPT ![f] = [files[f] EXCEPT !.tokens = k]]
          /\ UNCHANGED <<setup, entry, client, current, queue, taskCount, stack, hasWork, job, slot>>
          /\ pc' = [pc EXCEPT ![w] = l] /\ pc[w] \in {"tokens", "collect", "sort"}
          /\ l = "commit" => k = "all"
    BY <1>3, <1>5, <1>6 DEF updateSemanticTokens, ClearTokens, CollectTokens, SortTokens,
                            SetTokens, Go, Ready
  <2> DEFINE x == [files[f] EXCEPT !.tokens = k]
  <2>2. x \in File
    BY <1>5 DEF File
  <2>3. /\ x.readers = files[f].readers /\ StepOf(l, x, n)
        /\ ~ After(files[f], 1)
    <3>1. /\ x.tokens = k /\ x.readers = files[f].readers /\ x.status = files[f].status
          /\ x.parses = files[f].parses /\ x.committed = files[f].committed
          /\ x.unit = files[f].unit /\ x.age = files[f].age
      BY <1>5 DEF File
    <3>2. Parsed(files[f], n) /\ files[f].status = "BUSY"
      BY <1>4, <2>1 DEF StepOf
    <3>3. Parsed(x, n) /\ (l = "commit" => Listed(x))
      BY <2>1, <3>1, <3>2 DEF Parsed, Whole, Listed
    <3>4. ~ After(files[f], 1)
      BY <3>2 DEF Parsed, After
    <3> QED
      BY <2>1, <3>1, <3>2, <3>3, <3>4 DEF StepOf
  <2>4. files' = [files EXCEPT ![f] = x]
    BY <2>1
  <2>5. taskCount' = 1 /\ pc[w] # "sleep"
    BY <1>2, <2>1
  <2> HIDE DEF x
  <2>7. /\ UNCHANGED <<setup, entry, client, current, queue, stack, hasWork, job, slot>>
        /\ pc' = [pc EXCEPT ![w] = l]
        /\ x.readers = files[f].readers /\ (After(files[f], 1) => After(x, 1))
    BY <2>1, <2>3
  <2>8. /\ job[w] = job[t] /\ f = job[w] /\ n = Nth(t) /\ slot[w] = 1 - n
        /\ files[f].status # "DIRTY" /\ queue = <<>> /\ pc[t] = "wait"
        /\ \A v \in Worker \ {w} : pc[v] = "sleep"
    BY <1>2, <1>3, <1>4
  <2>9. CASE l = "collect"
    BY <2>2, <2>3, <2>4, <2>5, <2>7, <2>8, <2>9, WorkerGoesOn
  <2>10. CASE l = "sort"
    BY <2>2, <2>3, <2>4, <2>5, <2>7, <2>8, <2>10, WorkerGoesOn
  <2>11. CASE l = "commit"
    BY <2>2, <2>3, <2>4, <2>5, <2>7, <2>8, <2>11, WorkerGoesOn
  <2> QED
    BY <2>9, <2>10, <2>11
<1>7. CASE Commit(w)
  <2> DEFINE x == [files[f] EXCEPT !.committed = 1 - n]
  <2>1. /\ files' = [files EXCEPT ![f] = x]
        /\ UNCHANGED <<setup, entry, client, current, queue, taskCount, stack, hasWork, job, slot>>
        /\ pc' = [pc EXCEPT ![w] = "ready"] /\ pc[w] = "commit"
    BY <1>3, <1>4, <1>5, <1>7 DEF Commit, Go, Ready
  <2>2. x \in File
    BY <1>5, <1>t DEF File
  <2>3. /\ x.readers = files[f].readers /\ StepOf("ready", x, n)
        /\ After(files[f], 1) => After(x, 1)
    <3>1. x.readers = files[f].readers /\ StepOf("ready", x, n)
      BY <1>4, <1>5, <2>1 DEF File, StepOf, Parsed, After, Whole, Listed
    <3>2. ~ After(files[f], 1)
      BY <1>4, <2>1 DEF StepOf, Parsed, After
    <3> QED
      BY <3>1, <3>2
  <2> HIDE DEF x
  <2> QED
    BY <1>1, <1>2, <1>3, <1>4, <2>1, <2>2, <2>3, WorkerGoesOn
<1>8. CASE StatusReady(w)
  <2> DEFINE x == [files[f] EXCEPT !.status = "READY"]
  <2>1. /\ files' = [files EXCEPT ![f] = x]
        /\ UNCHANGED <<setup, entry, client, current, queue, taskCount, stack, hasWork, job, slot>>
        /\ pc' = [pc EXCEPT ![w] = "done"] /\ pc[w] = "ready"
    BY <1>3, <1>5, <1>8 DEF StatusReady, Go, Ready
  <2>2. x \in File
    BY <1>5, <1>t DEF File
  <2>3. /\ x.readers = files[f].readers /\ StepOf("done", x, n)
        /\ After(files[f], 1) => After(x, 1)
    BY <1>4, <1>5, <2>1 DEF File, StepOf, After, Whole, Listed
  <2> HIDE DEF x
  <2> QED
    BY <1>1, <1>2, <1>3, <1>4, <2>1, <2>2, <2>3, WorkerGoesOn
<1>9. CASE TaskDone(w)
  <2>1. /\ UNCHANGED <<setup, entry, client, current, queue, stack, hasWork, job, slot>>
        /\ files' = files /\ taskCount' = 0
        /\ pc' = [pc EXCEPT ![w] = "sleep"] /\ pc[w] = "done"
    BY <1>2, <1>9 DEF TaskDone, Go, Ready
  <2>2. files' = [files EXCEPT ![f] = files[f]]
    BY <1>5, <2>1
  <2>3. files[f].status = "READY" /\ After(files[f], n)
    BY <1>4, <2>1 DEF StepOf
  <2> DEFINE x == files[f]
  <2>4. /\ files' = [files EXCEPT ![f] = x] /\ x \in File /\ x.readers = files[f].readers
        /\ x.status = "READY" /\ After(x, n) /\ (After(files[f], 1) => After(x, 1))
    BY <1>5, <2>2, <2>3
  <2> HIDE DEF x
  <2> QED
    <3>1. IF "sleep" = "sleep" THEN taskCount' = 0 /\ x.status = "READY" /\ After(x, n)
                               ELSE taskCount' = 1 /\ StepOf("sleep", x, n)
      BY <2>1, <2>4
    <3>2. /\ UNCHANGED <<setup, entry, client, current, queue, stack, hasWork, job, slot>>
          /\ pc' = [pc EXCEPT ![w] = "sleep"] /\ pc[w] # "sleep"
      BY <2>1
    <3>3. job[w] = job[t] /\ f = job[w] /\ n = Nth(t) /\ slot[w] = 1 - n /\ files[f].status # "DIRTY"
      BY <1>2, <1>3, <1>4
    <3> QED
      BY <1>2, <2>4, <3>1, <3>2, <3>3, WorkerGoesOn
<1> QED
  BY <1>6, <1>7, <1>8, <1>9

-----------------------------------------------------------------------------
(* What parses are about is the same in two files. *)
AsFarAs(x, y) ==
    /\ x.parses = y.parses /\ x.committed = y.committed /\ x.status = y.status
    /\ x.unit = y.unit /\ x.age = y.age /\ x.tokens = y.tokens
    /\ y.parses = 0 => x.edited = y.edited

(* The step, the file and the unit of the loop or of the master change. *)
LeaderMoves(u, l, f, n) ==
    /\ pc' = [pc EXCEPT ![u] = l] /\ job' = [job EXCEPT ![u] = f]
    /\ slot' = [slot EXCEPT ![u] = n]

MovesOnly(u, l, f, n) ==
    /\ LeaderMoves(u, l, f, n) /\ Len(files') \in Nat /\ Len(files) \in Nat
    /\ Len(files) <= Len(files')

LEMMA LeaderTyped ==
    ASSUME ThreadsTyped, NEW u \in Leader, NEW l \in Labels, NEW n \in 0..1,
           NEW f, f \in 0..Len(files'), l \in {"begin", "dispatch", "wait"} => f \in 1..Len(files'),
           MovesOnly(u, l, f, n)
    PROVE  /\ ThreadsTyped'
           /\ pc'[u] = l /\ job'[u] = f /\ slot'[u] = n
           /\ \A v \in Thread \ {u} : pc'[v] = pc[v] /\ job'[v] = job[v] /\ slot'[v] = slot[v]
<1> USE DEF LeaderMoves, MovesOnly
<1>1. /\ pc \in [Thread -> Labels]
      /\ job \in [Thread -> 0..Len(files)] /\ slot \in [Thread -> 0..1]
      /\ \A t \in Leader : InGroup(t) => job[t] \in 1..Len(files)
      /\ \A v \in Worker : pc[v] # "sleep" => job[v] \in 1..Len(files)
  BY DEF ThreadsTyped
<1>2. u \in Thread /\ u \notin Worker /\ Leader \subseteq Thread /\ Worker \subseteq Thread
  BY Threads
<1>3. /\ pc'[u] = l /\ job'[u] = f /\ slot'[u] = n
      /\ \A v \in Thread \ {u} : pc'[v] = pc[v] /\ job'[v] = job[v] /\ slot'[v] = slot[v]
  BY <1>1, <1>2
<1>4. \A i \in 0..Len(files) : i \in 0..Len(files')
  OBVIOUS
<1>5. \A i \in 1..Len(files) : i \in 1..Len(files')
  OBVIOUS
<1>6. /\ pc' \in [Thread -> Labels]
      /\ job' \in [Thread -> 0..Len(files')] /\ slot' \in [Thread -> 0..1]
  BY <1>1, <1>2, <1>4
<1>7. /\ \A t \in Leader : InGroup(t)' => job'[t] \in 1..Len(files')
      /\ \A v \in Worker : pc'[v] # "sleep" => job'[v] \in 1..Len(files')
  BY <1>1, <1>2, <1>3, <1>5 DEF InGroup
<1> HIDE DEF LeaderMoves, MovesOnly
<1> QED
  BY <1>3, <1>6, <1>7 DEF ThreadsTyped

(* Messages and queries beside the groups leave them alone. *)
AsideLabels == {"receive", "check in", "recheck", "unlucky", "read", "dead"}
Aside(l, f, n) ==
    /\ pc["loop"] \in AsideLabels /\ l \in AsideLabels
    /\ f \in 0..Len(files) /\ n \in 0..1 /\ LeaderMoves("loop", l, f, n)
    /\ files' \in Seq(File) /\ Len(files') = Len(files)
    /\ \A g \in 1..Len(files) : AsFarAs(files'[g], files[g])
    /\ client' \in [Path -> [opens : Nat, open : BOOLEAN]]
    /\ UNCHANGED <<setup, entry, current, queue, taskCount, stack, hasWork>>

LEMMA LoopAside ==
    ASSUME ServerInv, NEW l, NEW f, NEW n, Aside(l, f, n)
    PROVE  /\ Typed' /\ OneGroup' /\ MasterHasItsTurn'
           /\ pc'["loop"] = l /\ job'["loop"] = f /\ slot'["loop"] = n
<1>1. "loop" \in Leader /\ "master" \in Leader /\ "loop" \in Thread /\ "loop" \notin Worker
      /\ Leader \subseteq Thread /\ Worker \subseteq Thread
  BY Threads
<1>0. Typed /\ OneGroup /\ MasterHasItsTurn
  BY DEF ServerInv
<1>2. /\ Len(files) \in Nat /\ Len(files') = Len(files)
      /\ files = <<>> <=> files' = <<>>
      /\ stack # <<>> => stack[1] \in 1..Len(files)
  <2>1. files \in Seq(File) /\ files' \in Seq(File) /\ Len(files') = Len(files)
    BY <1>0 DEF Typed, SharedTyped, Aside
  <2>2. stack \in Seq(1..Len(files))
    BY <1>0 DEF Typed, SharedTyped
  <2> QED
    BY <2>1, <2>2
<1>3. SharedTyped'
  <2>1. UNCHANGED <<setup, entry, current, queue, taskCount, stack, hasWork>>
    BY DEF Aside
  <2> QED
    BY <1>0, <1>2, <2>1 DEF Typed, SharedTyped, Aside
<1>4. /\ ThreadsTyped'
      /\ pc'["loop"] = l /\ job'["loop"] = f /\ slot'["loop"] = n
      /\ \A v \in Thread \ {"loop"} : pc'[v] = pc[v] /\ job'[v] = job[v] /\ slot'[v] = slot[v]
  <2>1. l \in Labels /\ l \notin {"begin", "dispatch", "wait"} /\ n \in 0..1 /\ f \in 0..Len(files')
    BY <1>2 DEF Aside, AsideLabels, Labels
  <2>2. MovesOnly("loop", l, f, n)
    BY <1>2 DEF MovesOnly, Aside
  <2> QED
    BY <1>0, <1>1, <2>1, <2>2, LeaderTyped DEF Typed
<1>5. \A g \in 1..Len(files), k \in 0..1 :
        /\ Before(files'[g], k) <=> Before(files[g], k)
        /\ After(files'[g], k) <=> After(files[g], k)
        /\ files'[g].status = files[g].status
        /\ \A step : StepOf(step, files'[g], k) <=> StepOf(step, files[g], k)
  <2>1. \A g \in 1..Len(files) : AsFarAs(files'[g], files[g])
    BY DEF Aside
  <2> QED
    BY <2>1 DEF AsFarAs, Before, Begun, Parsed, After, Whole, Listed, StepOf
<1>6. /\ ~ InGroup("loop") /\ ~ InGroup("loop")' /\ (InGroup("master")' <=> InGroup("master"))
      /\ pc["loop"] # "enqueue" /\ pc'["loop"] # "enqueue" /\ pc'["loop"] # "wake"
      /\ pc'["master"] = pc["master"] /\ job'["master"] = job["master"]
      /\ Nth("master") = 1 /\ Nth("master")' = 1
  <2>1. pc'["loop"] \in AsideLabels /\ pc["loop"] \in AsideLabels
    BY <1>4 DEF Aside
  <2>2. pc'["master"] = pc["master"] /\ job'["master"] = job["master"]
    BY <1>1, <1>4
  <2> QED
    BY <2>1, <2>2 DEF InGroup, Nth, AsideLabels
<1>7. UNCHANGED <<setup, entry, current, queue, taskCount, stack, hasWork>>
  BY DEF Aside
<1>8. /\ \A w \in Worker : pc'[w] = pc[w] /\ job'[w] = job[w] /\ slot'[w] = slot[w]
      /\ Quiet' <=> Quiet
  BY <1>1, <1>4, <1>7 DEF Quiet
<1> HIDE DEF ServerInv
<1>9. OneGroup'
  <2>1. InGroup("master") => job["master"] \in 1..Len(files)
    BY <1>0, <1>1 DEF Typed, ThreadsTyped
  <2>2. ASSUME pc["master"] = "wait" PROVE Waiting(job["master"], 1)'
    <3>1. PICK m \in 1..Len(files) : m = job["master"]
      BY <2>1, <2>2 DEF InGroup
    <3>2. Waiting(m, 1)
      BY <1>0, <1>1, <1>6, <2>2, <3>1 DEF OneGroup
    <3>3. Waiting(m, 1)'
      <4>1. /\ Before(files'[m], 1) <=> Before(files[m], 1)
            /\ After(files'[m], 1) <=> After(files[m], 1)
            /\ files'[m].status = files[m].status
            /\ \A w \in Worker : AtStep(w, files[m], 1) => AtStep(w, files[m], 1)'
        BY <1>5, <1>8 DEF AtStep
      <4> QED
        BY <1>7, <1>8, <3>2, <4>1 DEF Waiting
    <3> QED
      BY <1>6, <3>1, <3>3 DEF Waiting, AtStep
  <2>3. pc["master"] \in {"begin", "dispatch"} =>
          /\ Quiet' /\ files'[job["master"]].status = "DIRTY"
          /\ Before(files'[job["master"]], 1)
    BY <1>0, <1>1, <1>5, <1>6, <1>8, <2>1 DEF OneGroup, InGroup
  <2>4. pc'["master"] = "dispatch" => taskCount' = 0
    BY <1>0, <1>1, <1>6, <1>7 DEF OneGroup
  <2>5. pc'["loop"] \notin {"begin", "dispatch", "wait"}
    BY <1>6 DEF InGroup
  <2>6. \A t \in Leader : t = "loop" \/ t = "master"
    BY DEF Leader
  <2>7. ~ InGroup("master") => Quiet
    BY <1>0, <1>6 DEF OneGroup
  <2>8. \A g \in 1..Len(files) :
          (InGroup("master") /\ job["master"] = g) \/ After(files[g], 0) \/ After(files[g], 1)
    BY <1>0, <1>6, <2>6 DEF OneGroup
  <2>9. ASSUME NEW t \in Leader
        PROVE  /\ pc'[t] \in {"begin", "dispatch"} =>
                    Quiet' /\ files'[job'[t]].status = "DIRTY" /\ Before(files'[job'[t]], Nth(t)')
               /\ pc'[t] = "dispatch" => taskCount' = 0
               /\ pc'[t] = "wait" => Waiting(job[t], Nth(t))'
    <3>1. CASE t = "loop"
      BY <2>5, <3>1
    <3>2. CASE t = "master"
      <4>1. pc["master"] = "wait" => Waiting(job[t], Nth(t))'
        BY <1>6, <2>2, <3>2 DEF Waiting, AtStep
      <4> QED
        BY <1>6, <2>3, <2>4, <3>2, <4>1
    <3> QED
      BY <2>6, <3>1, <3>2
  <2> QED
    BY <1>1, <1>2, <1>5, <1>6, <1>8, <2>7, <2>8, <2>9 DEF OneGroup
<1>10. MasterHasItsTurn'
  BY <1>0, <1>2, <1>5, <1>6, <1>7 DEF MasterHasItsTurn, Queued
<1> QED
  BY <1>3, <1>4, <1>9, <1>10 DEF Typed

(* While the loop is not in a group every file has been parsed, and one     *)
(* whose first unit is committed twice.                                    *)
LEMMA Settled ==
    ASSUME Typed, OneGroup, ~ InGroup("loop"), NEW f \in 1..Len(files)
    PROVE  /\ Whole(files[f]) /\ files[f].parses > 0
           /\ files[f].committed = 0 => After(files[f], 1)
<1>1. CASE InGroup("master") /\ job["master"] = f
  <2>1. /\ pc["master"] \in {"begin", "dispatch"} => Before(files[f], 1)
        /\ pc["master"] = "wait" => Waiting(f, 1)
    BY <1>1, Threads DEF OneGroup, Nth
  <2>2. CASE pc["master"] \in {"begin", "dispatch"}
    BY <2>1, <2>2 DEF Before
  <2>3. CASE pc["master"] = "wait"
    <3>1. Before(files[f], 1) \/ After(files[f], 1) \/ \E w \in Worker : AtStep(w, files[f], 1)
      BY <2>1, <2>3 DEF Waiting
    <3> QED
      BY <3>1 DEF AtStep, StepOf, Before, Begun, Parsed, After
  <2> QED
    BY <1>1, <2>2, <2>3 DEF InGroup
<1>2. CASE ~ (InGroup("master") /\ job["master"] = f)
  <2>1. After(files[f], 0) \/ After(files[f], 1)
    BY <1>2 DEF OneGroup, Leader
  <2> QED
    BY <2>1 DEF After
<1> QED
  BY <1>1, <1>2

LEMMA AsideBySame ==
    ASSUME Typed, NEW l \in AsideLabels, pc["loop"] \in AsideLabels, NEW f, f \in 0..Len(files),
           NEW n \in 0..1, LeaderMoves("loop", l, f, n),
           UNCHANGED <<setup, entry, files, client, current, queue, taskCount, stack, hasWork>>
    PROVE  Aside(l, f, n)
<1>1. files \in Seq(File) /\ client \in [Path -> [opens : Nat, open : BOOLEAN]]
  BY DEF Typed, SharedTyped
<1> QED
  BY <1>1 DEF Aside, AsFarAs

LEMMA AsideByOne ==
    ASSUME Typed, NEW l \in AsideLabels, pc["loop"] \in AsideLabels, NEW f, f \in 0..Len(files),
           NEW n \in 0..1, LeaderMoves("loop", l, f, n),
           NEW g \in 1..Len(files), NEW x \in File, AsFarAs(x, files[g]),
           files' = [files EXCEPT ![g] = x],
           client' \in [Path -> [opens : Nat, open : BOOLEAN]],
           UNCHANGED <<setup, entry, current, queue, taskCount, stack, hasWork>>
    PROVE  Aside(l, f, n) /\ Becomes(g, x)
<1>1. Becomes(g, x)
  BY FileFacts
<1>2. ASSUME NEW h \in 1..Len(files) PROVE AsFarAs(files'[h], files[h])
  BY <1>1 DEF Becomes, AsFarAs
<1> QED
  BY <1>1, <1>2 DEF Aside, Becomes

LEMMA QueryStep ==
    ASSUME ServerInv, Read \/ \E p \in Path, what \in {"tree", "tokens"} : Query(p, what)
    PROVE  ServerInv'
<1>1. Typed /\ OpenedOnce /\ OneGroup /\ QueriesCheckedIn
  BY DEF ServerInv
<1>2. /\ slot \in [Thread -> 0..1] /\ job \in [Thread -> 0..Len(files)] /\ "loop" \in Thread
      /\ pc \in [Thread -> Labels]
  BY <1>1, Threads DEF Typed, ThreadsTyped
<1>3. UNCHANGED <<setup, entry, client, current, queue, taskCount, stack, hasWork>>
  BY DEF Read, CheckIn, Recheck, Unlucky, CheckOut, Query
<1>4. \A p \in Path : client[p].open => entry[p] \in 1..Len(files)
  BY <1>1 DEF OpenedOnce
<1>5. /\ client \in [Path -> [opens : Nat, open : BOOLEAN]]
      /\ \A f \in 1..Len(files) : f \in 0..Len(files)
  <2>1. client \in [Path -> [opens : Nat, open : BOOLEAN]]
    BY <1>1 DEF Typed, SharedTyped
  <2>2. \A f \in 1..Len(files) : f \in 0..Len(files)
    OBVIOUS
  <2> QED
    BY <2>1, <2>2
<1>6. ASSUME NEW l, NEW f, NEW n, Aside(l, f, n), Len(files') = Len(files), QueriesCheckedIn'
      PROVE  ServerInv'
  <2>1. Typed' /\ OneGroup' /\ MasterHasItsTurn'
    BY <1>6, LoopAside
  <2>2. OpenedOnce'
    <3>1. files = <<>> <=> files' = <<>>
      <4>1. files \in Seq(File) /\ files' \in Seq(File)
        BY <1>1, <1>6 DEF Typed, SharedTyped, Aside
      <4> QED
        BY <1>6, <4>1
    <3> QED
      BY <1>1, <1>3, <1>6, <3>1 DEF OpenedOnce
  <2> QED
    BY <1>6, <2>1, <2>2 DEF ServerInv
<1>7. ASSUME NEW p \in Path, NEW what \in {"tree", "tokens"}, Query(p, what) PROVE ServerInv'
  <2>1. /\ pc["loop"] = "receive" /\ client[p].open
        /\ files' = files
    BY <1>7 DEF Query, Ready
  <2>2. CASE files[entry[p]].open
    <3>1. PICK f \in 1..Len(files) : f = entry[p]
      BY <1>4, <2>1
    <3>2. PICK n \in 0..1 : n = files[f].committed
      BY <1>1, FileTyped DEF File
    <3>3. LeaderMoves("loop", "check in", f, n)
      BY <1>7, <2>2, <3>1, <3>2 DEF Query, Go, LeaderMoves
    <3>4. Aside("check in", f, n)
      BY <1>1, <1>3, <1>5, <2>1, <3>3, AsideBySame DEF AsideLabels
    <3>5. pc'["loop"] = "check in" /\ job'["loop"] = f /\ slot'["loop"] = n
      BY <1>2, <3>3 DEF LeaderMoves
    <3>6. n = 0 => After(files[f], 1)
      BY <1>1, <2>1, <3>2, Settled DEF InGroup
    <3>7. QueriesCheckedIn'
      BY <2>1, <3>5, <3>6 DEF QueriesCheckedIn
    <3> QED
      BY <1>6, <2>1, <3>4, <3>7
  <2>3. CASE ~ files[entry[p]].open
    <3>1. LeaderMoves("loop", "dead", job["loop"], slot["loop"])
      BY <1>2, <1>7, <2>3 DEF Query, Go, LeaderMoves
    <3>2. Aside("dead", job["loop"], slot["loop"])
      BY <1>1, <1>2, <1>3, <2>1, <3>1, AsideBySame DEF AsideLabels
    <3>3. QueriesCheckedIn'
      BY <1>2, <3>1 DEF QueriesCheckedIn, Querying, LeaderMoves
    <3> QED
      BY <1>6, <2>1, <3>2, <3>3
  <2> QED
    BY <2>2, <2>3, Zenon
<1>8. CASE Read
  <2>1. /\ Querying /\ pc["loop"] \in {"check in", "recheck", "unlucky", "read"}
        /\ job["loop"] \in 1..Len(files) /\ slot["loop"] \in 0..1 /\ pc["loop"] \in AsideLabels
    BY <1>1, <1>2, <1>8 DEF Read, CheckIn, Recheck, Unlucky, CheckOut, Ready, Querying,
                            QueriesCheckedIn, AsideLabels
  <2>2. PICK f \in 1..Len(files), n \in 0..1 : f = job["loop"] /\ n = slot["loop"]
    BY <2>1
  <2>3. /\ n = 0 => After(files[f], 1)
        /\ pc["loop"] # "check in" => files[f].readers[n] > 0
    BY <1>1, <2>1, <2>2 DEF QueriesCheckedIn
  <2>4. files[f] \in File /\ files \in Seq(File)
    BY <1>1, FileTyped
  <2>5. files[f].readers \in [0..1 -> Nat] /\ files[f].committed \in 0..1
    BY <2>4 DEF File
  <2>6. ASSUME NEW r \in Nat, NEW l \in AsideLabels, NEW m \in 0..1,
               files' = [files EXCEPT ![f] = [files[f] EXCEPT !.readers[n] = r]],
               LeaderMoves("loop", l, f, m),
               m = 0 => After(files[f], 1),
               l \in {"check in", "receive"} \/ (m = n /\ r > 0)
        PROVE  ServerInv'
    <3> DEFINE x == [files[f] EXCEPT !.readers[n] = r]
    <3>1. /\ x.readers = [files[f].readers EXCEPT ![n] = r]
          /\ AsFarAs(x, files[f])
      BY <2>4 DEF File, AsFarAs
    <3>2. x.readers \in [0..1 -> Nat]
      <4> HIDE DEF x
      <4> QED
        BY <2>5, <2>6, <3>1
    <3>3. x \in File
      BY <2>4, <3>2 DEF File
    <3> HIDE DEF x
    <3>4. files' = [files EXCEPT ![f] = x]
      BY <2>6 DEF x
    <3>5. Aside(l, f, m) /\ Becomes(f, x)
      <4>1. f \in 0..Len(files)
        BY <1>5, Zenon
      <4> QED
        BY <1>1, <1>3, <1>5, <2>1, <2>6, <3>1, <3>3, <3>4, <4>1, AsideByOne
    <3>6. pc'["loop"] = l /\ job'["loop"] = f /\ slot'["loop"] = m
      BY <1>2, <2>6 DEF LeaderMoves
    <3>7. QueriesCheckedIn'
      <4>1. After(files[f], 1) => After(files'[f], 1)
        BY <3>1, <3>5 DEF Becomes, AsFarAs, After, Whole, Listed
      <4>2. m = n => files'[f].readers[m] = r
        BY <2>5, <3>1, <3>5 DEF Becomes
      <4>3. l = "receive" => ~ Querying'
        BY <3>6 DEF Querying
      <4>4. Len(files') = Len(files)
        BY <3>5 DEF Becomes
      <4> QED
        BY <2>6, <3>6, <4>1, <4>2, <4>3, <4>4 DEF QueriesCheckedIn
    <3> QED
      BY <1>6, <3>5, <3>7 DEF Becomes
  <2>7. CASE CheckIn
    <3>1. files' = [files EXCEPT ![f] = [files[f] EXCEPT !.readers[n] = files[f].readers[n] + 1]]
      BY <2>2, <2>7 DEF CheckIn
    <3>2. LeaderMoves("loop", "recheck", f, n)
      BY <1>2, <2>2, <2>7 DEF CheckIn, Go, LeaderMoves
    <3>3. files[f].readers[n] + 1 \in Nat /\ files[f].readers[n] + 1 > 0
      BY <2>5
    <3> QED
      BY <2>3, <2>6, <3>1, <3>2, <3>3 DEF AsideLabels
  <2>8. CASE Recheck
    <3>1. files' = [files EXCEPT ![f] = [files[f] EXCEPT !.readers[n] = files[f].readers[n]]]
      <4>1. [files[f] EXCEPT !.readers[n] = files[f].readers[n]] = files[f]
        BY <2>4, <2>5 DEF File
      <4> QED
        BY <2>4, <2>8, <4>1 DEF Recheck
    <3>2. PICK l \in {"read", "unlucky"} : LeaderMoves("loop", l, f, n)
      BY <1>2, <2>2, <2>8 DEF Recheck, Go, LeaderMoves
    <3>3. files[f].readers[n] \in Nat /\ files[f].readers[n] > 0
      BY <2>3, <2>5, <2>8 DEF Recheck, Ready
    <3> QED
      BY <2>3, <2>6, <3>1, <3>2, <3>3 DEF AsideLabels
  <2>9. CASE Unlucky
    <3>1. files' = [files EXCEPT ![f] = [files[f] EXCEPT !.readers[n] = files[f].readers[n] - 1]]
      BY <2>2, <2>9 DEF Unlucky
    <3>2. LeaderMoves("loop", "check in", f, files[f].committed)
      BY <1>2, <2>2, <2>9 DEF Unlucky, Go, LeaderMoves
    <3>3. files[f].readers[n] - 1 \in Nat
      <4>1. files[f].readers[n] > 0 /\ files[f].readers[n] \in Nat
        BY <2>3, <2>5, <2>9 DEF Unlucky, Ready
      <4> QED
        BY <4>1
    <3>4. files[f].committed = 0 => After(files[f], 1)
      BY <1>1, <2>1, Settled DEF InGroup
    <3> QED
      BY <2>5, <2>6, <3>1, <3>2, <3>3, <3>4 DEF AsideLabels
  <2>10. CASE CheckOut
    <3>1. files' = [files EXCEPT ![f] = [files[f] EXCEPT !.readers[n] = files[f].readers[n] - 1]]
      BY <2>2, <2>10 DEF CheckOut
    <3>2. LeaderMoves("loop", "receive", f, n)
      BY <1>2, <2>2, <2>10 DEF CheckOut, Go, LeaderMoves
    <3>3. files[f].readers[n] - 1 \in Nat
      <4>1. files[f].readers[n] > 0 /\ files[f].readers[n] \in Nat
        BY <2>3, <2>5, <2>10 DEF CheckOut, Ready
      <4> QED
        BY <4>1
    <3> QED
      BY <2>3, <2>6, <3>1, <3>2, <3>3 DEF AsideLabels
  <2> QED
    BY <1>8, <2>7, <2>8, <2>9, <2>10 DEF Read
<1> QED
  BY <1>7, <1>8

LEMMA ClientStep ==
    ASSUME ServerInv, NEW p \in Path, NEW v \in 1..MaxVersion, DidClose(p) \/ DidChange(p, v)
    PROVE  ServerInv'
<1>1. Typed /\ OpenedOnce /\ OneGroup /\ QueriesCheckedIn
  BY DEF ServerInv
<1>2. /\ slot \in [Thread -> 0..1] /\ job \in [Thread -> 0..Len(files)] /\ "loop" \in Thread
      /\ pc \in [Thread -> Labels] /\ slot["loop"] \in 0..1 /\ job["loop"] \in 0..Len(files)
  BY <1>1, Threads DEF Typed, ThreadsTyped
<1>3. /\ UNCHANGED <<setup, entry, current, queue, taskCount, stack, hasWork, job, slot>>
      /\ pc["loop"] = "receive" /\ client[p].open
  BY DEF DidClose, DidChange, Ready
<1>4. PICK f \in 1..Len(files) : f = entry[p]
  BY <1>1, <1>3 DEF OpenedOnce
<1>5. client \in [Path -> [opens : Nat, open : BOOLEAN]]
  BY <1>1 DEF Typed, SharedTyped
<1>6. files[f] \in File /\ files \in Seq(File)
  BY <1>1, FileTyped
<1>7. ASSUME NEW l \in {"receive", "dead"}, Aside(l, job["loop"], slot["loop"]),
             \A q \in Path : client'[q].open => client[q].open,
             \A q \in Path : client'[q].opens = client[q].opens
      PROVE  ServerInv'
  <2>1. /\ Typed' /\ OneGroup' /\ MasterHasItsTurn' /\ pc'["loop"] = l
    BY <1>7, LoopAside
  <2>2. QueriesCheckedIn'
    BY <2>1 DEF QueriesCheckedIn, Querying
  <2>3. /\ Len(files') = Len(files) /\ (files = <<>> <=> files' = <<>>)
    <3>1. files' \in Seq(File) /\ Len(files') = Len(files)
      BY <1>7 DEF Aside
    <3> QED
      BY <1>6, <3>1
  <2>4. OpenedOnce'
    <3>1. ASSUME NEW q \in Path
          PROVE  /\ client'[q].open => client'[q].opens = 1
                 /\ IF client'[q].opens = 0 THEN entry'[q] = NoFile
                      ELSE /\ client'[q].opens = 1 /\ entry'[q] = current'[q]
                           /\ entry'[q] \in 1..Len(files')
      BY <1>1, <1>3, <1>7, <2>3, <3>1 DEF OpenedOnce
    <3>2. setup.async => /\ Len(files') <= 1
                         /\ files' # <<>> => \A q \in setup.paths : client'[q].opens = 1
      <4>1. setup.paths \subseteq Path
        BY <1>1 DEF Typed, SharedTyped, Path
      <4> QED
        BY <1>1, <1>7, <2>3, <4>1 DEF OpenedOnce
    <3> QED
      BY <1>3, <3>1, <3>2 DEF OpenedOnce
  <2> QED
    BY <2>1, <2>2, <2>4 DEF ServerInv
<1>8. CASE DidClose(p)
  <2> DEFINE x == [files[f] EXCEPT !.open = FALSE]
  <2>1. files' = [files EXCEPT ![f] = x] /\ x \in File /\ AsFarAs(x, files[f])
    BY <1>4, <1>6, <1>8 DEF DidClose, File, AsFarAs
  <2>2. /\ client' = [client EXCEPT ![p].open = FALSE]
        /\ client' \in [Path -> [opens : Nat, open : BOOLEAN]]
        /\ \A q \in Path : client'[q].open => client[q].open
        /\ \A q \in Path : client'[q].opens = client[q].opens
    BY <1>5, <1>8 DEF DidClose
  <2>3. LeaderMoves("loop", "receive", job["loop"], slot["loop"])
    BY <1>2, <1>3, <1>8 DEF DidClose, LeaderMoves
  <2> HIDE DEF x
  <2>4. Aside("receive", job["loop"], slot["loop"])
    BY <1>1, <1>2, <1>3, <2>1, <2>2, <2>3, AsideByOne DEF AsideLabels
  <2> QED
    BY <1>7, <2>2, <2>4
<1>9. CASE DidChange(p, v)
  <2>1. client' = client
    BY <1>9 DEF DidChange
  <2>2. CASE files' = files
    <3>1. PICK l \in {"receive", "dead"} : LeaderMoves("loop", l, job["loop"], slot["loop"])
      BY <1>2, <1>3, <1>9 DEF DidChange, LeaderMoves, Go
    <3>2. Aside(l, job["loop"], slot["loop"])
      BY <1>1, <1>2, <1>3, <2>1, <2>2, <3>1, AsideBySame DEF AsideLabels
    <3> QED
      BY <1>7, <2>1, <3>2
  <2>3. CASE files' # files
    <3>0. files[f].parses # 0
      <4>1. files[f].parses \in Nat
        BY <1>6 DEF File
      <4>2. files[f].parses > 0
        BY <1>1, <1>3, Settled DEF InGroup
      <4> QED
        BY <4>1, <4>2
    <3> DEFINE x == [files[f] EXCEPT !.text = v, !.edited = TRUE]
    <3>1. files' = [files EXCEPT ![f] = x] /\ x \in File /\ AsFarAs(x, files[f])
      <4>1. files' = [files EXCEPT ![f] = x]
        BY <1>4, <1>9, <2>3 DEF DidChange
      <4>2. x \in File
        BY <1>6 DEF File
      <4>3. /\ x.parses = files[f].parses /\ x.committed = files[f].committed
            /\ x.status = files[f].status /\ x.unit = files[f].unit
            /\ x.age = files[f].age /\ x.tokens = files[f].tokens
        BY <1>6 DEF File
      <4> HIDE DEF x
      <4>4. AsFarAs(x, files[f])
        BY <3>0, <4>3 DEF AsFarAs
      <4> QED
        BY <4>1, <4>2, <4>4
    <3>2. LeaderMoves("loop", "receive", job["loop"], slot["loop"])
      BY <1>2, <1>3, <1>9, <2>3 DEF DidChange, LeaderMoves
    <3> HIDE DEF x
    <3>3. Aside("receive", job["loop"], slot["loop"])
      BY <1>1, <1>2, <1>3, <1>5, <2>1, <3>1, <3>2, AsideByOne DEF AsideLabels
    <3> QED
      BY <1>7, <2>1, <3>3
  <2> QED
    BY <2>2, <2>3
<1> QED
  BY <1>8, <1>9

-----------------------------------------------------------------------------
(* A leader in a group is the only one, and works on a file. *)
LEMMA LeaderFacts ==
    ASSUME ServerInv, NEW t \in Leader, InGroup(t)
    PROVE  /\ \A u \in Leader \ {t} : ~ InGroup(u)
           /\ job[t] \in 1..Len(files) /\ Nth(t) \in 0..1 /\ slot[t] \in 0..1
           /\ \A g \in 1..Len(files) : g = job[t] \/ After(files[g], 0) \/ After(files[g], 1)
           /\ t = "master" => pc["loop"] # "enqueue" /\ stack = <<>> /\ setup.async
           /\ t = "master" => Nth(t) = 1
           /\ t = "loop" => ~ Querying
           /\ t = "loop" /\ setup.async =>
                stack = <<>> /\ ~ hasWork /\ pc["master"] = "sleep" /\ slot["loop"] = 1
           /\ t = "loop" /\ ~ setup.async =>
                stack = <<>> /\ ~ hasWork /\ pc["master"] = "sleep"
<1>1. Typed /\ OneGroup /\ MasterHasItsTurn
  BY DEF ServerInv
<1>2. t = "loop" \/ t = "master"
  BY DEF Leader
<1>3. \A u \in Leader \ {t} : ~ InGroup(u)
  BY <1>1, <1>2 DEF OneGroup, Leader
<1>4. job[t] \in 1..Len(files) /\ Nth(t) \in 0..1 /\ slot[t] \in 0..1
  <2>1. job[t] \in 1..Len(files) /\ slot[t] \in 0..1
    BY <1>1, Threads DEF Typed, ThreadsTyped
  <2>2. Nth(t) \in 0..1
    BY DEF Nth
  <2> QED
    BY <2>1, <2>2
<1>5. \A g \in 1..Len(files) : g = job[t] \/ After(files[g], 0) \/ After(files[g], 1)
  BY <1>1, <1>3 DEF OneGroup
<1>6. t = "master" => pc["loop"] # "enqueue" /\ stack = <<>> /\ setup.async
  BY <1>1 DEF MasterHasItsTurn, InGroup
<1>7. t = "loop" => ~ Querying
  BY DEF Querying, InGroup
<1>8. t = "loop" /\ setup.async =>
         stack = <<>> /\ ~ hasWork /\ pc["master"] = "sleep" /\ slot["loop"] = 1
  BY <1>1 DEF MasterHasItsTurn
<1>9. t = "loop" /\ ~ setup.async =>
         stack = <<>> /\ ~ hasWork /\ pc["master"] = "sleep"
  BY <1>1 DEF MasterHasItsTurn
<1> QED
  BY <1>3, <1>4, <1>5, <1>6, <1>7, <1>8, <1>9 DEF Nth

(* When the group counter has come down the parse is over. *)
LEMMA WaitedFacts ==
    ASSUME ServerInv, NEW t \in Leader, Waited(t)
    PROVE  InGroup(t) /\ Quiet /\ taskCount = 0 /\ After(files[job[t]], Nth(t))
<1>1. pc[t] = "wait" /\ ~ (taskCount = 1)
  BY DEF Waited, Ready
<1>2. Waiting(job[t], Nth(t))
  BY <1>1 DEF ServerInv, OneGroup
<1> QED
  BY <1>1, <1>2 DEF Waiting, InGroup

LEMMA BeginGroupStep ==
    ASSUME ServerInv, NEW t \in Leader, BeginGroup(t)
    PROVE  ServerInv'
<1>1. Typed /\ OpenedOnce /\ OneGroup /\ MasterHasItsTurn /\ QueriesCheckedIn
  BY DEF ServerInv
<1>2. /\ pc[t] = "begin" /\ InGroup(t) /\ pc' = [pc EXCEPT ![t] = "dispatch"] /\ taskCount' = 0
      /\ UNCHANGED <<setup, entry, files, client, current, queue, stack, hasWork, job, slot>>
  BY DEF BeginGroup, Ready, Go, InGroup
<1>3. /\ job \in [Thread -> 0..Len(files)] /\ slot \in [Thread -> 0..1]
      /\ t \in Thread /\ Leader \subseteq Thread /\ Worker \subseteq Thread /\ t \notin Worker
      /\ Len(files) \in Nat
  <2>1. files \in Seq(File)
    BY <1>1 DEF Typed, SharedTyped
  <2>2. Len(files) \in Nat
    BY <2>1
  <2> QED
    BY <1>1, <2>2, Threads DEF Typed, ThreadsTyped
<1>4. /\ job[t] \in 1..Len(files) /\ job[t] \in 0..Len(files) /\ slot[t] \in 0..1
      /\ \A u \in Leader \ {t} : ~ InGroup(u)
  BY <1>2, <1>3, LeaderFacts
<1>5. MovesOnly(t, "dispatch", job[t], slot[t])
  BY <1>2, <1>3 DEF MovesOnly, LeaderMoves
<1>6. /\ ThreadsTyped' /\ pc'[t] = "dispatch"
      /\ \A v \in Thread \ {t} : pc'[v] = pc[v]
  BY <1>1, <1>2, <1>4, <1>5, LeaderTyped, ZenonT(60) DEF Typed, Labels
<1>7. SharedTyped'
  BY <1>1, <1>2 DEF Typed, SharedTyped
<1>8. OpenedOnce'
  BY <1>1, <1>2 DEF OpenedOnce
<1>9. /\ \A u \in Leader : InGroup(u)' <=> InGroup(u)
      /\ \A u \in Leader : Nth(u)' = Nth(u) /\ (Quiet' <=> Quiet)
  BY <1>2, <1>3, <1>6 DEF InGroup, Nth, Quiet
<1>10. OneGroup'
  <2>1. Quiet /\ files[job[t]].status = "DIRTY" /\ Before(files[job[t]], Nth(t))
    BY <1>1, <1>2 DEF OneGroup
  <2>2. \A u \in Leader \ {t} : pc'[u] \notin {"begin", "dispatch", "wait"}
    BY <1>4, <1>9 DEF InGroup
  <2> QED
    BY <1>1, <1>2, <1>4, <1>6, <1>9, <2>1, <2>2, Threads DEF OneGroup
<1>11. MasterHasItsTurn'
  <2>1. /\ pc'["loop"] = pc["loop"] \/ (pc'["loop"] = "dispatch" /\ pc["loop"] = "begin")
        /\ pc'["master"] = pc["master"] \/ (pc'["master"] = "dispatch" /\ pc["master"] = "begin")
    BY <1>2, <1>3, <1>6, Threads
  <2> QED
    BY <1>1, <1>2, <1>9, <2>1, Threads DEF MasterHasItsTurn, Queued
<1>12. QueriesCheckedIn'
  <2>1. Querying' <=> Querying /\ pc'["loop"] = pc["loop"]
    BY <1>2, <1>3, <1>6, Threads DEF Querying
  <2> QED
    BY <1>1, <1>2, <2>1 DEF QueriesCheckedIn
<1> QED
  BY <1>6, <1>7, <1>8, <1>10, <1>11, <1>12 DEF ServerInv, Typed

(* The file is dirty when its group is begun, so that the exchange of the   *)
(* status succeeds and the task is queued.                                  *)
LEMMA DispatchStep ==
    ASSUME ServerInv, NEW t \in Leader, DispatchParse(t)
    PROVE  ServerInv'
<1>1. Typed /\ OpenedOnce /\ OneGroup /\ MasterHasItsTurn /\ QueriesCheckedIn
  BY DEF ServerInv
<1>2. pc[t] = "dispatch" /\ InGroup(t) /\ pc' = [pc EXCEPT ![t] = "wait"]
  BY DEF DispatchParse, Ready, Go, InGroup
<1>3. /\ job \in [Thread -> 0..Len(files)] /\ slot \in [Thread -> 0..1]
      /\ t \in Thread /\ Leader \subseteq Thread /\ Worker \subseteq Thread /\ t \notin Worker
      /\ Len(files) \in Nat
  <2>1. files \in Seq(File)
    BY <1>1 DEF Typed, SharedTyped
  <2>2. Len(files) \in Nat
    BY <2>1
  <2> QED
    BY <1>1, <2>2, Threads DEF Typed, ThreadsTyped
<1>4. PICK f \in 1..Len(files), n \in 0..1 :
        f = job[t] /\ n = Nth(t) /\ f \in 0..Len(files) /\ slot[t] \in 0..1
  <2>1. job[t] \in 1..Len(files) /\ Nth(t) \in 0..1 /\ slot[t] \in 0..1
    BY <1>2, LeaderFacts
  <2> QED
    BY <1>3, <2>1
<1>5. /\ \A u \in Leader \ {t} : ~ InGroup(u)
      /\ t = "loop" => ~ Querying
      /\ t = "master" => pc["loop"] # "enqueue" /\ stack = <<>> /\ setup.async
      /\ \A g \in 1..Len(files) : g = f \/ After(files[g], 0) \/ After(files[g], 1)
      /\ t = "loop" => stack = <<>> /\ ~ hasWork /\ pc["master"] = "sleep"
      /\ t = "loop" /\ setup.async => slot["loop"] = 1
  BY <1>2, <1>4, LeaderFacts DEF ServerInv, OneGroup
<1>6. Quiet /\ files[f].status = "DIRTY" /\ Before(files[f], n) /\ taskCount = 0
  BY <1>1, <1>2, <1>4 DEF OneGroup
<1>7. files[f] \in File /\ files \in Seq(File)
  BY <1>1, FileTyped
<1> DEFINE x == [files[f] EXCEPT !.status = "BUSY"]
<1>8. /\ files' = [files EXCEPT ![f] = x] /\ queue' = <<f>> /\ taskCount' = 1
      /\ UNCHANGED <<setup, entry, client, current, stack, hasWork, job, slot>>
  <2>1. Append(queue, f) = <<f>>
    BY <1>6 DEF Quiet
  <2> QED
    BY <1>4, <1>6, <1>7, <2>1 DEF DispatchParse
<1>9. /\ x \in File /\ x.status = "BUSY" /\ Before(x, n) /\ x.readers = files[f].readers
      /\ \A k \in 0..1 : After(files[f], k) => After(x, k)
  BY <1>6, <1>7 DEF File, Before, After, Whole, Listed
<1> HIDE DEF x
<1>10. Becomes(f, x)
  BY <1>1, <1>8, <1>9, FileFacts
<1>11. /\ Len(files') = Len(files) /\ files' \in Seq(File) /\ (files = <<>> <=> files' = <<>>)
  <2>1. Len(files') = Len(files) /\ files' \in Seq(File)
    BY <1>10 DEF Becomes
  <2> QED
    BY <1>7, <2>1
<1>12. MovesOnly(t, "wait", f, slot[t])
  BY <1>2, <1>3, <1>4, <1>8, <1>11 DEF MovesOnly, LeaderMoves
<1>13. /\ ThreadsTyped' /\ pc'[t] = "wait"
       /\ \A v \in Thread \ {t} : pc'[v] = pc[v]
  BY <1>1, <1>4, <1>11, <1>12, LeaderTyped, ZenonT(60) DEF Typed, Labels
<1>14. SharedTyped'
  <2>1. queue' \in Seq(1..Len(files')) /\ taskCount' \in Int
    BY <1>4, <1>8, <1>11
  <2> QED
    BY <1>1, <1>8, <1>11, <2>1 DEF Typed, SharedTyped
<1>15. OpenedOnce'
  BY <1>1, <1>8, <1>11 DEF OpenedOnce
<1>16. /\ \A u \in Leader : InGroup(u)' <=> InGroup(u)
       /\ \A u \in Leader : Nth(u)' = Nth(u)
       /\ \A w \in Worker : pc'[w] = "sleep"
       /\ \A u \in Leader \ {t} : pc'[u] \notin {"begin", "dispatch", "wait"}
  BY <1>2, <1>3, <1>5, <1>6, <1>8, <1>13 DEF InGroup, Nth, Quiet
<1>17. OneGroup'
  <2>1. Waiting(f, n)'
    BY <1>8, <1>9, <1>10, <1>16 DEF Waiting, Becomes
  <2>2. pc'[t] = "wait" => Waiting(job[t], Nth(t))'
    BY <1>4, <1>8, <1>16, <2>1 DEF Waiting, AtStep
  <2>3. \A g \in 1..Len(files) : g = f \/ After(files'[g], 0) \/ After(files'[g], 1)
    BY <1>5, <1>10 DEF Becomes
  <2>4. /\ ~ (InGroup("loop") /\ InGroup("master"))'
        /\ InGroup(t)' /\ job'[t] = f
    BY <1>1, <1>2, <1>4, <1>8, <1>16, Threads DEF OneGroup
  <2>5. t = "loop" \/ t = "master"
    BY DEF Leader
  <2> QED
    BY <1>11, <1>13, <1>16, <2>2, <2>3, <2>4, <2>5 DEF OneGroup
<1>18. MasterHasItsTurn'
  <2>1. /\ pc'["loop"] = pc["loop"] \/ (pc'["loop"] = "wait" /\ pc["loop"] = "dispatch")
        /\ pc'["master"] = pc["master"] \/ (pc'["master"] = "wait" /\ pc["master"] = "dispatch")
    BY <1>2, <1>3, <1>13, Threads
  <2>2. stack' = <<>> /\ pc'["loop"] # "enqueue"
    BY <1>2, <1>5, <1>8, <2>1, Threads DEF Leader
  <2> QED
    BY <1>1, <1>8, <1>11, <1>16, <2>1, <2>2, Threads DEF MasterHasItsTurn
<1>19. QueriesCheckedIn'
  <2>1. CASE t = "loop"
    BY <1>13, <2>1 DEF QueriesCheckedIn, Querying
  <2>2. CASE t = "master"
    <3>1. pc'["loop"] = pc["loop"] /\ slot["loop"] \in 0..1
      BY <1>3, <1>13, <2>2, Threads
    <3>2. \A g \in 1..Len(files) :
            (After(files[g], 1) => After(files'[g], 1)) /\ files'[g].readers = files[g].readers
      BY <1>9, <1>10 DEF Becomes
    <3> QED
      BY <1>1, <1>8, <1>11, <3>1, <3>2 DEF QueriesCheckedIn, Querying
  <2> QED
    BY <2>1, <2>2 DEF Leader
<1> QED
  BY <1>13, <1>14, <1>15, <1>17, <1>18, <1>19 DEF ServerInv, Typed

(* What holds of every step of the loop or the master alone. *)
LEMMA LeaderSteps ==
    ASSUME ServerInv, NEW t \in Leader, NEW l \in Labels \ {"begin", "dispatch", "wait"},
           pc' = [pc EXCEPT ![t] = l], UNCHANGED <<files, job, slot>>
    PROVE  /\ ThreadsTyped' /\ pc'[t] = l
           /\ \A v \in Thread \ {t} : pc'[v] = pc[v]
           /\ ~ InGroup(t)' /\ \A u \in Leader \ {t} : InGroup(u)' <=> InGroup(u)
           /\ \A u \in Leader : Nth(u)' = Nth(u)
           /\ \A w \in Worker : pc'[w] = pc[w]
<1>1. Typed
  BY DEF ServerInv
<1>2. /\ job \in [Thread -> 0..Len(files)] /\ slot \in [Thread -> 0..1]
      /\ t \in Thread /\ Leader \subseteq Thread /\ Worker \subseteq Thread /\ t \notin Worker
      /\ job[t] \in 0..Len(files) /\ slot[t] \in 0..1
      /\ Len(files) \in Nat
  <2>1. files \in Seq(File)
    BY <1>1 DEF Typed, SharedTyped
  <2>2. Len(files) \in Nat
    BY <2>1
  <2> QED
    BY <1>1, <2>2, Threads DEF Typed, ThreadsTyped
<1>3. MovesOnly(t, l, job[t], slot[t])
  BY <1>2 DEF MovesOnly, LeaderMoves
<1>4. /\ ThreadsTyped' /\ pc'[t] = l
      /\ \A v \in Thread \ {t} : pc'[v] = pc[v]
  BY <1>1, <1>2, <1>3, LeaderTyped DEF Typed
<1> QED
  BY <1>2, <1>4 DEF InGroup, Nth

LEMMA WakeStep ==
    ASSUME ServerInv, enqueueCompilation \/ WakeMaster
    PROVE  ServerInv'
<1>1. Typed /\ OpenedOnce /\ OneGroup /\ MasterHasItsTurn
  BY DEF ServerInv
<1>2. /\ UNCHANGED <<setup, entry, files, client, current, queue, taskCount, job, slot>>
      /\ pc["loop"] \in {"enqueue", "wake"} /\ ~ InGroup("loop")
  BY DEF enqueueCompilation, WakeMaster, Ready, InGroup
<1>3. PICK l \in {"wake", "receive"} :
        /\ pc' = [pc EXCEPT !["loop"] = l]
        /\ l = "wake" <=> pc["loop"] = "enqueue"
  BY DEF enqueueCompilation, WakeMaster, Ready, Go
<1>4. /\ ThreadsTyped' /\ pc'["loop"] = l
      /\ \A v \in Thread \ {"loop"} : pc'[v] = pc[v]
      /\ ~ InGroup("loop")' /\ (InGroup("master")' <=> InGroup("master"))
      /\ \A u \in Leader : Nth(u)' = Nth(u)
      /\ \A w \in Worker : pc'[w] = pc[w]
  BY <1>2, <1>3, LeaderSteps, Threads DEF Labels, Leader
<1>5. files # <<>> /\ setup.async
  <2>1. pc["loop"] = "enqueue" => job["loop"] \in 1..Len(files)
    BY <1>1 DEF MasterHasItsTurn
  <2>2. files \in Seq(File)
    BY <1>1 DEF Typed, SharedTyped
  <2>3. pc["loop"] = "enqueue" => files # <<>>
    BY <2>1, <2>2
  <2> QED
    BY <1>1, <1>2, <2>3 DEF MasterHasItsTurn
<1>6. /\ pc["loop"] = "enqueue" => /\ stack = <<>> /\ ~ InGroup("master")
                                   /\ job["loop"] \in 1..Len(files) /\ Queued(job["loop"])
      /\ stack' = (IF pc["loop"] = "enqueue" THEN Append(stack, job["loop"]) ELSE stack)
      /\ hasWork' \in BOOLEAN
  <2>1. hasWork' \in BOOLEAN
    BY <1>1 DEF enqueueCompilation, WakeMaster, Typed, SharedTyped
  <2>2. stack' = (IF pc["loop"] = "enqueue" THEN Append(stack, job["loop"]) ELSE stack)
    BY DEF enqueueCompilation, WakeMaster, Ready
  <2> QED
    BY <1>1, <1>5, <2>1, <2>2 DEF MasterHasItsTurn, InGroup
<1>7. \/ stack' = stack /\ pc["loop"] = "wake"
      \/ stack' = <<job["loop"]>> /\ pc["loop"] = "enqueue"
  <2>1. CASE pc["loop"] = "enqueue"
    <3>1. stack' = Append(<<>>, job["loop"])
      BY <1>6, <2>1
    <3> QED
      BY <2>1, <3>1
  <2>2. CASE pc["loop"] = "wake"
    BY <1>6, <2>2
  <2> QED
    BY <1>2, <2>1, <2>2
<1>8. SharedTyped'
  <2>1. stack' \in Seq(1..Len(files))
    <3>1. stack \in Seq(1..Len(files))
      BY <1>1 DEF Typed, SharedTyped
    <3>2. CASE stack' = stack
      BY <3>1, <3>2
    <3>3. CASE stack' = <<job["loop"]>> /\ pc["loop"] = "enqueue"
      <4>1. job["loop"] \in 1..Len(files)
        BY <1>6, <3>3
      <4> QED
        BY <3>3, <4>1
    <3> QED
      BY <1>7, <3>2, <3>3
  <2> QED
    BY <1>1, <1>2, <1>6, <2>1 DEF Typed, SharedTyped
<1>9. OpenedOnce'
  BY <1>1, <1>2 DEF OpenedOnce
<1>10. OneGroup'
  <2>1. pc["master"] = "wait" => Waiting(job["master"], Nth("master"))'
    BY <1>1, <1>2, <1>4, Threads DEF OneGroup, Waiting, AtStep, Quiet
  <2>2. pc'["loop"] \notin {"begin", "dispatch", "wait"} /\ pc'["master"] = pc["master"]
    BY <1>3, <1>4, Threads DEF Leader
  <2>3. Quiet' <=> Quiet
    BY <1>2, <1>4 DEF Quiet
  <2> QED
    BY <1>1, <1>2, <1>4, <2>1, <2>2, <2>3 DEF OneGroup, Leader
<1>11. MasterHasItsTurn'
  <2>1. pc'["master"] = pc["master"] /\ pc'["loop"] # "enqueue"
    BY <1>3, <1>4, Threads DEF Leader
  <2>2. /\ stack' # <<>> => Len(stack') = 1 /\ stack'[1] \in 1..Len(files) /\ ~ InGroup("master")
        /\ stack' # <<>> => files[stack'[1]].status = "DIRTY" /\ After(files[stack'[1]], 0)
    <3>1. CASE stack' = stack
      <4>1. stack \in Seq(1..Len(files))
        BY <1>1 DEF Typed, SharedTyped
      <4>2. stack # <<>> => Len(stack) = 1 /\ ~ InGroup("master")
              /\ files[stack[1]].status = "DIRTY" /\ After(files[stack[1]], 0)
        BY <1>1 DEF MasterHasItsTurn, Queued
      <4>3. stack # <<>> => stack[1] \in 1..Len(files)
        BY <4>1
      <4> QED
        BY <3>1, <4>2, <4>3
    <3>2. CASE stack' = <<job["loop"]>> /\ pc["loop"] = "enqueue"
      <4>1. Len(stack') = 1 /\ stack'[1] = job["loop"]
        BY <3>2
      <4> QED
        BY <1>6, <3>2, <4>1 DEF Queued
    <3> QED
      BY <1>7, <3>1, <3>2
  <2>3. stack' # <<>> => Len(stack') = 1 /\ ~ InGroup("master")'
          /\ files'[stack'[1]].status = "DIRTY" /\ After(files'[stack'[1]], 0)
    BY <1>2, <1>4, <2>2
  <2> QED
    BY <1>2, <1>4, <1>5, <2>1, <2>3 DEF MasterHasItsTurn, Queued
<1>12. QueriesCheckedIn'
  BY <1>3, <1>4 DEF QueriesCheckedIn, Querying
<1> QED
  BY <1>4, <1>8, <1>9, <1>10, <1>11, <1>12 DEF ServerInv, Typed

(* A thread begins a group, or leaves one, when nothing is parsed. *)
LEMMA GroupTurns ==
    ASSUME NEW t \in Leader, NEW l \in Labels \ {"dispatch", "wait"}, NEW f \in 1..Len(files'),
           pc'[t] = l, l = "begin" => job'[t] = f,
           \A u \in Leader \ {t} : pc'[u] \notin {"begin", "dispatch", "wait"},
           queue' = <<>>, \A w \in Worker : pc'[w] = "sleep",
           l = "begin" => files'[f].status = "DIRTY" /\ Before(files'[f], Nth(t)'),
           \A g \in 1..Len(files') :
              (g = f /\ l = "begin") \/ After(files'[g], 0) \/ After(files'[g], 1)
    PROVE  OneGroup'
<1>1. t = "loop" \/ t = "master"
  BY DEF Leader
<1>2. Quiet'
  BY DEF Quiet
<1>3. l = "begin" => InGroup(t)' /\ job'[t] = f
  BY DEF InGroup
<1> QED
  BY <1>1, <1>2, <1>3 DEF OneGroup, InGroup, Leader

LEMMA OpenParsedStep ==
    ASSUME ServerInv, OpenParsed
    PROVE  ServerInv'
<1>1. Typed /\ OpenedOnce /\ OneGroup /\ MasterHasItsTurn /\ QueriesCheckedIn
  BY DEF ServerInv
<1>2. /\ Waited("loop") /\ slot["loop"] = 1 /\ pc["loop"] = "wait" /\ InGroup("loop")
      /\ Nth("loop") = 0
  BY DEF OpenParsed, Waited, Ready, InGroup, Nth
<1>3. /\ job \in [Thread -> 0..Len(files)] /\ slot \in [Thread -> 0..1]
      /\ Leader \subseteq Thread /\ Worker \subseteq Thread
      /\ "loop" \in Leader /\ "master" \in Leader /\ "loop" \in Thread /\ "loop" \notin Worker
      /\ Len(files) \in Nat
  <2>1. files \in Seq(File)
    BY <1>1 DEF Typed, SharedTyped
  <2>2. Len(files) \in Nat
    BY <2>1
  <2> QED
    BY <1>1, <2>2, Threads DEF Typed, ThreadsTyped
<1>4. PICK f \in 1..Len(files) : f = job["loop"] /\ f \in 0..Len(files)
  BY <1>2, <1>3, LeaderFacts
<1>5. /\ ~ InGroup("master")
      /\ \A g \in 1..Len(files) : g = f \/ After(files[g], 0) \/ After(files[g], 1)
      /\ stack = <<>> /\ ~ hasWork /\ pc["master"] = "sleep"
  BY <1>2, <1>3, <1>4, LeaderFacts DEF InGroup
<1>6. Quiet /\ After(files[f], 0)
  BY <1>2, <1>3, <1>4, WaitedFacts
<1>7. files[f] \in File /\ files \in Seq(File)
  BY <1>1, FileTyped
<1> DEFINE x == [files[f] EXCEPT !.status = "DIRTY"]
<1>8. /\ files' = [files EXCEPT ![f] = x]
      /\ UNCHANGED <<setup, entry, client, current, queue, taskCount, stack, hasWork, job>>
  BY <1>4 DEF OpenParsed
<1>9. x \in File /\ x.status = "DIRTY" /\ After(x, 0) /\ Before(x, 1)
  <2>1. x \in File /\ x.status = "DIRTY" /\ x.parses = files[f].parses
        /\ x.committed = files[f].committed /\ x.unit = files[f].unit /\ x.age = files[f].age
        /\ x.tokens = files[f].tokens
    BY <1>7 DEF File
  <2> HIDE DEF x
  <2> QED
    BY <1>6, <2>1 DEF Before, After, Whole, Listed
<1> HIDE DEF x
<1>10. Becomes(f, x)
  BY <1>1, <1>8, <1>9, FileFacts
<1>11. Len(files') = Len(files) /\ files' \in Seq(File) /\ files # <<>> /\ files' # <<>>
  <2>1. Len(files') = Len(files) /\ files' \in Seq(File)
    BY <1>10 DEF Becomes
  <2> QED
    BY <1>4, <1>7, <2>1
<1>12. PICK l \in {"enqueue", "begin"} :
         /\ pc' = [pc EXCEPT !["loop"] = l]
         /\ l = "enqueue" <=> setup.async
  BY DEF OpenParsed, Go
<1>13. MovesOnly("loop", l, f, 0)
  BY <1>3, <1>4, <1>8, <1>11, <1>12 DEF MovesOnly, LeaderMoves, OpenParsed
<1>14. /\ ThreadsTyped' /\ pc'["loop"] = l /\ slot'["loop"] = 0
       /\ \A v \in Thread \ {"loop"} : pc'[v] = pc[v]
  <2>1. l \in Labels
    BY <1>12 DEF Labels
  <2> QED
    BY <1>1, <1>3, <1>4, <1>11, <1>13, <2>1, LeaderTyped DEF Typed
<1>15. SharedTyped'
  BY <1>1, <1>8, <1>11 DEF Typed, SharedTyped
<1>16. OpenedOnce'
  BY <1>1, <1>8, <1>11 DEF OpenedOnce
<1>17. OneGroup'
  <2>1. /\ pc'["master"] = "sleep" /\ queue' = <<>> /\ \A w \in Worker : pc'[w] = "sleep"
    BY <1>3, <1>5, <1>6, <1>8, <1>14, Threads DEF Quiet
  <2>2. Nth("loop")' = 1
    BY <1>14 DEF Nth
  <2>3. files'[f].status = "DIRTY" /\ Before(files'[f], 1) /\ After(files'[f], 0)
    BY <1>9, <1>10 DEF Becomes
  <2>4. \A g \in 1..Len(files') : After(files'[g], 0) \/ After(files'[g], 1)
    BY <1>5, <1>10, <1>11, <2>3 DEF Becomes
  <2>5. /\ l \in Labels \ {"dispatch", "wait"} /\ f \in 1..Len(files') /\ job'["loop"] = f
        /\ \A u \in Leader \ {"loop"} : pc'[u] \notin {"begin", "dispatch", "wait"}
    BY <1>4, <1>8, <1>11, <1>12, <2>1 DEF Labels, Leader
  <2> QED
    BY <1>3, <1>14, <2>1, <2>2, <2>3, <2>4, <2>5, GroupTurns
<1>18. MasterHasItsTurn'
  <2>1. /\ pc'["master"] = "sleep" /\ stack' = <<>> /\ ~ hasWork'
        /\ setup' = setup /\ pc'["loop"] = l /\ job'["loop"] = f
    BY <1>3, <1>4, <1>5, <1>8, <1>14, Threads
  <2>2. Queued(f)'
    BY <1>8, <1>9, <1>10 DEF Queued, Becomes
  <2>3. l = "enqueue" => job'["loop"] \in 1..Len(files') /\ Queued(job["loop"])'
    BY <1>4, <1>11, <2>1, <2>2 DEF Queued
  <2>4. InGroup("loop")' => l = "begin"
    BY <1>12, <1>14 DEF InGroup
  <2> QED
    BY <1>11, <1>12, <2>1, <2>3, <2>4 DEF MasterHasItsTurn
<1>19. QueriesCheckedIn'
  BY <1>12, <1>14 DEF QueriesCheckedIn, Querying
<1> QED
  BY <1>14, <1>15, <1>16, <1>17, <1>18, <1>19 DEF ServerInv, Typed

(* The loop or the master leaves its group. *)
LEMMA CompiledStep ==
    ASSUME ServerInv, OpenCompiled \/ MasterCompiled
    PROVE  ServerInv'
<1>1. Typed /\ OpenedOnce /\ OneGroup /\ MasterHasItsTurn /\ QueriesCheckedIn
  BY DEF ServerInv
<1>2. PICK t \in Leader, l \in {"receive", "look"} :
        /\ Waited(t) /\ pc' = [pc EXCEPT ![t] = l]
        /\ t = "loop" => slot["loop"] = 0
        /\ t = "loop" <=> l = "receive"
  <2>1. CASE OpenCompiled
    BY <2>1 DEF OpenCompiled, Go, Leader
  <2>2. CASE MasterCompiled
    BY <2>2 DEF MasterCompiled, Go, Leader
  <2> QED
    BY <2>1, <2>2
<1>3. /\ UNCHANGED <<setup, entry, files, client, current, queue, taskCount, stack, hasWork,
                     job, slot>>
      /\ pc[t] = "wait" /\ InGroup(t) /\ Nth(t) = 1
  BY <1>2 DEF OpenCompiled, MasterCompiled, Waited, Ready, InGroup, Nth
<1>4. /\ ThreadsTyped' /\ pc'[t] = l
      /\ \A v \in Thread \ {t} : pc'[v] = pc[v]
      /\ \A w \in Worker : pc'[w] = pc[w]
  BY <1>2, <1>3, LeaderSteps DEF Labels
<1>5. PICK f \in 1..Len(files) : f = job[t]
  BY <1>3, LeaderFacts
<1>6. /\ \A u \in Leader \ {t} : ~ InGroup(u)
      /\ \A g \in 1..Len(files) : g = f \/ After(files[g], 0) \/ After(files[g], 1)
      /\ t = "master" => setup.async /\ stack = <<>>
      /\ t = "loop" => stack = <<>> /\ ~ hasWork /\ pc["master"] = "sleep" /\ ~ setup.async
  BY <1>2, <1>3, <1>5, LeaderFacts
<1>7. Quiet /\ After(files[f], 1)
  BY <1>2, <1>3, <1>5, WaitedFacts
<1>8. SharedTyped'
  BY <1>1, <1>3 DEF Typed, SharedTyped
<1>9. OpenedOnce'
  BY <1>1, <1>3 DEF OpenedOnce
<1>10. OneGroup'
  <2>1. /\ l \in Labels \ {"dispatch", "wait"} /\ f \in 1..Len(files') /\ l # "begin"
        /\ \A g \in 1..Len(files') : After(files'[g], 0) \/ After(files'[g], 1)
    BY <1>3, <1>6, <1>7 DEF Labels
  <2>2. queue' = <<>> /\ \A w \in Worker : pc'[w] = "sleep"
    BY <1>3, <1>4, <1>7 DEF Quiet
  <2>3. \A u \in Leader \ {t} : pc'[u] \notin {"begin", "dispatch", "wait"}
    BY <1>4, <1>6, Threads DEF InGroup
  <2> QED
    BY <1>4, <2>1, <2>2, <2>3, GroupTurns
<1>11. MasterHasItsTurn'
  <2>1. CASE t = "loop"
    <3>1. pc'["loop"] = "receive" /\ pc'["master"] = "sleep" /\ stack' = <<>> /\ ~ hasWork'
      BY <1>2, <1>3, <1>4, <1>6, <2>1, Threads
    <3> QED
      BY <3>1 DEF MasterHasItsTurn, InGroup
  <2>2. CASE t = "master"
    <3>1. /\ pc'["master"] = "look" /\ pc'["loop"] = pc["loop"] /\ stack' = <<>>
          /\ setup'.async /\ l = "look"
      BY <1>2, <1>3, <1>4, <1>6, <2>2, Threads
    <3>2. /\ pc["loop"] # "enqueue" /\ ~ InGroup("loop") /\ files # <<>>
      BY <1>1, <1>3, <1>6, <2>2, Threads DEF MasterHasItsTurn, InGroup
    <3> QED
      BY <1>3, <3>1, <3>2 DEF MasterHasItsTurn, InGroup
  <2> QED
    BY <2>1, <2>2 DEF Leader
<1>12. QueriesCheckedIn'
  <2>1. pc'["loop"] = pc["loop"] \/ pc'["loop"] = "receive"
    BY <1>2, <1>4, Threads DEF Leader
  <2> QED
    BY <1>1, <1>3, <2>1 DEF QueriesCheckedIn, Querying
<1> QED
  BY <1>4, <1>8, <1>9, <1>10, <1>11, <1>12 DEF ServerInv, Typed

(* The master looks for work, finds none and goes back to sleep. *)
LEMMA MasterLooksStep ==
    ASSUME ServerInv, MasterWakes \/ MasterSawEmpty \/ MasterClears
    PROVE  ServerInv'
<1>1. Typed /\ OpenedOnce /\ OneGroup /\ MasterHasItsTurn /\ QueriesCheckedIn
  BY DEF ServerInv
<1>2. PICK l \in {"look", "clear", "sleep"} :
        /\ pc' = [pc EXCEPT !["master"] = l]
        /\ l = "look" => setup.async /\ hasWork
        /\ l # "look" => pc["master"] # "sleep"
  <2>1. CASE MasterWakes
    BY <2>1 DEF MasterWakes, Go
  <2>2. CASE MasterSawEmpty
    BY <2>2 DEF MasterSawEmpty, Ready, Go
  <2>3. CASE MasterClears
    BY <2>3 DEF MasterClears, Ready, Go
  <2> QED
    BY <2>1, <2>2, <2>3
<1>3. /\ UNCHANGED <<setup, entry, files, client, current, queue, taskCount, stack, job, slot>>
      /\ ~ InGroup("master") /\ hasWork' \in {hasWork, FALSE}
  BY DEF MasterWakes, MasterSawEmpty, MasterClears, Ready, InGroup
<1>4. /\ ThreadsTyped' /\ pc'["master"] = l
      /\ \A v \in Thread \ {"master"} : pc'[v] = pc[v]
      /\ ~ InGroup("master")' /\ (InGroup("loop")' <=> InGroup("loop"))
      /\ \A u \in Leader : Nth(u)' = Nth(u)
      /\ \A w \in Worker : pc'[w] = pc[w]
  BY <1>2, <1>3, LeaderSteps, Threads DEF Labels, Leader
<1>5. pc'["loop"] = pc["loop"]
  BY <1>4, Threads
<1>6. SharedTyped'
  BY <1>1, <1>3 DEF Typed, SharedTyped
<1>7. OpenedOnce'
  BY <1>1, <1>3 DEF OpenedOnce
<1>8. OneGroup'
  <2>1. pc["loop"] = "wait" => Waiting(job["loop"], Nth("loop"))'
    BY <1>1, <1>3, <1>4, Threads DEF OneGroup, Waiting, AtStep, Quiet
  <2>2. pc'["master"] \notin {"begin", "dispatch", "wait"}
    BY <1>4
  <2>3. Quiet' <=> Quiet
    BY <1>3, <1>4 DEF Quiet
  <2> QED
    BY <1>1, <1>3, <1>4, <1>5, <2>1, <2>2, <2>3 DEF OneGroup, Leader
<1>9. MasterHasItsTurn'
  <2>1. hasWork' => hasWork
    BY <1>3
  <2>2. /\ hasWork' => setup'.async
        /\ pc'["loop"] = "wake" => files' # <<>>
        /\ stack' # <<>> => Len(stack') = 1 /\ Queued(stack[1])
        /\ pc'["loop"] = "enqueue" => job'["loop"] \in 1..Len(files') /\ Queued(job["loop"])
    BY <1>1, <1>3, <1>5, <2>1 DEF MasterHasItsTurn
  <2>3. /\ pc'["loop"] \in {"enqueue", "wake"} \/ pc'["master"] # "sleep" \/ hasWork'
             \/ stack' # <<>> => setup'.async
        /\ setup'.async /\ (InGroup("loop")' \/ pc'["loop"] = "enqueue" \/ files' = <<>>) =>
             stack' = <<>> /\ ~ hasWork' /\ pc'["master"] = "sleep"
    BY <1>1, <1>2, <1>3, <1>4, <1>5, <2>1 DEF MasterHasItsTurn
  <2>4. setup'.async /\ InGroup("loop")' => slot'["loop"] = 1
    BY <1>1, <1>3, <1>4 DEF MasterHasItsTurn
  <2> QED
    BY <1>3, <1>4, <2>2, <2>3, <2>4 DEF MasterHasItsTurn, Queued
<1>10. QueriesCheckedIn'
  BY <1>1, <1>3, <1>5 DEF QueriesCheckedIn, Querying
<1> QED
  BY <1>4, <1>6, <1>7, <1>8, <1>9, <1>10 DEF ServerInv, Typed

(* The file the master takes was left dirty by its first parse. *)
LEMMA MasterPopsStep ==
    ASSUME ServerInv, MasterPops
    PROVE  ServerInv'
<1>1. Typed /\ OpenedOnce /\ OneGroup /\ MasterHasItsTurn /\ QueriesCheckedIn
  BY DEF ServerInv
<1>2. /\ pc["master"] = "look" /\ stack # <<>> /\ pc' = [pc EXCEPT !["master"] = "begin"]
      /\ UNCHANGED <<setup, entry, files, client, current, queue, taskCount, hasWork, slot>>
  BY DEF MasterPops, Ready, Go
<1>3. /\ job \in [Thread -> 0..Len(files)] /\ slot \in [Thread -> 0..1]
      /\ "loop" \in Leader /\ "master" \in Leader /\ "master" \in Thread
      /\ "loop" \in Thread /\ "loop" # "master" /\ "master" \notin Worker
      /\ slot["master"] \in 0..1
  BY <1>1, Threads DEF Typed, ThreadsTyped
<1>4. Len(files) \in Nat
  BY <1>1 DEF Typed, SharedTyped
<1>5. PICK f \in 1..Len(files) :
        f = stack[1] /\ stack' = <<>> /\ job' = [job EXCEPT !["master"] = f]
  <2>1. stack \in Seq(1..Len(files))
    BY <1>1 DEF Typed, SharedTyped
  <2>2. Len(stack) = 1
    BY <1>1, <1>2 DEF MasterHasItsTurn
  <2>3. stack # <<>> => stack[1] \in 1..Len(files)
    BY <2>1
  <2>4. SubSeq(stack, 1, 0) = <<>>
    BY <2>1
  <2>5. Len(stack) - 1 = 0
    BY <2>2
  <2> QED
    BY <1>2, <2>2, <2>3, <2>4, <2>5 DEF MasterPops
<1>6. files[f].status = "DIRTY" /\ After(files[f], 0)
  BY <1>1, <1>2, <1>5 DEF MasterHasItsTurn, Queued
<1>7. Before(files[f], 1)
  BY <1>6 DEF After, Before, Whole
<1>8. setup.async /\ ~ InGroup("loop") /\ pc["loop"] # "enqueue" /\ files # <<>>
  BY <1>1, <1>2 DEF MasterHasItsTurn
<1>9. Quiet /\ \A g \in 1..Len(files) : After(files[g], 0) \/ After(files[g], 1)
  <2>1. ~ InGroup("master")
    BY <1>2 DEF InGroup
  <2> QED
    BY <1>1, <1>8, <2>1 DEF OneGroup, Leader
<1>10. MovesOnly("master", "begin", f, slot["master"])
  BY <1>2, <1>3, <1>4, <1>5 DEF MovesOnly, LeaderMoves
<1>11. /\ ThreadsTyped' /\ pc'["master"] = "begin" /\ job'["master"] = f
       /\ \A v \in Thread \ {"master"} : pc'[v] = pc[v] /\ job'[v] = job[v]
  <2>1. f \in 0..Len(files') /\ f \in 1..Len(files')
    BY <1>2, <1>4
  <2>2. "begin" \in Labels /\ ThreadsTyped
    BY <1>1 DEF Labels, Typed
  <2> QED
    BY <1>3, <1>10, <2>1, <2>2, LeaderTyped
<1>12. SharedTyped'
  BY <1>1, <1>2, <1>5 DEF Typed, SharedTyped
<1>13. OpenedOnce'
  BY <1>1, <1>2 DEF OpenedOnce
<1>14. OneGroup'
  <2>1. queue' = <<>> /\ \A w \in Worker : pc'[w] = "sleep"
    BY <1>2, <1>9, <1>11, Threads DEF Quiet
  <2>2. Nth("master")' = 1
    BY DEF Nth
  <2>3. files'[f].status = "DIRTY" /\ Before(files'[f], 1)
    BY <1>2, <1>6, <1>7
  <2>4. \A g \in 1..Len(files') : After(files'[g], 0) \/ After(files'[g], 1)
    BY <1>2, <1>9
  <2>5. "begin" \in Labels \ {"dispatch", "wait"} /\ f \in 1..Len(files')
    BY <1>2 DEF Labels
  <2>6. \A u \in Leader \ {"master"} : pc'[u] \notin {"begin", "dispatch", "wait"}
    BY <1>3, <1>8, <1>11 DEF InGroup, Leader
  <2> QED
    BY <1>3, <1>11, <2>1, <2>2, <2>3, <2>4, <2>5, <2>6, GroupTurns
<1>15. MasterHasItsTurn'
  <2>1. /\ pc'["loop"] = pc["loop"] /\ ~ InGroup("loop")' /\ pc'["loop"] # "enqueue"
        /\ stack' = <<>> /\ setup'.async /\ files' # <<>>
    BY <1>2, <1>3, <1>5, <1>8, <1>11 DEF InGroup
  <2> QED
    BY <2>1 DEF MasterHasItsTurn
<1>16. QueriesCheckedIn'
  <2>1. pc'["loop"] = pc["loop"] /\ job'["loop"] = job["loop"]
    BY <1>3, <1>11
  <2> QED
    BY <1>1, <1>2, <2>1 DEF QueriesCheckedIn, Querying
<1> QED
  BY <1>11, <1>12, <1>13, <1>14, <1>15, <1>16 DEF ServerInv, Typed

LEMMA SeqAppend ==
    ASSUME NEW S, NEW s \in Seq(S), NEW x \in S
    PROVE  /\ Append(s, x) \in Seq(S) /\ Len(Append(s, x)) = Len(s) + 1 /\ Len(s) \in Nat
           /\ Append(s, x)[Len(s) + 1] = x
           /\ \A j \in 1..Len(s) : Append(s, x)[j] = s[j]
OBVIOUS

LEMMA NewFile ==
    /\ makeFileData(1) \in File /\ makeFileData(1).status = "DIRTY"
    /\ Before(makeFileData(1), 0)
<1>1. NoTree \in Tree
  BY DEF NoTree, Tree, MaxVersion, Mixed
<1>2. /\ makeFileData(1).status = "DIRTY" /\ makeFileData(1).parses = 0
      /\ makeFileData(1).committed = 0 /\ makeFileData(1).age[1] = 0
  BY DEF makeFileData
<1>3. makeFileData(1) \in File
  BY <1>1 DEF makeFileData, File, MaxVersion
<1> QED
  BY <1>2, <1>3 DEF Before

(* A document is opened when no group is under way: the loop is between    *)
(* messages, and the master has no other document to compile.              *)
LEMMA DidOpenStep ==
    ASSUME OneDocument, ServerInv, NEW p \in Path, DidOpen(p)
    PROVE  ServerInv'
<1>1. Typed /\ OpenedOnce /\ OneGroup /\ MasterHasItsTurn /\ QueriesCheckedIn
  BY DEF ServerInv
<1>2. /\ pc["loop"] = "receive" /\ p \in setup.paths /\ ~ client[p].open
      /\ client[p].opens < setup.opens
      /\ pc' = [pc EXCEPT !["loop"] = "begin"]
      /\ UNCHANGED <<setup, queue, taskCount, stack, hasWork>>
  BY DEF DidOpen, Ready, Go
<1>3. /\ setup \in Setups /\ files \in Seq(File)
      /\ entry \in [Path -> 0..Len(files)] /\ current \in [Path -> 0..Len(files)]
      /\ client \in [Path -> [opens : Nat, open : BOOLEAN]]
  BY <1>1 DEF Typed, SharedTyped
<1>4. setup.opens = 1 /\ (setup.async => \A q \in setup.paths : q = p)
  BY <1>2, <1>3 DEF OneDocument
<1>5. client[p].opens = 0
  BY <1>2, <1>3, <1>4
<1>6. setup.async => files = <<>>
  BY <1>1, <1>2, <1>5 DEF OpenedOnce
<1>7. stack = <<>> /\ ~ hasWork /\ pc["master"] = "sleep"
  BY <1>1, <1>6 DEF MasterHasItsTurn
<1>8. ~ InGroup("loop") /\ ~ InGroup("master")
  BY <1>2, <1>7 DEF InGroup
<1>9. Quiet /\ \A g \in 1..Len(files) : After(files[g], 0) \/ After(files[g], 1)
  BY <1>1, <1>8 DEF OneGroup, Leader
<1> DEFINE L == Len(files) + 1
<1>10. /\ files' = Append(files, makeFileData(1))
       /\ files' \in Seq(File) /\ Len(files') = L /\ Len(files) \in Nat
       /\ files'[L] = makeFileData(1) /\ \A g \in 1..Len(files) : files'[g] = files[g]
  <2>1. files' = Append(files, makeFileData(1))
    BY DEF DidOpen
  <2> HIDE DEF File
  <2> QED
    BY <1>3, <2>1, NewFile, SeqAppend
<1>11. /\ entry' = [entry EXCEPT ![p] = L] /\ current' = [current EXCEPT ![p] = L]
       /\ client' = [client EXCEPT ![p] = [opens |-> 1, open |-> TRUE]]
       /\ job' = [job EXCEPT !["loop"] = L] /\ slot' = [slot EXCEPT !["loop"] = 1]
  <2>1. entry[p] = NoFile
    BY <1>1, <1>5 DEF OpenedOnce
  <2>2. client[p].opens + 1 = 1
    BY <1>5
  <2> HIDE DEF L
  <2> QED
    BY <1>3, <1>10, <2>1, <2>2 DEF DidOpen
<1>12. /\ L \in 1..Len(files') /\ L \in 0..Len(files') /\ Len(files') \in Nat
       /\ Len(files) <= Len(files')
       /\ \A i : i \in 0..Len(files) => i \in 0..Len(files')
       /\ \A i : i \in 1..Len(files) => i \in 1..Len(files')
       /\ \A i \in 1..Len(files') : i = L \/ i \in 1..Len(files)
  BY <1>10
<1> HIDE DEF L
<1>13. MovesOnly("loop", "begin", L, 1)
  BY <1>2, <1>10, <1>11, <1>12 DEF MovesOnly, LeaderMoves
<1>14. /\ ThreadsTyped' /\ pc'["loop"] = "begin" /\ job'["loop"] = L /\ slot'["loop"] = 1
       /\ \A v \in Thread \ {"loop"} : pc'[v] = pc[v]
  <2>1. "begin" \in Labels /\ ThreadsTyped /\ "loop" \in Leader /\ 1 \in 0..1
    BY <1>1, Threads DEF Labels, Typed
  <2> QED
    BY <1>12, <1>13, <2>1, LeaderTyped
<1>15. SharedTyped'
  <2>1. entry' \in [Path -> 0..Len(files')] /\ current' \in [Path -> 0..Len(files')]
    BY <1>3, <1>11, <1>12
  <2>2. client' \in [Path -> [opens : Nat, open : BOOLEAN]]
    BY <1>3, <1>11
  <2>3. queue' = <<>> /\ stack' = <<>>
    BY <1>2, <1>7, <1>9 DEF Quiet
  <2>4. taskCount' \in Int /\ hasWork' \in BOOLEAN /\ setup' \in Setups
    BY <1>1, <1>2 DEF Typed, SharedTyped
  <2>5. queue' \in Seq(1..Len(files')) /\ stack' \in Seq(1..Len(files'))
    BY <2>3
  <2> QED
    BY <1>10, <2>1, <2>2, <2>4, <2>5 DEF SharedTyped
<1>16. OpenedOnce'
  <2>1. ASSUME NEW q \in Path
        PROVE  /\ client'[q].open => client'[q].opens = 1
               /\ IF client'[q].opens = 0 THEN entry'[q] = NoFile
                    ELSE /\ client'[q].opens = 1 /\ entry'[q] = current'[q]
                         /\ entry'[q] \in 1..Len(files')
    <3>1. CASE q = p
      <4>1. client'[q].open /\ client'[q].opens = 1 /\ entry'[q] = L /\ current'[q] = L
        BY <1>3, <1>11, <3>1
      <4> QED
        BY <1>12, <4>1
    <3>2. CASE q # p
      <4>1. client'[q] = client[q] /\ entry'[q] = entry[q] /\ current'[q] = current[q]
        BY <1>3, <1>11, <3>2
      <4> QED
        BY <1>1, <1>12, <4>1 DEF OpenedOnce
    <3> QED
      BY <3>1, <3>2
  <2>2. setup'.async => /\ Len(files') <= 1
                        /\ files' # <<>> => \A q \in setup'.paths : client'[q].opens = 1
    <3>1. setup.async => Len(files') <= 1
      BY <1>6, <1>10 DEF L
    <3>2. client'[p].opens = 1
      BY <1>3, <1>11
    <3>3. setup.async => \A q \in setup.paths : client'[q].opens = 1
      BY <1>4, <3>2, Zenon
    <3> QED
      BY <1>2, <3>1, <3>3
  <2> QED
    BY <2>1, <2>2 DEF OpenedOnce
<1>17. OneGroup'
  <2>1. queue' = <<>> /\ \A w \in Worker : pc'[w] = "sleep"
    BY <1>2, <1>9, <1>14, Threads DEF Quiet
  <2>2. Nth("loop")' = 0
    BY <1>14 DEF Nth
  <2>3. files'[L].status = "DIRTY" /\ Before(files'[L], 0)
    BY <1>10, NewFile
  <2>4. \A g \in 1..Len(files') : g = L \/ After(files'[g], 0) \/ After(files'[g], 1)
    BY <1>9, <1>10, <1>12
  <2>5. "begin" \in Labels \ {"dispatch", "wait"} /\ "loop" \in Leader
    BY Threads DEF Labels
  <2>6. \A u \in Leader \ {"loop"} : pc'[u] \notin {"begin", "dispatch", "wait"}
    BY <1>7, <1>14, Threads DEF Leader
  <2> QED
    BY <1>12, <1>14, <2>1, <2>2, <2>3, <2>4, <2>5, <2>6, GroupTurns
<1>18. MasterHasItsTurn'
  <2>1. pc'["master"] = "sleep" /\ stack' = <<>> /\ ~ hasWork'
    BY <1>2, <1>7, <1>14, Threads
  <2> QED
    BY <1>14, <2>1 DEF MasterHasItsTurn
<1>19. QueriesCheckedIn'
  BY <1>14 DEF QueriesCheckedIn, Querying
<1> QED
  BY <1>14, <1>15, <1>16, <1>17, <1>18, <1>19 DEF ServerInv, Typed

LEMMA ServerStart ==
    ASSUME Init
    PROVE  ServerInv
<1>1. files = <<>> /\ queue = <<>> /\ stack = <<>> /\ Len(files) = 0
  BY DEF Init
<1>2. pc["loop"] = "receive" /\ \A t \in Thread \ {"loop"} : pc[t] = "sleep"
  BY Threads DEF Init
<1>3. SharedTyped
  <2>1. files \in Seq(File) /\ queue \in Seq(1..Len(files)) /\ stack \in Seq(1..Len(files))
    BY <1>1
  <2>2. entry \in [Path -> 0..Len(files)] /\ current \in [Path -> 0..Len(files)]
    BY <1>1 DEF Init, NoFile
  <2>3. client \in [Path -> [opens : Nat, open : BOOLEAN]]
    BY DEF Init
  <2>4. setup \in Setups /\ taskCount \in Int
    <3>1. setup \in Setups /\ taskCount = 0
      BY DEF Init
    <3> QED
      BY <3>1
  <2>5. hasWork \in BOOLEAN
    BY Zenon DEF Init
  <2> QED
    BY <2>1, <2>2, <2>3, <2>4, <2>5 DEF SharedTyped
<1>4. ThreadsTyped
  <2>1. \A t \in Thread : pc[t] \in {"receive", "sleep"}
    BY <1>2
  <2>2. pc \in [Thread -> Labels]
    BY DEF Init, Labels
  <2>3. job \in [Thread -> 0..Len(files)] /\ slot \in [Thread -> 0..1]
    BY <1>1 DEF Init, NoFile
  <2>4. \A w \in Worker : pc[w] = "sleep"
    BY <1>2, Threads
  <2>5. \A t \in Leader : ~ InGroup(t)
    BY <2>1, Threads DEF InGroup
  <2> QED
    BY <2>2, <2>3, <2>4, <2>5 DEF ThreadsTyped
<1>5. OpenedOnce
  BY <1>1 DEF Init, OpenedOnce
<1>6. OneGroup
  <2>1. ~ InGroup("loop") /\ ~ InGroup("master") /\ \A t \in Leader : ~ InGroup(t)
    BY <1>2, Threads DEF InGroup
  <2>2. Quiet
    BY <1>1, <1>2, Threads DEF Quiet
  <2> QED
    BY <1>1, <2>1, <2>2 DEF OneGroup, InGroup
<1>7. MasterHasItsTurn
  <2>1. pc["loop"] = "receive" /\ pc["master"] = "sleep" /\ ~ hasWork
    BY <1>2, Threads DEF Init
  <2> QED
    BY <1>1, <2>1 DEF MasterHasItsTurn, InGroup
<1>8. QueriesCheckedIn
  BY <1>2 DEF QueriesCheckedIn, Querying
<1> QED
  BY <1>3, <1>4, <1>5, <1>6, <1>7, <1>8 DEF ServerInv, Typed

LEMMA ServerStep ==
    ASSUME OneDocument, ServerInv, [Next]_vars
    PROVE  ServerInv'
<1>1. CASE Receive
  <2>1. PICK p \in Path : \/ DidOpen(p) \/ DidClose(p)
                          \/ \E what \in {"tree", "tokens"} : Query(p, what)
                          \/ \E v \in 1..MaxVersion : DidChange(p, v)
    BY <1>1 DEF Receive
  <2>2. MaxVersion \in 1..MaxVersion
    BY DEF MaxVersion
  <2> QED
    BY <2>1, <2>2, DidOpenStep, ClientStep, QueryStep
<1>2. CASE Open
  BY <1>2, Threads, BeginGroupStep, DispatchStep, OpenParsedStep, WakeStep, CompiledStep
    DEF Open, Compile
<1>3. CASE Read
  BY <1>3, QueryStep
<1>4. CASE Master
  BY <1>4, Threads, BeginGroupStep, DispatchStep, MasterLooksStep, MasterPopsStep, CompiledStep
    DEF Master, Compile
<1>5. ASSUME NEW w \in Worker, Parse(w) PROVE ServerInv'
  BY <1>5, TakeParseStep, ParseBeginsStep, ParseEndsStep, ParseDoneStep DEF Parse
<1>6. CASE UNCHANGED vars
  <2>1. UNCHANGED <<setup, entry, files, client, current, queue, taskCount, stack, hasWork,
                    pc, job, slot>>
    BY <1>6 DEF vars
  <2>2. Typed' /\ OpenedOnce'
    BY <2>1 DEF ServerInv, Typed, SharedTyped, ThreadsTyped, OpenedOnce, InGroup
  <2>3. OneGroup'
    BY <2>1, ZenonT(60) DEF ServerInv, OneGroup, InGroup, Quiet, Nth, Waiting, AtStep
  <2>4. MasterHasItsTurn'
    BY <2>1, Zenon DEF ServerInv, MasterHasItsTurn, InGroup, Queued
  <2>5. QueriesCheckedIn'
    BY <2>1, Zenon DEF ServerInv, QueriesCheckedIn, Querying
  <2> QED
    BY <2>2, <2>3, <2>4, <2>5 DEF ServerInv
<1> QED
  BY <1>1, <1>2, <1>3, <1>4, <1>5, <1>6 DEF Next

(* The invariant the theorems below rest on: it says of every thread how    *)
(* far the one parse has come, and of every file which parse it has behind  *)
(* it (dispatchParse, runParse, runMaster and DidOpen).                     *)
THEOREM ServerInvHolds == OneDocument => (Spec => []ServerInv)
<1>1. SUFFICES ASSUME OneDocument PROVE Spec => []ServerInv
  OBVIOUS
<1>2. Init => ServerInv
  BY ServerStart
<1>3. ServerInv /\ [Next]_vars => ServerInv'
  BY <1>1, ServerStep
<1> QED
  BY <1>2, <1>3, PTL DEF Spec

(* No group is begun while tasks of another are counted: whoever leaves its  *)
(* group leaves the count at zero.                                         *)
GroupsApart ==
    /\ apart /\ asks \in {"tree", "tokens"}
    /\ (\A t \in Leader : pc[t] # "wait") => taskCount = 0

LEMMA GroupsApartStep ==
    ASSUME ServerInv, GroupsApart, [Next]_vars
    PROVE  GroupsApart'
<1>1. Typed /\ OneGroup
  BY DEF ServerInv
<1>2. pc \in [Thread -> Labels] /\ taskCount \in Int
  BY <1>1 DEF Typed, SharedTyped, ThreadsTyped
<1>3. ASSUME NEW t \in Leader, Waited(t) PROVE taskCount = 0
  BY <1>1, <1>3 DEF Waited, Ready, OneGroup, Waiting
<1>4. ASSUME NEW t \in Leader, BeginGroup(t) PROVE GroupsApart'
  <2>1. \A u \in Leader : pc[u] # "wait"
    <3>1. pc[t] = "begin" /\ Quiet
      BY <1>1, <1>4 DEF BeginGroup, Ready, OneGroup
    <3> QED
      BY <1>1, <1>4, <3>1, Threads DEF OneGroup, InGroup, Leader
  <2> QED
    BY <1>4, <2>1 DEF GroupsApart, BeginGroup
<1>5. ASSUME NEW t \in Leader, DispatchParse(t) PROVE GroupsApart'
  <2>1. t \in Thread /\ pc' = [pc EXCEPT ![t] = "wait"]
    BY <1>5, Threads DEF DispatchParse, Go
  <2>2. pc'[t] = "wait"
    BY <1>2, <2>1
  <2> QED
    BY <1>5, <2>2 DEF GroupsApart, DispatchParse
<1>6. ASSUME UNCHANGED <<apart, taskCount>>, asks' \in {"tree", "tokens"},
             \A u \in Leader : pc[u] = "wait" => taskCount = 0 \/ pc'[u] = "wait"
      PROVE  GroupsApart'
  BY <1>6 DEF GroupsApart
<1>7. ASSUME NEW t \in Thread, NEW l, pc' = [pc EXCEPT ![t] = l],
             UNCHANGED <<apart, taskCount>>, asks' \in {"tree", "tokens"},
             t \in Worker \/ pc[t] # "wait" \/ taskCount = 0
      PROVE  GroupsApart'
  <2>1. \A u \in Leader : u = t \/ pc'[u] = pc[u]
    BY <1>2, <1>7, Threads
  <2> QED
    BY <1>6, <1>7, <2>1, Threads
<1>8. asks \in {"tree", "tokens"} /\ "loop" \in Leader /\ "master" \in Leader
      /\ Leader \subseteq Thread /\ Worker \subseteq Thread
  BY Threads DEF GroupsApart
<1>9. CASE Receive
  <2>1. ASSUME NEW p \in Path, DidOpen(p) PROVE GroupsApart'
    BY <1>7, <1>8, <2>1 DEF DidOpen, Ready, Go
  <2>2. ASSUME NEW p \in Path, DidClose(p) PROVE GroupsApart'
    BY <1>6, <1>8, <2>2 DEF DidClose
  <2>3. ASSUME NEW p \in Path, NEW what \in {"tree", "tokens"}, Query(p, what)
        PROVE  GroupsApart'
    <3>1. \E l : pc' = [pc EXCEPT !["loop"] = l]
      BY <2>3 DEF Query, Go
    <3>2. asks' \in {"tree", "tokens"}
      BY <1>8, <2>3 DEF Query
    <3> QED
      BY <1>7, <1>8, <2>3, <3>1, <3>2 DEF Query, Ready
  <2>4. ASSUME NEW p \in Path, NEW v \in 1..MaxVersion, DidChange(p, v) PROVE GroupsApart'
    <3>1. pc' = pc \/ \E l : pc' = [pc EXCEPT !["loop"] = l]
      BY <2>4 DEF DidChange, Go
    <3> QED
      BY <1>6, <1>7, <1>8, <2>4, <3>1 DEF DidChange, Ready
  <2> QED
    BY <1>9, <2>1, <2>2, <2>3, <2>4 DEF Receive
<1>10. CASE OpenParsed \/ OpenCompiled \/ MasterCompiled
  <2>1. taskCount = 0
    BY <1>3, <1>8, <1>10 DEF OpenParsed, OpenCompiled, MasterCompiled
  <2>2. PICK t \in Leader : \E l : pc' = [pc EXCEPT ![t] = l]
    BY <1>8, <1>10 DEF OpenParsed, OpenCompiled, MasterCompiled, Go
  <2> QED
    BY <1>7, <1>8, <1>10, <2>1, <2>2 DEF OpenParsed, OpenCompiled, MasterCompiled
<1>11. CASE enqueueCompilation \/ WakeMaster
  BY <1>7, <1>8, <1>11 DEF enqueueCompilation, WakeMaster, Ready, Go
<1>12. CASE Read
  BY <1>7, <1>8, <1>12 DEF Read, CheckIn, Recheck, Unlucky, CheckOut, Ready, Go
<1>13. CASE MasterWakes \/ MasterPops \/ MasterSawEmpty \/ MasterClears
  BY <1>7, <1>8, <1>13 DEF MasterWakes, MasterPops, MasterSawEmpty, MasterClears, Ready, Go
<1>14. ASSUME NEW w \in Worker, Parse(w), ~ TaskDone(w) PROVE GroupsApart'
  <2>1. \E l : pc' = [pc EXCEPT ![w] = l]
    BY <1>14 DEF Parse, TakeParse, ParseBegins, ParseEnds, updateSemanticTokens,
                 ClearTokens, CollectTokens, SortTokens, Commit, StatusReady, Go
  <2>2. UNCHANGED <<taskCount, asks, apart>>
    BY <1>14 DEF Parse, TakeParse, ParseBegins, ParseEnds, updateSemanticTokens,
                 ClearTokens, CollectTokens, SortTokens, SetTokens, Commit, StatusReady
  <2> QED
    BY <1>7, <1>8, <2>1, <2>2
<1>15. ASSUME NEW w \in Worker, TaskDone(w) PROVE GroupsApart'
  <2>1. PICK t \in Leader : pc[t] = "wait"
    BY <1>1, <1>15, WorkerFacts DEF TaskDone, Ready
  <2>2. pc'[t] = "wait"
    BY <1>2, <1>15, <2>1, Threads DEF TaskDone, Go
  <2> QED
    BY <1>8, <1>15, <2>2 DEF GroupsApart, TaskDone
<1>16. CASE UNCHANGED vars
  BY <1>6, <1>8, <1>16 DEF vars
<1> QED
  BY <1>4, <1>5, <1>8, <1>9, <1>10, <1>11, <1>12, <1>13, <1>14, <1>15, <1>16
    DEF Next, Open, Master, Compile

(* Where a client opens a document once, and a single document when there  *)
(* is a master thread, the loop and the master never reset the group       *)
(* counter under each other (DidOpen and compileFileSync of lsp.cpp).      *)
THEOREM GroupsStayApart == OneDocument => (Spec => []GroupsApart)
<1>1. SUFFICES ASSUME OneDocument PROVE Spec => []GroupsApart
  OBVIOUS
<1>2. Spec => []ServerInv
  BY <1>1, ServerInvHolds
<1>3. Init => GroupsApart
  BY DEF Init, GroupsApart
<1>4. ServerInv /\ GroupsApart /\ [Next]_vars => GroupsApart'
  BY GroupsApartStep
<1> QED
  BY <1>2, <1>3, <1>4, PTL DEF Spec

LEMMA ServerTypes ==
    ASSUME ServerInv, GroupsApart
    PROVE  TypeOK
<1>1. SharedTyped /\ ThreadsTyped
  BY DEF ServerInv, Typed
<1>2. files \in Seq(File) /\ DOMAIN files = 1..Len(files)
  BY <1>1 DEF SharedTyped
<1>3. \A f \in DOMAIN files :
          /\ files[f].status \in {"DIRTY", "BUSY", "READY"}
          /\ files[f].text \in 1..MaxVersion /\ files[f].committed \in 0..1
          /\ files[f].tokens \in {"none", "some", "all"} /\ files[f].edited \in BOOLEAN
          /\ files[f].readers \in [0..1 -> Nat]
          /\ files[f].unit \in [0..1 -> Tree]
  <2>1. \A f \in DOMAIN files : files[f] \in File
    <3> HIDE DEF File
    <3> QED
      BY <1>2
  <2> QED
    BY <2>1 DEF File
<1>4. /\ queue \in Seq(DOMAIN files) /\ stack \in Seq(DOMAIN files)
      /\ entry \in [Path -> 0..Len(files)] /\ current \in [Path -> 0..Len(files)]
      /\ setup \in Setups /\ taskCount \in Int /\ hasWork \in BOOLEAN
  BY <1>1, <1>2, Zenon DEF SharedTyped
<1>5. job \in [Thread -> 0..Len(files)] /\ slot \in [Thread -> 0..1]
  BY <1>1 DEF ThreadsTyped
<1> QED
  BY <1>3, <1>4, <1>5 DEF TypeOK, GroupsApart

(* A query and a parse of the same file at the same time: the parse is the *)
(* second one, works on arena 0, and the query holds arena 1.              *)
LEMMA BuffersApart ==
    ASSUME ServerInv
    PROVE  BufferHeld
<1> SUFFICES ASSUME NEW w \in Worker, pc["loop"] = "read", Parsing(w, job["loop"]),
                    slot[w] = slot["loop"]
             PROVE  FALSE
  BY DEF BufferHeld, Ready
<1>1. Typed /\ OneGroup /\ QueriesCheckedIn
  BY DEF ServerInv
<1>2. pc[w] \in {"parse", "tokens", "collect", "sort", "commit"} /\ job[w] = job["loop"]
  BY DEF Parsing
<1>3. PICK t \in Leader : /\ pc[t] = "wait" /\ AtStep(w, files[job[w]], Nth(t))
  <2>1. pc[w] # "sleep"
    BY <1>2
  <2> QED
    BY <1>1, <2>1, WorkerFacts
<1>4. Nth(t) = 1
  BY <1>3 DEF Nth
<1>5. slot[w] = 0 /\ files[job[w]].committed = 1
  BY <1>2, <1>3, <1>4 DEF AtStep, StepOf, Begun, Parsed
<1>6. After(files[job["loop"]], 1)
  BY <1>1, <1>5 DEF QueriesCheckedIn, Querying
<1> QED
  BY <1>2, <1>5, <1>6 DEF After

LEMMA ReadsAreWhole ==
    ASSUME ServerInv
    PROVE  TreeWhole
<1> SUFFICES ASSUME pc["loop"] = "read"
             PROVE  /\ files[job["loop"]].unit[0].text \in 1..MaxVersion
                    /\ files[job["loop"]].unit[0].age =
                         files[job["loop"]].age[files[job["loop"]].unit[0].arena]
  BY DEF TreeWhole, Ready
<1>1. job["loop"] \in 1..Len(files) /\ ~ InGroup("loop")
  BY DEF ServerInv, QueriesCheckedIn, Querying, InGroup
<1>2. Whole(files[job["loop"]])
  BY <1>1, Settled DEF ServerInv
<1> QED
  BY <1>2 DEF Whole

(* The list of tokens is whole but for the parse that makes it anew.        *)
LEMMA ListsAreWhole ==
    ASSUME ServerInv
    PROVE  TokensWhole
<1> SUFFICES ASSUME pc["loop"] = "read", \A w \in Worker : ~ Retokens(w, job["loop"])
             PROVE  Listed(files[job["loop"]])
  BY DEF TokensWhole, Ready, Listed
<1>1. PICK f \in 1..Len(files) : f = job["loop"]
  BY DEF ServerInv, QueriesCheckedIn, Querying
<1>2. Typed /\ OneGroup /\ ~ InGroup("loop")
  BY DEF ServerInv, InGroup
<1>3. CASE InGroup("master") /\ job["master"] = f
  <2>1. /\ pc["master"] \in {"begin", "dispatch"} => Before(files[f], 1)
        /\ pc["master"] = "wait" => Waiting(f, 1)
    BY <1>2, <1>3, Threads DEF OneGroup, Nth
  <2>2. CASE pc["master"] \in {"begin", "dispatch"}
    BY <1>1, <2>1, <2>2 DEF Before
  <2>3. CASE pc["master"] = "wait"
    <3>1. \/ Before(files[f], 1) \/ After(files[f], 1)
          \/ \E w \in Worker : job[w] = f /\ AtStep(w, files[f], 1)
      BY <2>1, <2>3 DEF Waiting
    <3>2. \A w \in Worker : job[w] = f => pc[w] \notin {"collect", "sort"}
      BY <1>1 DEF Retokens
    <3> QED
      BY <1>1, <3>1, <3>2 DEF AtStep, StepOf, Before, Begun, After
  <2> QED
    BY <1>3, <2>2, <2>3 DEF InGroup
<1>4. CASE ~ (InGroup("master") /\ job["master"] = f)
  BY <1>1, <1>2, <1>4 DEF OneGroup, Leader, After
<1> QED
  BY <1>3, <1>4

LEMMA ParsesAreSingle ==
    ASSUME ServerInv
    PROVE  OneParse
<1> SUFFICES ASSUME NEW v \in Worker, NEW w \in Worker, v # w,
                    pc[v] # "sleep", pc[w] # "sleep"
             PROVE  FALSE
  BY DEF OneParse
<1>1. Typed /\ OneGroup
  BY DEF ServerInv
<1> QED
  BY <1>1, WorkerFacts

(* Under the same hypothesis, for any number of workers: the groups stay    *)
(* apart, no parse works on the arena a query holds, the tree a query reads *)
(* is whole and of one version of the text, a list of tokens is whole but   *)
(* under the parse that makes it anew, and no file is parsed by two workers *)
(* (handleQuery of lsp.cpp against runParse of task_system.cpp).            *)
THEOREM QueriesAlwaysSafe == OneDocument => (Spec => [](apart /\ QueriesAreSafe))
<1>1. SUFFICES ASSUME OneDocument PROVE Spec => [](apart /\ QueriesAreSafe)
  OBVIOUS
<1>2. Spec => []ServerInv /\ []GroupsApart
  BY <1>1, ServerInvHolds, GroupsStayApart
<1>3. ServerInv /\ GroupsApart => apart /\ QueriesAreSafe
  BY ServerTypes, BuffersApart, ReadsAreWhole, ListsAreWhole, ParsesAreSingle
    DEF QueriesAreSafe, GroupsApart
<1> QED
  BY <1>2, <1>3, PTL

(* Under the same hypothesis: a document the client has opened, and the     *)
(* loop is done with, is found under its path and has a whole tree, for     *)
(* the parse DidOpen waits for is over (lsp.cpp, DidOpen).                  *)
THEOREM AlwaysSomethingToQuery ==
    OneDocument => (Spec => [](apart /\ SomethingToQuery))
<1>1. SUFFICES ASSUME OneDocument PROVE Spec => [](apart /\ SomethingToQuery)
  OBVIOUS
<1>2. Spec => []ServerInv /\ []GroupsApart
  BY <1>1, ServerInvHolds, GroupsStayApart
<1>3. ServerInv => SomethingToQuery
  <2> SUFFICES ASSUME ServerInv, NEW p \in Path, client[p].open, pc["loop"] = "receive"
               PROVE  /\ entry[p] = current[p]
                      /\ files[current[p]].parses > 0
                      /\ files[current[p]].unit[0].text > 0
    BY DEF SomethingToQuery, Ready
  <2>1. entry[p] = current[p] /\ entry[p] \in 1..Len(files)
    BY DEF ServerInv, OpenedOnce
  <2>2. ~ InGroup("loop")
    BY DEF InGroup
  <2>3. Whole(files[entry[p]]) /\ files[entry[p]].parses > 0
    BY <2>1, <2>2, Settled DEF ServerInv
  <2> QED
    BY <2>1, <2>3 DEF Whole, MaxVersion
<1>4. GroupsApart => apart
  BY DEF GroupsApart
<1> QED
  BY <1>2, <1>3, <1>4, PTL
=============================================================================
