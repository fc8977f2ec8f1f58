---------------------------- MODULE NodeLockProofs ----------------------------
(***************************************************************************)
(* acquireNode is a lock: on every path through nested validations, their   *)
(* errors included, a definition is worked on by one thread at a time and   *)
(* is locked exactly while somebody works on it (LockInv, any threads).     *)
(*                                                                          *)
(* Of a single thread more is proved, in three steps, each of which rests   *)
(* on those before: who is told OK gets what it asked for (AnswerInv), what *)
(* a validated definition rests on is usable or an error was met there      *)
(* (RestInv), and the OK of a unit means what it says (CleanInv).           *)
(***************************************************************************)
EXTENDS NodeLock, TLAPS, SequenceTheorems, FiniteSetTheorems, WellFoundedInduction

ReleaseWorks == \A w \in Worker : At(w, "release") => stack[w] # <<>>

Typed ==
    /\ body \in [Node -> Seq(Node)]
    /\ lock \in [Node -> {"PENDING", "RUNNING"}]
    /\ pc \in [Worker -> {"next", "check", "claim", "own", "owner", "wait",
                          "release", "return", "done", "failed"}]
    /\ call \in [Worker -> Request \cup {NoCall}]
    /\ \A w \in Worker :
         /\ pc[w] \in {"check", "claim", "own", "owner", "wait"} => call[w] \in Request
         /\ pc[w] \in {"claim", "own", "owner", "wait"} => call[w].job # "walk"
    /\ stack \in [Worker -> Seq(Frame)]
    /\ root \in [Worker -> Nat \ {0}]

LockInv == Typed /\ ReleaseWorks /\ OneWorker /\ LockedIsHeld

(* The last frame of a non-empty stack is a frame. *)
LEMMA TopIsFrame ==
    ASSUME Typed, NEW w \in Worker, stack[w] # <<>>
    PROVE  /\ Len(stack[w]) \in 1 .. Len(stack[w])
           /\ Top(w) = stack[w][Len(stack[w])]
           /\ Top(w) \in Frame
BY DEF Typed, Top, Last

(* What a definition's work asks for are requests. *)
LEMMA UsesAreRequests ==
    ASSUME Typed, NEW f \in Frame
    PROVE  Uses(f) \in Seq(Request)
<1> DEFINE Needs(s) == [i \in DOMAIN s |-> Validate(s[i])]
<1>1. ASSUME NEW s \in Seq(Node) PROVE Needs(s) \in Seq(Request)
  <2>1. Len(s) \in Nat /\ DOMAIN s = 1 .. Len(s)
    OBVIOUS
  <2>2. ASSUME NEW i \in 1 .. Len(s) PROVE Validate(s[i]) \in Request
    BY <2>2 DEF Validate, Request, Jobs
  <2> HIDE DEF Validate
  <2> QED
    BY <2>1, <2>2, IsASeq
<1>2. f.node \in Node /\ f.job \in Jobs
  BY DEF Frame
<1>3. Signature[f.node] \in Seq(Node) /\ body[f.node] \in Seq(Node) /\ Evals[f.node] \in Seq(Request)
  BY <1>2, NodeAssumption DEF Typed
<1>4. <<>> \in Seq(Request) /\ <<Eval(f.node)>> \in Seq(Request)
  BY <1>2 DEF Eval, Request, Jobs
<1> HIDE DEF Needs
<1>5. \/ Uses(f) = Needs(Signature[f.node]) \/ Uses(f) = Needs(body[f.node])
      \/ Uses(f) = <<Eval(f.node)>> \/ Uses(f) = Evals[f.node] \/ Uses(f) = <<>>
  BY DEF Uses, Needs
<1> QED
  BY <1>1, <1>3, <1>4, <1>5

(* The frame a stack is changed in keeps its node, its type and its place. *)
LEMMA EditTop ==
    ASSUME NEW s \in Seq(Frame), s # <<>>, NEW f \in Frame,
           f.node = s[Len(s)].node, f.job = s[Len(s)].job
    PROVE  LET t == [s EXCEPT ![Len(s)] = f] IN
           /\ t \in Seq(Frame) /\ t # <<>>
           /\ DOMAIN t = DOMAIN s
           /\ \A i \in DOMAIN s : t[i].node = s[i].node /\ t[i].job = s[i].job
OBVIOUS

LEMMA PopTop ==
    ASSUME NEW s \in Seq(Frame), s # <<>>
    PROVE  /\ Front(s) \in Seq(Frame)
           /\ DOMAIN Front(s) = 1 .. Len(s) - 1
           /\ DOMAIN s = 1 .. Len(s)
           /\ \A i \in 1 .. Len(s) - 1 : Front(s)[i] = s[i]
BY DEF Front


(* What a step keeps when it leaves the locks and the nodes on the stacks   *)
(* alone and nobody claims: thirteen of the actions are of this kind.       *)
LEMMA QuietKeeps ==
    ASSUME OneWorker, LockedIsHeld, lock' = lock,
           \A v \in Worker : /\ DOMAIN stack'[v] = DOMAIN stack[v]
                             /\ \A i \in DOMAIN stack[v] :
                                  /\ stack'[v][i].node = stack[v][i].node
                                  /\ stack'[v][i].job = stack[v][i].job
                             /\ pc'[v] = "own" <=> pc[v] = "own"
                             /\ pc[v] = "own" => call'[v] = call[v]
    PROVE  OneWorker' /\ LockedIsHeld'
<1>1. \A v \in Worker : \A n :
        (OnStack(v, n)' <=> OnStack(v, n)) /\ (Holds(v, n)' <=> Holds(v, n))
  <2> TAKE v \in Worker
  <2> TAKE n
  <2>1. OnStack(v, n)' <=> OnStack(v, n)
    BY DEF OnStack, Claimed
  <2> QED
    BY <2>1 DEF Holds, At
<1>2. \A v \in Worker : \A n \in Node : \A i, j \in DOMAIN stack'[v] :
         Claimed(stack'[v][i], n) /\ Claimed(stack'[v][j], n) => i = j
  <2> SUFFICES ASSUME NEW v \in Worker, NEW n \in Node,
                      NEW i \in DOMAIN stack'[v], NEW j \in DOMAIN stack'[v],
                      Claimed(stack'[v][i], n), Claimed(stack'[v][j], n)
               PROVE  i = j
    OBVIOUS
  <2>1. Claimed(stack[v][i], n) /\ Claimed(stack[v][j], n)
    BY DEF Claimed
  <2> QED
    BY <2>1 DEF OneWorker
<1>3. (\A v \in Worker : At(v, "own") => ~ OnStack(v, call[v].node))'
  <2> SUFFICES ASSUME NEW v \in Worker, pc'[v] = "own"
               PROVE  ~ OnStack(v, call[v].node)'
    BY DEF At
  <2>1. pc[v] = "own" /\ call'[v] = call[v]
    OBVIOUS
  <2>2. ~ OnStack(v, call[v].node)
    BY <2>1 DEF OneWorker, At
  <2> QED
    BY <2>1, <2>2 DEF OnStack, Claimed
<1>4. (\A n \in Node : \A w, v \in Worker : Holds(w, n) /\ Holds(v, n) => w = v)'
  BY <1>1 DEF OneWorker
<1>5. LockedIsHeld'
  BY <1>1 DEF LockedIsHeld
<1> QED
  BY <1>2, <1>3, <1>4, <1>5 DEF OneWorker

(* The quiet actions, and what makes them so. *)
Quiet(w) ==
    \/ CallRoot(w) \/ UnitDone(w) \/ CallUse(w) \/ OwnError(w) \/ Finish(w)
    \/ AlreadyReady(w) \/ NotReady(w) \/ ClaimFails(w) \/ Circular(w)
    \/ SomebodyElses(w) \/ WaitEnds(w) \/ ReturnError(w) \/ ReturnToUnit(w)

(* A quiet action keeps the typing and moves one program counter. *)
LEMMA QuietTypes ==
    ASSUME Typed, ReleaseWorks, NEW w \in Worker, Quiet(w)
    PROVE  /\ Typed' /\ ReleaseWorks'
           /\ stack' = stack /\ lock' = lock
           /\ \A v \in Worker : pc'[v] = "own" <=> pc[v] = "own"
           /\ \A v \in Worker : pc[v] = "own" => call'[v] = call[v]
<1>1. CASE CallRoot(w)
  <2>1. Roots[w][root[w]] \in Request
    <3>1. Roots[w] \in Seq(Request) /\ root[w] \in Nat \ {0} /\ root[w] <= Len(Roots[w])
      BY <1>1, NodeAssumption DEF CallRoot, Typed
    <3> QED
      BY <3>1
  <2> QED
    BY <1>1, <2>1 DEF CallRoot, Typed, ReleaseWorks, At, Goto, nodeVars, program
<1>2. CASE UnitDone(w)
  BY <1>2 DEF UnitDone, Typed, ReleaseWorks, At, Goto, nodeVars, program
<1>3. CASE CallUse(w)
  <2>1. Top(w) \in Frame
    BY <1>3, TopIsFrame DEF CallUse, Working
  <2>2. Uses(Top(w)) \in Seq(Request) /\ Top(w).next \in Nat \ {0}
    BY <2>1, UsesAreRequests DEF Frame
  <2>3. Uses(Top(w))[Top(w).next] \in Request
    BY <1>3, <2>2 DEF CallUse, Pending
  <2> QED
    BY <1>3, <2>3 DEF CallUse, Typed, ReleaseWorks, At, Goto, nodeVars, program
<1>4. CASE Finish(w)
  BY <1>4 DEF Finish, Working, Typed, ReleaseWorks, At, Goto, program
<1>5. CASE AlreadyReady(w)
  BY <1>5 DEF AlreadyReady, Typed, ReleaseWorks, At, Goto, nodeVars, program
<1>6. CASE NotReady(w)
  BY <1>6 DEF NotReady, Typed, ReleaseWorks, At, Goto, nodeVars, program
<1>7. CASE ClaimFails(w)
  BY <1>7 DEF ClaimFails, Typed, ReleaseWorks, At, Goto, nodeVars, program
<1>8. CASE Circular(w)
  BY <1>8 DEF Circular, Typed, ReleaseWorks, At, Goto, nodeVars, program
<1>9. CASE SomebodyElses(w)
  BY <1>9 DEF SomebodyElses, Typed, ReleaseWorks, At, Goto, nodeVars, program
<1>10. CASE WaitEnds(w)
  BY <1>10 DEF WaitEnds, Typed, ReleaseWorks, At, Goto, nodeVars, program
<1>11. CASE ReturnError(w)
  BY <1>11 DEF ReturnError, Working, Typed, ReleaseWorks, At, Goto, nodeVars, program
<1>13. CASE OwnError(w)
  BY <1>13 DEF OwnError, Working, Typed, ReleaseWorks, At, Goto, nodeVars, program
<1>12. CASE ReturnToUnit(w)
  <2>1. root' \in [Worker -> Nat \ {0}]
    <3>1. root' = root \/ root' = [root EXCEPT ![w] = @ + 1]
      BY <1>12 DEF ReturnToUnit
    <3>2. root \in [Worker -> Nat \ {0}]
      BY DEF Typed
    <3> QED
      BY <3>1, <3>2
  <2>2. pc[w] = "return" /\ \E l \in {"next", "failed"} : pc' = [pc EXCEPT ![w] = l]
    BY <1>12 DEF ReturnToUnit, At, Goto
  <2>3. UNCHANGED <<nodeVars, call, ret, stack, program, history>>
    BY <1>12 DEF ReturnToUnit
  <2> QED
    BY <2>1, <2>2, <2>3 DEF Typed, ReleaseWorks, At, nodeVars, program
<1> QED
  BY <1>1, <1>2, <1>3, <1>4, <1>5, <1>6, <1>7, <1>8, <1>9, <1>10, <1>11, <1>12, <1>13
     DEF Quiet

LEMMA QuietStep ==
    ASSUME LockInv, NEW w \in Worker, Quiet(w)
    PROVE  LockInv'
<1>1. /\ Typed' /\ ReleaseWorks' /\ stack' = stack /\ lock' = lock
      /\ \A v \in Worker : pc'[v] = "own" <=> pc[v] = "own"
      /\ \A v \in Worker : pc[v] = "own" => call'[v] = call[v]
  BY QuietTypes DEF LockInv
<1>2. OneWorker' /\ LockedIsHeld'
  BY <1>1, QuietKeeps DEF LockInv
<1> QED
  BY <1>1, <1>2 DEF LockInv


(* The two ways in which a frame is changed. *)
Begins(f) == [f EXCEPT !.part = "body", !.next = 1]
Comes(f, k) == [f EXCEPT !.next = k]

LEMMA EditFrame ==
    ASSUME NEW f \in Frame, NEW k \in Nat \ {0}
    PROVE  /\ Begins(f) \in Frame /\ Begins(f).node = f.node /\ Begins(f).job = f.job
           /\ Begins(f).part = "body" /\ Begins(f).next = 1
           /\ Comes(f, k) \in Frame /\ Comes(f, k).node = f.node /\ Comes(f, k).job = f.job
           /\ Comes(f, k).part = f.part /\ Comes(f, k).next = k
<1>1. ASSUME NEW h \in Frame, NEW j \in Nat \ {0}
      PROVE  /\ [h EXCEPT !.next = j] \in Frame /\ [h EXCEPT !.next = j].node = h.node
             /\ [h EXCEPT !.next = j].job = h.job /\ [h EXCEPT !.next = j].part = h.part
             /\ [h EXCEPT !.next = j].next = j
  BY DEF Frame
<1>2. /\ [f EXCEPT !.part = "body"] \in Frame /\ [f EXCEPT !.part = "body"].node = f.node
      /\ [f EXCEPT !.part = "body"].job = f.job /\ [f EXCEPT !.part = "body"].part = "body"
  BY DEF Frame
<1>3. Begins(f) = [[f EXCEPT !.part = "body"] EXCEPT !.next = 1]
  BY DEF Begins
<1>4. 1 \in Nat \ {0}
  OBVIOUS
<1>5. /\ Begins(f) \in Frame /\ Begins(f).node = f.node /\ Begins(f).job = f.job
      /\ Begins(f).part = "body" /\ Begins(f).next = 1
  <2> DEFINE h == [f EXCEPT !.part = "body"]
  <2>1. h \in Frame /\ h.node = f.node /\ h.job = f.job /\ h.part = "body"
    BY <1>2
  <2>2. Begins(f) = [h EXCEPT !.next = 1]
    BY <1>3
  <2> HIDE DEF h
  <2>3. /\ [h EXCEPT !.next = 1] \in Frame /\ [h EXCEPT !.next = 1].node = h.node
        /\ [h EXCEPT !.next = 1].job = h.job /\ [h EXCEPT !.next = 1].part = h.part
        /\ [h EXCEPT !.next = 1].next = 1
    BY <1>1, <1>4, <2>1
  <2> QED
    BY <2>1, <2>2, <2>3
<1> QED
  BY <1>1, <1>5 DEF Comes

(* The actions that change the frame at the top, which keeps its definition *)
(* and its work.                                                            *)
Edit(w) == SignatureReady(w) \/ Return(w) \/ StatementFails(w)

Moves(w, f) ==
    /\ f.node = Top(w).node /\ f.job = Top(w).job
    /\ stack' = [stack EXCEPT ![w] = [stack[w] EXCEPT ![Len(stack[w])] = f]]
    /\ SignatureReady(w) => f.part = "body" /\ f.next = 1
    /\ Return(w) => f.part = Top(w).part /\ f.next = Top(w).next + 1
    /\ StatementFails(w) =>
         f.part = Top(w).part /\ f.next \in Top(w).next + 1 .. Len(Uses(Top(w))) + 1

LEMMA EditedTop ==
    ASSUME Typed, NEW w \in Worker, Edit(w)
    PROVE  /\ stack[w] # <<>> /\ lock' = lock /\ call' = call /\ root' = root
           /\ body' = body /\ pc[w] \in {"next", "return"}
           /\ pc' = [pc EXCEPT ![w] = "next"]
           /\ Top(w) = stack[w][Len(stack[w])] /\ Top(w) \in Frame
           /\ \E f \in Frame : Moves(w, f)
<1>1. stack[w] # <<>> /\ pc[w] \in {"next", "return"} /\ pc' = [pc EXCEPT ![w] = "next"]
  BY DEF Typed, Edit, SignatureReady, Return, StatementFails, Working, At, Goto
<1>2. lock' = lock /\ call' = call /\ root' = root /\ body' = body
  BY DEF Edit, SignatureReady, Return, StatementFails, program, nodeVars
<1> DEFINE g == Top(w)
<1>3. g = stack[w][Len(stack[w])] /\ g \in Frame
  BY <1>1, TopIsFrame
<1>4. g.next + 1 \in Nat \ {0} /\ 1 \in Nat \ {0} /\ g.next \in Nat \ {0}
  BY <1>3 DEF Frame
<1>5. /\ SignatureReady(w) => ~ Return(w) /\ ~ StatementFails(w)
      /\ Return(w) => ~ StatementFails(w)
  BY DEF SignatureReady, Return, StatementFails, At, Broken, InStatements
<1>6. CASE SignatureReady(w)
  <2>1. stack' = [stack EXCEPT ![w] = [stack[w] EXCEPT ![Len(stack[w])] = Begins(g)]]
    BY <1>3, <1>6 DEF SignatureReady, Begins
  <2>2. Moves(w, Begins(g)) /\ Begins(g) \in Frame
    BY <1>3, <1>4, <1>5, <1>6, <2>1, EditFrame DEF Moves
  <2> QED
    BY <1>1, <1>2, <1>3, <2>2
<1>7. CASE Return(w)
  <2>1. stack' = [stack EXCEPT ![w] = [stack[w] EXCEPT ![Len(stack[w])] = Comes(g, g.next + 1)]]
    BY <1>3, <1>7 DEF Return, Comes
  <2> HIDE DEF g
  <2>2. /\ Comes(g, g.next + 1) \in Frame /\ Comes(g, g.next + 1).node = g.node
        /\ Comes(g, g.next + 1).job = g.job /\ Comes(g, g.next + 1).part = g.part
        /\ Comes(g, g.next + 1).next = g.next + 1
    BY <1>3, <1>4, EditFrame
  <2>3. Moves(w, Comes(g, g.next + 1))
    BY <1>3, <1>5, <1>7, <2>1, <2>2 DEF g, Moves
  <2> QED
    BY <1>1, <1>2, <1>3, <2>2, <2>3 DEF g
<1>8. CASE StatementFails(w)
  <2>1. PICK k \in g.next + 1 .. Len(Uses(g)) + 1 :
          stack' = [stack EXCEPT ![w][Len(stack[w])].next = k]
    BY <1>8 DEF StatementFails
  <2>2. stack' = [stack EXCEPT ![w] = [stack[w] EXCEPT ![Len(stack[w])] = Comes(g, k)]]
    BY <1>3, <2>1 DEF Comes
  <2>3. Len(Uses(g)) \in Nat
    BY <1>3, UsesAreRequests
  <2>4. k \in Nat \ {0}
    BY <1>4, <2>1, <2>3
  <2> HIDE DEF g
  <2>5. /\ Comes(g, k) \in Frame /\ Comes(g, k).node = g.node /\ Comes(g, k).job = g.job
        /\ Comes(g, k).part = g.part /\ Comes(g, k).next = k
    BY <1>3, <2>4, EditFrame
  <2>6. Moves(w, Comes(g, k))
    BY <1>3, <1>5, <1>8, <2>1, <2>2, <2>5 DEF g, Moves
  <2> QED
    BY <1>1, <1>2, <1>3, <2>5, <2>6 DEF g
<1> QED
  BY <1>6, <1>7, <1>8 DEF Edit

(* The frame at the top moves on; its definition stays. *)
LEMMA EditStep ==
    ASSUME LockInv, NEW w \in Worker, Edit(w)
    PROVE  LockInv'
<1>1. /\ stack[w] # <<>> /\ lock' = lock /\ call' = call /\ root' = root
      /\ body' = body /\ pc[w] \in {"next", "return"}
      /\ pc' = [pc EXCEPT ![w] = "next"]
  BY EditedTop DEF LockInv
<1>2. PICK f \in Frame : /\ f.node = stack[w][Len(stack[w])].node
                         /\ f.job = stack[w][Len(stack[w])].job
                         /\ stack' = [stack EXCEPT ![w] =
                                        [stack[w] EXCEPT ![Len(stack[w])] = f]]
  <2>1. Typed /\ Top(w) = stack[w][Len(stack[w])]
    BY EditedTop DEF LockInv
  <2>2. PICK f \in Frame : Moves(w, f)
    BY <2>1, EditedTop
  <2> QED
    BY <2>1, <2>2 DEF Moves
<1>3. stack[w] \in Seq(Frame)
  BY DEF LockInv, Typed
<1>4. /\ stack'[w] \in Seq(Frame) /\ stack'[w] # <<>>
      /\ DOMAIN stack'[w] = DOMAIN stack[w]
      /\ \A i \in DOMAIN stack[w] : /\ stack'[w][i].node = stack[w][i].node
                                    /\ stack'[w][i].job = stack[w][i].job
  <2>1. stack'[w] = [stack[w] EXCEPT ![Len(stack[w])] = f]
    BY <1>2 DEF LockInv, Typed
  <2> QED
    BY <1>1, <1>2, <1>3, <2>1, EditTop
<1>5. \A v \in Worker : v # w => stack'[v] = stack[v]
  BY <1>2 DEF LockInv, Typed
<1>6. Typed'
  BY <1>1, <1>2, <1>3, <1>4 DEF LockInv, Typed
<1>7. ReleaseWorks'
  BY <1>1, <1>4, <1>5 DEF LockInv, Typed, ReleaseWorks, At
<1>8. \A v \in Worker : pc'[v] = "own" <=> pc[v] = "own"
  BY <1>1 DEF LockInv, Typed
<1>9. OneWorker' /\ LockedIsHeld'
  BY <1>1, <1>4, <1>5, <1>8, QuietKeeps DEF LockInv
<1> QED
  BY <1>6, <1>7, <1>9 DEF LockInv

(* Only a definition nobody holds is claimed. *)
LEMMA ClaimStep ==
    ASSUME LockInv, NEW w \in Worker, Claim(w)
    PROVE  LockInv'
<1> DEFINE n == call[w].node
<1>1. /\ pc[w] = "claim" /\ pc' = [pc EXCEPT ![w] = "own"]
      /\ lock[n] = "PENDING" /\ lock' = [lock EXCEPT ![n] = "RUNNING"]
      /\ stack' = stack /\ call' = call /\ root' = root /\ body' = body
  BY DEF Claim, At, Goto, program
<1>2. call[w] \in Request /\ n \in Node
  BY <1>1 DEF LockInv, Typed, Request
<1>3. Typed'
  BY <1>1, <1>2 DEF LockInv, Typed
<1>4. ReleaseWorks'
  BY <1>1 DEF LockInv, Typed, ReleaseWorks, At
<1>5. \A v \in Worker : ~ Holds(v, n)
  BY <1>1, <1>2 DEF LockInv, LockedIsHeld
<1> HIDE DEF n
<1>6. \A v \in Worker : \A m \in Node :
        Holds(v, m)' <=> (Holds(v, m) \/ (v = w /\ m = n))
  <2> USE DEF n
  <2> QED
    BY <1>1 DEF Holds, OnStack, At, LockInv, Typed
<1>7. LockedIsHeld'
  BY <1>1, <1>2, <1>6 DEF LockInv, LockedIsHeld, Typed
<1>8. (\A m \in Node : \A u, v \in Worker : Holds(u, m) /\ Holds(v, m) => u = v)'
  <2> SUFFICES ASSUME NEW m \in Node, NEW u \in Worker, NEW v \in Worker,
                      Holds(u, m)', Holds(v, m)'
               PROVE  u = v
    OBVIOUS
  <2>1. CASE m = n
    BY <2>1, <1>5, <1>6
  <2>2. CASE m # n
    BY <2>2, <1>6 DEF LockInv, OneWorker
  <2> QED
    BY <2>1, <2>2
<1>9. (\A v \in Worker : At(v, "own") => ~ OnStack(v, call[v].node))'
  <2>1. ~ OnStack(w, call[w].node)
    BY <1>5 DEF Holds, n
  <2> QED
    BY <1>1, <2>1 DEF LockInv, OneWorker, Typed, At, OnStack
<1>10. (\A v \in Worker : \A m \in Node : \A i, j \in DOMAIN stack[v] :
          Claimed(stack[v][i], m) /\ Claimed(stack[v][j], m) => i = j)'
  BY <1>1 DEF LockInv, OneWorker
<1> QED
  BY <1>3, <1>4, <1>7, <1>8, <1>9, <1>10 DEF LockInv, OneWorker


(* A frame goes on top of the stack, or comes off it. *)
Pushed(w, f, k) ==
    /\ k \in Nat /\ k + 1 \in 1 .. k + 1
    /\ \A i \in 1 .. k + 1 : i = k + 1 \/ i \in 1 .. k
    /\ \A i \in 1 .. k : i \in 1 .. k + 1 /\ i # k + 1
    /\ stack' \in [Worker -> Seq(Frame)] /\ stack'[w] # <<>>
    /\ DOMAIN stack[w] = 1 .. k /\ DOMAIN stack'[w] = 1 .. k + 1 /\ Len(stack'[w]) = k + 1
    /\ \A i \in 1 .. k : stack'[w][i] = stack[w][i]
    /\ stack'[w][k + 1] = f
    /\ \A v \in Worker : v # w => stack'[v] = stack[v]
    /\ \A v \in Worker : \A n : v # w => (OnStack(v, n)' <=> OnStack(v, n))
    /\ \A n : OnStack(w, n)' <=> OnStack(w, n) \/ Claimed(f, n)

LEMMA PushFrame ==
    ASSUME Typed, NEW w \in Worker, NEW f \in Frame, NEW k, k = Len(stack[w]),
           stack' = [stack EXCEPT ![w] = Append(@, f)]
    PROVE  Pushed(w, f, k)
<1>1. stack \in [Worker -> Seq(Frame)] /\ stack[w] \in Seq(Frame)
  BY DEF Typed
<1>2. stack'[w] = Append(stack[w], f) /\ \A v \in Worker : v # w => stack'[v] = stack[v]
  BY <1>1
<1>3. /\ k \in Nat /\ k + 1 \in 1 .. k + 1
      /\ \A i \in 1 .. k + 1 : i = k + 1 \/ i \in 1 .. k
      /\ \A i \in 1 .. k : i \in 1 .. k + 1 /\ i # k + 1
  BY <1>1
<1>4. /\ stack'[w] \in Seq(Frame) /\ stack'[w] # <<>>
      /\ DOMAIN stack[w] = 1 .. k /\ DOMAIN stack'[w] = 1 .. k + 1 /\ Len(stack'[w]) = k + 1
      /\ \A i \in 1 .. k : stack'[w][i] = stack[w][i]
      /\ stack'[w][k + 1] = f
  BY <1>1, <1>2
<1>5. stack' \in [Worker -> Seq(Frame)]
  BY <1>1, <1>4
<1>6. \A v \in Worker : \A n : v # w => (OnStack(v, n)' <=> OnStack(v, n))
  BY <1>2 DEF OnStack
<1>7. \A n : OnStack(w, n)' <=> OnStack(w, n) \/ Claimed(f, n)
  BY <1>3, <1>4, Zenon DEF OnStack, Claimed
<1> QED
  BY <1>2, <1>3, <1>4, <1>5, <1>6, <1>7 DEF Pushed

LEMMA PopFrame ==
    ASSUME Typed, NEW w \in Worker, stack[w] # <<>>, NEW k, k = Len(stack[w]),
           stack' = [stack EXCEPT ![w] = Front(@)]
    PROVE  /\ k \in Nat /\ k \in 1 .. k
           /\ \A i \in 1 .. k : i = k \/ i \in 1 .. k - 1
           /\ \A i \in 1 .. k - 1 : i \in 1 .. k /\ i # k
           /\ stack' \in [Worker -> Seq(Frame)] /\ (stack'[w] = <<>> <=> k = 1)
           /\ DOMAIN stack[w] = 1 .. k /\ DOMAIN stack'[w] = 1 .. k - 1 /\ Len(stack'[w]) = k - 1
           /\ \A i \in 1 .. k - 1 : stack'[w][i] = stack[w][i]
           /\ Top(w) = stack[w][k] /\ Top(w) \in Frame
           /\ \A v \in Worker : v # w => stack'[v] = stack[v]
           /\ \A v \in Worker : \A n : v # w => (OnStack(v, n)' <=> OnStack(v, n))
           /\ \A n : OnStack(w, n) <=> OnStack(w, n)' \/ Claimed(Top(w), n)
<1>1. stack \in [Worker -> Seq(Frame)] /\ stack[w] \in Seq(Frame)
  BY DEF Typed
<1>2. stack'[w] = Front(stack[w]) /\ \A v \in Worker : v # w => stack'[v] = stack[v]
  BY <1>1
<1>3. /\ Len(stack[w]) \in 1 .. Len(stack[w])
      /\ Top(w) = stack[w][Len(stack[w])] /\ Top(w) \in Frame
  BY TopIsFrame
<1>4. /\ k \in Nat /\ k \in 1 .. k
      /\ \A i \in 1 .. k : i = k \/ i \in 1 .. k - 1
      /\ \A i \in 1 .. k - 1 : i \in 1 .. k /\ i # k
  BY <1>1, <1>3
<1>5. /\ stack'[w] \in Seq(Frame) /\ DOMAIN stack[w] = 1 .. k
      /\ DOMAIN stack'[w] = 1 .. k - 1
      /\ \A i \in 1 .. k - 1 : stack'[w][i] = stack[w][i]
  BY <1>1, <1>2, PopTop
<1>6. Len(stack'[w]) = k - 1 /\ (stack'[w] = <<>> <=> k = 1)
  <2>1. Len(stack'[w]) = k - 1
    BY <1>4, <1>5
  <2>2. stack'[w] = <<>> <=> Len(stack'[w]) = 0
    BY <1>5
  <2>3. k - 1 = 0 <=> k = 1
    BY <1>4
  <2> QED
    BY <2>1, <2>2, <2>3
<1>7. stack' \in [Worker -> Seq(Frame)]
  BY <1>1, <1>5
<1>8. \A v \in Worker : \A n : v # w => (OnStack(v, n)' <=> OnStack(v, n))
  BY <1>2 DEF OnStack
<1>9. \A n : OnStack(w, n) <=> OnStack(w, n)' \/ Claimed(Top(w), n)
  BY <1>3, <1>4, <1>5, Zenon DEF OnStack, Claimed
<1> QED
  BY <1>2, <1>3, <1>4, <1>5, <1>6, <1>7, <1>8, <1>9

LEMMA BegunIsFrame ==
    ASSUME NEW r \in Request
    PROVE  /\ Begun(r) \in Frame /\ Begun(r).node = r.node /\ Begun(r).job = r.job
           /\ Begun(r).part = FirstPart(r.job, r.node) /\ Begun(r).next = 1
<1>1. FirstPart(r.job, r.node) \in {"signature", "body", "nothing"}
  BY DEF FirstPart
<1> QED
  BY <1>1 DEF Begun, Frame, Request

(* The claimed definition goes to the top of the claimer's stack. *)
LEMMA RecordStep ==
    ASSUME LockInv, NEW w \in Worker, RecordOwner(w)
    PROVE  LockInv'
<1>0. /\ pc[w] = "own" /\ pc' = [pc EXCEPT ![w] = "next"]
      /\ stack' = [stack EXCEPT ![w] = Append(@, Begun(call[w]))]
      /\ lock' = lock /\ call' = call /\ root' = root /\ body' = body
  BY DEF RecordOwner, At, Goto, program
<1>2. call[w] \in Request /\ call[w].node \in Node /\ call[w].job # "walk"
  BY <1>0 DEF LockInv, Typed, Request
<1>3. PICK f \in Frame, n \in Node, k \in Nat :
        /\ f = Begun(call[w]) /\ f.node = n /\ f.job # "walk"
        /\ n = call[w].node /\ k = Len(stack[w])
  <2>1. Len(stack[w]) \in Nat
    BY DEF LockInv, Typed
  <2>2. Begun(call[w]) \in Frame /\ Begun(call[w]).node = call[w].node
        /\ Begun(call[w]).job = call[w].job
    BY <1>2, BegunIsFrame
  <2> QED
    BY <1>2, <2>1, <2>2
<1>1. /\ pc[w] = "own" /\ pc' = [pc EXCEPT ![w] = "next"]
      /\ stack' = [stack EXCEPT ![w] = Append(@, f)]
      /\ lock' = lock /\ call' = call /\ root' = root /\ body' = body
  BY <1>0, <1>3
<1>4. /\ k \in Nat /\ k + 1 \in 1 .. k + 1
      /\ \A i \in 1 .. k + 1 : i = k + 1 \/ i \in 1 .. k
      /\ stack' \in [Worker -> Seq(Frame)] /\ stack'[w] # <<>>
      /\ DOMAIN stack[w] = 1 .. k /\ DOMAIN stack'[w] = 1 .. k + 1
      /\ \A i \in 1 .. k : stack'[w][i] = stack[w][i]
      /\ stack'[w][k + 1] = f
      /\ \A v \in Worker : v # w => stack'[v] = stack[v]
      /\ \A v \in Worker : \A m : v # w => (OnStack(v, m)' <=> OnStack(v, m))
      /\ \A m : OnStack(w, m)' <=> OnStack(w, m) \/ Claimed(f, m)
  <2>1. Typed
    BY DEF LockInv
  <2>2. Pushed(w, f, k)
    BY <1>1, <1>2, <1>3, <2>1, PushFrame
  <2> QED
    BY <2>2 DEF Pushed
<1>5. Typed'
  BY <1>1, <1>4 DEF LockInv, Typed
<1>6. ReleaseWorks'
  BY <1>1, <1>4 DEF LockInv, Typed, ReleaseWorks, At
<1>7. \A v \in Worker : \A m : Holds(v, m)' <=> Holds(v, m)
  <2> TAKE v \in Worker
  <2> TAKE m
  <2>1. CASE v = w
    BY <1>1, <1>3, <1>4, <2>1 DEF Holds, At, LockInv, Typed, Claimed
  <2>2. CASE v # w
    BY <1>1, <1>4, <2>2 DEF Holds, At, LockInv, Typed
  <2> QED
    BY <2>1, <2>2
<1>8. LockedIsHeld'
  BY <1>1, <1>7 DEF LockInv, LockedIsHeld
<1>9. (\A m \in Node : \A u, v \in Worker : Holds(u, m) /\ Holds(v, m) => u = v)'
  BY <1>7 DEF LockInv, OneWorker
<1>10. (\A v \in Worker : At(v, "own") => ~ OnStack(v, call[v].node))'
  BY <1>1, <1>4 DEF LockInv, OneWorker, Typed, At
<1>11. (\A v \in Worker : \A m \in Node : \A i, j \in DOMAIN stack[v] :
          Claimed(stack[v][i], m) /\ Claimed(stack[v][j], m) => i = j)'
  <2> SUFFICES ASSUME NEW v \in Worker, NEW m \in Node, NEW i \in DOMAIN stack'[v],
                      NEW j \in DOMAIN stack'[v],
                      Claimed(stack'[v][i], m), Claimed(stack'[v][j], m)
               PROVE  i = j
    BY DEF Claimed
  <2>1. CASE v # w
    BY <1>4, <2>1 DEF LockInv, OneWorker
  <2>2. CASE v = w
    <3>1. \A a \in 1 .. k : ~ Claimed(stack[w][a], n)
      BY <1>1, <1>3, <1>4 DEF LockInv, OneWorker, At, OnStack
    <3>2. \A a, b \in 1 .. k : Claimed(stack[w][a], m) /\ Claimed(stack[w][b], m) => a = b
      BY <1>4 DEF LockInv, OneWorker
    <3>3. i \in 1 .. k + 1 /\ j \in 1 .. k + 1
      BY <1>4, <2>2
    <3>4. Claimed(stack'[w][i], m) /\ Claimed(stack'[w][j], m)
      BY <2>2
    <3>5. Claimed(stack'[w][k + 1], m) => m = n
      BY <1>3, <1>4 DEF Claimed
    <3> QED
      BY <1>4, <3>1, <3>2, <3>3, <3>4, <3>5, Zenon
  <2> QED
    BY <2>1, <2>2
<1> QED
  BY <1>5, <1>6, <1>8, <1>9, <1>10, <1>11 DEF LockInv, OneWorker

(* What changes when a frame of a walk comes or goes: nothing that is held. *)
LEMMA UnclaimedKeeps ==
    ASSUME LockInv, NEW w \in Worker, lock' = lock, call' = call,
           \A v \in Worker : pc'[v] = "own" <=> pc[v] = "own",
           \A v \in Worker : v # w => stack'[v] = stack[v],
           \A i \in DOMAIN stack'[w] :
              \/ stack'[w][i].job = "walk"
              \/ i \in DOMAIN stack[w] /\ stack'[w][i] = stack[w][i],
           \A n : OnStack(w, n)' <=> OnStack(w, n)
    PROVE  OneWorker' /\ LockedIsHeld'
<1>1. \A v \in Worker : \A m : (Holds(v, m)' <=> Holds(v, m)) /\ (OnStack(v, m)' <=> OnStack(v, m))
  <2> TAKE v \in Worker
  <2> TAKE m
  <2>1. OnStack(v, m)' <=> OnStack(v, m)
    <3>1. CASE v = w
      BY <3>1
    <3>2. CASE v # w
      BY <3>2 DEF OnStack
    <3> QED
      BY <3>1, <3>2
  <2> QED
    BY <2>1 DEF Holds, At
<1>2. LockedIsHeld'
  BY <1>1 DEF LockInv, LockedIsHeld
<1>3. (\A m \in Node : \A u, v \in Worker : Holds(u, m) /\ Holds(v, m) => u = v)'
  BY <1>1 DEF LockInv, OneWorker
<1>4. (\A v \in Worker : At(v, "own") => ~ OnStack(v, call[v].node))'
  BY <1>1 DEF LockInv, OneWorker, At
<1>5. (\A v \in Worker : \A m \in Node : \A i, j \in DOMAIN stack[v] :
          Claimed(stack[v][i], m) /\ Claimed(stack[v][j], m) => i = j)'
  <2> SUFFICES ASSUME NEW v \in Worker, NEW m \in Node, NEW i \in DOMAIN stack'[v],
                      NEW j \in DOMAIN stack'[v],
                      Claimed(stack'[v][i], m), Claimed(stack'[v][j], m)
               PROVE  i = j
    BY DEF Claimed
  <2>1. /\ i \in DOMAIN stack[v] /\ stack'[v][i] = stack[v][i]
        /\ j \in DOMAIN stack[v] /\ stack'[v][j] = stack[v][j]
    BY DEF Claimed
  <2> QED
    BY <2>1 DEF LockInv, OneWorker
<1> QED
  BY <1>2, <1>3, <1>4, <1>5 DEF OneWorker

LEMMA EnterStep ==
    ASSUME LockInv, NEW w \in Worker, EnterWalk(w)
    PROVE  LockInv'
<1>0. /\ pc[w] = "check" /\ pc' = [pc EXCEPT ![w] = "next"] /\ call[w].job = "walk"
      /\ stack' = [stack EXCEPT ![w] = Append(@, Begun(call[w]))]
      /\ lock' = lock /\ call' = call /\ root' = root /\ body' = body
  BY DEF EnterWalk, At, Goto, program, nodeVars
<1>2. PICK f \in Frame, k \in Nat :
        f = Begun(call[w]) /\ f.job = "walk" /\ k = Len(stack[w])
  <2>1. Len(stack[w]) \in Nat /\ call[w] \in Request
    BY <1>0 DEF LockInv, Typed
  <2>2. Begun(call[w]) \in Frame /\ Begun(call[w]).job = call[w].job
    BY <2>1, BegunIsFrame
  <2> QED
    BY <1>0, <2>1, <2>2
<1>1. /\ pc' = [pc EXCEPT ![w] = "next"] /\ pc[w] = "check"
      /\ stack' = [stack EXCEPT ![w] = Append(@, f)]
      /\ lock' = lock /\ call' = call /\ root' = root /\ body' = body
  BY <1>0, <1>2
<1>3. /\ \A i \in 1 .. k + 1 : i = k + 1 \/ i \in 1 .. k
      /\ stack' \in [Worker -> Seq(Frame)] /\ stack'[w] # <<>>
      /\ DOMAIN stack[w] = 1 .. k /\ DOMAIN stack'[w] = 1 .. k + 1
      /\ \A i \in 1 .. k : stack'[w][i] = stack[w][i]
      /\ stack'[w][k + 1] = f
      /\ \A v \in Worker : v # w => stack'[v] = stack[v]
      /\ \A m : OnStack(w, m)' <=> OnStack(w, m) \/ Claimed(f, m)
  <2>1. Typed
    BY DEF LockInv
  <2>2. Pushed(w, f, k)
    BY <1>1, <1>2, <2>1, PushFrame
  <2> QED
    BY <2>2 DEF Pushed
<1>4. Typed'
  BY <1>1, <1>3 DEF LockInv, Typed
<1>5. ReleaseWorks'
  BY <1>1, <1>3 DEF LockInv, Typed, ReleaseWorks, At
<1>6. \A m : OnStack(w, m)' <=> OnStack(w, m)
  BY <1>2, <1>3 DEF Claimed
<1>7. \A i \in DOMAIN stack'[w] :
        \/ stack'[w][i].job = "walk"
        \/ i \in DOMAIN stack[w] /\ stack'[w][i] = stack[w][i]
  BY <1>2, <1>3
<1>8. \A v \in Worker : pc'[v] = "own" <=> pc[v] = "own"
  BY <1>1 DEF LockInv, Typed
<1>9. OneWorker' /\ LockedIsHeld'
  BY <1>1, <1>3, <1>6, <1>7, <1>8, UnclaimedKeeps
<1> QED
  BY <1>4, <1>5, <1>9 DEF LockInv

LEMMA LeaveStep ==
    ASSUME LockInv, NEW w \in Worker, Leave(w)
    PROVE  LockInv'
<1>1. /\ pc[w] = "release" /\ pc' = [pc EXCEPT ![w] = "return"] /\ Top(w).job = "walk"
      /\ stack' = [stack EXCEPT ![w] = Front(@)]
      /\ lock' = lock /\ call' = call /\ root' = root /\ body' = body
  BY DEF Leave, At, Goto, program, nodeVars
<1>2. stack[w] # <<>>
  BY <1>1 DEF LockInv, ReleaseWorks, At
<1>k. PICK k \in Nat : k = Len(stack[w])
  BY DEF LockInv, Typed
<1>3. /\ \A i \in 1 .. k - 1 : i \in 1 .. k
      /\ stack' \in [Worker -> Seq(Frame)]
      /\ DOMAIN stack[w] = 1 .. k /\ DOMAIN stack'[w] = 1 .. k - 1
      /\ \A i \in 1 .. k - 1 : stack'[w][i] = stack[w][i]
      /\ \A v \in Worker : v # w => stack'[v] = stack[v]
      /\ \A m : OnStack(w, m) <=> OnStack(w, m)' \/ Claimed(Top(w), m)
  BY <1>1, <1>2, <1>k, PopFrame DEF LockInv
<1>4. Typed'
  BY <1>1, <1>3 DEF LockInv, Typed
<1>5. ReleaseWorks'
  BY <1>1, <1>3 DEF LockInv, Typed, ReleaseWorks, At
<1>6. \A m : OnStack(w, m)' <=> OnStack(w, m)
  BY <1>1, <1>3 DEF Claimed
<1>7. \A i \in DOMAIN stack'[w] : i \in DOMAIN stack[w] /\ stack'[w][i] = stack[w][i]
  BY <1>3
<1>8. \A v \in Worker : pc'[v] = "own" <=> pc[v] = "own"
  BY <1>1 DEF LockInv, Typed
<1>9. OneWorker' /\ LockedIsHeld'
  BY <1>1, <1>3, <1>6, <1>7, <1>8, UnclaimedKeeps
<1> QED
  BY <1>4, <1>5, <1>9 DEF LockInv

(* A release unlocks what is on top of the stack, which nobody else holds   *)
(* and which is on the stack once.                                          *)
LEMMA ReleaseStep ==
    ASSUME LockInv, NEW w \in Worker, Release(w)
    PROVE  LockInv'
<1>1. /\ pc[w] = "release" /\ pc' = [pc EXCEPT ![w] = "return"]
      /\ stack' = [stack EXCEPT ![w] = Front(@)]
      /\ lock' = [lock EXCEPT ![Top(w).node] = "PENDING"] /\ Top(w).job # "walk"
      /\ call' = call /\ root' = root /\ body' = body
  BY DEF Release, At, Goto, program
<1>2. stack[w] # <<>>
  BY <1>1 DEF LockInv, ReleaseWorks, At
<1>k. PICK k \in Nat : k = Len(stack[w])
  BY DEF LockInv, Typed
<1>3. /\ k \in 1 .. k
      /\ \A i \in 1 .. k - 1 : i \in 1 .. k /\ i # k
      /\ stack' \in [Worker -> Seq(Frame)]
      /\ DOMAIN stack[w] = 1 .. k /\ DOMAIN stack'[w] = 1 .. k - 1
      /\ \A i \in 1 .. k - 1 : stack'[w][i] = stack[w][i]
      /\ Top(w) = stack[w][k] /\ Top(w) \in Frame
      /\ \A v \in Worker : v # w => stack'[v] = stack[v]
      /\ \A v \in Worker : \A m : v # w => (OnStack(v, m)' <=> OnStack(v, m))
      /\ \A m : OnStack(w, m) <=> OnStack(w, m)' \/ Claimed(Top(w), m)
  <2>1. Typed
    BY DEF LockInv
  <2> QED
    BY <1>1, <1>2, <1>k, <2>1, PopFrame, ZenonT(30)
<1>4. PICK n \in Node :
        /\ n = Top(w).node /\ lock' = [lock EXCEPT ![n] = "PENDING"]
        /\ \A m : Claimed(Top(w), m) <=> m = n
  BY <1>1, <1>3 DEF Frame, Claimed
<1>5. Typed'
  BY <1>1, <1>3, <1>4 DEF LockInv, Typed
<1>6. ReleaseWorks'
  BY <1>1, <1>3 DEF LockInv, Typed, ReleaseWorks, At
<1>7. ~ OnStack(w, n)'
  <2>1. \A i \in 1 .. k - 1 : ~ Claimed(stack[w][i], n)
    BY <1>3, <1>4 DEF LockInv, OneWorker
  <2> QED
    BY <1>3, <2>1 DEF OnStack, Claimed
<1>8. Holds(w, n) /\ ~ Holds(w, n)'
  BY <1>1, <1>3, <1>4, <1>7 DEF Holds, At, LockInv, Typed
<1>9. \A m : m # n => (Holds(w, m)' <=> Holds(w, m)) /\ (OnStack(w, m)' <=> OnStack(w, m))
  BY <1>1, <1>3, <1>4 DEF Holds, At, LockInv, Typed
<1>10. \A v \in Worker : v # w => \A m : Holds(v, m)' <=> Holds(v, m)
  BY <1>1, <1>3 DEF Holds, At, LockInv, Typed
<1>11. \A v \in Worker : ~ Holds(v, n)'
  <2> TAKE v \in Worker
  <2>1. v # w => ~ Holds(v, n)
    BY <1>4, <1>8 DEF LockInv, OneWorker
  <2> QED
    BY <1>8, <1>10, <2>1
<1>12. \A v \in Worker : \A m : m # n => (Holds(v, m)' <=> Holds(v, m))
  BY <1>9, <1>10
<1>13. LockedIsHeld'
  <2> SUFFICES ASSUME NEW m \in Node
               PROVE  lock'[m] = "RUNNING" <=> \E v \in Worker : Holds(v, m)'
    BY DEF LockedIsHeld
  <2>1. CASE m = n
    BY <1>1, <1>4, <1>11, <2>1 DEF LockInv, Typed
  <2>2. CASE m # n
    BY <1>1, <1>4, <1>12, <2>2 DEF LockInv, LockedIsHeld, Typed
  <2> QED
    BY <2>1, <2>2
<1>14. (\A m \in Node : \A u, v \in Worker : Holds(u, m) /\ Holds(v, m) => u = v)'
  <2> SUFFICES ASSUME NEW m \in Node, NEW u \in Worker, NEW v \in Worker,
                      Holds(u, m)', Holds(v, m)'
               PROVE  u = v
    OBVIOUS
  <2>1. Holds(u, m) /\ Holds(v, m)
    BY <1>11, <1>12
  <2> QED
    BY <2>1 DEF LockInv, OneWorker
<1>15. (\A v \in Worker : At(v, "own") => ~ OnStack(v, call[v].node))'
  BY <1>1, <1>3 DEF LockInv, OneWorker, Typed, At
<1>16. (\A v \in Worker : \A m \in Node : \A i, j \in DOMAIN stack[v] :
          Claimed(stack[v][i], m) /\ Claimed(stack[v][j], m) => i = j)'
  <2> SUFFICES ASSUME NEW v \in Worker, NEW m \in Node, NEW i \in DOMAIN stack'[v],
                      NEW j \in DOMAIN stack'[v],
                      Claimed(stack'[v][i], m), Claimed(stack'[v][j], m)
               PROVE  i = j
    BY DEF Claimed
  <2>1. /\ i \in DOMAIN stack[v] /\ stack'[v][i] = stack[v][i]
        /\ j \in DOMAIN stack[v] /\ stack'[v][j] = stack[v][j]
    <3>1. CASE v = w
      BY <1>3, <3>1
    <3>2. CASE v # w
      BY <1>3, <3>2
    <3> QED
      BY <3>1, <3>2
  <2> QED
    BY <2>1 DEF LockInv, OneWorker
<1> QED
  BY <1>5, <1>6, <1>13, <1>14, <1>15, <1>16 DEF LockInv, OneWorker

LEMMA LockInvariant == Spec => []LockInv
<1>1. Init => LockInv
  BY NodeAssumption DEF Init, LockInv, Typed, ReleaseWorks, OneWorker, LockedIsHeld, Holds,
                        OnStack, At, Claimed
<1>2. LockInv /\ [Next]_vars => LockInv'
  <2> SUFFICES ASSUME LockInv, [Next]_vars PROVE LockInv'
    OBVIOUS
  <2>1. CASE UNCHANGED vars
    BY <2>1 DEF vars, program, nodeVars, threadVars, LockInv, Typed, ReleaseWorks,
                OneWorker, LockedIsHeld, Holds, OnStack, At, Claimed
  <2>2. CASE Next
    <3>1. PICK w \in Worker : Step(w)
      BY <2>2 DEF Next
    <3>2. CASE Quiet(w)
      BY <3>2, QuietStep
    <3>3. CASE Edit(w)
      BY <3>3, EditStep
    <3>4. CASE Claim(w)
      BY <3>4, ClaimStep
    <3>5. CASE RecordOwner(w)
      BY <3>5, RecordStep
    <3>6. CASE Release(w)
      BY <3>6, ReleaseStep
    <3>7. CASE EnterWalk(w)
      BY <3>7, EnterStep
    <3>8. CASE Leave(w)
      BY <3>8, LeaveStep
    <3> QED
      BY <3>1, <3>2, <3>3, <3>4, <3>5, <3>6, <3>7, <3>8 DEF Step, Quiet, Edit
  <2> QED
    BY <2>1, <2>2
<1> QED
  BY <1>1, <1>2, PTL DEF Spec

(* A definition is worked on by one thread at a time and never inside its   *)
(* own work, for any threads, numbers and programs: the stale and the       *)
(* missing numbers mislead the circular dependency test, not the lock.      *)
THEOREM NodesAreExclusive == Spec => []OneWorker
<1>1. LockInv => OneWorker
  BY DEF LockInv
<1> QED
  BY <1>1, LockInvariant, PTL

(* A definition is locked exactly while somebody works on it, whatever      *)
(* errors end the work.                                                     *)
THEOREM LocksAreReleased == Spec => []LockedIsHeld
<1>1. LockInv => LockedIsHeld
  BY DEF LockInv
<1> QED
  BY <1>1, LockInvariant, PTL

-----------------------------------------------------------------------------
(***************************************************************************)
(* On-demand validation by a single thread, as the compiler has it while    *)
(* every thread is given the same number: what acquireNode reports and what *)
(* a successful request means.                                              *)
(*                                                                          *)
(* With several threads none of this holds.  The owner of a definition is   *)
(* recorded after it was claimed and never taken back, so that a thread may *)
(* find its own number in a definition another one has just claimed; and a  *)
(* thread that waited is told the definition is ready whatever became of it.*)
(*                                                                          *)
(* The invariant links the stack of a thread: each frame is the answer to   *)
(* the request the frame below it is at, the lowest to that of the unit.    *)
(* What a request is told when it returns can be said of the frame that is  *)
(* popped, because it is that request's.                                    *)
(***************************************************************************)

OneThread == \A w, v \in Worker : w = v

Kept ==
    /\ body \in Bodies /\ broken \in Faults
    /\ owner \in [Node -> 0..255]
    /\ state \in [Node -> {UNRESOLVED, TYPE_READY, ABI_READY, VALIDATED}]
    /\ hasValue \in [Node -> BOOLEAN]
    /\ ret \in [Worker -> {"OK", "ERROR"}]
    /\ faulty \subseteq Node

Asks(f) == Uses(f)[f.next]
Answers(f, request) == f.job = request.job /\ f.node = request.node

(* What holds of the frame at i, between the one below and the one above. *)
FrameInPlace(w, i) ==
    LET f == stack[w][i] IN
    /\ f.job # "walk" => owner[f.node] = Id[w]
    /\ f.part = "signature" => Validates(f) /\ f.node \in Fcn
    /\ IF i = 1 THEN Answers(f, Roots[w][root[w]])
                ELSE Answers(f, Asks(stack[w][i - 1]))
    /\ i < Len(stack[w]) => f.next <= Len(Uses(f))

Linked(w) == \A i \in 1..Len(stack[w]) : FrameInPlace(w, i)

Calling == {"check", "claim", "own", "owner"}
CallInPlace(w) ==
    /\ pc[w] # "wait"
    /\ pc[w] \in Calling \cup {"return"} /\ Working(w) => Pending(w)
    /\ pc[w] \in Calling => call[w] = Answered(w)
    /\ pc[w] = "owner" => OnStack(w, call[w].node)

Told(w) ==
    /\ pc[w] = "release" /\ ret[w] = "OK" => Delivered(Top(w))
    /\ pc[w] = "return" /\ ret[w] = "OK" => Delivered(Answered(w))

AnswerInv == \A w \in Worker : Linked(w) /\ CallInPlace(w) /\ Told(w)

-----------------------------------------------------------------------------
(* What the actions leave alone, and how they change the rest. *)
LEMMA ProgramStays ==
    ASSUME NEW w \in Worker, Step(w)
    PROVE  UNCHANGED <<body, broken>>
BY DEF Step, CallRoot, UnitDone, CallUse, SignatureReady, OwnError, Finish, AlreadyReady, NotReady,
       Claim, ClaimFails, RecordOwner, EnterWalk, Circular, SomebodyElses, WaitEnds, Release,
       Leave, Return, StatementFails, ReturnError, ReturnToUnit, program

LEMMA Changes ==
    ASSUME NEW w \in Worker, Step(w)
    PROVE  /\ owner' = owner \/ (RecordOwner(w) /\ owner' = [owner EXCEPT ![call[w].node] = Id[w]])
           /\ SignatureReady(w) \/ Finish(w) \/ state' = state
           /\ Finish(w) \/ hasValue' = hasValue
           /\ \E r \in {"OK", "ERROR"} : ret' = ret \/ ret' = [ret EXCEPT ![w] = r]
           /\ ReturnToUnit(w) \/ root' = root
           /\ Circular(w) \/ circular' = circular
<1>1. owner' = owner \/ (RecordOwner(w) /\ owner' = [owner EXCEPT ![call[w].node] = Id[w]])
  BY DEF Step, CallRoot, UnitDone, CallUse, SignatureReady, OwnError, Finish, AlreadyReady, NotReady,
         Claim, ClaimFails, RecordOwner, EnterWalk, Circular, SomebodyElses, WaitEnds, Release,
         Leave, Return, StatementFails, ReturnError, ReturnToUnit, nodeVars
<1>2. SignatureReady(w) \/ Finish(w) \/ state' = state
  BY DEF Step, CallRoot, UnitDone, CallUse, SignatureReady, OwnError, Finish, AlreadyReady, NotReady,
         Claim, ClaimFails, RecordOwner, EnterWalk, Circular, SomebodyElses, WaitEnds, Release,
         Leave, Return, StatementFails, ReturnError, ReturnToUnit, nodeVars
<1>3. Finish(w) \/ hasValue' = hasValue
  BY DEF Step, CallRoot, UnitDone, CallUse, SignatureReady, OwnError, Finish, AlreadyReady, NotReady,
         Claim, ClaimFails, RecordOwner, EnterWalk, Circular, SomebodyElses, WaitEnds, Release,
         Leave, Return, StatementFails, ReturnError, ReturnToUnit, nodeVars
<1>4. \E r \in {"OK", "ERROR"} : ret' = ret \/ ret' = [ret EXCEPT ![w] = r]
  BY DEF Step, CallRoot, UnitDone, CallUse, SignatureReady, OwnError, Finish, AlreadyReady, NotReady,
         Claim, ClaimFails, RecordOwner, EnterWalk, Circular, SomebodyElses, WaitEnds, Release,
         Leave, Return, StatementFails, ReturnError, ReturnToUnit
<1>5. ReturnToUnit(w) \/ root' = root
  BY DEF Step, CallRoot, UnitDone, CallUse, SignatureReady, OwnError, Finish, AlreadyReady, NotReady,
         Claim, ClaimFails, RecordOwner, EnterWalk, Circular, SomebodyElses, WaitEnds, Release,
         Leave, Return, StatementFails, ReturnError, ReturnToUnit
<1>6. Circular(w) \/ circular' = circular
  BY DEF Step, CallRoot, UnitDone, CallUse, SignatureReady, OwnError, Finish, AlreadyReady, NotReady,
         Claim, ClaimFails, RecordOwner, EnterWalk, Circular, SomebodyElses, WaitEnds, Release,
         Leave, Return, StatementFails, ReturnError, ReturnToUnit, history
<1> QED
  BY <1>1, <1>2, <1>3, <1>4, <1>5, <1>6

(* An error is met in the definition on top, or in the one called for. *)
LEMMA FaultyGrows ==
    ASSUME LockInv, NEW w \in Worker, Step(w)
    PROVE  /\ faulty \subseteq faulty'
           /\ faulty' \subseteq faulty \cup Node
<1>1. \/ faulty' = faulty
      \/ stack[w] # <<>> /\ faulty' = faulty \cup {Top(w).node}
      \/ At(w, "owner") /\ faulty' = faulty \cup {call[w].node}
  BY DEF Step, CallRoot, UnitDone, CallUse, SignatureReady, OwnError, Finish, AlreadyReady, NotReady,
         Claim, ClaimFails, RecordOwner, EnterWalk, Circular, SomebodyElses, WaitEnds, Release,
         Leave, Return, StatementFails, ReturnError, ReturnToUnit, history, Working
<1>2. stack[w] # <<>> => Top(w).node \in Node
  BY TopIsFrame DEF LockInv, Frame
<1>3. At(w, "owner") => call[w].node \in Node
  BY DEF LockInv, Typed, At, Request
<1> QED
  BY <1>1, <1>2, <1>3

LEMMA KeptStep ==
    ASSUME LockInv, Kept, NEW w \in Worker, Step(w)
    PROVE  Kept'
<1>1. body' \in Bodies /\ broken' \in Faults
  BY ProgramStays DEF Kept
<1>2. owner' \in [Node -> 0..255]
  <2>1. owner' = owner \/ owner' = [owner EXCEPT ![call[w].node] = Id[w]]
    BY Changes
  <2>2. owner \in [Node -> 0..255] /\ Id[w] \in 0..255
    BY NodeAssumption DEF Kept
  <2> QED
    BY <2>1, <2>2, Zenon
<1>3. /\ state' \in [Node -> {UNRESOLVED, TYPE_READY, ABI_READY, VALIDATED}]
      /\ hasValue' \in [Node -> BOOLEAN]
  <2>1. CASE SignatureReady(w)
    BY <2>1 DEF Kept, SignatureReady
  <2>2. CASE Finish(w)
    BY <2>2 DEF Kept, Finish
  <2>3. CASE ~ SignatureReady(w) /\ ~ Finish(w)
    BY <2>3, Changes DEF Kept
  <2> QED
    BY <2>1, <2>2, <2>3
<1>4. ret' \in [Worker -> {"OK", "ERROR"}]
  BY Changes DEF Kept
<1>5. faulty' \subseteq Node
  BY FaultyGrows DEF Kept
<1> QED
  BY <1>1, <1>2, <1>3, <1>4, <1>5 DEF Kept

LEMMA KeptInvariant == Spec => [](LockInv /\ Kept)
<1>1. Init => Kept
  BY DEF Init, Kept
<1>2. LockInv /\ Kept /\ [Next]_vars => Kept'
  <2> SUFFICES ASSUME LockInv, Kept, [Next]_vars PROVE Kept'
    OBVIOUS
  <2>1. CASE UNCHANGED vars
    BY <2>1 DEF vars, program, nodeVars, threadVars, history, Kept
  <2>2. CASE Next
    BY <2>2, KeptStep DEF Next
  <2> QED
    BY <2>1, <2>2
<1> QED
  BY <1>1, <1>2, LockInvariant, PTL DEF Spec

(* The types of the locks, the states and the stacks, whatever the program, *)
(* the numbers and the interleaving.                                        *)
THEOREM NodesTypeCorrect == Spec => []TypeOK
<1>1. LockInv /\ Kept => TypeOK
  BY DEF LockInv, Typed, Kept, TypeOK
<1> QED
  BY <1>1, KeptInvariant, PTL

-----------------------------------------------------------------------------
AnswersOf(w) == Linked(w) /\ CallInPlace(w) /\ Told(w)

LEMMA UsesStay ==
    ASSUME body' = body, broken' = broken
    PROVE  \A f : Uses(f)' = Uses(f)
BY DEF Uses, Has, Validates

(* A step that leaves the stack alone leaves what is asked alone. *)
LEMMA FlatKeeps ==
    ASSUME NEW w \in Worker, Linked(w), stack' = stack, owner' = owner,
           body' = body, broken' = broken, root' = root
    PROVE  /\ Linked(w)' /\ Answered(w)' = Answered(w) /\ Top(w)' = Top(w)
           /\ Working(w)' <=> Working(w)
           /\ Pending(w)' <=> Pending(w)
           /\ \A n : OnStack(w, n)' <=> OnStack(w, n)
<1>1. \A f : Uses(f)' = Uses(f)
  BY UsesStay
<1>2. Top(w)' = Top(w) /\ (Working(w)' <=> Working(w)) /\ \A n : OnStack(w, n)' <=> OnStack(w, n)
  BY DEF Top, Working, OnStack
<1>3. Answered(w)' = Answered(w) /\ (Pending(w)' <=> Pending(w))
  BY <1>1, <1>2 DEF Answered, Pending, Top, Working
<1>4. Linked(w)'
  BY <1>1 DEF Linked, FrameInPlace, Answers, Asks, Validates
<1> QED
  BY <1>2, <1>3, <1>4

(* One thread finds a definition locked only inside its own work. *)
LEMMA LockedIsMine ==
    ASSUME OneThread, LockInv, NEW w \in Worker, NEW n \in Node, pc[w] # "own",
           lock[n] = "RUNNING"
    PROVE  OnStack(w, n)
<1>1. PICK v \in Worker : Holds(v, n)
  BY DEF LockInv, LockedIsHeld
<1>2. v = w
  BY DEF OneThread
<1> QED
  BY <1>1, <1>2 DEF Holds, At

(* The result the work ends with delivers what was asked of it. *)
LEMMA FinishDelivers ==
    ASSUME LockInv, Kept, NEW w \in Worker, Finish(w)
    PROVE  Delivered(Top(w))'
<1>1. stack[w] # <<>> /\ stack' = stack
  BY DEF Finish, Working
<1>2. Top(w) \in Frame /\ Top(w)' = Top(w)
  BY <1>1, TopIsFrame DEF LockInv, Top
<1>3. Top(w).node \in Node /\ Top(w).job \in Jobs
  BY <1>2 DEF Frame
<1>4. /\ Top(w).job = "eval" => hasValue'[Top(w).node]
      /\ Top(w).job # "eval" =>
           state'[Top(w).node] = (IF Top(w).job = "abi" THEN ABI_READY ELSE VALIDATED)
  BY <1>3 DEF Finish, Kept
<1>5. PICK n \in Node, j \in Jobs : n = Top(w).node /\ j = Top(w).job
  BY <1>3
<1>6. Top(w)'.node = n /\ Top(w)'.job = j
  BY <1>2, <1>5
<1>7. /\ j = "eval" => hasValue'[n]
      /\ j # "eval" => state'[n] = (IF j = "abi" THEN ABI_READY ELSE VALIDATED)
  BY <1>4, <1>5
<1> QED
  BY <1>6, <1>7 DEF Delivered, Usable, Jobs, TYPE_READY, ABI_READY, VALIDATED

LEMMA FlatStep ==
    ASSUME OneThread, LockInv, Kept, NEW w \in Worker, AnswersOf(w), Quiet(w) \/ Claim(w)
    PROVE  AnswersOf(w)'
<1> USE DEF AnswersOf
<1>0. /\ pc \in [Worker -> {"next", "check", "claim", "own", "owner", "wait",
                            "release", "return", "done", "failed"}]
      /\ call \in [Worker -> Request \cup {NoCall}] /\ ret \in [Worker -> {"OK", "ERROR"}]
      /\ pc[w] \in Calling => call[w] \in Request
      /\ pc[w] \in {"claim", "own", "owner", "wait"} => call[w].job # "walk"
  BY DEF LockInv, Typed, Kept, Calling
<1>1. stack' = stack /\ owner' = owner /\ body' = body /\ broken' = broken
  BY DEF Quiet, CallRoot, UnitDone, CallUse, OwnError, Finish, AlreadyReady, NotReady, Claim,
         ClaimFails, Circular, SomebodyElses, WaitEnds, ReturnError, ReturnToUnit, nodeVars, program
<1>2. CASE ReturnToUnit(w)
  <2>1. stack'[w] = <<>> /\ pc'[w] \in {"next", "failed"}
    BY <1>0, <1>1, <1>2 DEF ReturnToUnit, Working, Goto
  <2>2. Linked(w)'
    BY <2>1 DEF Linked
  <2> QED
    BY <2>1, <2>2 DEF CallInPlace, Told, Calling
<1>3. ASSUME ~ ReturnToUnit(w) PROVE AnswersOf(w)'
  <2>0. root' = root
    BY <1>3 DEF Quiet, CallRoot, UnitDone, CallUse, OwnError, Finish, AlreadyReady, NotReady,
             Claim, ClaimFails, Circular, SomebodyElses, WaitEnds, ReturnError
  <2>1. /\ Linked(w)' /\ Answered(w)' = Answered(w) /\ Top(w)' = Top(w)
        /\ Working(w)' <=> Working(w)
        /\ Pending(w)' <=> Pending(w)
        /\ \A n : OnStack(w, n)' <=> OnStack(w, n)
    BY <1>1, <2>0, FlatKeeps
  <2>2. CASE CallRoot(w)
    <3>1. pc'[w] = "check" /\ call'[w] = Answered(w) /\ ~ Working(w)
      BY <1>0, <2>2 DEF CallRoot, Goto, Answered
    <3> QED
      BY <2>1, <3>1 DEF CallInPlace, Told, Calling
  <2>3. CASE UnitDone(w)
    <3>1. pc'[w] = "done"
      BY <1>0, <2>3 DEF UnitDone, Goto
    <3> QED
      BY <2>1, <3>1 DEF CallInPlace, Told, Calling
  <2>4. CASE CallUse(w)
    <3>1. pc'[w] = "check" /\ call'[w] = Answered(w) /\ Pending(w)
      BY <1>0, <2>4 DEF CallUse, Goto, Answered
    <3> QED
      BY <2>1, <3>1 DEF CallInPlace, Told, Calling
  <2>5. CASE Finish(w)
    <3>1. pc'[w] = "release"
      BY <1>0, <2>5 DEF Finish, Goto
    <3> QED
      BY <2>1, <2>5, <3>1, FinishDelivers DEF CallInPlace, Told, Calling
  <2>6. CASE AlreadyReady(w)
    <3>1. pc[w] = "check" /\ pc'[w] = "return" /\ ReadyFor(w)
          /\ UNCHANGED <<state, hasValue>>
      BY <1>0, <2>6 DEF AlreadyReady, At, Goto, nodeVars
    <3>2. call[w] = Answered(w) /\ (Working(w) => Pending(w))
      BY <3>1 DEF CallInPlace, Calling
    <3>3. Delivered(call[w])
      BY <3>1 DEF ReadyFor, Delivered, Usable, TYPE_READY, ABI_READY, VALIDATED
    <3>4. Delivered(Answered(w))'
      <4>1. Delivered(Answered(w))
        BY <3>2, <3>3
      <4> QED
        BY <2>1, <3>1, <4>1 DEF Delivered, Usable
    <3> QED
      BY <2>1, <3>1, <3>2, <3>4 DEF CallInPlace, Told, Calling
  <2>7. CASE NotReady(w) \/ Claim(w)
    <3>1. pc[w] \in Calling /\ pc'[w] \in {"claim", "own"} /\ call' = call
      BY <1>0, <2>7 DEF NotReady, Claim, At, Goto, Calling
    <3> QED
      BY <2>1, <3>1 DEF CallInPlace, Told, Calling
  <2>8. CASE ClaimFails(w)
    <3>1. pc[w] = "claim" /\ pc'[w] = "owner" /\ call' = call /\ lock[call[w].node] = "RUNNING"
      BY <1>0, <2>8 DEF ClaimFails, At, Goto
    <3>2. call[w].node \in Node
      BY <1>0, <3>1 DEF Calling, Request
    <3>3. OnStack(w, call[w].node)
      BY <3>1, <3>2, LockedIsMine
    <3> QED
      BY <2>1, <3>1, <3>3 DEF CallInPlace, Told, Calling
  <2>9. CASE Circular(w)
    <3>1. pc[w] = "owner" /\ pc'[w] = "return" /\ ret'[w] = "ERROR"
      BY <1>0, <2>9 DEF Circular, At, Goto
    <3> QED
      BY <2>1, <3>1 DEF CallInPlace, Told, Calling
  <2>10. CASE SomebodyElses(w)
    <3>1. pc[w] = "owner" /\ owner[call[w].node] # Id[w]
      BY <2>10 DEF SomebodyElses, At
    <3>2. PICK i \in DOMAIN stack[w] : Claimed(stack[w][i], call[w].node)
      BY <3>1 DEF CallInPlace, OnStack
    <3>3. i \in 1..Len(stack[w])
      BY <3>2 DEF LockInv, Typed
    <3> QED
      BY <3>1, <3>2, <3>3 DEF Linked, FrameInPlace, Claimed
  <2>11. CASE WaitEnds(w)
    BY <2>11 DEF WaitEnds, At, CallInPlace
  <2>12. CASE ReturnError(w)
    <3>1. pc'[w] = "release" /\ ret'[w] = "ERROR"
      BY <1>0, <2>12 DEF ReturnError, Goto, At
    <3> QED
      BY <2>1, <3>1 DEF CallInPlace, Told, Calling
  <2>13. CASE OwnError(w)
    <3>1. pc'[w] = "release" /\ ret'[w] = "ERROR"
      BY <1>0, <2>13 DEF OwnError, Goto
    <3> QED
      BY <2>1, <3>1 DEF CallInPlace, Told, Calling
  <2> QED
    BY <1>3, <2>2, <2>3, <2>4, <2>5, <2>6, <2>7, <2>8, <2>9, <2>10, <2>11, <2>12, <2>13 DEF Quiet
<1> QED
  BY <1>2, <1>3

(* How the frame at the top and those below it come out of a change. *)
LEMMA TopMovesOn ==
    ASSUME LockInv, NEW w \in Worker, Edit(w)
    PROVE  \E k \in Nat, f \in Frame :
             /\ k = Len(stack[w]) /\ k \in 1..k /\ DOMAIN stack[w] = 1..k
             /\ stack[w][k] \in Frame /\ Top(w) = stack[w][k]
             /\ Moves(w, f)
             /\ Len(stack'[w]) = k /\ stack'[w][k] = f
             /\ \A i \in 1..k : i # k => stack'[w][i] = stack[w][i]
<1>0. Typed
  BY DEF LockInv
<1>1. PICK f \in Frame : Moves(w, f)
  BY <1>0, EditedTop
<1>2. stack[w] # <<>> /\ Top(w) = stack[w][Len(stack[w])] /\ Top(w) \in Frame
  BY <1>0, EditedTop
<1>3. stack \in [Worker -> Seq(Frame)] /\ stack[w] \in Seq(Frame)
  BY <1>0 DEF Typed
<1>4. PICK k \in Nat : k = Len(stack[w]) /\ k \in 1..k /\ DOMAIN stack[w] = 1..k
  BY <1>2, <1>3
<1>5. stack'[w] = [stack[w] EXCEPT ![k] = f]
  BY <1>1, <1>3, <1>4 DEF Moves
<1>6. /\ Len(stack'[w]) = k /\ stack'[w][k] = f
      /\ \A i \in 1..k : i # k => stack'[w][i] = stack[w][i]
  BY <1>3, <1>4, <1>5
<1> QED
  BY <1>1, <1>2, <1>4, <1>6

LEMMA MoveOnStep ==
    ASSUME LockInv, NEW w \in Worker, AnswersOf(w), Edit(w)
    PROVE  AnswersOf(w)'
<1> USE DEF AnswersOf
<1>1. PICK k \in Nat, f \in Frame :
        /\ k = Len(stack[w]) /\ k \in 1..k /\ Top(w) = stack[w][k] /\ Moves(w, f)
        /\ Len(stack'[w]) = k /\ stack'[w][k] = f
        /\ \A i \in 1..k : i # k => stack'[w][i] = stack[w][i]
  BY TopMovesOn, ZenonT(60)
<1>2. /\ owner' = owner /\ body' = body /\ broken' = broken /\ root' = root /\ pc'[w] = "next"
  BY DEF Edit, SignatureReady, Return, StatementFails, nodeVars, program, LockInv, Typed, Goto, At
<1>3. \A g : Uses(g)' = Uses(g)
  BY <1>2, UsesStay
<1>4. f.job = stack[w][k].job /\ f.node = stack[w][k].node /\ f.part \in {stack[w][k].part, "body"}
  BY <1>1 DEF Moves, Edit
<1>5. Linked(w)'
  <2> SUFFICES ASSUME NEW i \in 1..k PROVE FrameInPlace(w, i)'
    BY <1>1 DEF Linked
  <2>1. FrameInPlace(w, i)
    BY <1>1 DEF Linked
  <2>2. i # 1 => i - 1 \in 1..k /\ i - 1 # k
    BY <1>1
  <2>3. i # 1 => stack'[w][i - 1] = stack[w][i - 1]
    BY <1>1, <2>2
  <2>4. i # 1 => Asks(stack[w][i - 1])' = Asks(stack[w][i - 1])
    BY <1>3, <2>3 DEF Asks
  <2>5. i < k => i # k
    BY <1>1
  <2>6. CASE i = k
    <3>1. ~ (i < k)
      BY <1>1, <2>6
    <3> QED
      BY <1>1, <1>2, <1>4, <2>1, <2>4, <2>6, <3>1 DEF FrameInPlace, Answers, Validates
  <2>7. CASE i # k
    <3>1. stack'[w][i] = stack[w][i] /\ Uses(stack[w][i])' = Uses(stack[w][i])
      BY <1>1, <1>3, <2>7
    <3> QED
      BY <1>1, <1>2, <2>1, <2>4, <3>1 DEF FrameInPlace, Answers, Validates
  <2> QED
    BY <2>6, <2>7
<1>6. CallInPlace(w)' /\ Told(w)'
  BY <1>2 DEF CallInPlace, Told, Calling
<1> QED
  BY <1>5, <1>6

LEMMA FrameStays ==
    ASSUME NEW w \in Worker, NEW i \in 1..Len(stack[w]), FrameInPlace(w, i),
           body' = body, broken' = broken, root' = root,
           stack'[w][i] = stack[w][i], i # 1 => stack'[w][i - 1] = stack[w][i - 1],
           stack[w][i].job # "walk" => owner'[stack[w][i].node] = Id[w],
           i < Len(stack'[w]) => stack[w][i].next <= Len(Uses(stack[w][i]))
    PROVE  FrameInPlace(w, i)'
<1>0. \A g : Uses(g)' = Uses(g)
  BY UsesStay
<1>1. Uses(stack[w][i])' = Uses(stack[w][i])
  BY <1>0
<1>2. i # 1 => Asks(stack[w][i - 1])' = Asks(stack[w][i - 1])
  BY <1>0 DEF Asks
<1> QED
  BY <1>1, <1>2 DEF FrameInPlace, Answers, Validates

(* The frame that is pushed answers the request that led to it. *)
LEMMA PushStep ==
    ASSUME LockInv, Kept, NEW w \in Worker, AnswersOf(w), RecordOwner(w) \/ EnterWalk(w)
    PROVE  AnswersOf(w)'
<1> USE DEF AnswersOf
<1>1. /\ pc[w] \in Calling /\ pc' = [pc EXCEPT ![w] = "next"]
      /\ stack' = [stack EXCEPT ![w] = Append(@, Begun(call[w]))]
      /\ root' = root /\ body' = body /\ broken' = broken
  BY DEF RecordOwner, EnterWalk, At, Goto, program, Calling
<1>2. call[w] \in Request /\ Typed /\ pc'[w] = "next"
  BY <1>1 DEF LockInv, Typed, Calling
<1>3. PICK f \in Frame, k \in Nat :
        /\ f = Begun(call[w]) /\ k = Len(stack[w]) /\ Answers(f, call[w])
        /\ f.part = "signature" => Validates(f) /\ f.node \in Fcn
  <2>1. Len(stack[w]) \in Nat
    BY <1>2 DEF Typed
  <2>2. /\ Begun(call[w]) \in Frame /\ Answers(Begun(call[w]), call[w])
        /\ Begun(call[w]).part = FirstPart(call[w].job, call[w].node)
    BY <1>2, BegunIsFrame DEF Answers
  <2>3. FirstPart(call[w].job, call[w].node) = "signature" =>
          call[w].job \in {"validate", "walk"} /\ call[w].node \in Fcn
    BY DEF FirstPart
  <2> QED
    BY <2>1, <2>2, <2>3 DEF Answers, Validates
<1>4. Pushed(w, f, k)
  BY <1>1, <1>2, <1>3, PushFrame
<1>5. /\ Len(stack'[w]) = k + 1 /\ stack'[w][k + 1] = f
      /\ \A i \in 1..k : stack'[w][i] = stack[w][i]
      /\ \A i \in 1..k + 1 : i = k + 1 \/ i \in 1..k
  BY <1>4 DEF Pushed
<1>6. call[w] = Answered(w) /\ (Working(w) => Pending(w))
  BY <1>1 DEF CallInPlace
<1>7. \A n \in Node : owner[n] = Id[w] => owner'[n] = Id[w]
  <2>1. owner' = owner \/ owner' = [owner EXCEPT ![call[w].node] = Id[w]]
    BY DEF RecordOwner, EnterWalk, nodeVars
  <2> QED
    BY <2>1 DEF Kept
<1>8. f.job # "walk" => owner'[f.node] = Id[w]
  <2>1. CASE RecordOwner(w)
    BY <1>2, <1>3, <2>1 DEF RecordOwner, Kept, Answers, Request
  <2>2. CASE EnterWalk(w)
    BY <1>3, <2>2 DEF EnterWalk, Answers
  <2> QED
    BY <2>1, <2>2
<1>9. ASSUME NEW i \in 1..k PROVE FrameInPlace(w, i)'
  <2>1. FrameInPlace(w, i) /\ i \in 1..Len(stack[w])
    BY <1>3 DEF Linked
  <2>2. i # 1 => stack'[w][i - 1] = stack[w][i - 1]
    <3>1. i # 1 => i - 1 \in 1..k
      BY <1>3
    <3> QED
      BY <1>5, <3>1
  <2>3. stack[w][i].job # "walk" => owner'[stack[w][i].node] = Id[w]
    <3>1. stack[w][i] \in Frame
      BY <1>2, <2>1 DEF Typed
    <3>2. stack[w][i].node \in Node
      BY <3>1 DEF Frame
    <3> QED
      BY <1>7, <2>1, <3>2 DEF FrameInPlace
  <2>4. stack[w][i].next <= Len(Uses(stack[w][i]))
    <3>1. CASE i < k
      BY <1>3, <2>1, <3>1 DEF FrameInPlace
    <3>2. CASE i = k
      <4>1. stack[w] # <<>> /\ Top(w) = stack[w][i]
        BY <1>2, <1>3, <3>2 DEF Typed, Top, Last
      <4> QED
        BY <1>6, <4>1 DEF Working, Pending
    <3> QED
      BY <1>3, <3>1, <3>2
  <2> QED
    BY <1>1, <1>5, <2>1, <2>2, <2>3, <2>4, FrameStays
<1>10. FrameInPlace(w, k + 1)'
  <2>1. k + 1 = 1 <=> ~ Working(w)
    <3>1. stack[w] = <<>> <=> k = 0
      BY <1>2, <1>3 DEF Typed
    <3> QED
      BY <1>3, <3>1 DEF Working
  <2>2. ASSUME k + 1 # 1
        PROVE  Asks(stack[w][k + 1 - 1])' = Answered(w)
    <3>1. k + 1 - 1 = k /\ k \in 1..k
      BY <2>2
    <3>2. stack'[w][k] = stack[w][k] /\ Top(w) = stack[w][k] /\ Working(w)
      BY <1>2, <1>3, <1>5, <2>1, <2>2, <3>1 DEF Typed, Top, Last
    <3>3. Asks(stack[w][k])' = Asks(stack[w][k])
      BY <1>1, <3>2, UsesStay DEF Asks
    <3>4. Asks(stack[w][k]) = Answered(w)
      BY <3>2 DEF Asks, Answered
    <3> QED
      BY <3>1, <3>3, <3>4
  <2>3. k + 1 = 1 => Roots[w][root[w]]' = Answered(w)
    BY <1>1, <2>1 DEF Answered
  <2>4. ~ (k + 1 < Len(stack'[w]))
    BY <1>5
  <2> QED
    BY <1>3, <1>5, <1>6, <1>8, <2>2, <2>3, <2>4 DEF FrameInPlace, Answers, Validates
<1>11. Linked(w)'
  BY <1>5, <1>9, <1>10 DEF Linked
<1>12. CallInPlace(w)' /\ Told(w)'
  BY <1>2 DEF CallInPlace, Told, Calling
<1> QED
  BY <1>11, <1>12

(* A popped frame answers the request that is told its result. *)
LEMMA PopAnswers ==
    ASSUME LockInv, NEW w \in Worker, AnswersOf(w), Release(w) \/ Leave(w)
    PROVE  Answers(Top(w), Answered(w)') /\ (Working(w)' => Pending(w)')
<1> USE DEF AnswersOf
<1>1. /\ pc[w] = "release" /\ stack' = [stack EXCEPT ![w] = Front(@)]
      /\ root' = root /\ body' = body /\ broken' = broken
  BY DEF Release, Leave, At, Goto, program, nodeVars
<1>2. stack[w] # <<>> /\ Typed
  BY <1>1 DEF LockInv, ReleaseWorks, At
<1>3. PICK k \in Nat : k = Len(stack[w])
  BY <1>2 DEF Typed
<1>4. /\ k \in 1..k /\ Top(w) = stack[w][k]
      /\ Len(stack'[w]) = k - 1 /\ (stack'[w] = <<>> <=> k = 1)
      /\ \A i \in 1..k - 1 : stack'[w][i] = stack[w][i]
  BY <1>1, <1>2, <1>3, PopFrame
<1>6. FrameInPlace(w, k)
  BY <1>3, <1>4 DEF Linked
<1>8. CASE k = 1
  <2>1. Answered(w)' = Roots[w][root[w]] /\ ~ Working(w)'
    BY <1>1, <1>4, <1>8 DEF Answered, Working
  <2> QED
    BY <1>4, <1>6, <1>8, <2>1 DEF FrameInPlace
<1>9. CASE k # 1
  <2>1. k - 1 \in 1..k - 1 /\ k - 1 \in 1..k /\ k - 1 < k
    BY <1>4, <1>9
  <2>2. Top(w)' = stack[w][k - 1] /\ Working(w)'
    BY <1>4, <1>9, <2>1 DEF Top, Last, Working
  <2>3. Uses(Top(w))' = Uses(stack[w][k - 1])
    BY <1>1, <2>2, UsesStay DEF Uses, Has, Validates
  <2>4. Answered(w)' = Asks(stack[w][k - 1])
    BY <2>2, <2>3 DEF Answered, Asks
  <2>5. Answers(Top(w), Asks(stack[w][k - 1]))
    BY <1>4, <1>6, <1>9 DEF FrameInPlace
  <2>6. FrameInPlace(w, k - 1)
    BY <1>3, <2>1 DEF Linked
  <2>7. stack[w][k - 1].next <= Len(Uses(stack[w][k - 1]))
    BY <1>3, <2>1, <2>6 DEF FrameInPlace
  <2> QED
    BY <2>2, <2>3, <2>4, <2>5, <2>7 DEF Pending
<1> QED
  BY <1>8, <1>9

(* What a popped frame was told is told the request it answers. *)
LEMMA PopStep ==
    ASSUME LockInv, NEW w \in Worker, AnswersOf(w), Release(w) \/ Leave(w)
    PROVE  AnswersOf(w)'
<1> USE DEF AnswersOf
<1>1. /\ pc[w] = "release" /\ pc' = [pc EXCEPT ![w] = "return"]
      /\ stack' = [stack EXCEPT ![w] = Front(@)]
      /\ root' = root /\ body' = body /\ broken' = broken /\ owner' = owner
      /\ state' = state /\ hasValue' = hasValue /\ call' = call
      /\ (Top(w).job = "walk") \/ ret' = ret
  BY DEF Release, Leave, At, Goto, program, nodeVars
<1>2. stack[w] # <<>> /\ Typed /\ pc'[w] = "return"
  BY <1>1 DEF LockInv, ReleaseWorks, At, Typed
<1>3. PICK k \in Nat : k = Len(stack[w])
  BY <1>2 DEF Typed
<1>4. /\ k \in 1..k /\ Top(w) = stack[w][k]
      /\ Len(stack'[w]) = k - 1
      /\ \A i \in 1..k - 1 : stack'[w][i] = stack[w][i]
      /\ \A i \in 1..k - 1 : i \in 1..k
  BY <1>1, <1>2, <1>3, PopFrame
<1>5. Linked(w)'
  <2> SUFFICES ASSUME NEW i \in 1..k - 1 PROVE FrameInPlace(w, i)'
    BY <1>4 DEF Linked
  <2>1. FrameInPlace(w, i) /\ i \in 1..Len(stack[w]) /\ stack'[w][i] = stack[w][i]
    BY <1>3, <1>4 DEF Linked
  <2>2. i # 1 => stack'[w][i - 1] = stack[w][i - 1]
    <3>1. i # 1 => i - 1 \in 1..k - 1
      BY <1>3
    <3> QED
      BY <1>4, <3>1
  <2>3. /\ stack[w][i].job # "walk" => owner'[stack[w][i].node] = Id[w]
        /\ stack[w][i].next <= Len(Uses(stack[w][i]))
    <3>1. i < Len(stack[w])
      BY <1>3
    <3> QED
      BY <1>1, <2>1, <3>1 DEF FrameInPlace
  <2> QED
    BY <1>1, <2>1, <2>2, <2>3, FrameStays
<1>6. Answers(Top(w), Answered(w)') /\ (Working(w)' => Pending(w)')
  BY PopAnswers
<1>7. Told(w)'
  <2>1. CASE Top(w).job = "walk"
    BY <1>2, <1>6, <2>1 DEF Told, Delivered, Answers
  <2>2. CASE Top(w).job # "walk"
    <3>1. ret'[w] = "OK" => Delivered(Top(w))
      BY <1>1, <2>2 DEF Told
    <3> QED
      BY <1>1, <1>2, <1>6, <3>1 DEF Told, Delivered, Answers, Usable
  <2> QED
    BY <2>1, <2>2
<1> QED
  BY <1>2, <1>5, <1>6, <1>7 DEF CallInPlace, Calling

LEMMA AnswerStep ==
    ASSUME OneThread, LockInv, Kept, AnswerInv, NEW w \in Worker, Step(w)
    PROVE  AnswerInv'
<1>1. AnswersOf(w)
  BY DEF AnswerInv, AnswersOf
<1>2. AnswersOf(w)'
  BY <1>1, FlatStep, MoveOnStep, PushStep, PopStep DEF Step, Quiet, Edit
<1>3. \A v \in Worker : v = w
  BY DEF OneThread
<1> QED
  BY <1>2, <1>3 DEF AnswerInv, AnswersOf

LEMMA AnswerInvariant == OneThread => (Spec => [](LockInv /\ Kept /\ AnswerInv))
<1>1. SUFFICES ASSUME OneThread PROVE Spec => [](LockInv /\ Kept /\ AnswerInv)
  OBVIOUS
<1>2. Init => AnswerInv
  BY DEF Init, AnswerInv, Linked, CallInPlace, Told, Calling
<1>3. LockInv /\ Kept /\ AnswerInv /\ [Next]_vars => AnswerInv'
  <2> SUFFICES ASSUME LockInv, Kept, AnswerInv, [Next]_vars PROVE AnswerInv'
    OBVIOUS
  <2>1. CASE UNCHANGED vars
    <3>1. UNCHANGED <<stack, owner, body, broken, root, pc, call, ret, state, hasValue>>
      BY <2>1 DEF vars, program, nodeVars, threadVars
    <3>2. ASSUME NEW w \in Worker PROVE Linked(w)' /\ CallInPlace(w)' /\ Told(w)'
      <4>1. /\ Linked(w)' /\ Answered(w)' = Answered(w) /\ Top(w)' = Top(w)
            /\ Working(w)' <=> Working(w)
            /\ Pending(w)' <=> Pending(w)
            /\ \A n : OnStack(w, n)' <=> OnStack(w, n)
        BY <3>1, FlatKeeps DEF AnswerInv
      <4> QED
        BY <3>1, <4>1 DEF AnswerInv, CallInPlace, Told, Delivered, Usable
    <3> QED
      BY <3>2 DEF AnswerInv
  <2>2. CASE Next
    BY <1>1, <2>2, AnswerStep DEF Next
  <2> QED
    BY <2>1, <2>2
<1> QED
  BY <1>2, <1>3, KeptInvariant, PTL DEF Spec

(* "If its true, we basicly have no other choice then to be in recursion"   *)
(* (acquireNode): a single thread reports a circular dependency only of a   *)
(* definition it is working on, in every program.                           *)
THEOREM CircularAlwaysReal == OneThread => (Spec => CircularIsReal)
<1>1. SUFFICES ASSUME OneThread PROVE Spec => CircularIsReal
  OBVIOUS
<1>2. LockInv /\ AnswerInv /\ [Next]_vars =>
        [\A w \in Worker : \A n \in Node : <<w, n>> \in circular' \ circular => OnStack(w, n)]_vars
  <2> SUFFICES ASSUME AnswerInv, Next, NEW w \in Worker, NEW n \in Node,
                      <<w, n>> \in circular' \ circular
               PROVE  OnStack(w, n)
    BY DEF vars, program, nodeVars, threadVars, history
  <2>1. PICK v \in Worker : Step(v)
    BY DEF Next
  <2>2. Circular(v)
    BY <2>1, Changes
  <2>3. w = v /\ n = call[v].node /\ pc[v] = "owner"
    BY <2>2 DEF Circular, At
  <2> QED
    BY <2>3 DEF AnswerInv, CallInPlace
<1>3. Spec => [](LockInv /\ AnswerInv)
  BY <1>1, AnswerInvariant, PTL
<1> QED
  BY <1>2, <1>3, PTL DEF Spec, CircularIsReal

(* A single thread is told OK only of a definition that is ready for what   *)
(* it asked (ensureValidated, eval and ensureTypeInfoReady, through every   *)
(* nesting and every error), and never waits for itself.                    *)
THEOREM OkAlwaysReady ==
    OneThread => (Spec => [](OkMeansReady /\ \A w \in Worker : pc[w] # "wait"))
<1>1. SUFFICES ASSUME OneThread
               PROVE  Spec => [](OkMeansReady /\ \A w \in Worker : pc[w] # "wait")
  OBVIOUS
<1>2. AnswerInv => OkMeansReady /\ \A w \in Worker : pc[w] # "wait"
  BY DEF AnswerInv, Told, CallInPlace, OkMeansReady, At
<1>3. Spec => []AnswerInv
  BY <1>1, AnswerInvariant, PTL
<1> QED
  BY <1>2, <1>3, PTL

-----------------------------------------------------------------------------
(***************************************************************************)
(* What a validated definition rests on.  The places a validation has gone  *)
(* past hold usable definitions, or types an error was met in; those of a   *)
(* function's statements may hold anything once one of them has failed.  An *)
(* error on its way up leaves its trace in each definition it goes through. *)
(***************************************************************************)

InPrototype(m) == Usable(m) \/ m \in Type \cap faulty
InBody(n, m) == InPrototype(m) \/ n \in Fcn \cap faulty

Complete(n) ==
    /\ \A k \in 1..Len(Signature[n]) : InPrototype(Signature[n][k])
    /\ \A k \in 1..Len(body[n]) : InBody(n, body[n][k])

FrameRests(f) ==
    LET n == f.node IN
    Validates(f) =>
        /\ f.part = "nothing" => Complete(n)
        /\ \A k \in 1..Len(Signature[n]) :
             (f.part = "signature" /\ k < f.next) \/ f.part = "body" =>
               InPrototype(Signature[n][k])
        /\ \A k \in 1..Len(body[n]) :
             f.part = "body" /\ k < f.next => InBody(n, body[n][k])

ErrorsTold(w) ==
    ret[w] = "ERROR" =>
        /\ pc[w] = "release" => Top(w).node \in faulty
        /\ pc[w] = "return" => Answered(w).node \in faulty

RestInv ==
    /\ \A n \in Node : state[n] = VALIDATED => Complete(n)
    /\ \A w \in Worker : /\ ErrorsTold(w)
                         /\ \A i \in 1..Len(stack[w]) : FrameRests(stack[w][i])

(* What a definition uses, place by place. *)
LEMMA Places ==
    ASSUME NEW S, NEW s \in Seq(S)
    PROVE  ToSet(s) = {s[k] : k \in 1..Len(s)}
<1>1. DOMAIN s = 1..Len(s)
  OBVIOUS
<1> QED
  BY <1>1 DEF ToSet

LEMMA UsesOf ==
    ASSUME Typed, NEW f \in Frame, Validates(f)
    PROVE  /\ Len(body[f.node]) \in Nat /\ Len(Signature[f.node]) \in Nat
           /\ body[f.node] \in Seq(Node) /\ Signature[f.node] \in Seq(Node)
           /\ f.part = "signature" =>
                /\ Len(Uses(f)) = Len(Signature[f.node])
                /\ \A k \in 1..Len(Signature[f.node]) : Uses(f)[k] = Validate(Signature[f.node][k])
           /\ f.part = "body" =>
                /\ Len(Uses(f)) = Len(body[f.node])
                /\ \A k \in 1..Len(body[f.node]) : Uses(f)[k] = Validate(body[f.node][k])
           /\ f.part = "nothing" => Len(Uses(f)) = 0
<1>1. f.node \in Node
  BY DEF Frame
<1>2. body[f.node] \in Seq(Node) /\ Signature[f.node] \in Seq(Node)
  BY <1>1, NodeAssumption DEF Typed
<1> DEFINE Needs(s) == [i \in DOMAIN s |-> Validate(s[i])]
<1>3. ASSUME NEW s \in Seq(Node)
      PROVE  Len(s) \in Nat /\ Len(Needs(s)) = Len(s) /\ \A k \in 1..Len(s) : Needs(s)[k] = Validate(s[k])
  <2>1. Len(s) \in Nat /\ DOMAIN s = 1..Len(s)
    OBVIOUS
  <2>2. DOMAIN Needs(s) = 1..Len(s)
    BY <2>1
  <2>3. Needs(s) \in Seq({Validate(s[i]) : i \in 1..Len(s)})
    BY <2>1, <2>2, IsASeq
  <2>4. Len(Needs(s)) = Len(s)
    BY <2>1, <2>2, <2>3
  <2> QED
    BY <2>1, <2>4
<1>4. /\ f.part = "signature" => Uses(f) = Needs(Signature[f.node])
      /\ f.part = "body" => Uses(f) = Needs(body[f.node])
      /\ f.part = "nothing" => Uses(f) = <<>>
  BY DEF Uses, Validates, Needs
<1> HIDE DEF Needs
<1> QED
  BY <1>2, <1>3, <1>4
LEMMA UsableStays ==
    ASSUME LockInv, Kept, NEW w \in Worker, AnswersOf(w), Step(w), NEW n \in Node, Usable(n)
    PROVE  Usable(n)'
<1> DEFINE least == IF n \in Fcn THEN TYPE_READY ELSE ABI_READY
<1>2. SUFFICES ASSUME state[n] >= least PROVE state'[n] >= least
  BY DEF Usable
<1>3. CASE SignatureReady(w)
  <2>1. stack[w] # <<>> /\ Top(w).part = "signature"
    BY <1>3 DEF SignatureReady, Working
  <2>2. FrameInPlace(w, Len(stack[w])) /\ Top(w) = stack[w][Len(stack[w])]
    BY <2>1, TopIsFrame DEF AnswersOf, Linked, LockInv
  <2>3. Top(w).node \in Fcn
    BY <2>1, <2>2 DEF FrameInPlace
  <2>4. state' = [state EXCEPT ![Top(w).node] = TYPE_READY]
    BY <1>3 DEF SignatureReady
  <2> QED
    BY <1>2, <2>3, <2>4 DEF Kept, TYPE_READY
<1>4. CASE Finish(w)
  <2>1. state' = state \/ \E r \in {ABI_READY, VALIDATED} : state' = [state EXCEPT ![Top(w).node] = r]
    BY <1>4 DEF Finish
  <2>2. PICK r : r \in {ABI_READY, VALIDATED} /\ state'[n] \in {state[n], r}
    <3>1. state \in [Node -> {UNRESOLVED, TYPE_READY, ABI_READY, VALIDATED}]
      BY DEF Kept
    <3>2. CASE state' = state
      BY <3>2
    <3>3. ASSUME NEW q \in {ABI_READY, VALIDATED}, state' = [state EXCEPT ![Top(w).node] = q]
          PROVE  state'[n] \in {state[n], q}
      BY <3>1, <3>3, Zenon
    <3> QED
      BY <2>1, <3>2, <3>3, Zenon
  <2>3. r >= least
    BY <2>2 DEF TYPE_READY, ABI_READY, VALIDATED
  <2> QED
    BY <1>2, <2>2, <2>3
<1>5. CASE ~ SignatureReady(w) /\ ~ Finish(w)
  <2>1. state' = state
    BY <1>5, Changes
  <2> QED
    BY <1>2, <2>1
<1> QED
  BY <1>3, <1>4, <1>5

LEMMA CompleteStays ==
    ASSUME LockInv, Kept, NEW w \in Worker, AnswersOf(w), Step(w), NEW n \in Node
    PROVE  /\ \A m \in Node : InPrototype(m) => InPrototype(m)'
           /\ \A m \in Node : InBody(n, m) => InBody(n, m)'
           /\ Complete(n) => Complete(n)'
<1>1. \A m \in Node : InPrototype(m) => InPrototype(m)'
  BY UsableStays, FaultyGrows DEF InPrototype
<1>2. \A m \in Node : InBody(n, m) => InBody(n, m)'
  BY <1>1, FaultyGrows DEF InBody
<1>3. Signature[n] \in Seq(Node) /\ body[n] \in Seq(Node) /\ body' = body
  BY ProgramStays, NodeAssumption DEF LockInv, Typed
<1>4. /\ \A k \in 1..Len(Signature[n]) : Signature[n][k] \in Node
      /\ \A k \in 1..Len(body[n]) : body[n][k] \in Node
  BY <1>3
<1> QED
  BY <1>1, <1>2, <1>3, <1>4, Zenon DEF Complete

LEMMA FrameRestsStays ==
    ASSUME LockInv, Kept, NEW w \in Worker, AnswersOf(w), Step(w), NEW f \in Frame, FrameRests(f)
    PROVE  FrameRests(f)'
<1>1. PICK n \in Node : n = f.node
  BY DEF Frame
<1>2. /\ \A m \in Node : InPrototype(m) => InPrototype(m)'
      /\ \A m \in Node : InBody(n, m) => InBody(n, m)'
      /\ Complete(n) => Complete(n)'
  BY CompleteStays
<1>3. Signature[n] \in Seq(Node) /\ body[n] \in Seq(Node) /\ body' = body
  BY ProgramStays, NodeAssumption DEF LockInv, Typed
<1>4. /\ \A k \in 1..Len(Signature[n]) : Signature[n][k] \in Node
      /\ \A k \in 1..Len(body[n]) : body[n][k] \in Node
  BY <1>3
<1>5. /\ Validates(f) /\ f.part = "nothing" => Complete(n)
      /\ \A k \in 1..Len(Signature[n]) :
           Validates(f) /\ ((f.part = "signature" /\ k < f.next) \/ f.part = "body") =>
             InPrototype(Signature[n][k])
      /\ \A k \in 1..Len(body[n]) :
           Validates(f) /\ f.part = "body" /\ k < f.next => InBody(n, body[n][k])
  BY <1>1 DEF FrameRests
<1>6. /\ Validates(f) /\ f.part = "nothing" => Complete(n)'
      /\ \A k \in 1..Len(Signature[n]) :
           Validates(f) /\ ((f.part = "signature" /\ k < f.next) \/ f.part = "body") =>
             InPrototype(Signature[n][k])'
      /\ \A k \in 1..Len(body[n]) :
           Validates(f) /\ f.part = "body" /\ k < f.next => InBody(n, body[n][k])'
  <2>1. ASSUME NEW k \in 1..Len(Signature[n]), InPrototype(Signature[n][k])
        PROVE  InPrototype(Signature[n][k])'
    <3>1. PICK m \in Node : m = Signature[n][k]
      BY <1>4
    <3>2. InPrototype(m)'
      BY <1>2, <2>1, <3>1
    <3> QED
      BY <3>1, <3>2
  <2>2. ASSUME NEW k \in 1..Len(body[n]), InBody(n, body[n][k])
        PROVE  InBody(n, body[n][k])'
    <3>1. PICK m \in Node : m = body[n][k]
      BY <1>4
    <3>2. InBody(n, m)'
      BY <1>2, <2>2, <3>1
    <3> QED
      BY <1>3, <3>1, <3>2
  <2> QED
    BY <1>2, <1>5, <2>1, <2>2
<1>7. FrameRests(f)' <=>
        (Validates(f) =>
           /\ f.part = "nothing" => Complete(n)'
           /\ \A k \in 1..Len(Signature[n]) :
                (f.part = "signature" /\ k < f.next) \/ f.part = "body" =>
                  InPrototype(Signature[n][k])'
           /\ \A k \in 1..Len(body[n]) :
                f.part = "body" /\ k < f.next => InBody(n, body[n][k])')
  BY <1>1, <1>3 DEF FrameRests, Validates, Complete, InPrototype, InBody, Usable
<1> QED
  BY <1>6, <1>7

(* What a caller is told is enough to rest on, an error of a type included. *)
LEMMA AnswerRests ==
    ASSUME Kept, RestInv, NEW w \in Worker, AnswersOf(w), Return(w), NEW m,
           Answered(w) = Validate(m)
    PROVE  InPrototype(m)
<1>1. pc[w] = "return" /\ (ret[w] = "OK" \/ ErrorDropped(w))
  BY DEF Return, At
<1>2. Answered(w).node = m /\ Answered(w).job = "validate"
  BY DEF Validate
<1>3. CASE ret[w] = "OK"
  BY <1>1, <1>2, <1>3 DEF AnswersOf, Told, Delivered, InPrototype
<1>4. CASE ret[w] # "OK"
  <2>1. ret[w] = "ERROR" /\ ErrorsTold(w) /\ Answered(w).node \in Type
    BY <1>1, <1>4 DEF Kept, RestInv, ErrorDropped
  <2> QED
    BY <1>1, <1>2, <2>1 DEF ErrorsTold, InPrototype
<1> QED
  BY <1>3, <1>4

(* A frame that moves on rests on what it has gone past. *)
LEMMA MovedRests ==
    ASSUME LockInv, Kept, RestInv, NEW w \in Worker, AnswersOf(w), Edit(w), Step(w),
           NEW g \in Frame, g = Top(w), FrameRests(g), NEW f \in Frame, Moves(w, f)
    PROVE  FrameRests(f)'
<1>1. f.node = g.node /\ f.job = g.job /\ (Validates(f) <=> Validates(g))
  BY DEF Moves, Validates
<1>2. CASE ~ Validates(g)
  BY <1>1, <1>2 DEF FrameRests, Validates
<1>3. CASE Validates(g)
  <2>1. PICK n \in Node : n = g.node /\ n = f.node
    BY <1>1 DEF Frame
  <2>2. /\ Len(body[n]) \in Nat /\ Len(Signature[n]) \in Nat
        /\ g.part = "signature" =>
             /\ Len(Uses(g)) = Len(Signature[n])
             /\ \A j \in 1..Len(Signature[n]) : Uses(g)[j] = Validate(Signature[n][j])
        /\ g.part = "body" =>
             /\ Len(Uses(g)) = Len(body[n])
             /\ \A j \in 1..Len(body[n]) : Uses(g)[j] = Validate(body[n][j])
        /\ g.part = "nothing" => Len(Uses(g)) = 0
    BY <1>3, <2>1, UsesOf DEF LockInv
  <2>3. g.next \in Nat \ {0} /\ f.next \in Nat \ {0} /\ g.part \in {"signature", "body", "nothing"}
    BY DEF Frame
  <2>4. /\ g.part = "nothing" => Complete(n)
        /\ \A k \in 1..Len(Signature[n]) :
             (g.part = "signature" /\ k < g.next) \/ g.part = "body" => InPrototype(Signature[n][k])
        /\ \A k \in 1..Len(body[n]) : g.part = "body" /\ k < g.next => InBody(n, body[n][k])
    BY <1>3, <2>1 DEF FrameRests
  <2>5. CASE SignatureReady(w)
    <3>1. g.part = "signature" /\ ~ (g.next <= Len(Uses(g))) /\ f.part = "body" /\ f.next = 1
      BY <2>5 DEF SignatureReady, Pending, Moves
    <3>2. \A j \in 1..Len(Signature[n]) : j < g.next
      BY <2>2, <2>3, <3>1
    <3>3. \A j \in 1..Len(body[n]) : ~ (j < f.next)
      BY <2>2, <3>1
    <3>4. FrameRests(f)
      BY <2>1, <2>4, <3>1, <3>2, <3>3 DEF FrameRests
    <3> QED
      BY <3>4, FrameRestsStays
  <2>6. CASE Return(w)
    <3>1. f.part = g.part /\ f.next = g.next + 1
      BY <2>6 DEF Moves
    <3>2. Working(w) /\ Answered(w) = Uses(g)[g.next] /\ Pending(w)
      BY <2>6 DEF Return, At, Answered, AnswersOf, CallInPlace
    <3>3. g.part # "nothing"
      BY <2>2, <2>3, <3>2 DEF Pending
    <3>4. \A j \in Nat : j < f.next => j < g.next \/ j = g.next
      BY <2>3, <3>1
    <3>5. ASSUME NEW j \in 1..Len(Signature[n]), g.part = "signature", j < f.next
          PROVE  InPrototype(Signature[n][j])
      <4>1. CASE j < g.next
        BY <2>4, <3>5, <4>1
      <4>2. CASE j = g.next
        <5>1. Answered(w) = Validate(Signature[n][j])
          BY <2>2, <3>2, <3>5, <4>2
        <5> QED
          BY <2>6, <5>1, AnswerRests
      <4> QED
        BY <2>2, <3>4, <3>5, <4>1, <4>2
    <3>6. ASSUME NEW j \in 1..Len(body[n]), g.part = "body", j < f.next
          PROVE  InBody(n, body[n][j])
      <4>1. CASE j < g.next
        BY <2>4, <3>6, <4>1
      <4>2. CASE j = g.next
        <5>1. Answered(w) = Validate(body[n][j])
          BY <2>2, <3>2, <3>6, <4>2
        <5> QED
          BY <2>6, <5>1, AnswerRests DEF InBody
      <4> QED
        BY <2>2, <3>4, <3>6, <4>1, <4>2
    <3>7. FrameRests(f)
      BY <2>1, <2>4, <3>1, <3>3, <3>5, <3>6 DEF FrameRests
    <3> QED
      BY <3>7, FrameRestsStays
  <2>7. CASE StatementFails(w)
    <3>1. g.part = "body" /\ f.part = "body" /\ n \in Fcn /\ n \in faulty' /\ body' = body
      BY <2>1, <2>7 DEF StatementFails, InStatements, Moves, program
    <3>2. \A k \in 1..Len(Signature[n]) : Signature[n][k] \in Node
      BY NodeAssumption
    <3>3. \A k \in 1..Len(Signature[n]) : InPrototype(Signature[n][k])'
      BY <2>4, <3>1, <3>2, CompleteStays
    <3>4. \A m : InBody(n, m)'
      BY <3>1 DEF InBody
    <3>5. FrameRests(f)' <=>
            (Validates(f) =>
               /\ \A k \in 1..Len(Signature[n]) : InPrototype(Signature[n][k])'
               /\ \A k \in 1..Len(body[n]) : k < f.next => InBody(n, body[n][k])')
      BY <2>1, <3>1 DEF FrameRests, Validates, InPrototype, InBody, Usable
    <3> QED
      BY <3>3, <3>4, <3>5
  <2> QED
    BY <2>5, <2>6, <2>7 DEF Edit
<1> QED
  BY <1>2, <1>3

(* A validation that begins has gone past nothing. *)
LEMMA BegunRests ==
    ASSUME LockInv, Kept, RestInv, NEW r \in Request
    PROVE  FrameRests(Begun(r))
<1>1. PICK f \in Frame, n \in Node :
        f = Begun(r) /\ f.node = n /\ f.job = r.job /\ f.part = FirstPart(r.job, n) /\ f.next = 1
  BY BegunIsFrame DEF Request
<1>2. CASE ~ Validates(f)
  BY <1>1, <1>2 DEF FrameRests
<1>3. CASE Validates(f)
  <2>1. /\ f.part = "nothing" => state[n] = VALIDATED
        /\ f.part = "body" => n \notin Fcn
    BY <1>1, <1>3 DEF FirstPart, Validates
  <2>2. f.part = "nothing" => Complete(n)
    BY <2>1 DEF RestInv
  <2>3. f.part = "body" => Len(Signature[n]) = 0
    BY <2>1, NodeAssumption
  <2>4. Len(Signature[n]) \in Nat /\ Len(body[n]) \in Nat
    BY NodeAssumption DEF LockInv, Typed
  <2>5. \A j \in 1..Len(Signature[n]) : ~ (j < 1) /\ f.part # "body"
    BY <2>3, <2>4
  <2>6. \A j \in 1..Len(body[n]) : ~ (j < 1)
    BY <2>4
  <2>7. FrameRests(f)
    BY <1>1, <2>2, <2>5, <2>6 DEF FrameRests
  <2> QED
    BY <1>1, <2>7
<1> QED
  BY <1>2, <1>3

LEMMA FramesRest ==
    ASSUME LockInv, Kept, RestInv, NEW w \in Worker, AnswersOf(w), Step(w)
    PROVE  \A i \in 1..Len(stack'[w]) : FrameRests(stack[w][i])'
<1>0. /\ stack \in [Worker -> Seq(Frame)] /\ Len(stack[w]) \in Nat
      /\ \A i \in 1..Len(stack[w]) : stack[w][i] \in Frame /\ FrameRests(stack[w][i])
  <2>1. stack \in [Worker -> Seq(Frame)] /\ stack[w] \in Seq(Frame)
    BY DEF LockInv, Typed
  <2> QED
    BY <2>1 DEF RestInv
<1>e. ASSUME NEW i, NEW g, g = stack'[w][i], FrameRests(g)' PROVE FrameRests(stack[w][i])'
  BY <1>e DEF FrameRests, Complete, InPrototype, InBody, Usable, Validates
<1>s. ASSUME NEW i, NEW j \in 1..Len(stack[w]), stack'[w][i] = stack[w][j]
      PROVE  FrameRests(stack[w][i])'
  <2>1. PICK g \in Frame : g = stack[w][j] /\ FrameRests(g)
    BY <1>0
  <2>2. FrameRests(g)'
    BY <2>1, FrameRestsStays
  <2> QED
    BY <1>e, <1>s, <2>1, <2>2
<1>1. CASE Quiet(w) \/ Claim(w)
  <2>1. stack' = stack
    BY <1>1 DEF Quiet, CallRoot, UnitDone, CallUse, OwnError, Finish, AlreadyReady, NotReady, Claim,
           ClaimFails, Circular, SomebodyElses, WaitEnds, ReturnError, ReturnToUnit
  <2> QED
    BY <1>s, <2>1
<1>2. CASE Edit(w)
  <2>1. PICK k \in Nat, f \in Frame :
          /\ k = Len(stack[w]) /\ k \in 1..k /\ stack[w][k] \in Frame /\ Top(w) = stack[w][k]
          /\ Moves(w, f)
          /\ Len(stack'[w]) = k /\ stack'[w][k] = f
          /\ \A i \in 1..k : i # k => stack'[w][i] = stack[w][i]
    BY <1>2, TopMovesOn, ZenonT(60)
  <2>2. PICK g \in Frame : g = stack[w][k] /\ FrameRests(g) /\ g = Top(w)
    BY <1>0, <2>1
  <2>3. FrameRests(f)'
    BY <1>2, <2>1, <2>2, MovedRests
  <2>4. FrameRests(stack[w][k])'
    BY <1>e, <2>1, <2>3
  <2>5. \A i \in 1..k : i # k => FrameRests(stack[w][i])'
    BY <1>s, <2>1
  <2> QED
    BY <2>1, <2>4, <2>5
<1>3. CASE RecordOwner(w) \/ EnterWalk(w)
  <2>1. call[w] \in Request /\ stack' = [stack EXCEPT ![w] = Append(@, Begun(call[w]))]
    BY <1>3 DEF RecordOwner, EnterWalk, At, LockInv, Typed
  <2>2. PICK f \in Frame, k \in Nat : f = Begun(call[w]) /\ k = Len(stack[w]) /\ FrameRests(f)
    BY <1>0, <2>1, BegunIsFrame, BegunRests
  <2>3. Pushed(w, f, k)
    BY <2>1, <2>2, PushFrame DEF LockInv
  <2>4. /\ Len(stack'[w]) = k + 1 /\ stack'[w][k + 1] = f
        /\ \A i \in 1..k : stack'[w][i] = stack[w][i]
        /\ \A i \in 1..k + 1 : i = k + 1 \/ i \in 1..k
    BY <2>3 DEF Pushed
  <2>5. FrameRests(f)'
    BY <2>2, FrameRestsStays
  <2>6. FrameRests(stack[w][k + 1])'
    BY <1>e, <2>4, <2>5
  <2>7. \A i \in 1..k : FrameRests(stack[w][i])'
    BY <1>s, <2>2, <2>4
  <2> QED
    BY <2>4, <2>6, <2>7
<1>4. CASE Release(w) \/ Leave(w)
  <2>1. stack[w] # <<>> /\ stack' = [stack EXCEPT ![w] = Front(@)]
    BY <1>4 DEF Release, Leave, At, LockInv, ReleaseWorks
  <2>2. PICK k \in Nat : k = Len(stack[w])
    BY <1>0
  <2>3. /\ Len(stack'[w]) = k - 1
        /\ \A i \in 1..k - 1 : stack'[w][i] = stack[w][i]
        /\ \A i \in 1..k - 1 : i \in 1..k
    BY <2>1, <2>2, PopFrame DEF LockInv
  <2> QED
    BY <1>s, <2>2, <2>3
<1> QED
  BY <1>1, <1>2, <1>3, <1>4 DEF Step, Quiet, Edit

LEMMA ErrorsTell ==
    ASSUME LockInv, Kept, RestInv, NEW w \in Worker, AnswersOf(w), Step(w)
    PROVE  ErrorsTold(w)'
<1>0. /\ pc \in [Worker -> {"next", "check", "claim", "own", "owner", "wait",
                            "release", "return", "done", "failed"}]
      /\ ret \in [Worker -> {"OK", "ERROR"}] /\ ErrorsTold(w)
      /\ body' = body /\ broken' = broken
  BY ProgramStays DEF LockInv, Typed, Kept, RestInv
<1>1. CASE OwnError(w) \/ ReturnError(w)
  <2>1. pc'[w] = "release" /\ Top(w)' = Top(w) /\ Top(w).node \in faulty'
    BY <1>0, <1>1 DEF OwnError, ReturnError, Goto, Top
  <2> QED
    BY <2>1 DEF ErrorsTold
<1>2. CASE Circular(w)
  <2>1. /\ pc[w] = "owner" /\ pc'[w] = "return" /\ stack' = stack /\ root' = root
        /\ call[w].node \in faulty'
    BY <1>0, <1>2 DEF Circular, At, Goto
  <2>2. call[w] = Answered(w)
    BY <2>1 DEF AnswersOf, CallInPlace, Calling
  <2>3. Answered(w)' = Answered(w)
    BY <1>0, <2>1, UsesStay DEF Answered, Top, Working
  <2> QED
    BY <2>1, <2>2, <2>3 DEF ErrorsTold
<1>3. CASE Release(w)
  <2>1. /\ pc[w] = "release" /\ pc'[w] = "return" /\ ret' = ret /\ faulty' = faulty
    BY <1>0, <1>3 DEF Release, At, Goto, history
  <2>2. Answers(Top(w), Answered(w)')
    BY <1>3, PopAnswers
  <2> QED
    BY <1>0, <2>1, <2>2 DEF ErrorsTold, Answers
<1>4. CASE AlreadyReady(w) \/ WaitEnds(w) \/ Finish(w) \/ Leave(w)
  <2>1. ret'[w] = "OK"
    BY <1>0, <1>4 DEF AlreadyReady, WaitEnds, Finish, Leave
  <2> QED
    BY <2>1 DEF ErrorsTold
<1>5. CASE \/ CallRoot(w) \/ UnitDone(w) \/ CallUse(w) \/ SignatureReady(w) \/ NotReady(w)
           \/ Claim(w) \/ ClaimFails(w) \/ RecordOwner(w) \/ EnterWalk(w) \/ SomebodyElses(w)
           \/ Return(w) \/ StatementFails(w) \/ ReturnToUnit(w)
  <2>1. pc'[w] \notin {"release", "return"}
    BY <1>0, <1>5 DEF CallRoot, UnitDone, CallUse, SignatureReady, NotReady, Claim, ClaimFails,
           RecordOwner, EnterWalk, SomebodyElses, Return, StatementFails, ReturnToUnit, Goto, At
  <2> QED
    BY <2>1 DEF ErrorsTold
<1> QED
  BY <1>1, <1>2, <1>3, <1>4, <1>5 DEF Step

(* A validation that ends has seen to all the definition uses. *)
LEMMA FinishedIsComplete ==
    ASSUME LockInv, RestInv, NEW w \in Worker, Finish(w), Validates(Top(w))
    PROVE  Top(w).node \in Node /\ Complete(Top(w).node)
<1>1. stack[w] # <<>> /\ ~ Pending(w) /\ Top(w).part # "signature"
  BY DEF Finish, Working
<1>2. PICK f \in Frame : f = Top(w) /\ FrameRests(f)
  <2>1. /\ Len(stack[w]) \in 1..Len(stack[w]) /\ Top(w) = stack[w][Len(stack[w])]
        /\ Top(w) \in Frame
    BY <1>1, TopIsFrame DEF LockInv
  <2> QED
    BY <2>1 DEF RestInv
<1>3. PICK n \in Node : f.node = n
  BY DEF Frame
<1>4. /\ f.next \in Nat /\ f.part \in {"body", "nothing"} /\ ~ (f.next <= Len(Uses(f)))
      /\ Typed /\ Validates(f)
  BY <1>1, <1>2 DEF Frame, Pending, LockInv
<1>5. CASE f.part = "nothing"
  BY <1>2, <1>3, <1>4, <1>5 DEF FrameRests
<1>6. CASE f.part = "body"
  <2>1. Len(Uses(f)) = Len(body[n]) /\ Len(body[n]) \in Nat
    BY <1>3, <1>4, <1>6, UsesOf
  <2>2. \A k \in 1..Len(body[n]) : k < f.next
    BY <1>4, <2>1
  <2> QED
    BY <1>2, <1>3, <1>4, <1>6, <2>2 DEF FrameRests, Complete
<1> QED
  BY <1>4, <1>5, <1>6

(* How the state of a definition changes. *)
LEMMA StateMoves ==
    ASSUME LockInv, Kept, NEW w \in Worker, AnswersOf(w), Step(w), NEW n \in Node
    PROVE  \/ state'[n] = state[n]
           \/ /\ SignatureReady(w) /\ n = Top(w).node /\ Validates(Top(w)) /\ n \in Fcn
              /\ Top(w).part = "signature" /\ Working(w) /\ state'[n] = TYPE_READY
           \/ /\ Finish(w) /\ n = Top(w).node /\ Working(w)
              /\ \/ Top(w).job = "abi" /\ state'[n] = ABI_READY
                 \/ Validates(Top(w)) /\ state'[n] = VALIDATED
<1>0. state \in [Node -> {UNRESOLVED, TYPE_READY, ABI_READY, VALIDATED}]
  BY DEF Kept
<1>1. CASE SignatureReady(w)
  <2>1. stack[w] # <<>> /\ Top(w).part = "signature" /\ Working(w)
    BY <1>1 DEF SignatureReady, Working
  <2>2. FrameInPlace(w, Len(stack[w])) /\ Top(w) = stack[w][Len(stack[w])]
    BY <2>1, TopIsFrame DEF AnswersOf, Linked, LockInv
  <2>3. Validates(Top(w)) /\ Top(w).node \in Fcn
    BY <2>1, <2>2 DEF FrameInPlace
  <2>4. state' = [state EXCEPT ![Top(w).node] = TYPE_READY]
    BY <1>1 DEF SignatureReady
  <2> QED
    BY <1>0, <1>1, <2>1, <2>3, <2>4
<1>2. CASE Finish(w)
  <2>1. Working(w) /\ Top(w).job \in {"validate", "eval", "abi", "walk"}
    BY <1>2, TopIsFrame DEF Finish, Working, LockInv, Frame, Jobs
  <2> QED
    BY <1>0, <1>2, <2>1 DEF Finish, Validates
<1>3. CASE ~ SignatureReady(w) /\ ~ Finish(w)
  BY <1>3, Changes
<1> QED
  BY <1>1, <1>2, <1>3

LEMMA ValidatedRests ==
    ASSUME LockInv, Kept, RestInv, NEW w \in Worker, AnswersOf(w), Step(w), NEW n \in Node,
           state'[n] = VALIDATED
    PROVE  Complete(n)'
<1>1. CASE state[n] = VALIDATED
  BY <1>1, CompleteStays DEF RestInv
<1>2. CASE state[n] # VALIDATED
  <2>1. Finish(w) /\ n = Top(w).node /\ Validates(Top(w))
    BY <1>2, StateMoves DEF TYPE_READY, ABI_READY, VALIDATED
  <2> QED
    BY <2>1, FinishedIsComplete, CompleteStays
<1> QED
  BY <1>1, <1>2

LEMMA RestStep ==
    ASSUME OneThread, LockInv, Kept, RestInv, NEW w \in Worker, AnswersOf(w), Step(w)
    PROVE  RestInv'
<1>1. \A i \in 1..Len(stack'[w]) : FrameRests(stack[w][i])'
  BY FramesRest
<1>2. \A v \in Worker : v = w
  BY DEF OneThread
<1>3. ErrorsTold(w)' /\ \A n \in Node : state'[n] = VALIDATED => Complete(n)'
  BY ErrorsTell, ValidatedRests
<1> QED
  BY <1>1, <1>2, <1>3 DEF RestInv

LEMMA RestInvariant == OneThread => (Spec => [](LockInv /\ Kept /\ AnswerInv /\ RestInv))
<1>1. SUFFICES ASSUME OneThread PROVE Spec => [](LockInv /\ Kept /\ AnswerInv /\ RestInv)
  OBVIOUS
<1>2. Init => RestInv
  <2> SUFFICES ASSUME Init PROVE RestInv
    OBVIOUS
  <2>1. \A n \in Node : state[n] # VALIDATED
    BY DEF Init, UNRESOLVED, VALIDATED
  <2>2. \A w \in Worker : pc[w] = "next" /\ Len(stack[w]) = 0 /\ ret[w] = "OK"
    BY DEF Init
  <2> QED
    BY <2>1, <2>2 DEF RestInv, ErrorsTold
<1>3. LockInv /\ Kept /\ AnswerInv /\ RestInv /\ [Next]_vars => RestInv'
  <2> SUFFICES ASSUME LockInv, Kept, AnswerInv, RestInv, [Next]_vars PROVE RestInv'
    OBVIOUS
  <2>1. CASE UNCHANGED vars
    <3>1. UNCHANGED <<stack, body, broken, root, pc, ret, state, faulty>>
      BY <2>1 DEF vars, program, nodeVars, threadVars, history
    <3>3. ASSUME NEW w \in Worker PROVE ErrorsTold(w)'
      <4>1. Answered(w)' = Answered(w) /\ Top(w)' = Top(w)
        BY <3>1, UsesStay DEF Answered, Top, Working
      <4>2. ErrorsTold(w)
        BY DEF RestInv
      <4> QED
        BY <3>1, <4>1, <4>2 DEF ErrorsTold
    <3>4. ASSUME NEW w \in Worker, NEW i \in 1..Len(stack'[w]) PROVE FrameRests(stack[w][i])'
      BY <3>1 DEF RestInv, FrameRests, Complete, InPrototype, InBody, Usable, Validates
    <3>5. \A n \in Node : state'[n] = VALIDATED => Complete(n)'
      BY <3>1 DEF RestInv, Complete, InPrototype, InBody, Usable
    <3> QED
      BY <3>3, <3>4, <3>5 DEF RestInv
  <2>2. CASE Next
    <3>1. PICK w \in Worker : Step(w)
      BY <2>2 DEF Next
    <3>2. AnswersOf(w)
      BY DEF AnswerInv, AnswersOf
    <3> QED
      BY <1>1, <3>1, <3>2, RestStep
  <2> QED
    BY <2>1, <2>2
<1>4. Spec => [](LockInv /\ Kept /\ AnswerInv)
  BY <1>1, AnswerInvariant
<1> QED
  BY <1>2, <1>3, <1>4, PTL DEF Spec

(* A validated definition rests on usable ones, but for the types an error  *)
(* was met in and the statements of a function that failed: no error a      *)
(* validation swallows goes without a trace, in every program.              *)
THEOREM AlwaysRestsOnValidated == OneThread => (Spec => []RestsOnValidated)
<1>1. SUFFICES ASSUME OneThread PROVE Spec => []RestsOnValidated
  OBVIOUS
<1>2. LockInv /\ RestInv => RestsOnValidated
  <2> SUFFICES ASSUME LockInv, RestInv, NEW n \in Node, state[n] = VALIDATED
               PROVE  /\ \A m \in ToSet(Signature[n]) : InPrototype(m)
                      /\ \A m \in ToSet(body[n]) : InBody(n, m)
    BY DEF RestsOnValidated, InPrototype, InBody
  <2>1. Signature[n] \in Seq(Node) /\ body[n] \in Seq(Node)
    BY NodeAssumption DEF LockInv, Typed
  <2>2. /\ ToSet(Signature[n]) = {Signature[n][k] : k \in 1..Len(Signature[n])}
        /\ ToSet(body[n]) = {body[n][k] : k \in 1..Len(body[n])}
    BY <2>1, Places
  <2> QED
    BY <2>2 DEF RestInv, Complete
<1>3. Spec => [](LockInv /\ RestInv)
  BY <1>1, RestInvariant, PTL
<1> QED
  BY <1>2, <1>3, PTL

-----------------------------------------------------------------------------
(***************************************************************************)
(* What the OK of a unit stands for.  A definition of the lists is sound    *)
(* when the list is through with it: it has no error a validation returns,  *)
(* and if no error was met at all, none in its statements either and only   *)
(* usable definitions to rest on.  The walk over the root validates the     *)
(* functions once more, from NS_TYPE_READY on: it cannot fail on a          *)
(* definition of the lists after that.  With no error met, a definition     *)
(* that was started is ready or in work.                                    *)
(***************************************************************************)

Sound(n) ==
    /\ ~ Returned(n)
    /\ faulty = {} => ~ Has(n, "body") /\ Complete(n)

Listed(w, n) == \E j \in 1..root[w] - 1 : Roots[w][j].job = "validate" /\ Roots[w][j].node = n

(* The walk over the root is past the prototype of function n.              *)
Redone(w, n) ==
    /\ n \in Fcn /\ Working(w)
    /\ stack[w][1].job = "walk" /\ stack[w][1].node = n /\ stack[w][1].part = "body"

InUnit(w) ==
    /\ root[w] <= Len(Roots[w]) + 1
    /\ pc[w] \in Calling \cup {"return"} \/ Working(w) => root[w] <= Len(Roots[w])
DoneAtEnd(w) == pc[w] = "done" => root[w] > Len(Roots[w]) /\ ~ Working(w)

(* A frame between those of the stack, and what is called for.              *)
FrameSound(w, i) ==
    LET f == stack[w][i] IN
    /\ f.job = "walk" => i = 1
    /\ ~ Validates(f) => Roots[w][root[w]].job # "validate"
    /\ f.job = "abi" => f.node \in Laid
    /\ Validates(f) /\ f.part = "nothing" => Sound(f.node)
    /\ Validates(f) /\ f.part = "body" => ~ Has(f.node, "signature")
    /\ f.job = "validate" /\ f.part = "signature" => ~ Listed(w, f.node)
CallSound(w) ==
    pc[w] \in {"claim", "own", "owner"} /\ call[w].job = "validate" /\ call[w].node \in Fcn =>
        ~ Listed(w, call[w].node)

(* The work that ends has brought its definition about.                     *)
Brings(w) ==
    /\ pc[w] = "release" /\ Top(w).job # "eval"
          /\ (ret[w] = "OK" \/ (Len(stack[w]) = 1 /\ Redone(w, Top(w).node))) =>
         state[Top(w).node] >= ABI_READY
    /\ pc[w] = "return" /\ ret[w] = "OK" /\ ~ Working(w) /\ Answered(w).job = "validate" =>
         state[Answered(w).node] >= ABI_READY

ListsHold(w) ==
    \A n \in Node : Listed(w, n) =>
        /\ Sound(n) /\ state[n] >= TYPE_READY
        /\ state[n] >= ABI_READY \/ Redone(w, n)

InWork(w, n) ==
    \E i \in 1..Len(stack[w]) : stack[w][i].node = n /\ stack[w][i].job # "eval"
Settled(w, n) == state[n] >= ABI_READY \/ InWork(w, n)
StartedIsSettled(w) ==
    faulty = {} => \A n \in Node : state[n] # UNRESOLVED => Settled(w, n)

StatesSound ==
    \A n \in Node : /\ state[n] >= ABI_READY => Sound(n)
                    /\ state[n] = ABI_READY => n \in Type

CleanOf(w) ==
    /\ InUnit(w) /\ DoneAtEnd(w)
    /\ \A i \in 1..Len(stack[w]) : FrameSound(w, i)
    /\ CallSound(w) /\ Brings(w) /\ ListsHold(w) /\ StartedIsSettled(w)
CleanInv == StatesSound /\ \A w \in Worker : CleanOf(w)

(* What the steps are taken from. *)
CleanBefore(w) == LockInv /\ Kept /\ AnswersOf(w) /\ RestInv /\ StatesSound /\ CleanOf(w)

(* Where the frames come from, and where they go. *)
LEMMA FramesFrom ==
    ASSUME LockInv, NEW w \in Worker, Step(w)
    PROVE  /\ \A i \in 1..Len(stack'[w]) :
                \/ i \in 1..Len(stack[w]) /\ stack'[w][i] = stack[w][i]
                \/ /\ i \in 1..Len(stack[w]) /\ i = Len(stack[w]) /\ Edit(w)
                   /\ Top(w) = stack[w][i] /\ Moves(w, stack'[w][i])
                \/ /\ i = Len(stack[w]) + 1 /\ (RecordOwner(w) \/ EnterWalk(w))
                   /\ stack'[w][i] = Begun(call[w]) /\ call[w] \in Request
           /\ \A i \in 1..Len(stack[w]) :
                \/ i \in 1..Len(stack'[w]) /\ Answers(stack'[w][i], stack[w][i])
                \/ (Release(w) \/ Leave(w)) /\ Top(w) = stack[w][i] /\ i = Len(stack[w])
<1>0. stack \in [Worker -> Seq(Frame)] /\ Len(stack[w]) \in Nat
  BY DEF LockInv, Typed
<1>1. CASE Quiet(w) \/ Claim(w)
  <2>1. stack' = stack
    BY <1>1 DEF Quiet, CallRoot, UnitDone, CallUse, OwnError, Finish, AlreadyReady, NotReady, Claim,
           ClaimFails, Circular, SomebodyElses, WaitEnds, ReturnError, ReturnToUnit
  <2> QED
    BY <2>1 DEF Answers
<1>2. CASE Edit(w)
  <2>1. PICK k \in Nat, f \in Frame :
          /\ k = Len(stack[w]) /\ k \in 1..k /\ Top(w) = stack[w][k] /\ Moves(w, f)
          /\ Len(stack'[w]) = k /\ stack'[w][k] = f
          /\ \A i \in 1..k : i # k => stack'[w][i] = stack[w][i]
    BY <1>2, TopMovesOn, ZenonT(60)
  <2>2. Answers(f, stack[w][k])
    BY <2>1 DEF Moves, Answers
  <2> QED
    BY <1>2, <2>1, <2>2 DEF Answers
<1>3. CASE RecordOwner(w) \/ EnterWalk(w)
  <2>1. call[w] \in Request /\ stack' = [stack EXCEPT ![w] = Append(@, Begun(call[w]))]
    BY <1>3 DEF RecordOwner, EnterWalk, At, LockInv, Typed
  <2>2. PICK f \in Frame, k \in Nat : f = Begun(call[w]) /\ k = Len(stack[w])
    BY <1>0, <2>1, BegunIsFrame
  <2>3. Pushed(w, f, k)
    BY <2>1, <2>2, PushFrame DEF LockInv
  <2> QED
    BY <1>3, <2>1, <2>2, <2>3 DEF Pushed, Answers
<1>4. CASE Release(w) \/ Leave(w)
  <2>1. stack[w] # <<>> /\ stack' = [stack EXCEPT ![w] = Front(@)]
    BY <1>4 DEF Release, Leave, At, LockInv, ReleaseWorks
  <2>2. PICK k \in Nat : k = Len(stack[w])
    BY <1>0
  <2>3. /\ Len(stack'[w]) = k - 1 /\ Top(w) = stack[w][k]
        /\ \A i \in 1..k - 1 : stack'[w][i] = stack[w][i]
        /\ \A i \in 1..k - 1 : i \in 1..k
        /\ \A i \in 1..k : i = k \/ i \in 1..k - 1
    BY <2>1, <2>2, PopFrame DEF LockInv
  <2> QED
    BY <1>4, <2>2, <2>3 DEF Answers
<1> QED
  BY <1>1, <1>2, <1>3, <1>4 DEF Step, Quiet, Edit

(* What is asked for: a validation asks for validations, an evaluation for  *)
(* what Evals says or for itself, a layout for nothing.                     *)
LEMMA WhatIsAsked ==
    ASSUME Typed, NEW f \in Frame, f.next <= Len(Uses(f)),
           f.part = "signature" => Validates(f)
    PROVE  \/ Validates(f) /\ Asks(f).job = "validate"
           \/ f.job = "eval" /\ (Asks(f) = Eval(f.node) \/ Asks(f) \in ToSet(Evals[f.node]))
<1>1. f.next \in Nat /\ f.next >= 1 /\ f.part \in {"signature", "body", "nothing"}
      /\ f.node \in Node /\ f.job \in {"validate", "eval", "abi", "walk"}
  BY DEF Frame, Jobs
<1>2. CASE Validates(f)
  <2>1. /\ Len(body[f.node]) \in Nat /\ Len(Signature[f.node]) \in Nat
        /\ f.part = "signature" =>
                /\ Len(Uses(f)) = Len(Signature[f.node])
                /\ \A k \in 1..Len(Signature[f.node]) : Uses(f)[k] = Validate(Signature[f.node][k])
        /\ f.part = "body" =>
                /\ Len(Uses(f)) = Len(body[f.node])
                /\ \A k \in 1..Len(body[f.node]) : Uses(f)[k] = Validate(body[f.node][k])
        /\ f.part = "nothing" => Len(Uses(f)) = 0
    BY <1>2, UsesOf
  <2>2. PICK m : Asks(f) = Validate(m)
    <3>1. CASE f.part = "signature"
      <4>1. f.next \in 1..Len(Signature[f.node])
        BY <1>1, <2>1, <3>1
      <4> QED
        BY <2>1, <3>1, <4>1, Zenon DEF Asks
    <3>2. CASE f.part = "body"
      <4>1. f.next \in 1..Len(body[f.node])
        BY <1>1, <2>1, <3>2
      <4> QED
        BY <2>1, <3>2, <4>1, Zenon DEF Asks
    <3>3. f.part # "nothing"
      BY <1>1, <2>1
    <3> QED
      BY <1>1, <3>1, <3>2, <3>3
  <2> QED
    BY <1>2, <2>2 DEF Validate
<1>3. CASE ~ Validates(f)
  <2>1. Evals[f.node] \in Seq(Request)
    BY <1>1, NodeAssumption
  <2>2. Uses(f) = IF f.part = "body" /\ f.job = "eval"
                    THEN IF Has(f.node, "initial") THEN <<Eval(f.node)>> ELSE Evals[f.node]
                    ELSE <<>>
    BY <1>1, <1>3 DEF Uses
  <2>3. f.part = "body" /\ f.job = "eval"
    BY <1>1, <2>2
  <2>4. CASE Has(f.node, "initial")
    <3>1. Uses(f) = <<Eval(f.node)>>
      BY <2>2, <2>3, <2>4
    <3>2. f.next = 1
      BY <1>1, <3>1
    <3> QED
      BY <2>3, <3>1, <3>2 DEF Asks
  <2>5. CASE ~ Has(f.node, "initial")
    <3>1. Uses(f) = Evals[f.node]
      BY <2>2, <2>3, <2>5
    <3>2. f.next \in 1..Len(Evals[f.node])
      BY <1>1, <2>1, <3>1
    <3> QED
      BY <2>1, <2>3, <3>1, <3>2, Places DEF Asks
  <2> QED
    BY <2>4, <2>5
<1> QED
  BY <1>2, <1>3

(* The requests made are in order, at the root and below it: a layout is of *)
(* a type laid out, a walk is of a definition of the lists.                 *)
LEMMA CallsInOrder ==
    ASSUME RequestsInOrder, NEW w \in Worker, CleanBefore(w), pc[w] \in Calling
    PROVE  /\ call[w] \in Request /\ call[w] = Answered(w)
           /\ call[w].job = "walk" => ~ Working(w) /\ Listed(w, call[w].node)
           /\ call[w].job = "abi" => call[w].node \in Laid
           /\ call[w].job \in {"eval", "abi"} => Roots[w][root[w]].job # "validate"
<1>0. /\ LockInv /\ Kept /\ AnswersOf(w) /\ CleanOf(w) /\ Typed
  BY DEF CleanBefore, LockInv
<1>1. call[w] \in Request /\ call[w] = Answered(w) /\ (Working(w) => Pending(w))
  BY <1>0 DEF AnswersOf, CallInPlace, Typed, Calling
<1>2. call[w].node \in Node /\ (call[w].job = "abi" => call[w] = Abi(call[w].node))
  BY <1>1 DEF Request, Abi
<1>3. CASE ~ Working(w)
  <2>1. call[w] = Roots[w][root[w]]
    BY <1>1, <1>3 DEF Answered
  <2>2. root[w] \in 1..Len(Roots[w]) /\ Roots[w] \in Seq(Request)
    BY <1>0, NodeAssumption DEF CleanOf, InUnit, Typed
  <2>3. call[w] \in ToSet(Roots[w])
    BY <2>1, <2>2, Places
  <2>4. ASSUME call[w].job = "walk" PROVE Listed(w, call[w].node)
    <3>1. \E j \in 1..root[w] - 1 : Roots[w][j] = Validate(call[w].node)
      BY <2>1, <2>2, <2>4 DEF RequestsInOrder
    <3> QED
      BY <3>1 DEF Listed, Validate
  <2> QED
    BY <1>1, <1>2, <1>3, <2>1, <2>3, <2>4 DEF Laid
<1>4. CASE Working(w)
  <2>1. PICK k \in 1..Len(stack[w]), f \in Frame : f = Top(w) /\ f = stack[w][k]
    BY <1>0, <1>4, TopIsFrame DEF Working
  <2>2. FrameInPlace(w, k) /\ FrameSound(w, k)
    BY <1>0 DEF AnswersOf, Linked, CleanOf
  <2>3. /\ f.next <= Len(Uses(f)) /\ call[w] = Asks(f)
        /\ f.part = "signature" => Validates(f)
    BY <1>1, <1>4, <2>1, <2>2 DEF Pending, Answered, Asks, FrameInPlace
  <2>4. CASE Validates(f) /\ Asks(f).job = "validate"
    BY <1>1, <2>3, <2>4
  <2>5. CASE f.job = "eval" /\ Asks(f) = Eval(f.node)
    BY <1>1, <2>1, <2>2, <2>3, <2>5 DEF Eval, FrameSound, Validates
  <2>6. CASE f.job = "eval" /\ Asks(f) \in ToSet(Evals[f.node])
    <3>1. f.node \in Node
      BY DEF Frame
    <3>2. call[w].job # "walk"
      BY <2>3, <2>6, <3>1, NodeAssumption
    <3>3. call[w].job = "abi" => call[w].node \in Laid
      BY <1>2, <2>3, <2>6, <3>1 DEF Laid
    <3> QED
      BY <1>1, <2>1, <2>2, <2>6, <3>2, <3>3 DEF FrameSound, Validates
  <2> QED
    BY <1>0, <2>3, <2>4, <2>5, <2>6, WhatIsAsked
<1> QED
  BY <1>3, <1>4

LEMMA RootStays ==
    ASSUME LockInv, Kept, NEW w \in Worker, Step(w)
    PROVE  \/ root' = root
           \/ /\ ReturnToUnit(w) /\ pc[w] = "return" /\ ret[w] = "OK" /\ ~ Working(w)
              /\ root'[w] = root[w] + 1 /\ pc'[w] = "next" /\ stack' = stack /\ state' = state
              /\ Answered(w) = Roots[w][root[w]]
<1>1. CASE ReturnToUnit(w)
  BY <1>1 DEF ReturnToUnit, LockInv, Typed, At, Goto, Answered, nodeVars
<1>2. CASE ~ ReturnToUnit(w)
  BY <1>2, Changes
<1> QED
  BY <1>1, <1>2

LEMMA InUnitStep ==
    ASSUME LockInv, Kept, NEW w \in Worker, AnswersOf(w), Step(w), InUnit(w), DoneAtEnd(w)
    PROVE  InUnit(w)' /\ DoneAtEnd(w)'
<1>0. pc \in [Worker -> {"next", "check", "claim", "own", "owner", "wait",
                            "release", "return", "done", "failed"}]
  BY DEF LockInv, Typed
<1>1. CASE CallRoot(w)
  BY <1>0, <1>1 DEF CallRoot, InUnit, DoneAtEnd, Goto, Working
<1>2. CASE UnitDone(w)
  BY <1>0, <1>2 DEF UnitDone, InUnit, DoneAtEnd, Goto, Working, Calling
<1>3. CASE ReturnToUnit(w)
  <2>1. /\ root' \in {root, [root EXCEPT ![w] = root[w] + 1]} /\ pc'[w] \in {"next", "failed"}
        /\ stack' = stack /\ ~ Working(w) /\ pc[w] = "return"
    BY <1>0, <1>3 DEF ReturnToUnit, Goto, At
  <2>2. root \in [Worker -> Nat \ {0}] /\ Roots[w] \in Seq(Request)
    BY NodeAssumption DEF LockInv, Typed
  <2>3. root'[w] <= Len(Roots[w]) + 1
    BY <2>1, <2>2 DEF InUnit
  <2> QED
    BY <2>1, <2>3 DEF InUnit, DoneAtEnd, Working, Calling
<1>4. CASE ~ CallRoot(w) /\ ~ UnitDone(w) /\ ~ ReturnToUnit(w)
  <2>1. pc[w] \in Calling \cup {"return"} \/ Working(w)
    <3>1. pc[w] = "release" => Working(w)
      BY DEF LockInv, ReleaseWorks, At, Working
    <3>2. pc[w] # "wait"
      BY DEF AnswersOf, CallInPlace
    <3> QED
      BY <1>4, <3>1, <3>2 DEF Step, CallRoot, UnitDone, CallUse, SignatureReady, OwnError, Finish, AlreadyReady, NotReady,
                              Claim, ClaimFails, RecordOwner, EnterWalk, Circular, SomebodyElses, WaitEnds, Release,
                              Leave, Return, StatementFails, ReturnError, ReturnToUnit, At, Calling
  <2>2. root' = root
    BY <1>4, Changes
  <2>3. pc'[w] # "done"
    BY <1>0, <1>4 DEF Step, CallRoot, UnitDone, CallUse, SignatureReady, OwnError, Finish, AlreadyReady, NotReady,
                      Claim, ClaimFails, RecordOwner, EnterWalk, Circular, SomebodyElses, WaitEnds, Release,
                      Leave, Return, StatementFails, ReturnError, ReturnToUnit, At, Goto
  <2> QED
    BY <2>1, <2>2, <2>3 DEF InUnit, DoneAtEnd
<1> QED
  BY <1>1, <1>2, <1>3, <1>4

-----------------------------------------------------------------------------
(* What is sound stays sound: an error that was met is not forgotten.       *)
LEMMA SoundStays ==
    ASSUME LockInv, Kept, NEW w \in Worker, AnswersOf(w), Step(w), NEW n \in Node
    PROVE  /\ Sound(n) => Sound(n)'
           /\ \A part : Has(n, part)' <=> Has(n, part)
           /\ \A part : \A m : Has(m, part)' <=> Has(m, part)
<1>1. \A m, part : Has(m, part)' <=> Has(m, part)
  BY ProgramStays DEF Has
<1>2. Returned(n)' <=> Returned(n)
  BY <1>1 DEF Returned
<1>3. faulty' = {} => faulty = {}
  BY FaultyGrows
<1>4. Complete(n) => Complete(n)'
  BY CompleteStays
<1> QED
  BY <1>1, <1>2, <1>3, <1>4 DEF Sound

(* Only a prototype has errors of a prototype. *)
LEMMA SignatureFaults ==
    ASSUME Kept, NEW n \in Node, Has(n, "signature")
    PROVE  n \in Fcn
<1>1. broken \in Faults /\ [node |-> n, part |-> "signature"] \in broken
  BY DEF Kept, Has
<1> QED
  BY <1>1, NodeAssumption

LEMMA ListedStays ==
    ASSUME NEW w \in Worker, LockInv, Kept, Step(w), NEW n
    PROVE  \/ Listed(w, n)' <=> Listed(w, n)
           \/ /\ pc[w] = "return" /\ ret[w] = "OK" /\ ~ Working(w) /\ ~ Working(w)'
              /\ pc'[w] = "next" /\ state' = state
              /\ \/ Listed(w, n)' <=> Listed(w, n)
                 \/ Answered(w).job = "validate" /\ Answered(w).node = n
<1>1. CASE root' = root
  BY <1>1 DEF Listed
<1>2. CASE root' # root
  <2>1. /\ pc[w] = "return" /\ ret[w] = "OK" /\ ~ Working(w)
        /\ root'[w] = root[w] + 1 /\ pc'[w] = "next" /\ stack' = stack /\ state' = state
        /\ Answered(w) = Roots[w][root[w]]
    BY <1>2, RootStays
  <2>2. root[w] \in Nat \ {0}
    BY DEF LockInv, Typed
  <2>3. \A j : j \in 1..root'[w] - 1 <=> (j \in 1..root[w] - 1 \/ j = root[w])
    BY <2>1, <2>2
  <2>4. Listed(w, n)' <=> Listed(w, n) \/ (Answered(w).job = "validate" /\ Answered(w).node = n)
    BY <2>1, <2>3 DEF Listed
  <2> QED
    BY <2>1, <2>4 DEF Working
<1> QED
  BY <1>1, <1>2

(* The frame that is pushed. *)
LEMMA PushedSound ==
    ASSUME RequestsInOrder, NEW w \in Worker, CleanBefore(w), RecordOwner(w) \/ EnterWalk(w),
           NEW f, f = Begun(call[w])
    PROVE  /\ f.job = "walk" => Len(stack[w]) = 0
           /\ ~ Validates(f) => Roots[w][root[w]].job # "validate"
           /\ f.job = "abi" => f.node \in Laid
           /\ Validates(f) /\ f.part = "nothing" => Sound(f.node)
           /\ Validates(f) /\ f.part = "body" => ~ Has(f.node, "signature")
           /\ f.job = "validate" /\ f.part = "signature" => ~ Listed(w, f.node)
<1>0. LockInv /\ Kept /\ StatesSound /\ CallSound(w) /\ pc[w] \in Calling
      /\ (pc[w] \in {"claim", "own", "owner"} \/ call[w].job = "walk")
  BY DEF CleanBefore, CleanOf, RecordOwner, EnterWalk, At, Calling
<1>1. /\ call[w] \in Request /\ call[w] = Answered(w)
      /\ call[w].job = "walk" => ~ Working(w) /\ Listed(w, call[w].node)
      /\ call[w].job = "abi" => call[w].node \in Laid
      /\ call[w].job \in {"eval", "abi"} => Roots[w][root[w]].job # "validate"
  BY <1>0, CallsInOrder
<1>2. /\ f.job = call[w].job /\ f.node = call[w].node /\ f.node \in Node /\ f.job \in Jobs
      /\ f.part = FirstPart(f.job, f.node)
  BY <1>1, BegunIsFrame DEF Request
<1>3. ~ Validates(f) => f.job \in {"eval", "abi"}
  BY <1>2 DEF Validates, Jobs
<1>4. ~ Working(w) => Len(stack[w]) = 0
  BY DEF Working
<1>5. Validates(f) /\ f.part = "nothing" => state[f.node] = VALIDATED
  BY <1>2 DEF Validates, FirstPart
<1>6. Validates(f) /\ f.part = "nothing" => Sound(f.node)
  BY <1>0, <1>2, <1>5 DEF StatesSound, VALIDATED, ABI_READY
<1>7. Validates(f) /\ f.part = "body" => f.node \notin Fcn
  BY <1>2 DEF Validates, FirstPart
<1>8. f.job = "validate" /\ f.part = "signature" => f.node \in Fcn
  BY <1>2 DEF FirstPart
<1> QED
  BY <1>0, <1>1, <1>2, <1>3, <1>4, <1>6, <1>7, <1>8, SignatureFaults DEF CallSound

LEMMA FramesSoundStep ==
    ASSUME RequestsInOrder, NEW w \in Worker, CleanBefore(w), Step(w),
           NEW i \in 1..Len(stack'[w])
    PROVE  FrameSound(w, i)'
<1>0. /\ LockInv /\ Kept /\ AnswersOf(w) /\ Typed /\ Len(stack[w]) \in Nat
      /\ \A j \in 1..Len(stack[w]) : FrameSound(w, j) /\ stack[w][j] \in Frame
  <2>1. stack[w] \in Seq(Frame)
    BY DEF CleanBefore, LockInv, Typed
  <2> QED
    BY <2>1 DEF CleanBefore, CleanOf, LockInv
<1>1. CASE root' # root
  <2>1. stack' = stack /\ Len(stack[w]) = 0
    BY <1>0, <1>1, RootStays DEF Working
  <2> QED
    BY <2>1
<1>2. CASE root' = root
  <2>1. \A n : Listed(w, n)' <=> Listed(w, n)
    BY <1>2 DEF Listed
  <2>2. \A n \in Node : /\ Sound(n) => Sound(n)'
                        /\ Has(n, "signature")' <=> Has(n, "signature")
    BY <1>0, SoundStays
  <2>3. ASSUME NEW g \in Frame, stack'[w][i] = g,
               g.job = "walk" => i = 1,
               ~ Validates(g) => Roots[w][root[w]].job # "validate",
               g.job = "abi" => g.node \in Laid,
               Validates(g) /\ g.part = "nothing" => Sound(g.node),
               Validates(g) /\ g.part = "body" => ~ Has(g.node, "signature"),
               g.job = "validate" /\ g.part = "signature" => ~ Listed(w, g.node)
        PROVE  FrameSound(w, i)'
    <3>1. g.node \in Node
      BY DEF Frame
    <3>2. Validates(g) /\ g.part = "nothing" => Sound(g.node)'
      BY <2>2, <2>3, <3>1
    <3>3. FrameSound(w, i)' <=>
             /\ g.job = "walk" => i = 1
             /\ ~ Validates(g) => Roots[w][root[w]].job # "validate"
             /\ g.job = "abi" => g.node \in Laid
             /\ Validates(g) /\ g.part = "nothing" => Sound(g.node)'
             /\ Validates(g) /\ g.part = "body" => ~ Has(g.node, "signature")
             /\ g.job = "validate" /\ g.part = "signature" => ~ Listed(w, g.node)
      BY <1>2, <2>1, <2>2, <2>3, <3>1
         DEF FrameSound, Validates, Sound, Returned, Has, Complete, InPrototype, InBody, Usable
    <3> QED
      BY <2>3, <3>2, <3>3
  <2>4. CASE i \in 1..Len(stack[w]) /\ stack'[w][i] = stack[w][i]
    <3>1. PICK g \in Frame : g = stack[w][i]
      BY <1>0, <2>4
    <3>2. FrameSound(w, i)
      BY <1>0, <2>4
    <3> QED
      BY <2>3, <2>4, <3>1, <3>2 DEF FrameSound
  <2>5. CASE /\ i \in 1..Len(stack[w]) /\ i = Len(stack[w]) /\ Edit(w)
             /\ Top(w) = stack[w][i] /\ Moves(w, stack'[w][i])
    <3>1. PICK g \in Frame : g = stack[w][i] /\ g = Top(w)
      BY <1>0, <2>5
    <3>2. FrameSound(w, i)
      BY <1>0, <2>5
    <3>3. PICK f \in Frame : Moves(w, f) /\ f = stack'[w][i]
      <4>1. stack'[w] \in Seq(Frame) /\ i \in 1..Len(stack'[w])
        BY <1>0, EditStep, <2>5 DEF LockInv, Typed, CleanBefore
      <4> QED
        BY <2>5, <4>1
    <3>4. f.node = g.node /\ f.job = g.job
          /\ (SignatureReady(w) \/ f.part = g.part) /\ (SignatureReady(w) => f.part = "body")
      BY <2>5, <3>1, <3>3 DEF Moves, Edit
    <3>5. SignatureReady(w) => ~ (Validates(g) /\ Has(g.node, "signature"))
      BY <3>1 DEF SignatureReady, Broken
    <3> QED
      BY <2>3, <3>1, <3>2, <3>3, <3>4, <3>5 DEF FrameSound, Validates
  <2>6. CASE /\ i = Len(stack[w]) + 1 /\ (RecordOwner(w) \/ EnterWalk(w))
             /\ stack'[w][i] = Begun(call[w]) /\ call[w] \in Request
    <3>1. PICK g \in Frame : g = Begun(call[w])
      BY <2>6, BegunIsFrame
    <3>2. Len(stack[w]) = 0 => i = 1
      BY <2>6
    <3> QED
      BY <2>3, <2>6, <3>1, <3>2, PushedSound
  <2> QED
    BY <1>0, <2>4, <2>5, <2>6, FramesFrom
<1> QED
  BY <1>1, <1>2

LEMMA CallSoundStep ==
    ASSUME NEW w \in Worker, CleanBefore(w), Step(w)
    PROVE  CallSound(w)'
<1>0. /\ LockInv /\ Kept /\ AnswersOf(w) /\ CallSound(w) /\ ListsHold(w)
      /\ pc \in [Worker -> {"next", "check", "claim", "own", "owner", "wait",
                            "release", "return", "done", "failed"}]
  BY DEF CleanBefore, CleanOf, LockInv, Typed
<1>1. CASE NotReady(w)
  <2>1. ~ ReadyFor(w) /\ call' = call /\ root' = root /\ call[w] \in Request
    BY <1>0, <1>1 DEF NotReady, LockInv, Typed, At
  <2>2. PICK n \in Node : n = call[w].node
    BY <2>1 DEF Request
  <2>3. ASSUME call[w].job = "validate", n \in Fcn PROVE ~ Listed(w, n)
    <3>1. state[n] # VALIDATED /\ (Working(w) => ~ (state[n] >= TYPE_READY))
      BY <2>1, <2>2, <2>3 DEF ReadyFor
    <3>2. CASE Working(w)
      BY <1>0, <3>1, <3>2 DEF ListsHold
    <3>3. CASE ~ Working(w)
      <4>1. state[n] # ABI_READY
        BY <2>3, NodeAssumption DEF CleanBefore, StatesSound
      <4>2. ~ (state[n] >= ABI_READY)
        BY <1>0, <3>1, <4>1 DEF Kept, UNRESOLVED, TYPE_READY, ABI_READY, VALIDATED
      <4> QED
        BY <1>0, <3>3, <4>2 DEF ListsHold, Redone
    <3> QED
      BY <3>2, <3>3
  <2> QED
    BY <2>1, <2>2, <2>3 DEF CallSound, Listed
<1>2. CASE Claim(w) \/ ClaimFails(w)
  <2>1. pc[w] = "claim" /\ call' = call /\ root' = root
    BY <1>2 DEF Claim, ClaimFails, At
  <2> QED
    BY <1>0, <2>1 DEF CallSound, Listed
<1>3. CASE ~ NotReady(w) /\ ~ Claim(w) /\ ~ ClaimFails(w)
  <2>1. pc'[w] \notin {"claim", "own", "owner"}
    BY <1>0, <1>3 DEF Step, CallRoot, UnitDone, CallUse, SignatureReady, OwnError, Finish, AlreadyReady, NotReady,
                      Claim, ClaimFails, RecordOwner, EnterWalk, Circular, SomebodyElses, WaitEnds, Release,
                      Leave, Return, StatementFails, ReturnError, ReturnToUnit, Goto, At
  <2> QED
    BY <2>1 DEF CallSound
<1> QED
  BY <1>1, <1>2, <1>3

(* A walk is of a definition of the lists. *)
LEMMA WalkIsListed ==
    ASSUME RequestsInOrder, NEW w \in Worker, CleanBefore(w), Working(w), stack[w][1].job = "walk"
    PROVE  Listed(w, stack[w][1].node)
<1>0. LockInv /\ AnswersOf(w) /\ InUnit(w) /\ root[w] \in Nat \ {0}
  BY DEF CleanBefore, CleanOf, LockInv, Typed
<1>1. 1 \in 1..Len(stack[w])
  BY <1>0 DEF LockInv, Typed, Working
<1>2. Answers(stack[w][1], Roots[w][root[w]])
  BY <1>0, <1>1 DEF AnswersOf, Linked, FrameInPlace
<1>3. root[w] \in 1..Len(Roots[w])
  BY <1>0, NodeAssumption DEF InUnit
<1>4. \E j \in 1..root[w] - 1 : Roots[w][j] = Validate(stack[w][1].node)
  BY <1>2, <1>3 DEF RequestsInOrder, Answers
<1> QED
  BY <1>4 DEF Listed, Validate

(* The walk of a function of the lists has no error once it is past the     *)
(* prototype: its statements keep theirs, and it is not in a library.       *)
LEMMA RedoneDoesNotFail ==
    ASSUME RequestsInOrder, NEW w \in Worker, CleanBefore(w), Len(stack[w]) = 1,
           Redone(w, Top(w).node), OwnError(w) \/ ReturnError(w)
    PROVE  FALSE
<1>0. LockInv /\ Kept /\ AnswersOf(w) /\ ListsHold(w) /\ Typed /\ Working(w)
  BY DEF CleanBefore, CleanOf, LockInv, Redone
<1>1. PICK f \in Frame, n \in Node :
        /\ f = Top(w) /\ f = stack[w][1] /\ n = f.node /\ n \in Fcn
        /\ f.job = "walk" /\ f.part = "body"
  BY <1>0, TopIsFrame DEF Redone, Working, Frame
<1>2. ~ Returned(n)
  BY <1>0, <1>1, WalkIsListed DEF ListsHold, Sound
<1>3. Validates(f) /\ n \in Foreign
  BY <1>1 DEF OwnError, ReturnError, InStatements, Validates
<1>4. CASE OwnError(w)
  <2>1. Has(n, "body")
    BY <1>1, <1>4 DEF OwnError, Broken
  <2> QED
    BY <1>2, <1>3, <2>1 DEF Returned
<1>5. CASE ReturnError(w)
  <2>1. f.next <= Len(Uses(f)) /\ f.next \in Nat \ {0}
    BY <1>0, <1>1, <1>5 DEF ReturnError, At, AnswersOf, CallInPlace, Pending, Frame
  <2>2. Len(Uses(f)) = Len(body[n])
    BY <1>0, <1>1, <1>3, UsesOf
  <2>3. body[n] = <<>>
    BY <1>0, <1>3, NodeAssumption DEF Kept
  <2> QED
    BY <2>1, <2>2, <2>3
<1> QED
  BY <1>4, <1>5

LEMMA BringsStep ==
    ASSUME RequestsInOrder, NEW w \in Worker, CleanBefore(w), Step(w)
    PROVE  Brings(w)'
<1>0. /\ pc \in [Worker -> {"next", "check", "claim", "own", "owner", "wait",
                            "release", "return", "done", "failed"}]
      /\ ret \in [Worker -> {"OK", "ERROR"}] /\ LockInv /\ Kept /\ AnswersOf(w) /\ Brings(w)
      /\ body' = body /\ broken' = broken
  BY ProgramStays DEF LockInv, Typed, Kept, CleanBefore, CleanOf
<1>1. CASE Finish(w)
  <2>1. stack' = stack /\ pc'[w] = "release" /\ stack[w] # <<>>
    BY <1>0, <1>1 DEF Finish, Goto, Working
  <2>2. Top(w)' = Top(w) /\ Top(w).node \in Node
    BY <1>0, <2>1, TopIsFrame DEF Top, LockInv, Frame
  <2>3. Top(w).job # "eval" => state'[Top(w).node] >= ABI_READY
    BY <1>0, <1>1, <2>2 DEF Finish, Kept, ABI_READY, VALIDATED
  <2> QED
    BY <2>1, <2>2, <2>3 DEF Brings
<1>2. CASE OwnError(w) \/ ReturnError(w)
  <2>1. stack' = stack /\ pc'[w] = "release" /\ ret'[w] = "ERROR"
    BY <1>0, <1>2 DEF OwnError, ReturnError, Goto, At
  <2>2. Top(w)' = Top(w) /\ (Redone(w, Top(w).node)' <=> Redone(w, Top(w).node))
    BY <2>1 DEF Top, Redone, Working
  <2>3. ~ (Len(stack[w]) = 1 /\ Redone(w, Top(w).node))
    BY <1>2, RedoneDoesNotFail
  <2> QED
    BY <2>1, <2>2, <2>3 DEF Brings
<1>3. CASE AlreadyReady(w)
  <2>1. /\ pc[w] = "check" /\ pc'[w] = "return" /\ stack' = stack /\ root' = root
        /\ state' = state /\ ReadyFor(w)
    BY <1>0, <1>3 DEF AlreadyReady, At, Goto, nodeVars
  <2>2. call[w] = Answered(w)
    BY <1>0, <2>1 DEF AnswersOf, CallInPlace, Calling
  <2>3. Answered(w)' = Answered(w)
    BY <1>0, <2>1, UsesStay DEF Answered, Top, Working
  <2>4. ~ Working(w) /\ call[w].job = "validate" => state[call[w].node] >= ABI_READY
    BY <2>1 DEF ReadyFor, VALIDATED, ABI_READY
  <2> QED
    BY <2>1, <2>2, <2>3, <2>4 DEF Brings, Working
<1>4. CASE Release(w) \/ Leave(w)
  <2>1. /\ Answers(Top(w), Answered(w)') /\ pc'[w] = "return" /\ pc[w] = "release"
        /\ (Top(w).job = "walk" \/ ret' = ret) /\ state' = state
    BY <1>0, <1>4, PopAnswers DEF Release, Leave, At, Goto, nodeVars
  <2>2. Answered(w)'.job = Top(w).job /\ Answered(w)'.node = Top(w).node
    BY <2>1 DEF Answers
  <2>3. ret'[w] = "OK" /\ Top(w).job = "validate" => state[Top(w).node] >= ABI_READY
    BY <1>0, <2>1 DEF Brings
  <2> QED
    BY <2>1, <2>2, <2>3 DEF Brings
<1>5. CASE Circular(w)
  <2>1. ret'[w] = "ERROR" /\ pc'[w] = "return"
    BY <1>0, <1>5 DEF Circular, At, Goto
  <2> QED
    BY <2>1 DEF Brings
<1>6. CASE \/ CallRoot(w) \/ UnitDone(w) \/ CallUse(w) \/ SignatureReady(w) \/ NotReady(w)
           \/ Claim(w) \/ ClaimFails(w) \/ RecordOwner(w) \/ EnterWalk(w) \/ SomebodyElses(w)
           \/ Return(w) \/ StatementFails(w) \/ ReturnToUnit(w)
  <2>1. pc'[w] \notin {"release", "return"}
    BY <1>0, <1>6 DEF CallRoot, UnitDone, CallUse, SignatureReady, NotReady, Claim, ClaimFails,
           RecordOwner, EnterWalk, SomebodyElses, Return, StatementFails, ReturnToUnit, Goto, At
  <2> QED
    BY <2>1 DEF Brings
<1>7. ~ WaitEnds(w)
  BY <1>0 DEF AnswersOf, CallInPlace, WaitEnds, At
<1> QED
  BY <1>1, <1>2, <1>3, <1>4, <1>5, <1>6, <1>7 DEF Step

LEMMA RedoneStays ==
    ASSUME NEW w \in Worker, CleanBefore(w), Step(w), NEW n \in Node, Redone(w, n)
    PROVE  Redone(w, n)' \/ (state[n] >= ABI_READY /\ state' = state)
<1>0. LockInv /\ Brings(w) /\ stack[w] # <<>> /\ Len(stack[w]) \in Nat /\ 1 \in 1..Len(stack[w])
  BY DEF CleanBefore, CleanOf, Redone, Working, LockInv, Typed
<1>1. CASE 1 \in 1..Len(stack'[w])
  <2>1. ~ (1 = Len(stack[w]) + 1)
    BY <1>0
  <2>2. CASE stack'[w][1] = stack[w][1]
    BY <1>1, <2>2 DEF Redone, Working
  <2>3. CASE Edit(w) /\ Top(w) = stack[w][1] /\ Moves(w, stack'[w][1])
    <3>1. /\ stack'[w][1].job = "walk" /\ stack'[w][1].node = n
          /\ stack'[w][1].part = "body"
      BY <2>3 DEF Moves, Edit, Redone
    <3> QED
      BY <1>1, <3>1 DEF Redone, Working
  <2> QED
    BY <1>0, <1>1, <2>1, <2>2, <2>3, FramesFrom
<1>2. CASE ~ (1 \in 1..Len(stack'[w]))
  <2>1. (Release(w) \/ Leave(w)) /\ Top(w) = stack[w][1] /\ 1 = Len(stack[w])
    BY <1>0, <1>2, FramesFrom
  <2>2. pc[w] = "release" /\ state' = state
    BY <2>1 DEF Release, Leave, At, nodeVars
  <2>3. Top(w).job = "walk" /\ Top(w).node = n
    BY <2>1 DEF Redone
  <2> QED
    BY <1>0, <2>1, <2>2, <2>3 DEF Brings
<1> QED
  BY <1>1, <1>2

LEMMA ListsHoldStep ==
    ASSUME NEW w \in Worker, CleanBefore(w), Step(w)
    PROVE  ListsHold(w)'
<1>0. /\ LockInv /\ Kept /\ AnswersOf(w) /\ ListsHold(w) /\ Brings(w) /\ StatesSound
      /\ state \in [Node -> {UNRESOLVED, TYPE_READY, ABI_READY, VALIDATED}]
      /\ \A i \in 1..Len(stack[w]) : FrameSound(w, i)
  BY DEF CleanBefore, CleanOf, Kept
<1> SUFFICES ASSUME NEW n \in Node, Listed(w, n)'
             PROVE  /\ Sound(n)' /\ state'[n] >= TYPE_READY
                    /\ state'[n] >= ABI_READY \/ Redone(w, n)'
  BY DEF ListsHold
<1>1. CASE ~ Listed(w, n)
  <2>1. state[n] >= ABI_READY /\ state' = state
    BY <1>0, <1>1, ListedStays DEF Brings
  <2>2. Sound(n)
    BY <1>0, <2>1 DEF StatesSound
  <2>3. state[n] >= TYPE_READY
    BY <1>0, <2>1 DEF UNRESOLVED, TYPE_READY, ABI_READY, VALIDATED
  <2> QED
    BY <1>0, <2>1, <2>2, <2>3, SoundStays
<1>2. CASE Listed(w, n)
  <2>1. Sound(n)' /\ state[n] >= TYPE_READY /\ (state[n] >= ABI_READY \/ Redone(w, n))
    BY <1>0, <1>2, SoundStays DEF ListsHold
  <2>2. CASE state'[n] = state[n]
    <3>1. state[n] >= ABI_READY \/ Redone(w, n)'
      BY <2>1, RedoneStays
    <3> QED
      BY <2>1, <2>2, <3>1
  <2>3. CASE /\ SignatureReady(w) /\ n = Top(w).node /\ Validates(Top(w)) /\ n \in Fcn
             /\ Top(w).part = "signature" /\ Working(w) /\ state'[n] = TYPE_READY
    <3>1. PICK k \in Nat, f \in Frame :
            /\ k = Len(stack[w]) /\ k \in 1..k /\ Top(w) = stack[w][k] /\ Moves(w, f)
            /\ Len(stack'[w]) = k /\ stack'[w][k] = f
      BY <1>0, <2>3, TopMovesOn, ZenonT(60) DEF Edit
    <3>2. FrameSound(w, k)
      BY <1>0, <3>1
    <3>3. k = 1 /\ Top(w).job = "walk"
      BY <1>2, <2>3, <3>1, <3>2 DEF FrameSound, Validates
    <3>4. f.job = "walk" /\ f.node = n /\ f.part = "body"
      BY <2>3, <3>1, <3>3 DEF Moves
    <3>5. stack'[w] # <<>>
      BY <3>1, <3>3
    <3>6. Redone(w, n)'
      BY <2>3, <3>1, <3>3, <3>4, <3>5 DEF Redone, Working
    <3> QED
      BY <2>1, <2>3, <3>6 DEF TYPE_READY
  <2>4. CASE state'[n] \in {ABI_READY, VALIDATED}
    BY <2>1, <2>4 DEF TYPE_READY, ABI_READY, VALIDATED
  <2> QED
    BY <1>0, <2>2, <2>3, <2>4, StateMoves
<1> QED
  BY <1>1, <1>2

(* What a thread finishes is sound. *)
LEMMA StatesSoundStep ==
    ASSUME RequestsInOrder, NEW w \in Worker, CleanBefore(w), Step(w)
    PROVE  StatesSound'
<1>0. /\ LockInv /\ Kept /\ AnswersOf(w) /\ RestInv /\ ListsHold(w) /\ InUnit(w) /\ StatesSound
      /\ Typed /\ \A i \in 1..Len(stack[w]) : FrameSound(w, i)
      /\ state \in [Node -> {UNRESOLVED, TYPE_READY, ABI_READY, VALIDATED}]
  BY DEF CleanBefore, CleanOf, LockInv, Kept
<1> SUFFICES ASSUME NEW n \in Node
             PROVE  /\ state'[n] >= ABI_READY => Sound(n)'
                    /\ state'[n] = ABI_READY => n \in Type
  BY DEF StatesSound
<1>1. CASE state'[n] = state[n]
  BY <1>0, <1>1, SoundStays DEF StatesSound
<1>2. CASE state'[n] = TYPE_READY
  BY <1>2 DEF TYPE_READY, ABI_READY
<1>3. ASSUME Finish(w), n = Top(w).node, Working(w)
      PROVE  /\ Top(w).job = "abi" => Sound(n)' /\ n \in Type
             /\ Validates(Top(w)) => Sound(n)'
  <2>1. PICK k \in 1..Len(stack[w]), f \in Frame : f = Top(w) /\ f = stack[w][k]
    BY <1>0, <1>3, TopIsFrame DEF Working
  <2>2. FrameSound(w, k)
    BY <1>0
  <2>3. CASE f.job = "abi"
    <3>1. n \in Laid /\ Roots[w][root[w]].job # "validate"
      BY <1>3, <2>1, <2>2, <2>3 DEF FrameSound, Validates
    <3>2. root[w] \in 1..Len(Roots[w])
      BY <1>0, <1>3, NodeAssumption DEF InUnit, Typed
    <3>3. PICK j \in 1..root[w] - 1 : Roots[w][j] = Validate(n)
      BY <3>1, <3>2 DEF RequestsInOrder
    <3>4. Listed(w, n)
      BY <3>3 DEF Listed, Validate
    <3>5. Sound(n)'
      BY <1>0, <3>4, SoundStays DEF ListsHold
    <3> QED
      BY <2>1, <2>3, <3>1, <3>5 DEF RequestsInOrder, Validates
  <2>4. CASE Validates(f)
    <3>1. f.part \in {"body", "nothing"} /\ f.job # "abi"
      BY <1>3, <2>1, <2>4 DEF Finish, Frame, Validates
    <3>2. CASE f.part = "nothing"
      <4>1. Sound(n)
        BY <1>3, <2>1, <2>2, <2>4, <3>2 DEF FrameSound
      <4> QED
        BY <1>0, <2>1, <3>1, <4>1, SoundStays
    <3>3. CASE f.part = "body"
      <4>1. ~ Has(n, "signature")
        BY <1>3, <2>1, <2>2, <2>4, <3>3 DEF FrameSound
      <4>2. Complete(n)'
        BY <1>0, <1>3, <2>1, <2>4, FinishedIsComplete, CompleteStays
      <4>3. Has(n, "body") => n \in Fcn \ Foreign /\ n \in faulty'
        BY <1>3, <2>1, <2>4, <3>3 DEF Finish, Broken, InStatements, Validates
      <4>4. \A part : Has(n, part)' <=> Has(n, part)
        BY <1>0, SoundStays
      <4>5. Sound(n)'
        BY <4>1, <4>2, <4>3, <4>4 DEF Sound, Returned
      <4> QED
        BY <2>1, <3>1, <4>5
    <3> QED
      BY <3>1, <3>2, <3>3
  <2> QED
    BY <2>1, <2>3, <2>4
<1> QED
  BY <1>0, <1>1, <1>2, <1>3, StateMoves DEF ABI_READY, VALIDATED

(* The work on top is in work, for its definition. *)
LEMMA TopIsInWork ==
    ASSUME LockInv, NEW w \in Worker, Working(w), Top(w).job # "eval"
    PROVE  InWork(w, Top(w).node)
<1>1. Len(stack[w]) \in 1..Len(stack[w]) /\ Top(w) = stack[w][Len(stack[w])]
  BY TopIsFrame DEF LockInv, Working
<1> QED
  BY <1>1 DEF InWork

(* What is ready or in work stays so while no error is met. *)
LEMMA SettledStays ==
    ASSUME NEW w \in Worker, CleanBefore(w), Step(w), faulty = {}, NEW n \in Node, Settled(w, n)
    PROVE  Settled(w, n)'
<1>0. /\ LockInv /\ Kept /\ AnswersOf(w) /\ Brings(w) /\ RestInv
      /\ state \in [Node -> {UNRESOLVED, TYPE_READY, ABI_READY, VALIDATED}]
      /\ ret \in [Worker -> {"OK", "ERROR"}]
  BY DEF Kept, CleanBefore, CleanOf
<1>1. ASSUME InWork(w, n) PROVE Settled(w, n)'
  <2>1. PICK i \in 1..Len(stack[w]) : stack[w][i].node = n /\ stack[w][i].job # "eval"
    BY <1>1 DEF InWork
  <2>2. CASE i \in 1..Len(stack'[w]) /\ Answers(stack'[w][i], stack[w][i])
    BY <2>1, <2>2 DEF Settled, InWork, Answers
  <2>3. CASE (Release(w) \/ Leave(w)) /\ Top(w) = stack[w][i]
    <3>1. pc[w] = "release" /\ state' = state
      BY <2>3 DEF Release, Leave, At, nodeVars
    <3>2. ErrorsTold(w)
      BY <1>0 DEF RestInv
    <3>3. ret[w] = "OK"
      BY <1>0, <3>1, <3>2 DEF ErrorsTold
    <3> QED
      BY <1>0, <2>1, <2>3, <3>1, <3>3 DEF Brings, Settled
  <2> QED
    BY <1>0, <2>2, <2>3, FramesFrom
<1>2. ASSUME state[n] >= ABI_READY PROVE Settled(w, n)'
  <2>1. CASE state'[n] = state[n]
    BY <1>2, <2>1 DEF Settled
  <2>2. CASE n = Top(w).node /\ Validates(Top(w)) /\ Working(w)
    BY <1>0, <1>1, <2>2, TopIsInWork DEF Validates
  <2>3. CASE state'[n] \in {ABI_READY, VALIDATED}
    BY <2>3 DEF Settled, VALIDATED, ABI_READY
  <2> QED
    BY <1>0, <2>1, <2>2, <2>3, StateMoves
<1> QED
  BY <1>1, <1>2 DEF Settled

LEMMA StartedIsSettledStep ==
    ASSUME NEW w \in Worker, CleanBefore(w), Step(w)
    PROVE  StartedIsSettled(w)'
<1>0. LockInv /\ Kept /\ AnswersOf(w) /\ StartedIsSettled(w)
  BY DEF CleanBefore, CleanOf
<1> SUFFICES ASSUME faulty' = {}, NEW n \in Node, state'[n] # UNRESOLVED PROVE Settled(w, n)'
  BY DEF StartedIsSettled
<1>1. faulty = {}
  BY <1>0, FaultyGrows
<1>2. CASE state[n] # UNRESOLVED
  BY <1>0, <1>1, <1>2, SettledStays DEF StartedIsSettled
<1>3. CASE state[n] = UNRESOLVED
  <2>1. CASE n = Top(w).node /\ Validates(Top(w)) /\ Working(w)
    <3>1. InWork(w, n)
      BY <1>0, <2>1, TopIsInWork DEF Validates
    <3> QED
      BY <1>1, <3>1, SettledStays DEF Settled
  <2>2. CASE state'[n] \in {ABI_READY, VALIDATED}
    BY <2>2 DEF Settled, VALIDATED, ABI_READY
  <2> QED
    BY <1>0, <1>3, <2>1, <2>2, StateMoves
<1> QED
  BY <1>2, <1>3

LEMMA CleanStep ==
    ASSUME OneThread, RequestsInOrder, LockInv, Kept, AnswerInv, RestInv, CleanInv,
           NEW w \in Worker, Step(w)
    PROVE  CleanInv'
<1>1. CleanBefore(w)
  BY DEF CleanBefore, CleanInv, AnswerInv, AnswersOf
<1>2. StatesSound'
  BY <1>1, StatesSoundStep
<1>3. InUnit(w)' /\ DoneAtEnd(w)'
  BY <1>1, InUnitStep DEF CleanBefore, CleanOf
<1>4. \A i \in 1..Len(stack'[w]) : FrameSound(w, i)'
  BY <1>1, FramesSoundStep
<1>5. CallSound(w)' /\ Brings(w)' /\ ListsHold(w)' /\ StartedIsSettled(w)'
  BY <1>1, CallSoundStep, BringsStep, ListsHoldStep, StartedIsSettledStep
<1>6. \A v \in Worker : v = w
  BY DEF OneThread
<1> QED
  BY <1>2, <1>3, <1>4, <1>5, <1>6 DEF CleanInv, CleanOf

LEMMA ConcatenatedSet ==
    ASSUME NEW S, NEW s \in Seq(S), NEW t \in Seq(S)
    PROVE  \A m : m \in ToSet(s \o t) <=>
                    \/ \E i \in 1..Len(s) : m = s[i]
                    \/ \E i \in 1..Len(t) : m = t[i]
<1>1. /\ Len(s) \in Nat /\ Len(t) \in Nat /\ s \o t \in Seq(S)
      /\ Len(s \o t) = Len(s) + Len(t)
      /\ \A i \in 1..Len(s) : (s \o t)[i] = s[i]
      /\ \A i \in 1..Len(t) : (s \o t)[Len(s) + i] = t[i]
  OBVIOUS
<1>2. ToSet(s \o t) = {(s \o t)[i] : i \in 1..Len(s) + Len(t)}
  <2>1. DOMAIN (s \o t) = 1..Len(s) + Len(t)
    BY <1>1
  <2> QED
    BY <2>1 DEF ToSet
<1>3. \A i \in 1..Len(s) + Len(t) : i \in 1..Len(s) \/ \E j \in 1..Len(t) : i = Len(s) + j
  <2> TAKE i \in 1..Len(s) + Len(t)
  <2>1. CASE i <= Len(s)
    BY <1>1, <2>1
  <2>2. CASE ~ (i <= Len(s))
    <3>1. i - Len(s) \in 1..Len(t) /\ i = Len(s) + (i - Len(s))
      BY <1>1, <2>2
    <3> QED
      BY <3>1
  <2> QED
    BY <2>1, <2>2
<1>4. /\ \A i \in 1..Len(s) : i \in 1..Len(s) + Len(t)
      /\ \A i \in 1..Len(t) : Len(s) + i \in 1..Len(s) + Len(t)
  BY <1>1
<1>5. ASSUME NEW m \in ToSet(s \o t)
      PROVE  \/ \E i \in 1..Len(s) : m = s[i]
             \/ \E i \in 1..Len(t) : m = t[i]
  <2>1. PICK i \in 1..Len(s) + Len(t) : m = (s \o t)[i]
    BY <1>2
  <2> QED
    BY <1>1, <1>3, <2>1
<1>6. /\ \A i \in 1..Len(s) : s[i] \in ToSet(s \o t)
      /\ \A i \in 1..Len(t) : t[i] \in ToSet(s \o t)
  <2>1. ASSUME NEW i \in 1..Len(s) PROVE s[i] \in ToSet(s \o t)
    BY <1>1, <1>2, <1>4
  <2>2. ASSUME NEW i \in 1..Len(t) PROVE t[i] \in ToSet(s \o t)
    <3>1. Len(s) + i \in 1..Len(s) + Len(t) /\ (s \o t)[Len(s) + i] = t[i]
      BY <1>1, <1>4
    <3> QED
      BY <1>2, <3>1
  <2> QED
    BY <2>1, <2>2
<1> QED
  BY <1>5, <1>6, Zenon

(* The definitions that a definition uses, in its prototype or after it. *)
LEMMA UsedByOne ==
    ASSUME Typed, NEW n \in Node
    PROVE  /\ \A m : m \in ToSet(Signature[n] \o body[n]) <=>
                       \/ \E i \in 1..Len(Signature[n]) : m = Signature[n][i]
                       \/ \E i \in 1..Len(body[n]) : m = body[n][i]
           /\ \A m \in ToSet(Signature[n] \o body[n]) : m \in Node
<1>1. Signature[n] \in Seq(Node) /\ body[n] \in Seq(Node)
  BY NodeAssumption DEF Typed
<1>2. \A m : m \in ToSet(Signature[n] \o body[n]) <=>
                  \/ \E i \in 1..Len(Signature[n]) : m = Signature[n][i]
                  \/ \E i \in 1..Len(body[n]) : m = body[n][i]
  BY <1>1, ConcatenatedSet
<1>3. /\ \A i \in 1..Len(Signature[n]) : Signature[n][i] \in Node
      /\ \A i \in 1..Len(body[n]) : body[n][i] \in Node
  BY <1>1
<1>4. ASSUME NEW m, m \in ToSet(Signature[n] \o body[n]) PROVE m \in Node
  <2>1. CASE \E i \in 1..Len(Signature[n]) : m = Signature[n][i]
    BY <1>3, <2>1
  <2>2. CASE \E i \in 1..Len(body[n]) : m = body[n][i]
    BY <1>3, <2>2
  <2> QED
    BY <1>2, <1>4, <2>1, <2>2, Zenon
<1> QED
  BY <1>2, <1>4

LEMMA Least ==
    ASSUME NEW T \in SUBSET Nat, T # {}
    PROVE  \E m \in T : \A l \in T : m <= l
<1>1. PICK m \in T : \A l \in T : <<l, m>> \notin OpToRel(<, Nat)
  BY NatLessThanWellFounded, WFMin
<1>2. \A l \in T : ~ (l < m)
  BY <1>1 DEF OpToRel
<1> QED
  BY <1>2

(* What a set that contains the requests of the units and all its members   *)
(* use contains.                                                            *)
LEMMA ReachedInside ==
    ASSUME Cardinality(Node) \in Nat, NEW D,
           \A w \in Worker : \A r \in ToSet(Roots[w]) : r.node \in D,
           \A n \in D : ToSet(Signature[n] \o body[n]) \subseteq D
    PROVE  Reached \subseteq D
<1> DEFINE Grow(S) == S \cup UNION {ToSet(Signature[n] \o body[n]) : n \in S}
           Start == {r.node : r \in UNION {ToSet(Roots[w]) : w \in Worker}}
           R(m, g) == [i \in 0..m |-> IF i = 0 THEN Start ELSE Grow(g[i - 1])]
           N == Cardinality(Node)
           Lost == {m \in 0..N : \A g : g # R(m, g)}
           G == CHOOSE g : g = R(N, g)
<1>1. Reached = G[N]
  BY DEF Reached
<1>2. Start \subseteq D
  OBVIOUS
<1>3. ASSUME NEW S, S \subseteq D PROVE Grow(S) \subseteq D
  BY <1>3
<1> HIDE DEF Start, Grow
<1>4. 0 \notin Lost
  <2> DEFINE h == [i \in 0..0 |-> Start]
  <2>1. h = R(0, h)
    OBVIOUS
  <2> QED
    BY <2>1
<1>5. ASSUME NEW m \in 0..N, m # 0, m \in Lost PROVE m - 1 \in Lost
  <2> SUFFICES ASSUME NEW g, g = R(m - 1, g) PROVE FALSE
    BY <1>5
  <2> DEFINE h == [i \in 0..m |-> IF i = 0 THEN Start ELSE Grow(g[i - 1])]
  <2>1. \A i \in 0..(m - 1) : g[i] = IF i = 0 THEN Start ELSE Grow(g[i - 1])
    OBVIOUS
  <2>2. \A i \in 0..(m - 1) : h[i] = g[i]
    BY <2>1
  <2>3. \A i \in 0..m : i # 0 => i - 1 \in 0..(m - 1)
    OBVIOUS
  <2>4. h = R(m, h)
    <3> HIDE DEF h
    <3>1. \A i \in 0..m : i # 0 => Grow(g[i - 1]) = Grow(h[i - 1])
      BY <2>2, <2>3
    <3>2. h = [i \in 0..m |-> IF i = 0 THEN Start ELSE Grow(g[i - 1])]
      BY DEF h
    <3> QED
      BY <3>1, <3>2
  <2> QED
    BY <1>5, <2>4
<1>6. Lost = {}
  <2> SUFFICES ASSUME Lost # {} PROVE FALSE
    OBVIOUS
  <2>1. Lost \in SUBSET Nat
    OBVIOUS
  <2>2. PICK m \in Lost : \A l \in Lost : m <= l
    BY <2>1, Least
  <2>3. m \in 0..N /\ m # 0
    BY <1>4
  <2>4. m - 1 \in Lost
    BY <1>5, <2>3
  <2> QED
    BY <2>2, <2>3, <2>4
<1>7. G = R(N, G)
  <2>1. \E g : g = R(N, g)
    <3>1. N \in 0..N /\ N \notin Lost
      BY <1>6
    <3> QED
      BY <3>1
  <2> HIDE DEF R
  <2> QED
    BY <2>1
<1> HIDE DEF G
<1>8. \A i \in 0..N : G[i] = IF i = 0 THEN Start ELSE Grow(G[i - 1])
  BY <1>7
<1> DEFINE Out == {i \in 0..N : ~ (G[i] \subseteq D)}
<1>9. ASSUME NEW i \in Out PROVE i # 0 /\ i - 1 \in Out
  <2>1. i # 0
    BY <1>2, <1>8, <1>9
  <2>2. i - 1 \in 0..N /\ G[i] = Grow(G[i - 1])
    BY <1>8, <1>9, <2>1
  <2> QED
    BY <1>3, <1>9, <2>1, <2>2
<1>10. Out = {}
  <2> SUFFICES ASSUME Out # {} PROVE FALSE
    OBVIOUS
  <2>1. Out \in SUBSET Nat
    OBVIOUS
  <2>2. PICK m \in Out : \A l \in Out : m <= l
    BY <2>1, Least
  <2>3. m - 1 \in Out /\ m \in Nat
    BY <1>9
  <2> QED
    BY <2>2, <2>3
<1> QED
  BY <1>1, <1>10

(* What has been validated or laid out is all a unit that is done reaches.  *)
LEMMA CleanIsComplete ==
    ASSUME IsFiniteSet(Node), OneThread, RequestsInOrder, LockInv, Kept, RestInv, CleanInv,
           faulty = {}, \A w \in Worker : pc[w] = "done"
    PROVE  \A n \in Reached : /\ state[n] >= ABI_READY
                              /\ ~ Has(n, "signature") /\ ~ Has(n, "body")
<1> DEFINE D == {n \in Node : state[n] >= ABI_READY}
<1>0. state \in [Node -> {UNRESOLVED, TYPE_READY, ABI_READY, VALIDATED}] /\ Typed
  BY DEF Kept, LockInv
<1>1. ASSUME NEW w \in Worker, NEW n \in Node, state[n] # UNRESOLVED PROVE n \in D
  <2>1. ~ Working(w)
    BY DEF CleanInv, CleanOf, DoneAtEnd
  <2>2. Settled(w, n)
    BY <1>1 DEF CleanInv, CleanOf, StartedIsSettled
  <2>3. ~ InWork(w, n)
    BY <2>1 DEF InWork, Working
  <2> QED
    BY <2>2, <2>3 DEF Settled
<1>2. ASSUME NEW w \in Worker, NEW r \in ToSet(Roots[w]) PROVE r.node \in D
  <2>1. Roots[w] \in Seq(Request) /\ root[w] > Len(Roots[w]) /\ root[w] \in Nat
    BY <1>0, NodeAssumption DEF CleanInv, CleanOf, DoneAtEnd, Typed
  <2>2. PICK k \in 1..Len(Roots[w]) : r = Roots[w][k]
    BY <1>2, <2>1, Places
  <2>3. PICK j \in 1..Len(Roots[w]) : Roots[w][j].node = r.node /\ Roots[w][j].job = "validate"
    <3>1. CASE r.job = "validate"
      BY <2>2, <3>1
    <3>2. CASE r.job # "validate"
      <4>1. PICK j \in 1..k - 1 : Roots[w][j] = Validate(r.node)
        BY <2>2, <3>2 DEF RequestsInOrder
      <4>2. j \in 1..Len(Roots[w])
        BY <2>1, <2>2
      <4> QED
        BY <4>1, <4>2 DEF Validate
    <3> QED
      BY <3>1, <3>2
  <2>4. r.node \in Node
    <3>1. r \in Request
      BY <2>1, <2>2
    <3> QED
      BY <3>1 DEF Request
  <2>5. Listed(w, r.node)
    <3>1. j \in 1..root[w] - 1
      BY <2>1
    <3> QED
      BY <2>3, <3>1 DEF Listed
  <2>6. state[r.node] >= TYPE_READY
    BY <2>4, <2>5 DEF CleanInv, CleanOf, ListsHold
  <2> QED
    BY <1>1, <2>4, <2>6 DEF UNRESOLVED, TYPE_READY
<1>3. ASSUME NEW n \in D, NEW m \in ToSet(Signature[n] \o body[n]), NEW w \in Worker
      PROVE  m \in D
  <2>1. m \in Node
    BY <1>0, UsedByOne
  <2>2. Complete(n)
    BY DEF CleanInv, StatesSound, Sound
  <2>3. \/ \E i \in 1..Len(Signature[n]) : m = Signature[n][i]
        \/ \E i \in 1..Len(body[n]) : m = body[n][i]
    BY <1>0, UsedByOne
  <2>4. Usable(m)
    BY <2>2, <2>3 DEF Complete, InBody, InPrototype
  <2>5. state[m] # UNRESOLVED
    BY <2>4 DEF Usable, UNRESOLVED, TYPE_READY, ABI_READY
  <2> QED
    BY <1>1, <2>1, <2>5
<1>4. CASE Worker = {}
  <2>1. \A n \in {} : ToSet(Signature[n] \o body[n]) \subseteq {}
    OBVIOUS
  <2>2. Cardinality(Node) \in Nat
    BY FS_CardinalityType
  <2>3. Reached \subseteq {}
    BY <1>4, <2>1, <2>2, ReachedInside
  <2> QED
    BY <2>3
<1>5. CASE Worker # {}
  <2>1. \A n \in D : ToSet(Signature[n] \o body[n]) \subseteq D
    BY <1>3, <1>5
  <2>2. Cardinality(Node) \in Nat
    BY FS_CardinalityType
  <2>3. Reached \subseteq D
    <3> HIDE DEF D
    <3> QED
      BY <1>2, <2>1, <2>2, ReachedInside
  <2>4. \A n \in D : ~ Has(n, "signature") /\ ~ Has(n, "body")
    BY DEF CleanInv, StatesSound, Sound, Returned
  <2> QED
    BY <2>3, <2>4
<1> QED
  BY <1>4, <1>5

(* A unit that is done is through with its lists. *)
LEMMA DoneDelivers ==
    ASSUME LockInv, Kept, CleanInv
    PROVE  ListsDeliver
<1> SUFFICES ASSUME NEW w \in Worker, pc[w] = "done", NEW r \in ToSet(Roots[w]),
                    r.job = "validate"
             PROVE  state[r.node] >= ABI_READY /\ ~ Returned(r.node)
  BY DEF ListsDeliver
<1>1. /\ Roots[w] \in Seq(Request) /\ root[w] > Len(Roots[w]) /\ root[w] \in Nat
      /\ ~ Working(w) /\ ListsHold(w)
  BY NodeAssumption DEF CleanInv, CleanOf, DoneAtEnd, LockInv, Typed
<1>2. PICK k \in 1..Len(Roots[w]) : r = Roots[w][k]
  BY <1>1, Places
<1>3. r.node \in Node
  <2>1. r \in Request
    BY <1>1, <1>2
  <2> QED
    BY <2>1 DEF Request
<1>4. k \in 1..root[w] - 1
  BY <1>1, <1>2
<1>5. Listed(w, r.node)
  BY <1>2, <1>4 DEF Listed
<1> QED
  BY <1>1, <1>3, <1>5 DEF ListsHold, Sound, Redone

(* Success is what it says.  What a single thread was told is there; when   *)
(* its unit is done, the definitions of its lists are validated and have    *)
(* none of the errors a validation returns, whatever the walk over the root *)
(* did to them after that; and if no error was met at all, every definition *)
(* its requests reach is validated, at whatever depth it is used.           *)
THEOREM SuccessIsAlwaysReal ==
    OneThread /\ IsFiniteSet(Node) /\ RequestsInOrder => (Spec => []SuccessIsReal)
<1>1. SUFFICES ASSUME OneThread, IsFiniteSet(Node), RequestsInOrder
               PROVE  Spec => []SuccessIsReal
  OBVIOUS
<1>2. Init => CleanInv
  <2> SUFFICES ASSUME Init PROVE CleanInv
    OBVIOUS
  <2>1. StatesSound
    BY DEF Init, StatesSound, UNRESOLVED, ABI_READY
  <2>2. ASSUME NEW w \in Worker PROVE CleanOf(w)
    <3>1. /\ pc[w] = "next" /\ Len(stack[w]) = 0 /\ stack[w] = <<>> /\ root[w] = 1
          /\ \A n \in Node : state[n] = UNRESOLVED
      BY DEF Init
    <3>2. Len(Roots[w]) \in Nat
      BY NodeAssumption
    <3>3. \A n : ~ Listed(w, n)
      BY <3>1 DEF Listed
    <3> QED
      BY <3>1, <3>2, <3>3 DEF CleanOf, InUnit, DoneAtEnd, CallSound, Brings, ListsHold,
         StartedIsSettled, Working, Calling
  <2> QED
    BY <2>1, <2>2 DEF CleanInv
<1>3. LockInv /\ Kept /\ AnswerInv /\ RestInv /\ CleanInv /\ [Next]_vars => CleanInv'
  <2> SUFFICES ASSUME LockInv, Kept, AnswerInv, RestInv, CleanInv, [Next]_vars PROVE CleanInv'
    OBVIOUS
  <2>1. CASE UNCHANGED vars
    <3>1. UNCHANGED <<stack, body, broken, root, pc, call, ret, state, faulty>>
      BY <2>1 DEF vars, program, nodeVars, threadVars, history
    <3>2. \A n : /\ Sound(n)' <=> Sound(n)
                 /\ \A part : Has(n, part)' <=> Has(n, part)
      BY <3>1 DEF Sound, Returned, Has, Complete, InPrototype, InBody, Usable
    <3>3. StatesSound'
      BY <3>1, <3>2 DEF CleanInv, StatesSound
    <3>4. ASSUME NEW w \in Worker PROVE CleanOf(w)'
      <4>1. /\ Answered(w)' = Answered(w) /\ Top(w)' = Top(w)
            /\ Working(w)' <=> Working(w)
        BY <3>1, UsesStay DEF Answered, Top, Working
      <4>2. CleanOf(w)
        BY DEF CleanInv
      <4>3. \A n : /\ Listed(w, n)' <=> Listed(w, n)
                   /\ Redone(w, n)' <=> Redone(w, n)
        BY <3>1 DEF Listed, Redone, Working
      <4>4. InUnit(w)' /\ DoneAtEnd(w)' /\ CallSound(w)'
        BY <3>1, <4>1, <4>2, <4>3 DEF CleanOf, InUnit, DoneAtEnd, CallSound
      <4>5. \A i \in 1..Len(stack'[w]) : FrameSound(w, i)'
        BY <3>1, <3>2, <4>2, <4>3 DEF CleanOf, FrameSound, Validates
      <4>6. Brings(w)' /\ ListsHold(w)'
        BY <3>1, <3>2, <4>1, <4>2, <4>3 DEF CleanOf, Brings, ListsHold
      <4>7. StartedIsSettled(w)'
        BY <3>1, <4>2 DEF CleanOf, StartedIsSettled, Settled, InWork
      <4> QED
        BY <4>4, <4>5, <4>6, <4>7 DEF CleanOf
    <3> QED
      BY <3>3, <3>4 DEF CleanInv
  <2>2. CASE Next
    BY <1>1, <2>2, CleanStep DEF Next
  <2> QED
    BY <2>1, <2>2
<1>4. LockInv /\ Kept /\ RestInv /\ CleanInv => CleanMeansComplete /\ ListsDeliver
  BY <1>1, CleanIsComplete, DoneDelivers DEF CleanMeansComplete
<1>5. Spec => [](LockInv /\ Kept /\ AnswerInv /\ RestInv)
  BY <1>1, RestInvariant
<1>6. Spec => [](TypeOK /\ OkMeansReady)
  BY <1>1, NodesTypeCorrect, OkAlwaysReady, PTL
<1> QED
  BY <1>2, <1>3, <1>4, <1>5, <1>6, PTL DEF Spec, SuccessIsReal
=============================================================================
