------------------------- MODULE ExpressionParserProofs -------------------------
(***************************************************************************)
(* What holds of the expression parser for every text, well-formed or not:   *)
(* the operators an expression waits with descend in rank, so its recursion  *)
(* is bounded by the number of ranks, and the shared stack of nodes is given *)
(* back as it was found.  The invariant says both of the stack of            *)
(* activations as a whole; every action replaces its last entry, adds one or *)
(* takes one away.                                                           *)
(***************************************************************************)
EXTENDS ExpressionParser, TLAPS

Lists == {"args", "array"}
Inner == {"group", "args", "array"}

(* An operator that waits in place j has a rank of at most 12 - j. *)
Descends(ops) ==
    /\ \A j \in 1 .. Len(ops) - 1 : Rank(ops[j + 1]) < Rank(ops[j])
    /\ \A j \in 1 .. Len(ops) : Rank(ops[j]) + j <= 12

Belongs(f, top) == f.mark <= top /\ (f.who \notin Lists => f.mark = top)

Stacked(fs, size) ==
    /\ fs \in Seq(Frame) /\ fs # <<>>
    /\ fs[1].mark = 0 /\ fs[1].who \notin Inner
    /\ \A i \in 1 .. Len(fs) : Descends(fs[i].ops)
    /\ \A i \in 1 .. Len(fs) - 1 : Belongs(fs[i], fs[i + 1].mark)
    /\ Belongs(fs[Len(fs)], size)

IsList(s) == \E S : s \in Seq(S)

ParserInv == IsList(nodes) /\ Stacked(frames, Len(nodes))

-----------------------------------------------------------------------------

(* A binary operator has one of twelve ranks. *)
LEMMA RankIsBounded == \A o \in BinaryOp : Rank(o) \in 0 .. 11
<1> SUFFICES ASSUME NEW o \in BinaryOp PROVE Rank(o) \in 0 .. 11
  OBVIOUS
<1>1. \E i \in 1 .. 12 : o \in Ranks[i]
  BY DEF BinaryOp
<1>2. (CHOOSE i \in 1 .. 12 : o \in Ranks[i]) \in 1 .. 12
  BY <1>1
<1> QED
  BY <1>2 DEF Rank

(* Adding to a list, and cutting it, give a list of the size one expects. *)
LEMMA AppendIsList ==
    ASSUME NEW s, IsList(s), NEW x
    PROVE  IsList(Append(s, x)) /\ Len(Append(s, x)) = Len(s) + 1
<1>1. PICK S : s \in Seq(S)
  BY DEF IsList
<1>2. s \in Seq(S \cup {x}) /\ x \in S \cup {x}
  BY <1>1
<1>3. Append(s, x) \in Seq(S \cup {x}) /\ Len(Append(s, x)) = Len(s) + 1
  BY <1>2
<1> QED
  BY <1>3 DEF IsList

LEMMA CutIsList ==
    ASSUME NEW s, IsList(s), NEW n \in Nat, n <= Len(s)
    PROVE  IsList(SubSeq(s, 1, n)) /\ Len(SubSeq(s, 1, n)) = n
<1>1. PICK S : s \in Seq(S)
  BY DEF IsList
<1>2. SubSeq(s, 1, n) \in Seq(S) /\ Len(SubSeq(s, 1, n)) = n
  BY <1>1
<1> QED
  BY <1>2 DEF IsList

LEMMA FrontFacts ==
    ASSUME NEW S, NEW s \in Seq(S), s # <<>>
    PROVE  /\ Front(s) \in Seq(S)
           /\ Len(Front(s)) = Len(s) - 1
           /\ \A i \in 1 .. Len(s) - 1 : Front(s)[i] = s[i]
<1>1. Len(s) \in Nat \ {0}
  OBVIOUS
<1>2. Front(s) = SubSeq(s, 1, Len(s) - 1)
  BY DEF Front
<1>3. Front(s) \in Seq(S)
  BY <1>1, <1>2
<1>4. Len(Front(s)) = Len(s) - 1
  <2> DEFINE n == Len(s) - 1
  <2>1. n \in Nat /\ n <= Len(s)
    BY <1>1
  <2>2. IsList(s)
    BY DEF IsList
  <2> HIDE DEF n
  <2>3. Len(SubSeq(s, 1, n)) = n
    BY <2>1, <2>2, CutIsList
  <2> QED
    BY <1>2, <2>3 DEF n
<1>5. \A i \in 1 .. Len(s) - 1 : Front(s)[i] = s[i]
  BY <1>1, <1>2
<1> QED
  BY <1>3, <1>4, <1>5

(* The last activation changes and stays above what it found. *)
LEMMA ReplaceLast ==
    ASSUME NEW fs, NEW size, Stacked(fs, size), NEW f \in Frame, NEW top,
           f.mark = Last(fs).mark, f.who \in Inner <=> Last(fs).who \in Inner,
           Descends(f.ops), Belongs(f, top)
    PROVE  Stacked(SetLast(fs, f), top)
<1> DEFINE n == Len(fs)  gs == SetLast(fs, f)
<1>1. fs \in Seq(Frame) /\ n \in Nat \ {0}
  BY DEF Stacked
<1>2. /\ gs \in Seq(Frame) /\ Len(gs) = n /\ gs[n] = f
      /\ \A i \in 1 .. n - 1 : gs[i] = fs[i]
  <2>1. /\ Front(fs) \in Seq(Frame) /\ Len(Front(fs)) = n - 1
        /\ \A i \in 1 .. n - 1 : Front(fs)[i] = fs[i]
    BY <1>1, FrontFacts DEF Stacked
  <2> QED
    BY <1>1, <2>1 DEF SetLast
<1>3. fs[n] = Last(fs)
  BY DEF Last
<1>4. gs[1].mark = 0 /\ gs[1].who \notin Inner
  BY <1>1, <1>2, <1>3 DEF Stacked
<1>5. \A i \in 1 .. n : Descends(gs[i].ops)
  BY <1>1, <1>2 DEF Stacked
<1>6. \A i \in 1 .. n - 1 : gs[i + 1].mark = fs[i + 1].mark
  BY <1>1, <1>2, <1>3
<1>7. \A i \in 1 .. n - 1 : Belongs(gs[i], gs[i + 1].mark)
  BY <1>1, <1>2, <1>6 DEF Stacked
<1> QED
  BY <1>1, <1>2, <1>4, <1>5, <1>7 DEF Stacked

(* A new activation starts at the top of the stack of nodes. *)
LEMMA Push ==
    ASSUME NEW fs, NEW size \in Nat, Stacked(fs, size),
           NEW f \in Frame, f.mark = size, f.ops = <<>>
    PROVE  Stacked(Append(fs, f), size)
<1> DEFINE n == Len(fs)  gs == Append(fs, f)
<1>1. fs \in Seq(Frame) /\ n \in Nat \ {0}
  BY DEF Stacked
<1>2. /\ gs \in Seq(Frame) /\ Len(gs) = n + 1 /\ gs[n + 1] = f
      /\ \A i \in 1 .. n : gs[i] = fs[i]
  BY <1>1
<1>3. Descends(f.ops) /\ Belongs(f, size)
  BY DEF Descends, Belongs
<1>4. \A i \in 1 .. n : Belongs(gs[i], gs[i + 1].mark)
  <2> SUFFICES ASSUME NEW i \in 1 .. n PROVE Belongs(gs[i], gs[i + 1].mark)
    OBVIOUS
  <2>1. CASE i = n
    BY <2>1, <1>1, <1>2 DEF Stacked
  <2>2. CASE i < n
    <3>1. i \in 1 .. n - 1 /\ i + 1 \in 1 .. n
      BY <2>2, <1>1
    <3> QED
      BY <3>1, <1>2 DEF Stacked
  <2> QED
    BY <2>1, <2>2, <1>1
<1>5. gs[1].mark = 0 /\ gs[1].who \notin Inner
  BY <1>1, <1>2 DEF Stacked
<1>6. \A i \in 1 .. n + 1 : Descends(gs[i].ops)
  BY <1>1, <1>2, <1>3 DEF Stacked
<1> QED
  BY <1>1, <1>2, <1>3, <1>4, <1>5, <1>6 DEF Stacked

(* The activation below goes on with the stack of nodes cut at the mark. *)
LEMMA Pop ==
    ASSUME NEW fs, NEW size, Stacked(fs, size), Last(fs).who \in Inner \/ Len(fs) > 1
    PROVE  Stacked(Front(fs), Last(fs).mark)
<1> DEFINE n == Len(fs)  gs == Front(fs)
<1>1. fs \in Seq(Frame) /\ n \in Nat \ {0} /\ Last(fs) = fs[n]
  BY DEF Stacked, Last
<1>2. n > 1
  BY <1>1 DEF Stacked
<1>3. /\ gs \in Seq(Frame) /\ Len(gs) = n - 1 /\ gs # <<>>
      /\ \A i \in 1 .. n - 1 : gs[i] = fs[i]
  BY <1>1, <1>2, FrontFacts DEF Stacked
<1>4. \A i \in 1 .. n - 2 : Belongs(gs[i], gs[i + 1].mark)
  BY <1>1, <1>2, <1>3 DEF Stacked
<1>5. Belongs(gs[n - 1], fs[n].mark)
  BY <1>1, <1>2, <1>3 DEF Stacked
<1>6. gs[1].mark = 0 /\ gs[1].who \notin Inner /\ \A i \in 1 .. n - 1 : Descends(gs[i].ops)
  BY <1>1, <1>2, <1>3 DEF Stacked
<1> QED
  BY <1>1, <1>2, <1>3, <1>4, <1>5, <1>6 DEF Stacked

(* The activation that runs is one of parseExpression, above its mark. *)
LEMMA LastFrame ==
    ASSUME ParserInv
    PROVE  /\ F \in Frame /\ Descends(F.ops) /\ Belongs(F, Len(nodes))
           /\ F = Last(frames) /\ Len(nodes) \in Nat
<1>1. frames \in Seq(Frame) /\ Len(frames) \in Nat \ {0}
  BY DEF ParserInv, Stacked
<1>2. F = frames[Len(frames)]
  BY DEF F, Last
<1>3. Len(nodes) \in Nat
  BY DEF ParserInv, IsList
<1> QED
  BY <1>1, <1>2, <1>3 DEF ParserInv, Stacked, F

(* An operator of a lower rank than the last joins, the last one leaves. *)
LEMMA JoinDescends ==
    ASSUME NEW ops \in Seq(BinaryOp), Descends(ops), NEW o \in BinaryOp,
           ops # <<>> => Rank(Last(ops)) > Rank(o)
    PROVE  Append(ops, o) \in Seq(BinaryOp) /\ Descends(Append(ops, o))
<1> DEFINE n == Len(ops)  new == Append(ops, o)
<1>1. /\ n \in Nat /\ new \in Seq(BinaryOp) /\ Len(new) = n + 1 /\ new[n + 1] = o
      /\ \A j \in 1 .. n : new[j] = ops[j] /\ ops[j] \in BinaryOp
  OBVIOUS
<1>2. \A p \in BinaryOp : Rank(p) \in 0 .. 11
  BY RankIsBounded
<1>3. ops # <<>> => n \in 1 .. n /\ Last(ops) = ops[n]
  BY DEF Last
<1>4. ASSUME NEW j \in 1 .. n PROVE Rank(new[j + 1]) < Rank(new[j])
  <2>1. CASE j = n
    BY <2>1, <1>1, <1>3
  <2>2. CASE j # n
    <3>1. j \in 1 .. n - 1 /\ j + 1 \in 1 .. n
      BY <2>2, <1>1
    <3> QED
      BY <3>1, <1>1 DEF Descends
  <2> QED
    BY <2>1, <2>2
<1>5. Rank(o) + (n + 1) <= 12
  <2>1. CASE n = 0
    BY <2>1, <1>2
  <2>2. CASE n # 0
    <3>1. Rank(ops[n]) + n <= 12 /\ Rank(ops[n]) > Rank(o)
      BY <2>2, <1>1, <1>3 DEF Descends
    <3>2. Rank(ops[n]) \in Int /\ Rank(o) \in Int
      BY <2>2, <1>1, <1>2
    <3> HIDE DEF n
    <3> QED
      BY <3>1, <3>2, <1>1
  <2> QED
    BY <2>1, <2>2
<1>6. \A j \in 1 .. n : Rank(new[j]) + j <= 12
  BY <1>1 DEF Descends
<1> QED
  BY <1>1, <1>4, <1>5, <1>6 DEF Descends

LEMMA LeaveDescends ==
    ASSUME NEW ops \in Seq(BinaryOp), ops # <<>>, Descends(ops)
    PROVE  Front(ops) \in Seq(BinaryOp) /\ Descends(Front(ops))
<1>1. /\ Front(ops) \in Seq(BinaryOp) /\ Len(Front(ops)) = Len(ops) - 1
      /\ \A j \in 1 .. Len(ops) - 1 : Front(ops)[j] = ops[j]
  BY FrontFacts
<1> QED
  BY <1>1, SMTT(30) DEF Descends

-----------------------------------------------------------------------------

LEMMA InitEstablishes == Init => ParserInv
<1> SUFFICES ASSUME Init PROVE ParserInv
  OBVIOUS
<1> DEFINE who == IF source.loop THEN RangeFrom(1).who ELSE "statement"
<1>1. RangeFrom(1).who \in Callers \ Inner
  BY DEF RangeFrom, Callers, Inner
<1>2. who \in Callers \ Inner
  BY <1>1 DEF Callers, Inner
<1> DEFINE f == NewFrame(who)
<1>3. frames = <<f>> /\ nodes = <<>>
  BY DEF Init
<1>4. f.who = who /\ f.mark = 0 /\ f.ops = <<>> /\ f \in Frame
  <2> HIDE DEF who
  <2>1. Len(nodes) = 0
    BY <1>3
  <2> QED
    BY <2>1, <1>2 DEF NewFrame, Frame
<1>5. nodes \in Seq({})
  BY <1>3
<1>6. Descends(f.ops) /\ Belongs(f, 0)
  BY <1>4 DEF Descends, Belongs
<1> HIDE DEF f, who
<1>7. Stacked(<<f>>, 0)
  BY <1>2, <1>4, <1>6 DEF Stacked
<1> QED
  BY <1>3, <1>5, <1>7 DEF ParserInv, IsList

(* An activation that neither adds operators nor changes what it may do with the nodes. *)
LEMMA ChangeLast ==
    ASSUME ParserInv, NEW f \in Frame, f.mark = F.mark, Descends(f.ops),
           f.who \in Inner <=> F.who \in Inner, f.who \in Lists <=> F.who \in Lists,
           frames' = SetLast(frames, f), nodes' = nodes
    PROVE  ParserInv'
<1>1. Belongs(f, Len(nodes))
  BY LastFrame DEF Belongs
<1>2. Stacked(SetLast(frames, f), Len(nodes))
  BY <1>1, LastFrame, ReplaceLast DEF ParserInv
<1> QED
  BY <1>2 DEF ParserInv

LEMMA NewActivation ==
    ASSUME ParserInv, NEW who \in Callers, frames' = Append(frames, NewFrame(who)), nodes' = nodes
    PROVE  ParserInv'
<1> DEFINE f == NewFrame(who)
<1>1. f \in Frame /\ f.mark = Len(nodes) /\ f.ops = <<>>
  BY LastFrame DEF NewFrame, Frame
<1> HIDE DEF f
<1>2. Stacked(Append(frames, f), Len(nodes))
  BY <1>1, LastFrame, Push DEF ParserInv
<1> QED
  BY <1>2 DEF ParserInv, f

(* An activation that is no list returns without a change to the nodes. *)
LEMMA ReturnKeeps ==
    ASSUME ParserInv, F.who \notin Lists, F.who \in Inner \/ Len(frames) > 1,
           frames' = Front(frames), nodes' = nodes
    PROVE  ParserInv'
<1>1. Len(nodes) = F.mark
  BY LastFrame DEF Belongs
<1>2. Stacked(Front(frames), Last(frames).mark)
  BY Pop, LastFrame DEF ParserInv
<1> QED
  BY <1>1, <1>2, LastFrame DEF ParserInv

LEMMA HugKeeps == ASSUME ParserInv, Hug PROVE ParserInv'
<1> DEFINE f == [F EXCEPT !.ops = Append(@, token)]
<1>1. F.ops \in Seq(BinaryOp) /\ token \in BinaryOp
  BY LastFrame DEF Frame, Hug, HugTighter
<1>2. F.ops # <<>> => Rank(Last(F.ops)) > Rank(token)
  BY DEF Hug, HugTighter, Waiting
<1>3. Append(F.ops, token) \in Seq(BinaryOp) /\ Descends(Append(F.ops, token))
  BY <1>1, <1>2, LastFrame, JoinDescends
<1>4. /\ f \in Frame /\ f.mark = F.mark /\ f.who = F.who
      /\ f.ops = Append(F.ops, token)
  BY <1>3, LastFrame DEF Frame
<1>5. frames' = SetLast(frames, f) /\ nodes' = nodes
  BY DEF Hug, HugTighter
<1> HIDE DEF f
<1> QED
  BY <1>3, <1>4, <1>5, ChangeLast

LEMMA BeHuggedKeeps == ASSUME ParserInv, BeHugged PROVE ParserInv'
<1> DEFINE f == [F EXCEPT !.ops = Front(@)]
<1>1. F.ops \in Seq(BinaryOp) /\ F.ops # <<>>
  BY LastFrame DEF Frame, BeHugged, HandBack
<1>2. Front(F.ops) \in Seq(BinaryOp) /\ Descends(Front(F.ops))
  BY <1>1, LastFrame, LeaveDescends
<1>3. f \in Frame /\ f.mark = F.mark /\ f.who = F.who /\ f.ops = Front(F.ops)
  BY <1>2, LastFrame DEF Frame
<1>4. frames' = SetLast(frames, f) /\ nodes' = nodes
  BY DEF BeHugged, HandBack
<1> HIDE DEF f
<1> QED
  BY <1>2, <1>3, <1>4, ChangeLast

LEMMA NextItemKeeps == ASSUME ParserInv, NextItem PROVE ParserInv'
<1>1. /\ nodes' = Append(nodes, H.tree) /\ frames' = frames
      /\ F.who \in Lists
  BY DEF NextItem, InList, Lists
<1>2. IsList(nodes') /\ Len(nodes') = Len(nodes) + 1
  BY <1>1, AppendIsList DEF ParserInv
<1>3. Belongs(F, Len(nodes) + 1)
  BY <1>1, LastFrame DEF Belongs, Frame
<1>4. Stacked(frames, Len(nodes) + 1)
  <2>1. F = frames[Len(frames)]
    BY DEF F, Last
  <2> QED
    BY <1>3, <2>1 DEF ParserInv, Stacked
<1> QED
  BY <1>1, <1>2, <1>4 DEF ParserInv

LEMMA ListEndsKeeps == ASSUME ParserInv, ListEnds PROVE ParserInv'
<1>1. /\ frames' = Front(frames) /\ nodes' = SubSeq(nodes, 1, F.mark)
      /\ F.who \in Inner
  BY DEF ListEnds, Return, Commit, InList, Inner
<1>2. F.mark \in Nat /\ F.mark <= Len(nodes)
  BY LastFrame DEF Frame, Belongs
<1>3. IsList(nodes') /\ Len(nodes') = F.mark
  BY <1>1, <1>2, CutIsList DEF ParserInv
<1>4. Stacked(Front(frames), F.mark)
  BY <1>1, LastFrame, Pop DEF ParserInv
<1> QED
  BY <1>1, <1>3, <1>4 DEF ParserInv

(* What ParseList does for an initialiser and for a call. *)
LEMMA ParseListKeeps ==
    ASSUME ParserInv, NEW who \in Lists, NEW read, ParseList(who, read)
    PROVE  ParserInv'
<1>1. nodes' = nodes /\ (frames' = frames \/ frames' = Append(frames, NewFrame(who)))
  BY DEF ParseList, Called
<1>2. who \in Callers
  BY DEF Lists, Callers
<1>3. CASE frames' = frames
  BY <1>1, <1>3 DEF ParserInv
<1>4. CASE frames' = Append(frames, NewFrame(who))
  BY <1>1, <1>2, <1>4, NewActivation
<1> QED
  BY <1>1, <1>3, <1>4

LEMMA SubscriptKeeps == ASSUME ParserInv, Subscript PROVE ParserInv'
<1> DEFINE who == RangeFrom(pos).who
<1>1. who \in Callers
  BY DEF RangeFrom, Callers
<1>2. frames' = Append(frames, NewFrame(who)) /\ nodes' = nodes
  BY DEF Subscript, Called
<1> HIDE DEF who
<1> QED
  BY <1>1, <1>2, NewActivation

(* The steps that give the last activation another prefix or another part of its range. *)
LEMMA LastChangesKeep ==
    ASSUME ParserInv, ParsePrefix \/ NodeEnds \/ PartEnds
    PROVE  ParserInv'
<1>1. CASE ParsePrefix
  <2> DEFINE f == [F EXCEPT !.prefix = Append(@, Ahead)]
  <2>1. F \in Frame /\ Append(F.prefix, Ahead) \in Seq(UnaryOp)
    BY <1>1, LastFrame DEF ParsePrefix, Frame
  <2>2. f \in Frame /\ f.mark = F.mark /\ f.who = F.who /\ f.ops = F.ops
    BY <2>1 DEF Frame
  <2>3. frames' = SetLast(frames, f) /\ nodes' = nodes
    BY <1>1 DEF ParsePrefix
  <2> HIDE DEF f
  <2> QED
    BY <2>2, <2>3, LastFrame, ChangeLast
<1>2. CASE NodeEnds
  <2> DEFINE f == [F EXCEPT !.prefix = <<>>]
  <2>1. F \in Frame /\ <<>> \in Seq(UnaryOp)
    BY LastFrame
  <2>2. f \in Frame /\ f.mark = F.mark /\ f.who = F.who /\ f.ops = F.ops
    BY <2>1 DEF Frame
  <2>3. frames' = SetLast(frames, f) /\ nodes' = nodes
    BY <1>2 DEF NodeEnds
  <2> HIDE DEF f
  <2> QED
    BY <2>2, <2>3, LastFrame, ChangeLast
<1>3. CASE PartEnds
  <2> DEFINE f == [F EXCEPT !.who = IF @ = "from" THEN "second" ELSE "third"]
  <2>1. /\ f \in Frame /\ f.mark = F.mark /\ f.ops = F.ops
        /\ f.who \in {"second", "third"} /\ F.who \in {"from", "second", "third"}
        /\ frames' = SetLast(frames, f) /\ nodes' = nodes
    BY <1>3, LastFrame DEF PartEnds, InRange, Frame, Callers
  <2>2. (f.who \in Inner <=> F.who \in Inner) /\ (f.who \in Lists <=> F.who \in Lists)
    BY <2>1 DEF Inner, Lists
  <2> HIDE DEF f
  <2> QED
    BY <2>1, <2>2, LastFrame, ChangeLast
<1> QED
  BY <1>1, <1>2, <1>3

LEMMA ReturnsKeep ==
    ASSUME ParserInv, GroupEnds \/ SubscriptEnds
    PROVE  ParserInv'
<1>1. CASE GroupEnds
  <2>1. F.who = "group" /\ frames' = Front(frames) /\ nodes' = nodes
    BY <1>1 DEF GroupEnds, Return
  <2>2. F.who \in Inner /\ F.who \notin Lists
    BY <2>1 DEF Inner, Lists
  <2> QED
    BY <2>1, <2>2, ReturnKeeps
<1>2. CASE SubscriptEnds
  <2>1. /\ F.who \in {"from", "second", "third"} /\ Len(frames) > 1
        /\ frames' = Front(frames) /\ nodes' = nodes
    BY <1>2 DEF SubscriptEnds, Return, RangeOver, InRange
  <2>2. F.who \notin Lists
    BY <2>1 DEF Lists
  <2> QED
    BY <2>1, <2>2, ReturnKeeps
<1> QED
  BY <1>1, <1>2

LEMMA StepKeeps == ParserInv /\ [Next]_vars => ParserInv'
<1> SUFFICES ASSUME ParserInv, [Next]_vars PROVE ParserInv'
  OBVIOUS
<1>1. ASSUME frames' = frames, nodes' = nodes PROVE ParserInv'
  BY <1>1 DEF ParserInv
<1>2. CASE UNCHANGED vars
  BY <1>1, <1>2 DEF vars
<1>3. CASE ParseOperand \/ NoOperand \/ MemberSelection \/ EmptySubscript \/ PostfixUnary
            \/ NoPostfix \/ StatementEnds \/ LoopHeaderEnds
  BY <1>1, <1>3 DEF ParseOperand, NoOperand, MemberSelection, EmptySubscript, PostfixUnary,
                    NoPostfix, StatementEnds, LoopHeaderEnds, Finish
<1>4. CASE ParsePrefix \/ NodeEnds \/ PartEnds
  BY <1>4, LastChangesKeep
<1>5. CASE ParseGroup
  BY <1>5, NewActivation DEF ParseGroup, Called, Callers
<1>6. CASE parseArrayInitialization
  BY <1>6, ParseListKeeps DEF parseArrayInitialization, Lists
<1>7. CASE ParseCall
  BY <1>7, ParseListKeeps DEF ParseCall, Lists
<1>8. CASE Subscript
  BY <1>8, SubscriptKeeps
<1>9. CASE Hug
  BY <1>9, HugKeeps
<1>10. CASE BeHugged
  BY <1>10, BeHuggedKeeps
<1>11. CASE GroupEnds \/ SubscriptEnds
  BY <1>11, ReturnsKeep
<1>12. CASE NextItem
  BY <1>12, NextItemKeeps
<1>13. CASE ListEnds
  BY <1>13, ListEndsKeeps
<1> QED
  BY <1>2, <1>3, <1>4, <1>5, <1>6, <1>7, <1>8, <1>9, <1>10, <1>11, <1>12, <1>13 DEF Next

(* The stack of activations is well built in every state of every text. *)
THEOREM ParserInvHolds == Spec => []ParserInv
BY InitEstablishes, StepKeeps, PTL DEF Spec

(* In parseExpressionRecursive an operator that waits binds tighter than the one    *)
(* that waits outside of it.                                                        *)
THEOREM RanksAlwaysDescend == Spec => []RanksDescend
<1>1. ParserInv => RanksDescend
  <2> SUFFICES ASSUME ParserInv, NEW i \in DOMAIN frames,
                      NEW j \in 1 .. Len(frames[i].ops) - 1
               PROVE  Rank(frames[i].ops[j + 1]) < Rank(frames[i].ops[j])
    BY DEF RanksDescend
  <2>1. i \in 1 .. Len(frames)
    BY DEF ParserInv, Stacked
  <2> QED
    BY <2>1 DEF ParserInv, Stacked, Descends
<1> QED
  BY <1>1, ParserInvHolds, PTL

(* No expression, however long, has more than twelve operators waiting: the activations *)
(* of parseExpressionRecursive for one expression are at most thirteen.                 *)
THEOREM RecursionIsShallow == Spec => [](\A i \in DOMAIN frames : Len(frames[i].ops) <= 12)
<1>1. ParserInv => \A i \in DOMAIN frames : Len(frames[i].ops) <= 12
  <2> SUFFICES ASSUME ParserInv, NEW i \in DOMAIN frames
               PROVE  Len(frames[i].ops) <= 12
    OBVIOUS
  <2> DEFINE ops == frames[i].ops  n == Len(ops)
  <2>1. i \in 1 .. Len(frames) /\ frames[i] \in Frame
    BY DEF ParserInv, Stacked
  <2>2. ops \in Seq(BinaryOp) /\ n \in Nat /\ Descends(ops)
    BY <2>1 DEF ParserInv, Stacked, Frame
  <2>3. CASE n = 0
    BY <2>3
  <2>4. CASE n # 0
    <3>1. n \in 1 .. n /\ ops[n] \in BinaryOp
      BY <2>2, <2>4
    <3>2. Rank(ops[n]) + n <= 12 /\ Rank(ops[n]) \in 0 .. 11
      BY <2>2, <3>1, RankIsBounded DEF Descends
    <3>3. n \in Nat
      BY <2>2
    <3> HIDE DEF n
    <3>4. n <= 12
      BY <3>2, <3>3
    <3> QED
      BY <3>4 DEF n
  <2> QED
    BY <2>3, <2>4
<1> QED
  BY <1>1, ParserInvHolds, PTL

(* What lies above a list's mark in ctx->nodeStack are the list's own items, and a     *)
(* finished expression leaves nothing there.                                           *)
THEOREM NodesAlwaysBelong == Spec => []NodesBelong
<1>1. ParserInv => NodesBelong
  <2> SUFFICES ASSUME ParserInv PROVE NodesBelong
    OBVIOUS
  <2>1. DOMAIN frames = 1 .. Len(frames) /\ frames[1].mark = 0
    BY DEF ParserInv, Stacked
  <2>2. ASSUME NEW i \in DOMAIN frames
        PROVE  Belongs(frames[i], IF i = Len(frames) THEN Len(nodes) ELSE frames[i + 1].mark)
    <3>1. i \in 1 .. Len(frames) /\ Len(frames) \in Nat
      BY <2>1 DEF ParserInv, Stacked
    <3>2. CASE i = Len(frames)
      BY <3>2 DEF ParserInv, Stacked
    <3>3. CASE i # Len(frames)
      <4>1. i \in 1 .. Len(frames) - 1
        BY <3>1, <3>3
      <4> QED
        BY <4>1, <3>3 DEF ParserInv, Stacked
    <3> QED
      BY <3>2, <3>3
  <2> QED
    BY <2>1, <2>2 DEF NodesBelong, Belongs, Lists
<1> QED
  BY <1>1, ParserInvHolds, PTL

=============================================================================
