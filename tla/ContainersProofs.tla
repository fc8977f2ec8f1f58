--------------------------- MODULE ContainersProofs ---------------------------
(***************************************************************************)
(* The data structures, for every instance: an arena is the one block it   *)
(* stands for; the table of types that several threads fill makes a type   *)
(* once and gives everyone the type that was asked for.  The hash set and  *)
(* the ordered dictionary are each the set they stand for, whatever the    *)
(* keys, the values the hash method gives them and the calls that came     *)
(* before.  And the document of the language server: whatever the edits,   *)
(* it is the client's.                                                     *)
(***************************************************************************)
EXTENDS Containers, Document, TypeTable, SequenceTheorems, FiniteSetTheorems,
        WellFoundedInduction, TLAPS

-----------------------------------------------------------------------------
(* Remainders.                                                             *)

LEMMA Divided ==
    ASSUME NEW n \in Int, NEW d \in Nat \ {0}
    PROVE  \E q \in Int, r \in 0..(d - 1) : n = q * d + r /\ r = n % d /\ q = n \div d
<1>1. PICK q \in Int, r \in 0..(d - 1) : q = n \div d /\ r = n % d
  <2>1. n % d \in 0..(d - 1) /\ n \div d \in Int
    OBVIOUS
  <2> QED
    BY <2>1
<1>2. n = q * d + r
  BY <1>1
<1> QED
  BY <1>1, <1>2

LEMMA Between ==
    ASSUME NEW d \in Nat, NEW j \in Int, NEW k \in Int, j < k
    PROVE  j * d + d <= k * d
<1>1. PICK e \in Nat : k = j + 1 + e
  <2>1. k - j - 1 \in Nat
    OBVIOUS
  <2> QED
    BY <2>1
<1>2. e * d \in Nat /\ j * d \in Int
  OBVIOUS
<1>3. k * d = j * d + d + e * d
  BY <1>1
<1> QED
  BY <1>2, <1>3

LEMMA Digits ==
    ASSUME NEW d \in Nat, NEW x \in 0..(d - 1), NEW y \in 0..(d - 1),
           NEW m \in Int, NEW n \in Int, x + m * d = y + n * d
    PROVE  x = y /\ m = n
<1>1. m * d \in Int /\ n * d \in Int
  OBVIOUS
<1>2. ~ (m < n)
  <2> SUFFICES ASSUME m < n PROVE FALSE
    OBVIOUS
  <2>1. m * d + d <= n * d
    BY Between
  <2> QED
    BY <1>1, <2>1
<1>3. ~ (n < m)
  <2> SUFFICES ASSUME n < m PROVE FALSE
    OBVIOUS
  <2>1. n * d + d <= m * d
    BY Between
  <2> QED
    BY <1>1, <2>1
<1>4. m = n
  BY <1>2, <1>3
<1> QED
  BY <1>1, <1>4

LEMMA RemainderIs ==
    ASSUME NEW d \in Nat \ {0}, NEW r \in 0..(d - 1), NEW q \in Int, NEW n, n = q * d + r
    PROVE  n % d = r /\ n \div d = q
<1>1. n \in Int
  OBVIOUS
<1>2. PICK p \in Int, s \in 0..(d - 1) : n = p * d + s /\ s = n % d /\ p = n \div d
  BY <1>1, Divided
<1>3. s = r /\ p = q
  <2>1. PICK u \in Int, v \in Int : u = p * d /\ v = q * d
    OBVIOUS
  <2>2. s + u = r + v
    BY <1>2, <2>1
  <2>3. s + p * d = r + q * d
    BY <2>1, <2>2
  <2> QED
    BY <2>3, Digits
<1> QED
  BY <1>2, <1>3

LEMMA NoRemainder ==
    ASSUME NEW d \in Nat \ {0}, NEW q \in Int, NEW n, n = q * d
    PROVE  n % d = 0
<1>1. PICK z \in 0..(d - 1) : z = 0
  OBVIOUS
<1>2. n = q * d + z
  BY <1>1
<1>3. n % d = z
  BY <1>2, RemainderIs
<1> QED
  BY <1>1, <1>3

(* What getPadding adds: the rest of the last multiple that was begun.      *)
LEMMA Padded ==
    ASSUME NEW n \in Nat, NEW a \in Nat \ {0}
    PROVE  /\ getPadding(n, a) \in 0..(a - 1)
           /\ \E k \in Int : n + getPadding(n, a) = k * a
           /\ \A m \in Int : n <= m * a => n + getPadding(n, a) <= m * a
           /\ One!AlignUp(n, a) = n + getPadding(n, a)
<1>1. PICK q \in Int, r \in 0..(a - 1) : n = q * a + r /\ r = n % a
  <2>1. n \in Int
    OBVIOUS
  <2> QED
    BY <2>1, Divided
<1>2. q * a \in Int /\ (q + 1) * a = q * a + a
  OBVIOUS
<1>3. CASE r = 0
  <2>1. a = 1 * a + 0
    OBVIOUS
  <2>2. (a - r) % a = 0
    BY <1>3, <2>1, RemainderIs
  <2>3. getPadding(n, a) = 0
    BY <1>1, <2>2 DEF getPadding
  <2>4. (n + a - 1) \div a = q
    <3>1. PICK m \in Int, s \in 0..(a - 1), p \in Int :
             m = n + a - 1 /\ s = a - 1 /\ p = q /\ m = p * a + s
      BY <1>1, <1>2, <1>3
    <3>2. m \div a = p
      BY <3>1, RemainderIs
    <3> QED
      BY <3>1, <3>2
  <2>5. One!AlignUp(n, a) = n
    BY <1>1, <1>2, <1>3, <2>4 DEF One!AlignUp
  <2> QED
    BY <1>1, <1>2, <1>3, <2>3, <2>5
<1>4. CASE r # 0
  <2>1. (a - r) % a = a - r
    <3>1. PICK s \in 0..(a - 1) : s = a - r
      BY <1>4
    <3>2. s % a = s
      OBVIOUS
    <3> QED
      BY <3>1, <3>2
  <2>2. getPadding(n, a) = a - r
    BY <1>1, <2>1 DEF getPadding
  <2>3. (n + a - 1) \div a = q + 1
    <3>1. PICK m \in Int, s \in 0..(a - 1), p \in Int :
             m = n + a - 1 /\ s = r - 1 /\ p = q + 1 /\ m = p * a + s
      BY <1>1, <1>2, <1>4
    <3>2. m \div a = p
      BY <3>1, RemainderIs
    <3> QED
      BY <3>1, <3>2
  <2>4. n + getPadding(n, a) = (q + 1) * a
    BY <1>1, <1>2, <2>2
  <2>5. One!AlignUp(n, a) = n + getPadding(n, a)
    BY <2>3, <2>4 DEF One!AlignUp
  <2>6. ASSUME NEW m \in Int, n <= m * a PROVE n + getPadding(n, a) <= m * a
    <3>1. q < m
      <4> SUFFICES ASSUME m <= q PROVE FALSE
        OBVIOUS
      <4>1. m * a \in Int /\ (m = q \/ m * a + a <= q * a)
        BY Between
      <4> QED
        BY <1>1, <1>2, <1>4, <2>6, <4>1
    <3>2. q * a + a <= m * a
      BY <3>1, Between
    <3> QED
      BY <1>2, <2>4, <3>2
  <2> QED
    BY <1>4, <2>2, <2>4, <2>5, <2>6
<1> QED
  BY <1>3, <1>4

(* Positions that are a multiple of a apart need the same padding.          *)
LEMMA SamePadding ==
    ASSUME NEW m \in Nat, NEW n \in Nat, NEW a \in Nat \ {0}, NEW k \in Int, m = n + k * a
    PROVE  getPadding(m, a) = getPadding(n, a)
<1>1. PICK q \in Int, r \in 0..(a - 1) : n = q * a + r /\ r = n % a
  <2>1. n \in Int
    OBVIOUS
  <2> QED
    BY <2>1, Divided
<1>2. PICK p \in Int : p = q + k /\ m = p * a + r
  <2>1. (q + k) * a = q * a + k * a
    OBVIOUS
  <2>2. PICK u \in Int, v \in Int : u = q * a /\ v = k * a
    OBVIOUS
  <2>3. m = (q + k) * a + r
    BY <1>1, <2>1, <2>2
  <2> QED
    BY <2>3
<1>3. m % a = r
  BY <1>2, RemainderIs
<1> QED
  BY <1>1, <1>3 DEF getPadding

-----------------------------------------------------------------------------
(* The arena.                                                              *)

Block      == [start : Nat, padding : Nat, pos : 0..Payload]
Allocation == [block : Nat, off : Nat, size : Sizes, align : Aligns]
Mark       == [block : Nat, pos : 0..Payload, kept : Nat]

EndOf(b) == blocks[b].start + blocks[b].pos - blocks[b].padding

ArenaTyped ==
    /\ blocks \in Seq(Block) /\ tail \in 1..Len(blocks) /\ logicalPos \in Nat
    /\ live \in Seq(Allocation) /\ marker \in Mark

(* The blocks in use lie one behind the other in the one block, each as far *)
(* from a multiple of BaseAlign as its place there is.                     *)
Chained ==
    /\ blocks[1].start = 0 /\ blocks[1].padding = 0
    /\ \A b \in 1..tail : /\ blocks[b].padding = blocks[b].start % BaseAlign
                          /\ blocks[b].padding <= blocks[b].pos
    /\ \A b, c \in 1..tail : b < c => EndOf(b) <= blocks[c].start
    /\ logicalPos = EndOf(tail)

InBlock(a) == /\ a.block \in 1..tail /\ a.off % a.align = 0
              /\ blocks[a.block].padding <= a.off /\ a.off + a.size <= blocks[a.block].pos
Before(a, c) == a.block < c.block \/ (a.block = c.block /\ a.off + a.size <= c.off)

Lying ==
    /\ \A i \in 1..Len(live) : InBlock(live[i])
    /\ \A i, j \in 1..Len(live) : i < j => Before(live[i], live[j])

(* A marker divides what was there when it was taken from what came later. *)
Marking ==
    marker # NoMarker =>
        /\ marker.block = 1 /\ marker.pos <= blocks[1].pos /\ marker.kept <= Len(live)
        /\ \A i \in 1..marker.kept : live[i].block = 1 /\ live[i].off + live[i].size <= marker.pos
        /\ \A i \in (marker.kept + 1)..Len(live) : live[i].block > 1 \/ live[i].off >= marker.pos

(* Blocks from an earlier use are there only in an arena that was emptied.  *)
NothingBehind == use = "flat" => Len(blocks) = tail

ArenaInv == ArenaTyped /\ Chained /\ Lying /\ Marking /\ NothingBehind

LEMMA ArenaConstants ==
    /\ Payload \in Nat /\ BaseAlign \in Nat \ {0}
    /\ \A size \in Sizes : size \in Nat \ {0} /\ size + BaseAlign <= Payload
    /\ \A align \in Aligns : /\ align \in Nat \ {0} /\ align <= BaseAlign
                             /\ \E k \in Int : BaseAlign = k * align
<1>1. ASSUME NEW align \in Aligns
      PROVE  align \in Nat \ {0} /\ align <= BaseAlign /\ \E k \in Int : BaseAlign = k * align
  <2>1. align \in Nat \ {0} /\ align <= BaseAlign /\ BaseAlign % align = 0 /\ BaseAlign \in Int
    BY ArenaAssumption
  <2>2. PICK q \in Int, r \in 0..(align - 1) : BaseAlign = q * align + r /\ r = BaseAlign % align
    BY <2>1, Divided
  <2>3. BaseAlign = q * align
    BY <2>1, <2>2
  <2> QED
    BY <2>1, <2>3
<1> QED
  BY <1>1, ArenaAssumption

LEMMA BlockFields ==
    \A b \in Block : /\ b.start \in Nat /\ b.padding \in Nat /\ b.pos \in Nat
                     /\ b.pos <= Payload
BY ArenaConstants DEF Block

(* The offset in the block needs the padding that the position in the one   *)
(* block needs.                                                            *)
LEMMA PaddingAsInOne ==
    ASSUME NEW start \in Nat, NEW pos \in Nat, NEW padding \in Nat, padding = start % BaseAlign,
           padding <= pos, NEW align \in Aligns
    PROVE  getPadding(start + pos - padding, align) = getPadding(pos, align)
<1>1. PICK q \in Int : start = q * BaseAlign + padding
  <2>1. start \in Int /\ BaseAlign \in Nat \ {0}
    BY ArenaConstants
  <2> QED
    BY <2>1, Divided
<1>2. PICK k \in Int : BaseAlign = k * align
  BY ArenaConstants
<1>3. q * BaseAlign = (q * k) * align
  BY <1>2, ArenaConstants
<1>4. PICK m \in Nat, e \in Int : m = start + pos - padding /\ e = q * k
  OBVIOUS
<1>5. m = pos + e * align
  <2>1. PICK u \in Int : u = q * BaseAlign
    BY ArenaConstants
  <2>2. start = u + padding
    BY <1>1, <2>1
  <2>3. m = pos + u
    BY <1>4, <2>2
  <2> QED
    BY <1>3, <1>4, <2>1, <2>3
<1>6. getPadding(m, align) = getPadding(pos, align)
  BY <1>5, SamePadding, ArenaConstants
<1> QED
  BY <1>4, <1>6

LEMMA ShiftedUp ==
    ASSUME NEW s \in Nat, NEW d \in Nat, NEW x \in Nat, d <= x
    PROVE  s + x - d \in Nat /\ s + x - d >= s
OBVIOUS

LEMMA Shifted ==
    ASSUME NEW s \in Nat, NEW d \in Nat, NEW x \in Nat, NEW z \in Nat, NEW p \in Nat, x + z <= p
    PROVE  s + x - d + z <= s + p - d
OBVIOUS

LEMMA EndsBefore ==
    ASSUME ArenaInv, NEW b \in 1..tail
    PROVE  EndOf(b) \in Int /\ EndOf(b) <= logicalPos /\ blocks[b] \in Block
<1>1. /\ tail \in 1..Len(blocks) /\ blocks \in Seq(Block) /\ logicalPos \in Nat
      /\ logicalPos = EndOf(tail) /\ blocks[tail].padding <= blocks[tail].pos
  BY DEF ArenaInv, ArenaTyped, Chained
<1>2. ASSUME NEW c \in 1..tail
      PROVE  /\ blocks[c] \in Block /\ EndOf(c) \in Int /\ blocks[c].start \in Nat
             /\ blocks[c].padding \in Nat /\ blocks[c].pos \in Nat
  <2>1. blocks[c] \in Block
    BY <1>1
  <2>2. blocks[c].start \in Nat /\ blocks[c].padding \in Nat /\ blocks[c].pos \in Nat
    BY <2>1, ArenaConstants DEF Block
  <2> QED
    BY <2>1, <2>2 DEF EndOf
<1>3. CASE b = tail
  BY <1>1, <1>2, <1>3
<1>4. CASE b < tail
  <2>1. EndOf(b) <= blocks[tail].start
    BY <1>1, <1>4 DEF ArenaInv, Chained
  <2>2. PICK s \in Nat, p \in Nat, q \in Nat :
           s = blocks[tail].start /\ p = blocks[tail].padding /\ q = blocks[tail].pos
    BY <1>1, <1>2
  <2>3. logicalPos = s + q - p /\ p <= q
    BY <1>1, <2>2 DEF EndOf
  <2> QED
    BY <1>2, <2>1, <2>2, <2>3
<1> QED
  BY <1>1, <1>3, <1>4

(* What lies in front of it in the arena lies in front of it in the one     *)
(* block.                                                                  *)
LEMMA LogicalPlace ==
    ASSUME ArenaInv, NEW i \in 1..Len(live)
    PROVE  /\ live[i] \in Allocation /\ blocks[live[i].block] \in Block
           /\ LogicalAt(live[i]) \in Nat /\ live[i].size \in Nat \ {0}
           /\ LogicalAt(live[i]) >= blocks[live[i].block].start
           /\ LogicalAt(live[i]) + live[i].size <= EndOf(live[i].block)
           /\ LogicalAt(live[i]) + live[i].size <= logicalPos
           /\ \A b \in 1..tail : live[i].block < b =>
                  LogicalAt(live[i]) + live[i].size <= blocks[b].start
<1>1. /\ live[i] \in Allocation /\ live[i].block \in 1..tail /\ tail \in 1..Len(blocks)
      /\ blocks \in Seq(Block) /\ logicalPos \in Nat
  BY DEF ArenaInv, ArenaTyped, Lying, InBlock
<1>2. PICK a : a = live[i] /\ a \in Allocation /\ a.block \in 1..tail
  BY <1>1
<1>3. a.size \in Nat \ {0} /\ a.off \in Nat
  BY <1>2, ArenaConstants DEF Allocation
<1>4. PICK k \in Block : k = blocks[a.block]
  BY <1>1, <1>2
<1>5. /\ k.start \in Nat /\ k.padding \in Nat /\ k.pos \in Nat
  BY <1>4, ArenaConstants DEF Block
<1>6. k.padding <= a.off /\ a.off + a.size <= k.pos
  BY <1>2, <1>4 DEF ArenaInv, Lying, InBlock
<1>7. LogicalAt(a) = k.start + a.off - k.padding /\ EndOf(a.block) = k.start + k.pos - k.padding
  BY <1>4 DEF LogicalAt, EndOf
<1>8. \A b \in 1..tail : a.block < b => EndOf(a.block) <= blocks[b].start /\ blocks[b] \in Block
  BY <1>1, <1>2 DEF ArenaInv, Chained
<1>9. EndOf(a.block) <= logicalPos
  BY <1>2, EndsBefore
<1>10. /\ LogicalAt(a) \in Nat /\ EndOf(a.block) \in Int /\ LogicalAt(a) >= k.start
       /\ LogicalAt(a) + a.size <= EndOf(a.block)
  <2>1. PICK s \in Nat, d \in Nat, p \in Nat, x \in Nat, z \in Nat :
           /\ s = k.start /\ d = k.padding /\ p = k.pos /\ x = a.off /\ z = a.size
           /\ d <= x /\ x + z <= p
    BY <1>3, <1>5, <1>6
  <2>2. LogicalAt(a) = s + x - d /\ EndOf(a.block) = s + p - d
    BY <1>7, <2>1
  <2>3. s + x - d \in Nat /\ s + p - d \in Int /\ s + x - d >= s
    <3>1. d <= x
      BY <2>1
    <3>2. s + x - d \in Nat /\ s + x - d >= s
      BY <3>1, ShiftedUp
    <3>3. s + p - d \in Int
      OBVIOUS
    <3> QED
      BY <3>2, <3>3
  <2>4. s + x - d + z <= s + p - d
    BY <2>1, Shifted
  <2> QED
    BY <2>1, <2>2, <2>3, <2>4
<1>11. \A b \in 1..tail : a.block < b => LogicalAt(a) + a.size <= blocks[b].start
  <2> SUFFICES ASSUME NEW b \in 1..tail, a.block < b
               PROVE  LogicalAt(a) + a.size <= blocks[b].start
    OBVIOUS
  <2>1. EndOf(a.block) <= blocks[b].start /\ blocks[b].start \in Nat
    BY <1>8 DEF Block
  <2> QED
    BY <1>3, <1>10, <2>1
<1>12. LogicalAt(a) + a.size <= logicalPos
  BY <1>1, <1>3, <1>9, <1>10
<1> QED
  BY <1>2, <1>3, <1>4, <1>10, <1>11, <1>12

LEMMA LogicalOrder ==
    ASSUME ArenaInv, NEW i \in 1..Len(live), NEW j \in 1..Len(live), i < j
    PROVE  LogicalAt(live[i]) + live[i].size <= LogicalAt(live[j])
<1>1. /\ live[i] \in Allocation /\ live[j] \in Allocation /\ Before(live[i], live[j])
      /\ live[j].block \in 1..tail
  BY DEF ArenaInv, ArenaTyped, Lying, InBlock
<1>2. /\ LogicalAt(live[i]) \in Nat /\ LogicalAt(live[j]) \in Nat /\ live[i].size \in Nat
      /\ LogicalAt(live[j]) >= blocks[live[j].block].start
      /\ blocks[live[j].block] \in Block
      /\ live[i].block < live[j].block =>
            LogicalAt(live[i]) + live[i].size <= blocks[live[j].block].start
  BY <1>1, LogicalPlace
<1>3. CASE live[i].block < live[j].block
  <2>1. blocks[live[j].block].start \in Nat
    BY <1>2 DEF Block
  <2> QED
    BY <1>2, <1>3, <2>1
<1>4. CASE live[i].block = live[j].block /\ live[i].off + live[i].size <= live[j].off
  <2>1. PICK s \in Nat, p \in Nat : s = blocks[live[j].block].start /\ p = blocks[live[j].block].padding
    BY <1>2 DEF Block
  <2>2. live[i].off \in Nat /\ live[j].off \in Nat
    BY <1>1 DEF Allocation
  <2>3. LogicalAt(live[i]) = s + live[i].off - p /\ LogicalAt(live[j]) = s + live[j].off - p
    BY <1>4, <2>1 DEF LogicalAt
  <2>4. PICK x \in Nat, y \in Nat, z \in Nat :
           x = live[i].off /\ y = live[j].off /\ z = live[i].size /\ x + z <= y
    BY <1>2, <1>4, <2>2
  <2>5. x + z <= y
    BY <2>4
  <2>6. s + x - p + z <= s + y - p
    BY <2>5, Shifted
  <2> QED
    BY <2>3, <2>4, <2>6
<1> QED
  BY <1>1, <1>3, <1>4 DEF Before

LEMMA Smallest ==
    ASSUME NEW T \in SUBSET Nat, T # {}
    PROVE  \E m \in T : \A l \in T : m <= l
<1>1. PICK m \in T : \A l \in T : <<l, m>> \notin OpToRel(<, Nat)
  BY NatLessThanWellFounded, WFMin
<1>2. \A l \in T : ~ (l < m)
  BY <1>1 DEF OpToRel
<1> QED
  BY <1>2

(* What ends at or before a position is what was allocated first.           *)
LEMMA KeptIs ==
    ASSUME ArenaInv, NEW n \in Nat
    PROVE  /\ Kept(n) \in 0..Len(live)
           /\ \A i \in 1..Len(live) : i <= Kept(n) <=> LogicalAt(live[i]) + live[i].size <= n
<1> DEFINE Ends(i) == LogicalAt(live[i]) + live[i].size
           Over == {i \in Nat : i \in 1..Len(live) /\ Ends(i) > n}
<1>1. Len(live) \in Nat
  BY DEF ArenaInv, ArenaTyped
<1>2. \A i \in 1..Len(live) : Ends(i) \in Nat
  BY LogicalPlace
<1>3. \A i, j \in 1..Len(live) : i <= j => Ends(i) <= Ends(j)
  <2> SUFFICES ASSUME NEW i \in 1..Len(live), NEW j \in 1..Len(live), i < j PROVE Ends(i) <= Ends(j)
    BY <1>2
  <2>1. Ends(i) <= LogicalAt(live[j])
    BY LogicalOrder
  <2>2. LogicalAt(live[j]) \in Nat /\ live[j].size \in Nat /\ Ends(i) \in Nat
    BY LogicalPlace
  <2> QED
    BY <2>1, <2>2
<1> HIDE DEF Ends
<1>4. \E k \in 0..Len(live) : \A i \in 1..Len(live) : i <= k <=> Ends(i) <= n
  <2>1. CASE Over = {}
    <3>1. \A i \in 1..Len(live) : Ends(i) <= n
      <4>1. \A i \in 1..Len(live) : i \in Nat /\ ~ (Ends(i) > n)
        BY <2>1
      <4> QED
        BY <1>2, <4>1
    <3>2. Len(live) \in 0..Len(live) /\ \A i \in 1..Len(live) : i <= Len(live)
      BY <1>1
    <3> QED
      BY <3>1, <3>2
  <2>2. CASE Over # {}
    <3>1. PICK m \in Over : \A l \in Over : m <= l
      <4>1. Over \in SUBSET Nat
        OBVIOUS
      <4> HIDE DEF Over
      <4> QED
        BY <2>2, <4>1, Smallest
    <3>2. PICK k \in 0..Len(live) : k = m - 1
      BY <1>1, <3>1
    <3>3. \A i \in 1..Len(live) : i <= k <=> Ends(i) <= n
      BY <1>1, <1>2, <1>3, <3>1, <3>2
    <3> QED
      BY <3>3
  <2> QED
    BY <2>1, <2>2
<1> QED
  BY <1>4 DEF Kept, Ends

LEMMA PushKeeps ==
    ASSUME ArenaInv, NEW bs \in Seq(Block), NEW t \in 1..Len(bs),
           NEW size \in Sizes, NEW align \in Aligns,
           t = tail \/ t = tail + 1, \A b \in 1..tail : bs[b] = blocks[b],
           bs[t].padding = bs[t].start % BaseAlign, bs[t].padding <= bs[t].pos,
           bs[t].start + bs[t].pos - bs[t].padding = logicalPos,
           t = tail + 1 => bs[t].start = logicalPos,
           bs[t].pos + getPadding(bs[t].pos, align) + size <= Payload,
           use = "flat" => Len(bs) = t,
           PushAt(bs, t, size, align), use' = use
    PROVE  /\ ArenaInv'
           /\ logicalPos <= Bound => One!Push(size, align)
<1>1. PICK P \in Nat, g \in Nat, S \in Nat, D \in Nat :
         /\ P = bs[t].pos /\ g = getPadding(bs[t].pos, align) /\ S = bs[t].start
         /\ D = bs[t].padding
  <2>1. bs[t] \in Block
    OBVIOUS
  <2>2. PICK n \in Nat, a \in Nat \ {0} : n = bs[t].pos /\ a = align
    BY <2>1, BlockFields, ArenaConstants
  <2>3. getPadding(n, a) \in Nat
    <3>1. getPadding(n, a) \in 0..(a - 1)
      BY Padded
    <3> QED
      BY <3>1
  <2> QED
    BY <2>1, <2>2, <2>3, BlockFields
<1>2. size \in Nat \ {0} /\ align \in Nat \ {0} /\ Payload \in Nat
  BY ArenaConstants
<1>3. /\ blocks' = [bs EXCEPT ![t].pos = P + g + size] /\ tail' = t
      /\ logicalPos' = logicalPos + g + size /\ marker' = marker
      /\ live' = Append(live, [block |-> t, off |-> P + g, size |-> size, align |-> align])
  BY <1>1 DEF PushAt
<1>4. /\ D = S % BaseAlign /\ D <= P /\ S + P - D = logicalPos /\ P + g + size <= Payload
      /\ t = tail + 1 => S = logicalPos
  BY <1>1
<1>5. (P + g) % align = 0
  <2>1. PICK k \in Int : P + g = k * align
    BY <1>1, <1>2, Padded
  <2> QED
    BY <1>2, <2>1, NoRemainder
<1>6. PICK new \in Allocation : /\ new = [block |-> t, off |-> P + g, size |-> size, align |-> align]
                               /\ new.block = t /\ new.off = P + g /\ new.size = size
                               /\ new.align = align
  <2>1. [block |-> t, off |-> P + g, size |-> size, align |-> align] \in Allocation
    BY DEF Allocation
  <2> QED
    BY <2>1
<1>7. /\ blocks \in Seq(Block) /\ tail \in 1..Len(blocks) /\ logicalPos \in Nat
      /\ live \in Seq(Allocation) /\ marker \in Mark /\ tail \in Nat /\ Len(live) \in Nat
      /\ Len(bs) \in Nat /\ t \in Nat
  BY DEF ArenaInv, ArenaTyped
<1>8. /\ live' \in Seq(Allocation) /\ Len(live') = Len(live) + 1
      /\ \A i \in 1..Len(live) : live'[i] = live[i]
      /\ live'[Len(live) + 1] = new
  BY <1>3, <1>6, <1>7
<1>9. /\ blocks' \in Seq(Block) /\ Len(blocks') = Len(bs)
      /\ blocks'[t].start = S /\ blocks'[t].padding = D /\ blocks'[t].pos = P + g + size
      /\ \A b \in 1..tail : b # t => blocks'[b] = blocks[b]
  <2>1. PICK r \in Block : r = bs[t] /\ r.start = S /\ r.padding = D /\ r.pos = P
    BY <1>1
  <2>2. P + g + size \in 0..Payload
    BY <1>2, <1>4
  <2>3. PICK r1 : r1 = [start |-> S, padding |-> D, pos |-> P + g + size]
    OBVIOUS
  <2>4. blocks' = [bs EXCEPT ![t] = r1]
    <3>1. r = [start |-> S, padding |-> D, pos |-> P]
      BY <2>1 DEF Block
    <3>2. [r EXCEPT !.pos = P + g + size] = r1
      BY <2>3, <3>1
    <3> QED
      BY <1>3, <2>1, <3>2
  <2>5. r1 \in Block
    BY <2>2, <2>3 DEF Block
  <2>6. tail <= Len(bs)
    BY <1>7
  <2> QED
    BY <1>7, <2>3, <2>4, <2>5, <2>6
<1>10. ArenaTyped'
  <2>1. logicalPos' \in Nat
    <3>1. PICK n \in Nat, z \in Nat : n = logicalPos /\ z = size
      BY <1>2, <1>7
    <3>2. n + g + z \in Nat
      OBVIOUS
    <3> QED
      BY <1>3, <3>1, <3>2
  <2>2. tail' \in 1..Len(blocks')
    BY <1>3, <1>9
  <2> QED
    BY <1>3, <1>7, <1>8, <1>9, <2>1, <2>2 DEF ArenaTyped
(* The chain. *)
<1>11. ASSUME NEW b \in 1..t, b # t
       PROVE  b \in 1..tail /\ blocks'[b] = blocks[b] /\ EndOf(b)' = EndOf(b)
              /\ EndOf(b) \in Int /\ EndOf(b) <= logicalPos
  <2>1. b \in 1..tail
    BY <1>7, <1>11
  <2> QED
    BY <1>9, <1>11, <2>1, EndsBefore DEF EndOf
<1>12. EndOf(t)' = logicalPos'
  <2>1. EndOf(t)' = S + (P + g + size) - D
    BY <1>9 DEF EndOf
  <2>2. PICK z \in Nat : z = size
    BY <1>2
  <2>3. S + P - D = logicalPos /\ logicalPos' = logicalPos + g + z
    BY <1>3, <1>4, <2>2
  <2> QED
    BY <2>1, <2>2, <2>3
<1>13. Chained'
  <2>1. blocks'[1].start = 0 /\ blocks'[1].padding = 0
    <3>1. blocks[1].start = 0 /\ blocks[1].padding = 0 /\ 1 \in 1..tail
      BY <1>7 DEF ArenaInv, Chained
    <3>2. CASE t = 1
      BY <1>1, <1>9, <3>1, <3>2
    <3>3. CASE t # 1
      BY <1>9, <3>1, <3>3
    <3> QED
      BY <3>2, <3>3
  <2>2. ASSUME NEW b \in 1..t
        PROVE  blocks'[b].padding = blocks'[b].start % BaseAlign /\ blocks'[b].padding <= blocks'[b].pos
    <3>1. CASE b = t
      BY <1>2, <1>4, <1>9, <3>1
    <3>2. CASE b # t
      BY <1>11, <3>2 DEF ArenaInv, Chained
    <3> QED
      BY <3>1, <3>2
  <2>3. ASSUME NEW b \in 1..t, NEW c \in 1..t, b < c
        PROVE  EndOf(b)' <= blocks'[c].start
    <3>1. b # t /\ b \in 1..tail /\ EndOf(b)' = EndOf(b) /\ EndOf(b) <= logicalPos
      BY <1>7, <1>11, <2>3
    <3>2. CASE c # t
      <4>1. c \in 1..tail /\ blocks'[c] = blocks[c]
        BY <1>11, <3>2
      <4> QED
        BY <2>3, <3>1, <4>1 DEF ArenaInv, Chained
    <3>3. CASE c = t /\ t = tail
      <4>1. EndOf(b) <= blocks[t].start /\ blocks[t].start = S
        BY <1>1, <1>7, <2>3, <3>1, <3>3 DEF ArenaInv, Chained
      <4> QED
        BY <1>9, <3>1, <3>3, <4>1
    <3>4. CASE c = t /\ t = tail + 1
      BY <1>4, <1>9, <3>1, <3>4
    <3> QED
      BY <3>2, <3>3, <3>4
  <2> QED
    BY <1>3, <1>12, <2>1, <2>2, <2>3 DEF Chained
(* The allocations. *)
<1>14. ASSUME NEW b \in 1..tail
       PROVE  /\ b \in 1..t /\ blocks'[b].start = blocks[b].start
              /\ blocks'[b].padding = blocks[b].padding /\ blocks[b].pos <= blocks'[b].pos
              /\ b = t => blocks[b].pos = P /\ blocks'[b].pos = P + g + size
              /\ blocks[b].pos \in Nat
  <2>1. b \in 1..t /\ blocks[b] \in Block /\ blocks[b].pos \in Nat
    <3>1. blocks[b] \in Block
      BY <1>7
    <3>2. b \in 1..t
      BY <1>7
    <3> QED
      BY <3>1, <3>2, BlockFields
  <2>2. CASE b # t
    BY <1>9, <2>1, <2>2
  <2>3. CASE b = t
    <3>1. blocks[b] = bs[t]
      BY <2>3
    <3>2. P <= P + g + size /\ blocks[b].pos = P
      <4>1. size \in Nat
        BY <1>2
      <4> QED
        BY <1>1, <3>1, <4>1
    <3> QED
      BY <1>1, <1>9, <2>1, <2>3, <3>1, <3>2
  <2> QED
    BY <2>2, <2>3
<1>15. ASSUME NEW i \in 1..Len(live)
       PROVE  /\ live'[i] = live[i] /\ live[i] \in Allocation /\ live[i].block \in 1..tail
              /\ InBlock(live[i])' /\ Before(live[i], new)
              /\ LogicalAt(live[i])' = LogicalAt(live[i])
  <2>1. PICK a : a = live[i] /\ a \in Allocation /\ InBlock(a) /\ live'[i] = a
    BY <1>7, <1>8 DEF ArenaInv, Lying
  <2>2. a.block \in 1..tail /\ a.block \in 1..t /\ a.off \in Nat /\ a.size \in Nat
    BY <1>14, <2>1, ArenaConstants DEF InBlock, Allocation
  <2>3. /\ blocks'[a.block].start = blocks[a.block].start
        /\ blocks'[a.block].padding = blocks[a.block].padding
        /\ blocks[a.block].pos <= blocks'[a.block].pos
        /\ a.block = t => blocks[a.block].pos = P
        /\ blocks[a.block].pos \in Nat /\ blocks'[a.block].pos \in Nat
    <3>1. blocks'[a.block] \in Block
      BY <1>9, <2>2
    <3> QED
      BY <1>14, <2>2, <3>1, BlockFields
  <2>4. /\ a.off % a.align = 0 /\ blocks[a.block].padding <= a.off
        /\ a.off + a.size <= blocks[a.block].pos
    BY <2>1 DEF InBlock
  <2>5. InBlock(a)'
    <3>1. PICK e \in Nat : e = a.off + a.size
      BY <2>2
    <3>2. e <= blocks'[a.block].pos /\ blocks'[a.block].padding <= a.off
      BY <2>3, <2>4, <3>1
    <3>3. a.block \in 1..tail'
      BY <1>3, <2>2
    <3> QED
      BY <2>4, <3>1, <3>2, <3>3 DEF InBlock
  <2>6. Before(a, new)
    <3>1. CASE a.block = t
      <4>1. a.off + a.size <= P
        BY <2>3, <2>4, <3>1
      <4>2. PICK e \in Nat : e = a.off + a.size
        BY <2>2
      <4>3. e <= P + g
        <5>1. e <= P
          BY <4>1, <4>2
        <5> QED
          BY <5>1
      <4> QED
        BY <1>6, <3>1, <4>2, <4>3 DEF Before
    <3>2. CASE a.block # t
      <4>1. a.block < t
        BY <1>7, <2>2, <3>2
      <4> QED
        BY <1>6, <4>1 DEF Before
    <3> QED
      BY <3>1, <3>2
  <2>7. LogicalAt(a)' = LogicalAt(a)
    BY <2>3 DEF LogicalAt
  <2> QED
    BY <2>1, <2>2, <2>5, <2>6, <2>7
<1>16. InBlock(new)'
  <2>1. t \in 1..t
    BY <1>7
  <2>2. D <= P + g /\ P + g + size = blocks'[t].pos
    BY <1>4, <1>9
  <2>3. PICK q \in Nat : q = P + g
    OBVIOUS
  <2>4. q + size = blocks'[t].pos /\ D <= q /\ q % align = 0
    BY <1>5, <2>2, <2>3
  <2>5. new.block = t /\ new.off = q /\ new.size = size /\ new.align = align
    BY <1>6, <2>3
  <2>6. q + size <= q + size
    BY <1>2
  <2> QED
    BY <1>3, <1>9, <2>1, <2>4, <2>5, <2>6 DEF InBlock
<1>17. Lying'
  <2>1. ASSUME NEW i \in 1..(Len(live) + 1) PROVE InBlock(live[i])'
    <3>1. CASE i \in 1..Len(live)
      BY <1>15, <3>1
    <3>2. CASE i = Len(live) + 1
      <4>1. live'[i] = new
        BY <1>8, <3>2
      <4> QED
        BY <1>16, <4>1 DEF InBlock
    <3> QED
      BY <1>7, <3>1, <3>2
  <2>2. ASSUME NEW i \in 1..(Len(live) + 1), NEW j \in 1..(Len(live) + 1), i < j
        PROVE  Before(live'[i], live'[j])
    <3>1. i \in 1..Len(live)
      BY <1>7, <2>2
    <3>2. CASE j \in 1..Len(live)
      BY <1>8, <2>2, <3>1, <3>2 DEF ArenaInv, Lying
    <3>3. CASE j = Len(live) + 1
      BY <1>8, <1>15, <3>1, <3>3
    <3> QED
      BY <1>7, <3>2, <3>3
  <2>3. Len(live') = Len(live) + 1
    BY <1>8
  <2> QED
    BY <2>1, <2>2, <2>3 DEF Lying, InBlock, Before
<1>18. Marking'
  <2> SUFFICES ASSUME marker # NoMarker
               PROVE  /\ marker.block = 1 /\ marker.pos <= blocks'[1].pos
                      /\ marker.kept <= Len(live')
                      /\ \A i \in 1..marker.kept : /\ live'[i].block = 1
                                                   /\ live'[i].off + live'[i].size <= marker.pos
                      /\ \A i \in (marker.kept + 1)..Len(live') :
                            live'[i].block > 1 \/ live'[i].off >= marker.pos
    BY <1>3 DEF Marking
  <2>1. /\ marker.block = 1 /\ marker.pos <= blocks[1].pos /\ marker.kept <= Len(live)
        /\ \A i \in 1..marker.kept : live[i].block = 1 /\ live[i].off + live[i].size <= marker.pos
        /\ \A i \in (marker.kept + 1)..Len(live) : live[i].block > 1 \/ live[i].off >= marker.pos
    BY DEF ArenaInv, Marking
  <2>2. marker.kept \in Nat /\ marker.pos \in Nat
    BY <1>7, ArenaConstants DEF Mark
  <2>3. blocks[1].pos <= blocks'[1].pos /\ (t = 1 => blocks[1].pos = P) /\ blocks[1].pos \in Nat
        /\ blocks'[1].pos \in Nat
    <3>1. 1 \in 1..tail /\ 1 \in 1..Len(blocks')
      BY <1>7, <1>9
    <3>2. blocks'[1].pos \in Nat
      BY <1>9, <3>1, BlockFields
    <3> QED
      BY <1>14, <3>1, <3>2
  <2>4. marker.pos <= blocks'[1].pos
    BY <2>1, <2>2, <2>3
  <2>5. \A i \in 1..marker.kept : live'[i] = live[i]
    BY <1>7, <1>8, <2>1, <2>2
  <2>6. new.block > 1 \/ new.off >= marker.pos
    BY <1>6, <1>7, <2>1, <2>2, <2>3
  <2>7. ASSUME NEW i \in (marker.kept + 1)..Len(live')
        PROVE  live'[i].block > 1 \/ live'[i].off >= marker.pos
    <3>1. CASE i = Len(live) + 1
      BY <1>8, <2>6, <3>1
    <3>2. CASE i # Len(live) + 1
      <4>1. i \in (marker.kept + 1)..Len(live) /\ i \in 1..Len(live)
        BY <1>7, <1>8, <2>2, <3>2
      <4> QED
        BY <1>8, <2>1, <4>1
    <3> QED
      BY <3>1, <3>2
  <2>8. marker.kept <= Len(live')
    BY <1>7, <1>8, <2>1, <2>2
  <2> QED
    BY <2>1, <2>4, <2>5, <2>7, <2>8
<1>19. NothingBehind'
  BY <1>3, <1>9 DEF NothingBehind
(* The one block. *)
<1>20. ASSUME logicalPos <= Bound PROVE One!Push(size, align)
  <2>1. getPadding(logicalPos, align) = g
    BY <1>1, <1>4, PaddingAsInOne
  <2>2. One!AlignUp(logicalPos, align) = logicalPos + g
    BY <1>2, <1>7, <2>1, Padded
  <2>3. LogicalAt(new)' = logicalPos + g
    <3>1. LogicalAt(new)' = S + (P + g) - D
      BY <1>6, <1>9 DEF LogicalAt
    <3> QED
      BY <1>4, <1>7, <3>1
  <2>4. PICK v : v = [at |-> logicalPos + g, size |-> size, align |-> align]
    OBVIOUS
  <2>5. LiveInOne' = Append(LiveInOne, v)
    <3>1. /\ LiveInOne' = [i \in 1..(Len(live) + 1) |-> InOne(live[i])']
          /\ LiveInOne = [i \in 1..Len(live) |-> InOne(live[i])]
      <4>1. LiveInOne' = [i \in 1..Len(live') |-> InOne(live[i])']
        BY DEF LiveInOne
      <4> QED
        BY <1>8, <4>1 DEF LiveInOne
    <3>2. \A i \in 1..Len(live) : InOne(live[i])' = InOne(live[i])
      BY <1>15 DEF InOne
    <3>3. PICK n \in Nat : n = Len(live) + 1
      BY <1>7
    <3>4. InOne(live[n])' = v
      BY <1>6, <1>8, <2>3, <2>4, <3>3 DEF InOne
    <3>5. ASSUME NEW i \in 1..n
          PROVE  InOne(live[i])' = IF i = n THEN v ELSE InOne(live[i])
      <4>1. CASE i = n
        BY <3>4, <4>1
      <4>2. CASE i # n
        <5>1. i \in 1..Len(live)
          BY <1>7, <3>3, <4>2
        <5> QED
          BY <3>2, <4>2, <5>1
      <4> QED
        BY <4>1, <4>2
    <3>6. LiveInOne' = [i \in 1..n |-> IF i = n THEN v ELSE InOne(live[i])]
      BY <3>1, <3>3, <3>5
    <3>7. PICK S1 : S1 = {InOne(live[i]) : i \in 1..Len(live)}
      OBVIOUS
    <3>8. LiveInOne \in Seq(S1) /\ Len(LiveInOne) = Len(live)
      BY <1>7, <3>1, <3>7
    <3> QED
      BY <1>7, <3>1, <3>3, <3>6, <3>8
  <2> QED
    BY <1>3, <1>20, <2>2, <2>4, <2>5 DEF One!Push
<1> QED
  BY <1>10, <1>13, <1>17, <1>18, <1>19, <1>20 DEF ArenaInv

(* Giving back everything behind an offset in some block.                  *)
LEMMA CutKeeps ==
    ASSUME ArenaInv, NEW t \in 1..tail, NEW p \in Nat, NEW k \in 0..Len(live),
           blocks' \in Seq(Block), t \in 1..Len(blocks'),
           \A b \in 1..tail : b < t => blocks'[b] = blocks[b],
           blocks'[t].start = blocks[t].start, blocks'[t].padding = blocks[t].padding,
           blocks'[t].pos = p, blocks[t].padding <= p, p <= blocks[t].pos,
           tail' = t, logicalPos' = blocks[t].start + p - blocks[t].padding,
           live' = SubSeq(live, 1, k), marker' = NoMarker, use' = use, use # "flat",
           \A i \in 1..Len(live) : i <= k =>
               \/ live[i].block < t
               \/ live[i].block = t /\ live[i].off + live[i].size <= p,
           \A i \in 1..Len(live) : i > k =>
               \/ live[i].block > t
               \/ live[i].block = t /\ live[i].off + live[i].size > p
    PROVE  ArenaInv' /\ \E n \in 0..logicalPos : One!Keep(n)
<1>1. /\ blocks \in Seq(Block) /\ tail \in 1..Len(blocks) /\ logicalPos \in Nat
      /\ live \in Seq(Allocation) /\ tail \in Nat /\ Len(live) \in Nat /\ t \in 1..Len(blocks)
  BY DEF ArenaInv, ArenaTyped
<1>2. PICK S \in Nat, D \in Nat, P \in Nat :
         S = blocks[t].start /\ D = blocks[t].padding /\ P = blocks[t].pos /\ P <= Payload
  <2>1. blocks[t] \in Block
    BY <1>1
  <2> QED
    BY <2>1, BlockFields
<1>3. D <= p /\ p <= P /\ EndOf(t) = S + P - D /\ EndOf(t)' = S + p - D /\ logicalPos' = S + p - D
  BY <1>2 DEF EndOf
<1>4. PICK n \in Nat : n = S + p - D /\ n \in 0..logicalPos /\ n >= S /\ n <= EndOf(t)
  <2>1. EndOf(t) <= logicalPos
    BY EndsBefore
  <2> QED
    BY <1>1, <1>3, <2>1
<1>5. /\ live' \in Seq(Allocation) /\ Len(live') = k /\ k <= Len(live)
      /\ \A i \in 1..k : live'[i] = live[i]
  BY <1>1
<1>6. ArenaTyped'
  <2>1. NoMarker \in Mark
    BY ArenaConstants DEF NoMarker, Mark
  <2> QED
    BY <1>3, <1>4, <1>5, <2>1 DEF ArenaTyped
<1>7. Chained'
  <2>1. ASSUME NEW b \in 1..t
        PROVE  /\ b \in 1..tail
               /\ blocks'[b].start = blocks[b].start /\ blocks'[b].padding = blocks[b].padding
    <3>1. b \in 1..tail /\ (b < t \/ b = t)
      BY <1>1
    <3> QED
      BY <3>1
  <2>2. \A b \in 1..t : b # t => b < t /\ blocks'[b] = blocks[b] /\ EndOf(b)' = EndOf(b)
    BY <1>1 DEF EndOf
  <2>3. blocks'[1].start = 0 /\ blocks'[1].padding = 0
    BY <2>1 DEF ArenaInv, Chained
  <2>4. ASSUME NEW b \in 1..t
        PROVE  blocks'[b].padding = blocks'[b].start % BaseAlign /\ blocks'[b].padding <= blocks'[b].pos
    <3>1. blocks'[b].padding = blocks'[b].start % BaseAlign
      BY <2>1 DEF ArenaInv, Chained
    <3>2. blocks'[b].padding <= blocks'[b].pos
      <4>1. CASE b = t
        BY <4>1
      <4>2. CASE b # t
        BY <2>1, <2>2, <4>2 DEF ArenaInv, Chained
      <4> QED
        BY <4>1, <4>2
    <3> QED
      BY <3>1, <3>2
  <2>5. ASSUME NEW b \in 1..t, NEW c \in 1..t, b < c
        PROVE  EndOf(b)' <= blocks'[c].start
    <3>1. EndOf(b)' = EndOf(b) /\ blocks'[c].start = blocks[c].start /\ b \in 1..tail /\ c \in 1..tail
      BY <2>1, <2>2, <2>5
    <3>2. EndOf(b) <= blocks[c].start
      BY <2>5, <3>1 DEF ArenaInv, Chained
    <3> QED
      BY <3>1, <3>2
  <2> QED
    BY <1>3, <2>3, <2>4, <2>5 DEF Chained
<1>8. ASSUME NEW i \in 1..k
      PROVE  /\ i \in 1..Len(live) /\ live[i].block \in 1..t
             /\ blocks'[live[i].block].start = blocks[live[i].block].start
             /\ blocks'[live[i].block].padding = blocks[live[i].block].padding
             /\ live[i].off + live[i].size <= blocks'[live[i].block].pos
             /\ InBlock(live[i])
  <2>1. /\ i \in 1..Len(live) /\ InBlock(live[i])
        /\ live[i].block < t \/ (live[i].block = t /\ live[i].off + live[i].size <= p)
    <3>1. i \in 1..Len(live) /\ i <= k
      BY <1>1
    <3>2. InBlock(live[i])
      BY <3>1 DEF ArenaInv, Lying
    <3> QED
      BY <3>1, <3>2
  <2>2. live[i].block \in 1..tail /\ live[i].off + live[i].size <= blocks[live[i].block].pos
    BY <2>1 DEF InBlock
  <2>3. CASE live[i].block < t
    <3>1. live[i].block \in 1..t /\ live[i].block # t
      BY <1>1, <2>2, <2>3
    <3> QED
      BY <1>1, <2>1, <2>2, <3>1
  <2>4. CASE live[i].block = t /\ live[i].off + live[i].size <= p
    <3>1. live[i].block \in 1..t
      BY <1>1, <2>4
    <3> QED
      BY <1>1, <2>1, <2>4, <3>1
  <2> QED
    BY <2>1, <2>3, <2>4
<1>9. Lying'
  <2>1. ASSUME NEW i \in 1..k PROVE InBlock(live[i])'
    <3>1. PICK a : a = live[i] /\ live'[i] = a
      BY <1>5
    <3>2. InBlock(a)'
      BY <1>8, <3>1 DEF InBlock
    <3> QED
      BY <3>1, <3>2 DEF InBlock
  <2>2. \A i, j \in 1..k : i < j => Before(live'[i], live'[j])
    BY <1>5, <1>8 DEF ArenaInv, Lying
  <2> QED
    BY <1>5, <2>1, <2>2 DEF Lying, InBlock, Before
<1>10. Marking' /\ NothingBehind'
  BY DEF Marking, NothingBehind
<1>11. One!Keep(n)
  <2>1. LiveInOne' = SubSeq(LiveInOne, 1, k)
    <3>1. LiveInOne = [i \in 1..Len(live) |-> InOne(live[i])]
      BY DEF LiveInOne
    <3>2. LiveInOne' = [i \in 1..k |-> InOne(live[i])']
      BY <1>5 DEF LiveInOne
    <3>3. ASSUME NEW i \in 1..k PROVE InOne(live[i])' = InOne(live[i])
      <4>1. PICK a : a = live[i] /\ live'[i] = a
        BY <1>5
      <4>2. InOne(a)' = InOne(a)
        BY <1>8, <4>1 DEF InOne, LogicalAt
      <4> QED
        BY <4>1, <4>2 DEF InOne, LogicalAt
    <3>4. SubSeq(LiveInOne, 1, k) = [i \in 1..k |-> LiveInOne[i]]
      BY <1>1, <3>1
    <3> QED
      BY <1>5, <3>1, <3>2, <3>3, <3>4
  <2>2. ASSUME NEW i \in 1..Len(live)
        PROVE  IF i <= k THEN LogicalAt(live[i]) + live[i].size <= n
                         ELSE LogicalAt(live[i]) + live[i].size > n
    <3>1. PICK a : a = live[i] /\ a \in Allocation /\ a.block \in 1..tail
      BY <1>1 DEF ArenaInv, Lying, InBlock
    <3>2. PICK x \in Nat, z \in Nat \ {0}, place \in Nat :
             x = a.off /\ z = a.size /\ place = LogicalAt(a)
      BY <3>1, LogicalPlace DEF Allocation
    <3>3. a.block = t => place = S + x - D
      BY <1>2, <3>2 DEF LogicalAt
    <3>4. CASE i <= k
      <4>1. CASE a.block < t
        <5>1. place + z <= S
          BY <1>2, <3>1, <3>2, <4>1, LogicalPlace
        <5> QED
          BY <1>4, <3>1, <3>2, <3>4, <5>1
      <4>2. CASE a.block = t /\ x + z <= p
        <5>1. place = S + x - D
          BY <3>3, <4>2
        <5>2. place + z <= S + p - D
          BY <4>2, <5>1, Shifted
        <5>3. place + z <= n
          BY <1>4, <5>2
        <5> QED
          BY <3>1, <3>2, <3>4, <5>3
      <4> QED
        BY <3>1, <3>2, <3>4, <4>1, <4>2
    <3>5. CASE i > k
      <4>1. CASE a.block > t
        <5>1. place >= blocks[a.block].start /\ blocks[a.block] \in Block
          BY <3>1, <3>2, LogicalPlace
        <5>2. EndOf(t) <= blocks[a.block].start /\ EndOf(t) \in Int
          BY <3>1, <4>1, EndsBefore DEF ArenaInv, Chained
        <5>3. blocks[a.block].start \in Nat
          BY <5>1, BlockFields
        <5>4. place + z > n
          BY <1>4, <5>1, <5>2, <5>3
        <5> QED
          BY <1>1, <3>1, <3>2, <3>5, <5>4
      <4>2. CASE a.block = t /\ x + z > p
        <5>1. place + z > n
          BY <1>4, <3>3, <4>2
        <5> QED
          BY <1>1, <3>1, <3>2, <3>5, <5>1
      <4> QED
        BY <3>1, <3>2, <3>5, <4>1, <4>2
    <3> QED
      BY <1>1, <3>4, <3>5
  <2>3. /\ Len(LiveInOne) = Len(live) /\ k \in 0..Len(LiveInOne)
        /\ \A i \in 1..Len(live) : /\ LiveInOne[i].at = LogicalAt(live[i])
                                   /\ LiveInOne[i].size = live[i].size
    BY <1>1 DEF LiveInOne, InOne
  <2>4. \A i \in 1..Len(LiveInOne) : IF i <= k THEN LiveInOne[i].at + LiveInOne[i].size <= n
                                             ELSE LiveInOne[i].at + LiveInOne[i].size > n
    BY <2>2, <2>3
  <2> QED
    BY <1>3, <1>4, <2>1, <2>3, <2>4 DEF One!Keep
<1> QED
  BY <1>4, <1>6, <1>7, <1>9, <1>10, <1>11 DEF ArenaInv

PosSet(bs, t, p) == [bs EXCEPT ![t].pos = p]

LEMMA SetPos ==
    ASSUME NEW bs \in Seq(Block), NEW t \in 1..Len(bs), NEW p \in 0..Payload
    PROVE  /\ PosSet(bs, t, p) \in Seq(Block) /\ Len(PosSet(bs, t, p)) = Len(bs)
           /\ PosSet(bs, t, p)[t].start = bs[t].start
           /\ PosSet(bs, t, p)[t].padding = bs[t].padding /\ PosSet(bs, t, p)[t].pos = p
           /\ \A b \in 1..Len(bs) : b # t => PosSet(bs, t, p)[b] = bs[b]
<1>1. PICK k : k = bs[t] /\ k \in Block
  OBVIOUS
<1>2. k = [start |-> k.start, padding |-> k.padding, pos |-> k.pos]
      /\ k.start \in Nat /\ k.padding \in Nat
  BY <1>1 DEF Block
<1>3. PICK n : n = [start |-> k.start, padding |-> k.padding, pos |-> p]
  OBVIOUS
<1>4. n \in Block /\ n.start = k.start /\ n.padding = k.padding /\ n.pos = p
  BY <1>2, <1>3 DEF Block
<1>5. [k EXCEPT !.pos = p] = n
  BY <1>2, <1>3
<1>6. PosSet(bs, t, p) = [bs EXCEPT ![t] = n]
  BY <1>1, <1>5 DEF PosSet
<1> QED
  BY <1>1, <1>4, <1>6

(* new is bs up to block t, which ends at p. *)
IsCut(new, bs, t, p) ==
    /\ new \in Seq(Block) /\ t \in 1..Len(new)
    /\ \A b \in 1..Len(bs) : b < t => new[b] = bs[b]
    /\ new[t].start = bs[t].start /\ new[t].padding = bs[t].padding /\ new[t].pos = p

LEMMA CutBlocks ==
    ASSUME NEW bs \in Seq(Block), NEW t \in 1..Len(bs), NEW p \in 0..Payload,
           NEW cut, cut = bs \/ cut = SubSeq(bs, 1, t)
    PROVE  IsCut(PosSet(cut, t, p), bs, t, p)
<1>1. /\ cut \in Seq(Block) /\ t \in 1..Len(cut) /\ cut[t] = bs[t]
      /\ \A b \in 1..Len(bs) : b < t => b \in 1..Len(cut) /\ cut[b] = bs[b]
  <2>1. CASE cut = bs
    BY <2>1
  <2>2. CASE cut = SubSeq(bs, 1, t)
    <3>1. Len(cut) = t /\ \A b \in 1..t : cut[b] = bs[b] /\ cut \in Seq(Block)
      BY <2>2
    <3>2. \A b \in 1..Len(bs) : b < t => b \in 1..t
      OBVIOUS
    <3> QED
      BY <3>1, <3>2
  <2> QED
    BY <2>1, <2>2
<1>2. PICK new : new = PosSet(cut, t, p)
  OBVIOUS
<1>3. /\ new \in Seq(Block) /\ Len(new) = Len(cut)
      /\ new[t].start = cut[t].start /\ new[t].padding = cut[t].padding /\ new[t].pos = p
      /\ \A b \in 1..Len(cut) : b # t => new[b] = cut[b]
  BY <1>1, <1>2, SetPos
<1> QED
  BY <1>1, <1>2, <1>3 DEF IsCut

ArenaStep == \/ \E size \in Sizes, align \in Aligns : One!Push(size, align)
             \/ \E n \in 0..logicalPos : One!Keep(n)

LEMMA PushHereKeeps ==
    ASSUME ArenaInv, NEW size \in Sizes, NEW align \in Aligns, PushHere(size, align), use' = use
    PROVE  ArenaInv' /\ ArenaStep
<1>1. /\ blocks \in Seq(Block) /\ tail \in 1..Len(blocks) /\ PushAt(blocks, tail, size, align)
      /\ logicalPos <= Bound
      /\ blocks[tail].pos + getPadding(blocks[tail].pos, align) + size <= Payload
  BY DEF ArenaInv, ArenaTyped, PushHere, FitsHere
<1>2. /\ blocks[tail].padding = blocks[tail].start % BaseAlign
      /\ blocks[tail].padding <= blocks[tail].pos
      /\ blocks[tail].start + blocks[tail].pos - blocks[tail].padding = logicalPos
      /\ use = "flat" => Len(blocks) = tail
  BY <1>1 DEF ArenaInv, Chained, EndOf, NothingBehind
<1>3. tail # tail + 1
  BY <1>1
<1>4. ArenaInv' /\ (logicalPos <= Bound => One!Push(size, align))
  BY <1>1, <1>2, <1>3, PushKeeps
<1> QED
  BY <1>1, <1>4 DEF ArenaStep

(* An allocation that begins a block fits into it with its paddings.        *)
LEMMA PushNextKeeps ==
    ASSUME ArenaInv, NEW size \in Sizes, NEW align \in Aligns, PushNext(size, align), use' = use
    PROVE  ArenaInv' /\ ArenaStep
<1>1. /\ blocks \in Seq(Block) /\ tail \in 1..Len(blocks) /\ logicalPos \in Nat
      /\ use = "flat" => Len(blocks) = tail
  BY DEF ArenaInv, ArenaTyped, NothingBehind
<1>2. PICK D \in 0..(BaseAlign - 1) : D = logicalPos % BaseAlign
  BY <1>1, ArenaConstants
<1>3. D + getPadding(D, align) + size <= Payload /\ D <= Payload /\ D \in Nat
  <2>1. PICK k \in Int : BaseAlign = k * align
    BY ArenaConstants
  <2>2. PICK a \in Nat \ {0}, n \in Nat, B \in Nat \ {0}, z \in Nat :
           a = align /\ n = D /\ B = BaseAlign /\ z = size
    <3>1. align \in Nat \ {0} /\ BaseAlign \in Nat \ {0} /\ size \in Nat
      BY ArenaConstants
    <3>2. D \in Nat
      BY <1>2, <3>1
    <3> QED
      BY <3>1, <3>2
  <2>3. n <= k * a
    BY <1>2, <2>1, <2>2
  <2>4. n + getPadding(n, a) <= k * a /\ getPadding(n, a) \in 0..(a - 1)
    BY <2>3, Padded
  <2>5. PICK g \in Nat : g = getPadding(n, a) /\ n + g <= B
    BY <2>1, <2>2, <2>4
  <2>6. z + B <= Payload /\ Payload \in Nat
    BY <2>2, ArenaConstants
  <2> QED
    BY <1>2, <2>2, <2>5, <2>6
<1>4. PICK next \in Block : /\ next = [start |-> logicalPos, padding |-> D, pos |-> D]
                           /\ next.start = logicalPos /\ next.padding = D /\ next.pos = D
  <2>1. [start |-> logicalPos, padding |-> D, pos |-> D] \in Block
    BY <1>1, <1>3 DEF Block
  <2> QED
    BY <2>1
<1>5. PICK bs : /\ bs = IF tail = Len(blocks) THEN Append(blocks, next)
                                             ELSE [blocks EXCEPT ![tail + 1] = next]
                /\ PushAt(bs, tail + 1, size, align) /\ logicalPos <= Bound
  BY <1>2, <1>4 DEF PushNext, NextStart, SyncPadding
<1>6. /\ bs \in Seq(Block) /\ tail + 1 \in 1..Len(bs) /\ bs[tail + 1] = next
      /\ \A b \in 1..tail : bs[b] = blocks[b]
      /\ use = "flat" => Len(bs) = tail + 1
  <2>1. CASE tail = Len(blocks)
    BY <1>1, <1>5, <2>1
  <2>2. CASE tail # Len(blocks)
    BY <1>1, <1>5, <2>2
  <2> QED
    BY <2>1, <2>2
<1>7. PICK t \in 1..Len(bs) : t = tail + 1
  BY <1>6
<1>8. /\ bs[t].padding = bs[t].start % BaseAlign /\ bs[t].padding <= bs[t].pos
      /\ bs[t].start + bs[t].pos - bs[t].padding = logicalPos /\ bs[t].start = logicalPos
      /\ bs[t].pos + getPadding(bs[t].pos, align) + size <= Payload
  <2>1. logicalPos + D - D = logicalPos
    BY <1>1, <1>3
  <2> QED
    BY <1>2, <1>3, <1>4, <1>6, <1>7, <2>1
<1>9. ArenaInv' /\ (logicalPos <= Bound => One!Push(size, align))
  BY <1>5, <1>6, <1>7, <1>8, PushKeeps
<1> QED
  BY <1>5, <1>9 DEF ArenaStep

LEMMA RollbackPointerKeeps ==
    ASSUME ArenaInv, NEW i \in 1..Len(live), NEW freeMemory \in BOOLEAN,
           RollbackPointer(i, freeMemory), use' = use, use # "flat"
    PROVE  ArenaInv' /\ ArenaStep
<1>1. /\ blocks \in Seq(Block) /\ tail \in 1..Len(blocks) /\ live \in Seq(Allocation)
      /\ Len(live) \in Nat
  BY DEF ArenaInv, ArenaTyped
<1>2. PICK a : a = live[i] /\ a \in Allocation /\ InBlock(a)
  BY <1>1 DEF ArenaInv, Lying
<1>3. PICK t \in 1..tail, p \in Nat, k \in 0..Len(live), z \in Nat \ {0} :
         t = a.block /\ p = a.off /\ k = i - 1 /\ z = a.size
  <2>1. a.block \in 1..tail /\ a.off \in Nat /\ a.size \in Nat \ {0}
    BY <1>2, ArenaConstants DEF InBlock, Allocation
  <2>2. i - 1 \in 0..Len(live)
    BY <1>1
  <2> QED
    BY <2>1, <2>2
<1>4. /\ blocks[t] \in Block /\ blocks[t].padding <= p /\ p + z <= blocks[t].pos
      /\ t \in 1..Len(blocks)
  BY <1>1, <1>2, <1>3 DEF InBlock
<1>5. p \in 0..Payload /\ p <= blocks[t].pos
  <2>1. PICK y \in Nat : y = blocks[t].pos /\ y <= Payload
    BY <1>4, BlockFields
  <2> QED
    BY <1>4, <2>1, ArenaConstants
<1>6. PICK emptied, cut :
         /\ emptied = [blocks EXCEPT ![tail].pos = 0]
         /\ cut = IF freeMemory THEN SubSeq(emptied, 1, t) ELSE emptied
         /\ blocks' = [cut EXCEPT ![t].pos = p]
         /\ tail' = t /\ logicalPos' = LogicalAt(a) /\ live' = SubSeq(live, 1, k)
         /\ marker' = NoMarker
  BY <1>2, <1>3 DEF RollbackPointer
<1>7. /\ emptied \in Seq(Block) /\ Len(emptied) = Len(blocks)
      /\ \A b \in 1..Len(blocks) : b # tail => emptied[b] = blocks[b]
      /\ emptied[t].start = blocks[t].start /\ emptied[t].padding = blocks[t].padding
  <2>1. 0 \in 0..Payload
    BY ArenaConstants
  <2>2. /\ emptied \in Seq(Block) /\ Len(emptied) = Len(blocks)
        /\ \A b \in 1..Len(blocks) : b # tail => emptied[b] = blocks[b]
        /\ emptied[tail].start = blocks[tail].start /\ emptied[tail].padding = blocks[tail].padding
    <3>1. emptied = PosSet(blocks, tail, 0)
      BY <1>6 DEF PosSet
    <3> QED
      BY <1>1, <2>1, <3>1, SetPos
  <2> QED
    BY <1>4, <2>2
<1>8. /\ blocks' \in Seq(Block) /\ t \in 1..Len(blocks')
      /\ \A b \in 1..Len(emptied) : b < t => blocks'[b] = emptied[b]
      /\ blocks'[t].start = emptied[t].start /\ blocks'[t].padding = emptied[t].padding
      /\ blocks'[t].pos = p
  <2>1. cut = emptied \/ cut = SubSeq(emptied, 1, t)
    BY <1>6
  <2>2. emptied \in Seq(Block) /\ t \in 1..Len(emptied) /\ p \in 0..Payload
    BY <1>4, <1>5, <1>7
  <2>3. IsCut(PosSet(cut, t, p), emptied, t, p)
    BY <2>1, <2>2, CutBlocks
  <2>4. blocks' = PosSet(cut, t, p)
    BY <1>6 DEF PosSet
  <2> QED
    BY <2>3, <2>4 DEF IsCut
<1>9. \A b \in 1..tail : b < t => blocks'[b] = blocks[b]
  BY <1>1, <1>4, <1>7, <1>8
<1>10. logicalPos' = blocks[t].start + p - blocks[t].padding
  BY <1>3, <1>6 DEF LogicalAt
<1>11. ASSUME NEW j \in 1..Len(live), j <= k
       PROVE  \/ live[j].block < t
              \/ live[j].block = t /\ live[j].off + live[j].size <= p
  <2>1. Before(live[j], a)
    BY <1>1, <1>2, <1>3, <1>11 DEF ArenaInv, Lying
  <2> QED
    BY <1>3, <2>1 DEF Before
<1>12. ASSUME NEW j \in 1..Len(live), j > k
       PROVE  \/ live[j].block > t
              \/ live[j].block = t /\ live[j].off + live[j].size > p
  <2>1. PICK c : c = live[j] /\ c \in Allocation
    BY <1>1
  <2>2. PICK x \in Nat, y \in Nat \ {0} : x = c.off /\ y = c.size /\ c.block \in Nat
    BY <2>1, ArenaConstants DEF Allocation
  <2>3. CASE j = i
    BY <1>2, <1>3, <2>1, <2>2, <2>3
  <2>4. CASE j # i
    <3>1. Before(a, c)
      BY <1>1, <1>2, <1>3, <1>12, <2>1, <2>4 DEF ArenaInv, Lying
    <3>2. CASE t < c.block
      BY <2>1, <2>2, <3>2
    <3>3. CASE c.block = t /\ p + z <= x
      BY <2>1, <2>2, <3>3
    <3> QED
      BY <1>3, <2>2, <3>1, <3>2, <3>3 DEF Before
  <2> QED
    BY <2>3, <2>4
<1>13. ArenaInv' /\ \E n \in 0..logicalPos : One!Keep(n)
  BY <1>4, <1>5, <1>6, <1>7, <1>8, <1>9, <1>10, <1>11, <1>12, CutKeeps
<1> QED
  BY <1>13 DEF ArenaStep

LEMMA RollbackSizeKeeps ==
    ASSUME ArenaInv, ~ Deep, NEW size \in Sizes, RollbackSize(size), use' = use, use # "flat"
    PROVE  ArenaInv' /\ ArenaStep
<1>1. /\ blocks \in Seq(Block) /\ tail \in 1..Len(blocks) /\ live \in Seq(Allocation)
      /\ Len(live) \in Nat /\ tail = 1 /\ blocks[1] \in Block /\ 1 \in 1..tail
  BY DEF ArenaInv, ArenaTyped, RollbackSize
<1>2. PICK P \in 0..Payload : P = blocks[1].pos
  BY <1>1, BlockFields, ArenaConstants
<1>3. blocks[1].start = 0 /\ blocks[1].padding = 0 /\ logicalPos = P
  <2>1. blocks[1].start = 0 /\ blocks[1].padding = 0 /\ logicalPos = EndOf(1)
    BY <1>1 DEF ArenaInv, Chained
  <2> QED
    BY <1>2, <2>1, ArenaConstants DEF EndOf
<1>4. PICK p \in 0..Payload, z \in Nat \ {0} :
         /\ z = size /\ p = P - z
         /\ blocks' = [blocks EXCEPT ![1].pos = p] /\ logicalPos' = p
         /\ live' = SubSeq(live, 1, Kept(p)) /\ marker' = NoMarker /\ tail' = 1
  <2>1. PICK z \in Nat \ {0}, q \in Nat : z = size /\ q = P
    BY <1>2, ArenaConstants
  <2>2. q + 0 - 0 = q /\ 0 + q - 0 = q /\ 0 + q - z = q - z /\ 0 + (q - z) - 0 = q - z /\ q - 0 = q
    BY <2>1
  <2>3. /\ z \in 1..q
        /\ blocks' = [blocks EXCEPT ![1].pos = q - z] /\ logicalPos' = q - z
        /\ live' = SubSeq(live, 1, Kept(q - z)) /\ marker' = NoMarker /\ tail' = 1
    BY <1>1, <1>2, <1>3, <2>1, <2>2 DEF RollbackSize
  <2>4. q - z \in 0..Payload
    BY <1>2, <2>1, <2>3, ArenaConstants
  <2> QED
    BY <2>1, <2>3, <2>4
<1>5. PICK k \in 0..Len(live) : /\ k = Kept(p)
                               /\ \A i \in 1..Len(live) : i <= k <=> LogicalAt(live[i]) + live[i].size <= p
  <2>1. p \in Nat
    BY ArenaConstants
  <2> QED
    BY <2>1, KeptIs
<1>6. /\ blocks' \in Seq(Block) /\ 1 \in 1..Len(blocks')
      /\ blocks'[1].start = blocks[1].start /\ blocks'[1].padding = blocks[1].padding
      /\ blocks'[1].pos = p
  <2>1. blocks' = PosSet(blocks, 1, p)
    BY <1>4 DEF PosSet
  <2>2. 1 \in 1..Len(blocks)
    BY <1>1
  <2> QED
    BY <1>1, <2>1, <2>2, SetPos
<1>7. ASSUME NEW i \in 1..Len(live)
      PROVE  /\ live[i].block = 1
             /\ i <= k => live[i].off + live[i].size <= p
             /\ i > k => live[i].off + live[i].size > p
  <2>1. PICK a : a = live[i] /\ a \in Allocation /\ a.block \in 1..tail
    BY <1>1 DEF ArenaInv, Lying, InBlock
  <2>2. PICK x \in Nat, z1 \in Nat : x = a.off /\ z1 = a.size
    BY <2>1, ArenaConstants DEF Allocation
  <2>3. a.block = 1 /\ LogicalAt(a) = x
    BY <1>1, <1>3, <2>1, <2>2 DEF LogicalAt
  <2>4. i <= k <=> x + z1 <= p
    BY <1>5, <2>1, <2>2, <2>3
  <2> QED
    BY <1>5, <2>1, <2>2, <2>3, <2>4
<1>8. /\ p \in Nat /\ blocks[1].padding <= p /\ p <= blocks[1].pos /\ tail' = 1
      /\ logicalPos' = blocks[1].start + p - blocks[1].padding
      /\ live' = SubSeq(live, 1, k) /\ marker' = NoMarker
      /\ \A b \in 1..tail : ~ (b < 1)
  <2>1. p \in Nat /\ 0 <= p /\ p <= P
    BY <1>2, <1>4, ArenaConstants
  <2> QED
    BY <1>1, <1>2, <1>3, <1>4, <1>5, <2>1
<1>9. ArenaInv' /\ \E n \in 0..logicalPos : One!Keep(n)
  <2>1. PICK t \in 1..tail : t = 1
    BY <1>1
  <2>2. \A i \in 1..Len(live) : i <= k => \/ live[i].block < t
                                          \/ live[i].block = t /\ live[i].off + live[i].size <= p
    BY <1>7, <2>1
  <2>3. \A i \in 1..Len(live) : i > k => \/ live[i].block > t
                                         \/ live[i].block = t /\ live[i].off + live[i].size > p
    BY <1>7, <2>1
  <2> QED
    BY <1>6, <1>8, <2>1, <2>2, <2>3, CutKeeps
<1> QED
  BY <1>9 DEF ArenaStep

LEMMA RollbackMarkerKeeps ==
    ASSUME ArenaInv, NEW freeMemory \in BOOLEAN, RollbackMarker(freeMemory), use' = use, use # "flat"
    PROVE  ArenaInv' /\ ArenaStep
<1>1. /\ blocks \in Seq(Block) /\ tail \in 1..Len(blocks) /\ live \in Seq(Allocation)
      /\ Len(live) \in Nat /\ 1 \in 1..tail /\ 1 \in 1..Len(blocks) /\ marker \in Mark
  BY DEF ArenaInv, ArenaTyped
<1>2. /\ marker.block = 1 /\ marker.pos <= blocks[1].pos /\ marker.kept <= Len(live)
      /\ \A i \in 1..marker.kept : live[i].block = 1 /\ live[i].off + live[i].size <= marker.pos
      /\ \A i \in (marker.kept + 1)..Len(live) : live[i].block > 1 \/ live[i].off >= marker.pos
  BY DEF ArenaInv, Marking, RollbackMarker
<1>3. PICK p \in Nat, k \in 0..Len(live) : p = marker.pos /\ k = marker.kept /\ p \in 0..Payload
  BY <1>1, <1>2, ArenaConstants DEF Mark
<1>4. blocks[1].start = 0 /\ blocks[1].padding = 0
  BY DEF ArenaInv, Chained
<1>5. PICK cut \in {blocks, SubSeq(blocks, 1, 1)} : blocks' = PosSet(cut, 1, p)
  BY <1>2, <1>3 DEF RollbackMarker, PosSet
<1>6. /\ blocks' \in Seq(Block) /\ 1 \in 1..Len(blocks')
      /\ blocks'[1].start = blocks[1].start /\ blocks'[1].padding = blocks[1].padding
      /\ blocks'[1].pos = p
  <2>1. IsCut(PosSet(cut, 1, p), blocks, 1, p)
    BY <1>1, <1>3, CutBlocks
  <2> QED
    BY <1>5, <2>1 DEF IsCut
<1>7. /\ tail' = 1 /\ live' = SubSeq(live, 1, k) /\ marker' = NoMarker
      /\ logicalPos' = blocks[1].start + (p - blocks[1].padding)
  BY <1>2, <1>3 DEF RollbackMarker
<1>8. PICK t \in 1..tail : t = 1
  BY <1>1
<1>9. ASSUME NEW i \in 1..Len(live), i <= k
      PROVE  live[i].block = t /\ live[i].off + live[i].size <= p
  BY <1>1, <1>2, <1>3, <1>8, <1>9
<1>10. ASSUME NEW i \in 1..Len(live), i > k
       PROVE  live[i].block > t \/ (live[i].block = t /\ live[i].off + live[i].size > p)
  <2>1. PICK a : a = live[i] /\ a \in Allocation /\ a.block \in 1..tail
    BY <1>1 DEF ArenaInv, Lying, InBlock
  <2>2. PICK x \in Nat, z \in Nat \ {0} : x = a.off /\ z = a.size
    BY <2>1, ArenaConstants DEF Allocation
  <2>3. i \in (k + 1)..Len(live)
    BY <1>1, <1>10
  <2>4. a.block > 1 \/ x >= p
    BY <1>2, <1>3, <2>1, <2>2, <2>3
  <2>5. a.block > t \/ (a.block = t /\ x + z > p)
    BY <1>1, <1>8, <2>1, <2>2, <2>4
  <2> QED
    BY <2>1, <2>2, <2>5
<1>11. /\ blocks[t].padding <= p /\ p <= blocks[t].pos
       /\ logicalPos' = blocks[t].start + p - blocks[t].padding
       /\ \A b \in 1..tail : b < t => blocks'[b] = blocks[b]
  <2>1. 0 + (p - 0) = 0 + p - 0 /\ 0 <= p
    OBVIOUS
  <2> QED
    BY <1>2, <1>3, <1>4, <1>7, <1>8, <2>1
<1>12. ArenaInv' /\ \E n \in 0..logicalPos : One!Keep(n)
  BY <1>6, <1>7, <1>8, <1>9, <1>10, <1>11, CutKeeps
<1> QED
  BY <1>12 DEF ArenaStep

LEMMA GetMarkerKeeps ==
    ASSUME ArenaInv, ~ Deep, getMarker, use' = use
    PROVE  ArenaInv' /\ UNCHANGED <<blocks, live, logicalPos>>
<1>1. /\ tail = 1 /\ blocks' = blocks /\ tail' = tail /\ logicalPos' = logicalPos /\ live' = live
      /\ marker' = [block |-> tail, pos |-> logicalPos, kept |-> Len(live)]
  BY DEF getMarker
<1>2. /\ blocks \in Seq(Block) /\ live \in Seq(Allocation) /\ Len(live) \in Nat
      /\ 1 \in 1..Len(blocks) /\ tail \in 1..Len(blocks) /\ logicalPos \in Nat
  BY DEF ArenaInv, ArenaTyped
<1>3. blocks[1] \in Block /\ logicalPos = blocks[1].pos
  <2>1. blocks[1] \in Block /\ blocks[1].start = 0 /\ blocks[1].padding = 0 /\ logicalPos = EndOf(1)
    BY <1>1, <1>2 DEF ArenaInv, Chained
  <2>2. PICK P \in Nat : P = blocks[1].pos
    BY <2>1, BlockFields
  <2> QED
    BY <2>1, <2>2 DEF EndOf
<1>4. PICK P \in 0..Payload : P = logicalPos
  BY <1>2, <1>3, BlockFields, ArenaConstants
<1>5. marker' \in Mark /\ marker'.block = 1 /\ marker'.pos = P /\ marker'.kept = Len(live)
  BY <1>1, <1>2, <1>4 DEF Mark
<1>6. ArenaTyped' /\ NothingBehind'
  BY <1>1, <1>2, <1>5 DEF ArenaTyped, NothingBehind, ArenaInv
<1>7. Chained'
  BY <1>1 DEF ArenaInv, Chained, EndOf
<1>8. Lying'
  BY <1>1 DEF ArenaInv, Lying, InBlock, Before
<1>9. Marking'
  <2>1. ASSUME NEW i \in 1..Len(live)
        PROVE  live[i].block = 1 /\ live[i].off + live[i].size <= P
    <3>1. PICK a : a = live[i] /\ InBlock(a)
      BY <1>2 DEF ArenaInv, Lying
    <3>2. a.block = 1 /\ a.off + a.size <= blocks[1].pos
      BY <1>1, <3>1 DEF InBlock
    <3> QED
      BY <1>3, <1>4, <3>1, <3>2
  <2>2. P <= P /\ Len(live) <= Len(live) /\ \A i \in (Len(live) + 1)..Len(live) : FALSE
    BY <1>2, <1>4, ArenaConstants
  <2>3. P <= blocks'[1].pos
    BY <1>1, <1>3, <1>4, <2>2
  <2> QED
    BY <1>1, <1>5, <2>1, <2>2, <2>3 DEF Marking
<1> QED
  BY <1>1, <1>6, <1>7, <1>8, <1>9 DEF ArenaInv

LEMMA ClearKeeps ==
    ASSUME ArenaInv, Arena_clear, use' = use, use # "flat"
    PROVE  ArenaInv' /\ ArenaStep
<1>1. /\ blocks \in Seq(Block) /\ tail \in 1..Len(blocks) /\ live \in Seq(Allocation)
      /\ Len(live) \in Nat /\ 1 \in 1..tail /\ 1 \in 1..Len(blocks) /\ blocks[1] \in Block
  BY DEF ArenaInv, ArenaTyped
<1>2. blocks[1].start = 0 /\ blocks[1].padding = 0
  BY DEF ArenaInv, Chained
<1>3. PICK t \in 1..tail, k \in 0..Len(live), p \in Nat : t = 1 /\ k = 0 /\ p = 0 /\ p \in 0..Payload
  BY <1>1, ArenaConstants
<1>4. /\ blocks' = PosSet(blocks, 1, p) /\ tail' = 1 /\ logicalPos' = 0 /\ live' = <<>>
      /\ marker' = NoMarker
  BY <1>3 DEF Arena_clear, PosSet
<1>5. /\ blocks' \in Seq(Block) /\ 1 \in 1..Len(blocks')
      /\ blocks'[1].start = blocks[1].start /\ blocks'[1].padding = blocks[1].padding
      /\ blocks'[1].pos = p
  BY <1>1, <1>3, <1>4, SetPos
<1>6. live' = SubSeq(live, 1, k)
  BY <1>1, <1>3, <1>4
<1>7. /\ \A i \in 1..Len(live) : i <= k => FALSE
      /\ \A b \in 1..tail : b < t => blocks'[b] = blocks[b]
  BY <1>1, <1>3
<1>8. ASSUME NEW i \in 1..Len(live)
      PROVE  live[i].block > t \/ (live[i].block = t /\ live[i].off + live[i].size > p)
  <2>1. PICK a : a = live[i] /\ a \in Allocation /\ a.block \in 1..tail
    BY <1>1 DEF ArenaInv, Lying, InBlock
  <2>2. PICK x \in Nat, z \in Nat \ {0} : x = a.off /\ z = a.size
    BY <2>1, ArenaConstants DEF Allocation
  <2>3. a.block > t \/ (a.block = t /\ x + z > p)
    BY <1>1, <1>3, <2>1, <2>2
  <2> QED
    BY <2>1, <2>2, <2>3
<1>9. /\ blocks[t].padding <= p /\ p <= blocks[t].pos
      /\ logicalPos' = blocks[t].start + p - blocks[t].padding
  <2>1. blocks[1].pos \in Nat
    BY <1>1, BlockFields
  <2> QED
    BY <1>2, <1>3, <1>4, <2>1
<1>10. ArenaInv' /\ \E n \in 0..logicalPos : One!Keep(n)
  BY <1>3, <1>4, <1>5, <1>6, <1>7, <1>8, <1>9, CutKeeps
<1> QED
  BY <1>10 DEF ArenaStep

LEMMA ArenaStepKeeps ==
    ASSUME ArenaInv, ~ Deep, [ArenaNext]_arenaVars
    PROVE  ArenaInv' /\ (ArenaStep \/ UNCHANGED <<blocks, live, logicalPos>>)
<1>1. CASE Arena_push /\ use' = use
  BY <1>1, PushHereKeeps, PushNextKeeps DEF Arena_push
<1>2. CASE use = "scratch" /\ ArenaRollback /\ use' = use
  <2>1. use # "flat"
    BY <1>2
  <2> QED
    BY <1>2, <2>1, RollbackPointerKeeps, RollbackSizeKeeps, RollbackMarkerKeeps, GetMarkerKeeps
       DEF ArenaRollback
<1>3. CASE use # "flat" /\ Arena_clear /\ use' = use
  BY <1>3, ClearKeeps
<1>4. CASE UNCHANGED arenaVars
  <2>1. /\ use' = use /\ blocks' = blocks /\ tail' = tail /\ logicalPos' = logicalPos
        /\ live' = live /\ marker' = marker
    BY <1>4 DEF arenaVars
  <2>2. ArenaTyped' /\ Marking' /\ NothingBehind'
    BY <2>1 DEF ArenaInv, ArenaTyped, Marking, NothingBehind
  <2>3. Chained'
    BY <2>1 DEF ArenaInv, Chained, EndOf
  <2>4. Lying'
    BY <2>1 DEF ArenaInv, Lying, InBlock, Before
  <2> QED
    BY <2>1, <2>2, <2>3, <2>4 DEF ArenaInv
<1> QED
  BY <1>1, <1>2, <1>3, <1>4 DEF ArenaNext

LEMMA ArenaStarts == ArenaInit => ArenaInv /\ One!Init
<1> SUFFICES ASSUME ArenaInit PROVE ArenaInv /\ One!Init
  OBVIOUS
<1>1. /\ blocks = <<initBlock>> /\ tail = 1 /\ logicalPos = 0 /\ live = <<>> /\ marker = NoMarker
  BY DEF ArenaInit
<1>2. initBlock \in Block /\ initBlock.start = 0 /\ initBlock.padding = 0 /\ initBlock.pos = 0
      /\ NoMarker \in Mark
  BY ArenaConstants DEF initBlock, Block, NoMarker, Mark
<1>3. /\ blocks \in Seq(Block) /\ Len(blocks) = 1 /\ blocks[1] = initBlock /\ Len(live) = 0
      /\ live \in Seq(Allocation)
  BY <1>1, <1>2
<1>4. ArenaTyped /\ NothingBehind /\ Marking
  BY <1>1, <1>2, <1>3 DEF ArenaTyped, NothingBehind, Marking
<1>5. Chained
  <2>1. 0 % BaseAlign = 0
    <3>1. PICK B \in Nat \ {0} : B = BaseAlign
      BY ArenaConstants
    <3>2. 0 % B = 0
      OBVIOUS
    <3> QED
      BY <3>1, <3>2
  <2>2. EndOf(1) = 0
    BY <1>2, <1>3 DEF EndOf
  <2> QED
    BY <1>1, <1>2, <1>3, <2>1, <2>2 DEF Chained
<1>6. Lying
  BY <1>3 DEF Lying
<1>7. One!Init
  BY <1>1 DEF One!Init, LiveInOne
<1> QED
  BY <1>4, <1>5, <1>6, <1>7 DEF ArenaInv

LEMMA ArenaInvHolds == ~ Deep => (ArenaSpec => []ArenaInv)
<1> SUFFICES ASSUME ~ Deep
             PROVE  ArenaSpec => []ArenaInv
  OBVIOUS
<1>1. ArenaInit => ArenaInv
  BY ArenaStarts
<1>2. ArenaInv /\ [ArenaNext]_arenaVars => ArenaInv'
  BY ArenaStepKeeps
<1> QED
  BY <1>1, <1>2, PTL DEF ArenaSpec

(* An arena gives out what one block without an end would: whatever is      *)
(* pushed, given back and cleared, in however many blocks of the list.      *)
(* Rollbacks by a size and to a marker are left out beyond the first block, *)
(* where the code takes one kind of position for the other.                *)
THEOREM ArenaIsOneBlock == ~ Deep => (ArenaSpec => One!Spec)
<1> SUFFICES ASSUME ~ Deep
             PROVE  ArenaSpec => One!Spec
  OBVIOUS
<1>1. ArenaInit => One!Init
  BY ArenaStarts
<1>2. ArenaInv /\ [ArenaNext]_arenaVars => [One!Next]_One!vars
  <2> SUFFICES ASSUME ArenaInv, [ArenaNext]_arenaVars
               PROVE  [One!Next]_One!vars
    OBVIOUS
  <2>1. CASE ArenaStep
    BY <2>1 DEF ArenaStep, One!Next
  <2>2. CASE UNCHANGED <<blocks, live, logicalPos>>
    BY <2>2 DEF One!vars, LiveInOne, InOne, LogicalAt
  <2> QED
    BY <2>1, <2>2, ArenaStepKeeps
<1> QED
  BY <1>1, <1>2, ArenaInvHolds, PTL DEF ArenaSpec, One!Spec

(* What was allocated and not given back lies in its block, aligned, and no *)
(* two share a byte.                                                       *)
THEOREM ArenaPlacesApart == ~ Deep => (ArenaSpec => [](ArenaTypeOK /\ Placed))
<1>1. ArenaInv => ArenaTypeOK /\ Placed
  <2> SUFFICES ASSUME ArenaInv PROVE ArenaTypeOK /\ Placed
    OBVIOUS
  <2>1. /\ blocks \in Seq(Block) /\ tail \in 1..Len(blocks) /\ logicalPos \in Nat
        /\ live \in Seq(Allocation) /\ Len(live) \in Nat
    BY DEF ArenaInv, ArenaTyped
  <2>2. ArenaTypeOK
    <3>1. ASSUME NEW b \in 1..Len(blocks) PROVE blocks[b].pos \in 0..Payload
      <4>1. blocks[b] \in Block
        BY <2>1
      <4> QED
        BY <4>1, ArenaConstants DEF Block
    <3> QED
      BY <2>1, <3>1 DEF ArenaTypeOK
  <2>3. ASSUME NEW i \in 1..Len(live)
        PROVE  live[i].off + live[i].size <= Payload /\ live[i].off % live[i].align = 0
    <3>1. PICK a : a = live[i] /\ a \in Allocation /\ InBlock(a)
      BY <2>1 DEF ArenaInv, Lying
    <3>2. PICK x \in Nat, z \in Nat : x = a.off /\ z = a.size
      BY <3>1, ArenaConstants DEF Allocation
    <3>3. PICK P \in Nat : P = blocks[a.block].pos /\ P <= Payload
      <4>1. blocks[a.block] \in Block
        BY <2>1, <3>1 DEF InBlock
      <4> QED
        BY <4>1, BlockFields
    <3>4. x + z <= P /\ a.off % a.align = 0
      BY <3>1, <3>2, <3>3 DEF InBlock
    <3>5. x + z <= Payload
      BY <3>3, <3>4, ArenaConstants
    <3> QED
      BY <3>1, <3>2, <3>4, <3>5
  <2>4. ASSUME NEW i \in 1..Len(live), NEW j \in 1..(i - 1), live[j].block = live[i].block
        PROVE  live[j].off + live[j].size <= live[i].off
    <3>1. j \in 1..Len(live) /\ j < i
      BY <2>1
    <3>2. Before(live[j], live[i])
      BY <3>1 DEF ArenaInv, Lying
    <3>3. live[i] \in Allocation
      BY <2>1
    <3>4. live[i].block \in Nat
      BY <3>3 DEF Allocation
    <3>5. ~ (live[j].block < live[i].block)
      BY <2>4, <3>4
    <3> QED
      BY <3>2, <3>5 DEF Before
  <2> QED
    BY <2>2, <2>3, <2>4 DEF Placed
<1> QED
  BY <1>1, ArenaInvHolds, PTL

(* flatCopy of an arena that only grew puts each allocation where the one   *)
(* block has it, each byte from the block it was written to.               *)
THEOREM FlatCopyIsTheOneBlock ==
    ~ Deep /\ "reused" \notin Uses => (ArenaSpec => []FlatLayout)
<1> SUFFICES ASSUME ~ Deep, "reused" \notin Uses
             PROVE  ArenaSpec => []FlatLayout
  OBVIOUS
<1>1. ArenaInit => use \in Uses
  BY DEF ArenaInit
<1>2. use \in Uses /\ [ArenaNext]_arenaVars => (use \in Uses)'
  BY DEF ArenaNext, arenaVars
<1>3. ArenaInv /\ use \in Uses => FlatLayout
  <2> SUFFICES ASSUME ArenaInv, use \in Uses, use # "scratch", NEW i \in 1..Len(live),
                      NEW n \in LogicalAt(live[i]) .. (LogicalAt(live[i]) + live[i].size - 1)
               PROVE  n \in Copied(live[i].block) /\ CopiedFrom(n) = live[i].block
    BY DEF FlatLayout
  <2>1. use = "flat"
    BY ArenaAssumption
  <2>2. PICK b : b = live[i].block /\ b \in 1..tail
    BY DEF ArenaInv, Lying, InBlock
  <2>3. Len(blocks) = tail /\ tail \in Nat /\ blocks \in Seq(Block)
    BY <2>1 DEF ArenaInv, ArenaTyped, NothingBehind
  <2>4. PICK from \in Nat, size \in Nat : from = LogicalAt(live[i]) /\ size = live[i].size
    BY LogicalPlace
  <2>5. n \in from..(from + size - 1)
    BY <2>4
  <2>6. /\ from >= blocks[b].start /\ from + size <= EndOf(b)
        /\ \A c \in 1..tail : b < c => from + size <= blocks[c].start
    BY <2>2, <2>4, LogicalPlace
  <2>7. EndOf(b) \in Int /\ blocks[b].start \in Nat
    BY <2>2, EndsBefore, BlockFields
  <2>8. n \in Copied(b)
    <3>1. PICK s \in Nat, e \in Int : s = blocks[b].start /\ e = EndOf(b)
      BY <2>7
    <3>2. n \in s..(e - 1)
      BY <2>5, <2>6, <3>1
    <3>3. Copied(b) = s..(e - 1)
      <4>1. PICK p \in Nat, pos \in Nat : p = blocks[b].padding /\ pos = blocks[b].pos
        BY <2>2, EndsBefore, BlockFields
      <4>2. e = s + pos - p /\ Copied(b) = s..(s + pos - p - 1)
        BY <3>1, <4>1 DEF EndOf, Copied
      <4>3. s + pos - p - 1 = e - 1
        BY <4>2
      <4> QED
        BY <4>2, <4>3
    <3> QED
      BY <3>1, <3>2, <3>3
  <2>9. ASSUME NEW c \in (b + 1)..Len(blocks) PROVE n \notin Copied(c)
    <3>1. c \in 1..tail /\ b < c
      BY <2>2, <2>3, <2>9
    <3>2. blocks[c] \in Block
      BY <3>1, EndsBefore
    <3>3. blocks[c].start \in Nat /\ from + size <= blocks[c].start
      BY <2>6, <3>1, <3>2, BlockFields
    <3>4. n < blocks[c].start
      BY <2>5, <3>3
    <3>5. ~ (blocks[c].start <= n)
      BY <2>5, <3>3, <3>4
    <3> QED
      BY <3>5 DEF Copied
  <2>10. b \in 1..Len(blocks)
    BY <2>2, <2>3
  <2>11. ASSUME NEW c \in 1..Len(blocks), n \in Copied(c),
                \A d \in (c + 1)..Len(blocks) : n \notin Copied(d)
         PROVE  c = b
    <3>1. c \in (b + 1)..Len(blocks) \/ b \in (c + 1)..Len(blocks) \/ c = b
      BY <2>2, <2>3
    <3> QED
      BY <2>8, <2>9, <2>11, <3>1
  <2>12. CopiedFrom(n) = b
    BY <2>8, <2>9, <2>10, <2>11 DEF CopiedFrom
  <2> QED
    BY <2>2, <2>8, <2>12
<1> QED
  BY <1>1, <1>2, <1>3, ArenaInvHolds, PTL DEF ArenaSpec

-----------------------------------------------------------------------------
(* Tables of a hash set.                                                   *)

Slot == [type : {"empty", "deleted", "occupied"}, key : Key \cup {NoKey}]
Size(t) == Cardinality(DOMAIN t)
At(t) == {i \in DOMAIN t : t[i].type = "occupied"}
KeysOf(t) == {t[i].key : i \in At(t)}

(* A search for the key k comes to the slot i after d steps.               *)
ComesTo(t, k, d, i) ==
    /\ Probe(t, k, d) = i
    /\ \A j \in 0..(d - 1) : t[Probe(t, k, j)].type # "empty"

(* A table of slots whose keys are in once, each where a search comes to.  *)
Shaped(t) ==
    /\ Size(t) \in Nat \ {0}
    /\ t \in [0..(Size(t) - 1) -> Slot]
Single(t) ==
    /\ \A i \in At(t) : t[i].key \in Key
    /\ \A i, j \in At(t) : t[i].key = t[j].key => i = j
Reached(t) ==
    \A i \in At(t) : \E d \in 0..(Size(t) - 1) : ComesTo(t, t[i].key, d, i)
Searchable(t) == Shaped(t) /\ Single(t) /\ Reached(t)

(* The table is searchable, and usedSize counts its keys.                  *)
SetInv ==
    /\ Searchable(table)
    /\ usedSize = Cardinality(At(table))
    /\ answer \in BOOLEAN

(* A search is always at a slot of the table.                              *)
LEMMA ProbeIn ==
    ASSUME NEW t, Shaped(t), NEW k \in Key, NEW i \in Nat
    PROVE  Probe(t, k, i) \in 0..(Size(t) - 1) /\ Probe(t, k, i) \in DOMAIN t
<1>1. Hash[k] + i \in Nat
  BY SetAssumption
<1>2. PICK n \in Nat \ {0} : n = Size(t)
  BY DEF Shaped
<1>3. PICK h \in Nat : h = Hash[k] + i
  BY <1>1
<1>4. h % n \in 0..(n - 1)
  OBVIOUS
<1>5. Probe(t, k, i) = h % n
  BY <1>2, <1>3 DEF Probe, Size
<1> QED
  BY <1>2, <1>4, <1>5 DEF Shaped

(* It comes to every slot before it has made as many steps as there are.   *)
LEMMA ProbeAll ==
    ASSUME NEW t, Shaped(t), NEW k \in Key, NEW p \in 0..(Size(t) - 1)
    PROVE  \E d \in 0..(Size(t) - 1) : Probe(t, k, d) = p
<1>1. PICK n \in Nat \ {0} : n = Size(t)
  BY DEF Shaped
<1>2. PICK h \in Nat : h = Hash[k]
  BY SetAssumption
<1>3. PICK q \in Int, d \in 0..(n - 1) : p - h = q * n + d
  <2>1. PICK e \in Int : e = p - h
    BY <1>1, <1>2
  <2>2. \E q \in Int, d \in 0..(n - 1) : e = q * n + d
    BY <2>1, Divided
  <2> QED
    BY <2>1, <2>2
<1>4. PICK g \in Int : g = h + d
  BY <1>2
<1>5. PICK m \in Int, r \in 0..(n - 1) : g = m * n + r /\ r = g % n
  BY <1>4, Divided
<1>6. PICK a \in Int, b \in Int, c \in Int : a = q * n /\ b = m * n /\ c = (0 - q) * n
  OBVIOUS
<1>7. c = 0 - a
  BY <1>6
<1>8. p + c = r + b
  <2>1. p - h = a + d /\ h + d = b + r
    BY <1>3, <1>4, <1>5, <1>6
  <2>2. p \in Int /\ d \in Int /\ r \in Int
    BY <1>1, <1>3, <1>5
  <2> QED
    BY <1>2, <1>6, <1>7, <2>1, <2>2
<1>9. p = r
  <2>1. p + (0 - q) * n = r + m * n
    BY <1>6, <1>8
  <2>2. 0 - q \in Int /\ p \in 0..(n - 1)
    BY <1>1
  <2> QED
    BY <2>1, <2>2, Digits
<1> QED
  BY <1>1, <1>2, <1>4, <1>5, <1>9 DEF Probe, Size

(* Steps is the number of steps a search makes.                            *)
LEMMA SearchEnds ==
    ASSUME NEW t, Shaped(t), NEW k
    PROVE  /\ Steps(t, k) \in 0..Size(t)
           /\ Steps(t, k) = Size(t) \/ Stops(t, k, Steps(t, k))
           /\ \A j \in 0..(Steps(t, k) - 1) : ~ Stops(t, k, j)
<1>1. PICK n \in Nat \ {0} : n = Size(t)
  BY DEF Shaped
<1> DEFINE T == {i \in 0..n : i = n \/ Stops(t, k, i)}
<1>2. T \in SUBSET Nat /\ n \in T
  OBVIOUS
<1>3. PICK m \in T : \A l \in T : m <= l
  BY <1>2, Smallest
<1>4. m \in 0..n /\ (m = n \/ Stops(t, k, m))
  OBVIOUS
<1>5. \A j \in 0..(m - 1) : ~ Stops(t, k, j)
  BY <1>3
<1>6. \E i \in 0..n : /\ i = n \/ Stops(t, k, i)
                      /\ \A j \in 0..(i - 1) : ~ Stops(t, k, j)
  BY <1>4, <1>5
<1>7. Steps(t, k) = CHOOSE i \in 0..n : /\ i = n \/ Stops(t, k, i)
                                        /\ \A j \in 0..(i - 1) : ~ Stops(t, k, j)
  BY <1>1 DEF Steps, Size
<1> QED
  BY <1>1, <1>6, <1>7

LEMMA HasIff ==
    ASSUME NEW t, Searchable(t), NEW k \in Key
    PROVE  Has(t, k) <=> k \in KeysOf(t)
<1> DEFINE s == Steps(t, k)
<1>1. PICK n \in Nat \ {0} : n = Size(t)
  BY DEF Searchable, Shaped
<1>2. /\ s \in 0..n
      /\ s = n \/ Stops(t, k, s)
      /\ \A j \in 0..(s - 1) : ~ Stops(t, k, j)
  BY <1>1, SearchEnds DEF Searchable
<1> HIDE DEF s
<1>3. \A d \in Nat : Probe(t, k, d) \in DOMAIN t
  BY ProbeIn DEF Searchable
<1>4. ASSUME t[Probe(t, k, s)] = SlotOf(k) PROVE k \in KeysOf(t)
  <2>1. Probe(t, k, s) \in At(t)
    BY <1>2, <1>3, <1>4 DEF At, SlotOf
  <2>2. t[Probe(t, k, s)].key = k
    BY <1>4 DEF SlotOf
  <2> QED
    BY <2>1, <2>2 DEF KeysOf
<1>5. ASSUME k \in KeysOf(t) PROVE t[Probe(t, k, s)] = SlotOf(k)
  <2>1. PICK i \in At(t) : t[i].key = k
    BY <1>5 DEF KeysOf
  <2>2. PICK d \in 0..(n - 1) : ComesTo(t, k, d, i)
    BY <1>1, <2>1 DEF Searchable, Reached
  <2>3. t[i] = SlotOf(k)
    <3>1. t[i] \in Slot /\ t[i].type = "occupied"
      BY <2>1 DEF At, Searchable, Shaped
    <3> QED
      BY <2>1, <3>1 DEF Slot, SlotOf
  <2>4. Stops(t, k, d)
    BY <2>2, <2>3 DEF Stops, ComesTo
  <2>5. s <= d /\ s # n
    BY <1>1, <1>2, <2>4
  <2>6. CASE s = d
    BY <2>2, <2>3, <2>6 DEF ComesTo
  <2>7. CASE s < d
    <3>1. t[Probe(t, k, s)].type # "empty"
      BY <1>2, <2>2, <2>7 DEF ComesTo
    <3> QED
      BY <1>2, <2>5, <3>1 DEF Stops
  <2> QED
    BY <1>2, <2>5, <2>6, <2>7
<1> QED
  BY <1>4, <1>5 DEF Has, s

(* Where Set_insert puts a key: a slot of no key, which a search comes to. *)
LEMMA FreeIs ==
    ASSUME NEW t, Searchable(t), NEW k \in Key, k \notin KeysOf(t), At(t) # DOMAIN t
    PROVE  \E d \in 0..(Size(t) - 1), f \in DOMAIN t \ At(t) :
               f = FreeSlot(t, k) /\ ComesTo(t, k, d, f)
<1> DEFINE s == Steps(t, k)
           D == {i \in 0..(s - 1) : t[Probe(t, k, i)].type = "deleted"}
<1>1. PICK n \in Nat \ {0} : n = Size(t) /\ DOMAIN t = 0..(n - 1)
  BY DEF Searchable, Shaped
<1>2. /\ s \in 0..n
      /\ s = n \/ Stops(t, k, s)
      /\ \A j \in 0..(s - 1) : ~ Stops(t, k, j)
  BY <1>1, SearchEnds DEF Searchable
<1>3. \A d \in Nat : Probe(t, k, d) \in DOMAIN t
  BY ProbeIn DEF Searchable
<1>4. FreeSlot(t, k) = IF D = {} THEN Probe(t, k, s)
                       ELSE Probe(t, k, CHOOSE i \in D : \A j \in D : i <= j)
  BY DEF FreeSlot
<1> HIDE DEF s
<1>5. \A j \in 0..(s - 1) : t[Probe(t, k, j)].type # "empty"
  BY <1>2 DEF Stops
<1>6. \A i \in DOMAIN t : t[i] # SlotOf(k)
  <2> SUFFICES ASSUME NEW i \in DOMAIN t, t[i] = SlotOf(k) PROVE FALSE
    OBVIOUS
  <2>1. i \in At(t) /\ t[i].key = k
    BY DEF At, SlotOf
  <2> QED
    BY <2>1 DEF KeysOf
<1>7. CASE D = {}
  <2>1. s # n
    <3> SUFFICES ASSUME s = n PROVE FALSE
      OBVIOUS
    <3>1. ASSUME NEW p \in DOMAIN t PROVE p \in At(t)
      <4>1. PICK d \in 0..(n - 1) : Probe(t, k, d) = p
        BY <1>1, ProbeAll DEF Searchable
      <4>2. t[p].type # "empty" /\ t[p].type # "deleted"
        BY <1>2, <1>5, <1>7, <4>1
      <4>3. t[p].type \in {"empty", "deleted", "occupied"}
        BY <1>1 DEF Searchable, Shaped, Slot
      <4> QED
        BY <4>2, <4>3 DEF At
    <3> QED
      BY <3>1 DEF At
  <2>2. t[Probe(t, k, s)].type = "empty"
    BY <1>2, <1>3, <1>6, <2>1 DEF Stops
  <2>3. Probe(t, k, s) \in DOMAIN t \ At(t)
    BY <1>2, <1>3, <2>2 DEF At
  <2>4. s \in 0..(n - 1)
    BY <1>1, <1>2, <2>1
  <2> QED
    BY <1>1, <1>4, <1>5, <1>7, <2>3, <2>4 DEF ComesTo
<1>8. CASE D # {}
  <2>1. D \in SUBSET Nat
    BY <1>2
  <2>2. \E i \in D : \A j \in D : i <= j
    BY <1>8, <2>1, Smallest
  <2>3. PICK i \in D : i = CHOOSE x \in D : \A j \in D : x <= j
    BY <2>2
  <2>4. i \in 0..(s - 1) /\ t[Probe(t, k, i)].type = "deleted"
    BY <2>3
  <2>5. Probe(t, k, i) \in DOMAIN t \ At(t)
    BY <1>2, <1>3, <2>4 DEF At
  <2>6. i \in 0..(n - 1) /\ \A j \in 0..(i - 1) : j \in 0..(s - 1)
    BY <1>1, <1>2, <2>4
  <2>7. FreeSlot(t, k) = Probe(t, k, i)
    BY <1>4, <1>8, <2>3
  <2>8. ComesTo(t, k, i, Probe(t, k, i))
    BY <1>5, <2>6 DEF ComesTo
  <2> QED
    BY <1>1, <2>5, <2>6, <2>7, <2>8
<1> QED
  BY <1>7, <1>8

(* The tables with a key put into a slot, and with the key of one removed. *)
Put(t, f, k) == [t EXCEPT ![f] = SlotOf(k)]
Drop(t, f) == [t EXCEPT ![f] = Deleted(@)]

(* A search depends on what is empty only.                                 *)
LEMMA SameSearch ==
    ASSUME NEW t, Shaped(t), NEW u, DOMAIN u = DOMAIN t,
           \A i \in DOMAIN t : u[i].type = "empty" => t[i].type = "empty",
           NEW k \in Key, NEW d \in Nat, NEW i, ComesTo(t, k, d, i)
    PROVE  ComesTo(u, k, d, i)
<1>1. \A j \in Nat : Probe(u, k, j) = Probe(t, k, j) /\ Probe(t, k, j) \in DOMAIN t
  BY ProbeIn DEF Probe
<1>2. \A j \in 0..(d - 1) : j \in Nat
  OBVIOUS
<1> QED
  BY <1>1, <1>2 DEF ComesTo

LEMMA PutKeeps ==
    ASSUME NEW t, Searchable(t), NEW k \in Key, k \notin KeysOf(t), At(t) # DOMAIN t
    PROVE  LET u == Put(t, FreeSlot(t, k), k)
           IN  /\ Searchable(u)
               /\ Size(u) = Size(t) /\ DOMAIN u = DOMAIN t
               /\ KeysOf(u) = KeysOf(t) \cup {k}
               /\ \E f \in DOMAIN t \ At(t) : At(u) = At(t) \cup {f}
<1>1. PICK n \in Nat \ {0} : n = Size(t) /\ DOMAIN t = 0..(n - 1)
  BY DEF Searchable, Shaped
<1>2. PICK e \in 0..(n - 1), f \in DOMAIN t \ At(t) :
          f = FreeSlot(t, k) /\ ComesTo(t, k, e, f)
  BY <1>1, FreeIs
<1> DEFINE u == Put(t, f, k)
<1>3. /\ DOMAIN u = DOMAIN t
      /\ u[f] = SlotOf(k) /\ \A i \in DOMAIN t \ {f} : u[i] = t[i]
  BY <1>2 DEF Put, Searchable, Shaped
<1>4. u \in [0..(n - 1) -> Slot]
  <2>1. SlotOf(k) \in Slot
    BY DEF SlotOf, Slot
  <2> QED
    BY <1>1, <2>1 DEF Put, Searchable, Shaped
<1> HIDE DEF u
<1>5. Size(u) = Size(t)
  BY <1>3 DEF Size
<1>6. Shaped(u)
  BY <1>1, <1>4, <1>5 DEF Shaped
<1>7. At(u) = At(t) \cup {f}
  <2>1. SlotOf(k).type = "occupied"
    BY DEF SlotOf
  <2> QED
    BY <1>2, <1>3, <2>1 DEF At
<1>8. SlotOf(k).key = k /\ \A i \in At(t) : i # f /\ u[i] = t[i]
  BY <1>2, <1>3 DEF SlotOf, At
<1>9. KeysOf(u) = KeysOf(t) \cup {k}
  <2>1. u[f].key = k
    BY <1>3, <1>8
  <2> QED
    BY <1>7, <1>8, <2>1 DEF KeysOf
<1>10. Single(u)
  <2>1. \A i \in At(u) : u[i].key \in Key
    BY <1>3, <1>7, <1>8 DEF Searchable, Single
  <2>2. \A i \in At(t) : u[i].key \in KeysOf(t)
    BY <1>8 DEF KeysOf
  <2>3. \A i, j \in At(u) : u[i].key = u[j].key => i = j
    BY <1>3, <1>7, <1>8, <2>2 DEF Searchable, Single
  <2> QED
    BY <2>1, <2>3 DEF Single
<1>11. Reached(u)
  <2>1. \A i \in DOMAIN t : u[i].type = "empty" => t[i].type = "empty"
    <3>1. SlotOf(k).type # "empty"
      BY DEF SlotOf
    <3> QED
      BY <1>3, <3>1
  <2>2. ComesTo(u, k, e, f)
    BY <1>2, <1>3, <2>1, SameSearch DEF Searchable
  <2>3. ASSUME NEW i \in At(t) PROVE \E d \in 0..(n - 1) : ComesTo(u, t[i].key, d, i)
    <3>1. PICK d \in 0..(n - 1) : ComesTo(t, t[i].key, d, i)
      BY <1>1 DEF Searchable, Reached
    <3>2. t[i].key \in Key /\ d \in Nat
      BY DEF Searchable, Single
    <3> QED
      BY <1>3, <2>1, <3>1, <3>2, SameSearch DEF Searchable
  <2> QED
    BY <1>1, <1>3, <1>5, <1>7, <1>8, <2>2, <2>3 DEF Reached
<1> QED
  BY <1>2, <1>3, <1>5, <1>6, <1>7, <1>9, <1>10, <1>11 DEF Searchable, u

LEMMA DropKeeps ==
    ASSUME NEW t, Searchable(t), NEW f \in At(t)
    PROVE  LET u == Drop(t, f)
           IN  /\ Searchable(u)
               /\ Size(u) = Size(t)
               /\ KeysOf(u) = KeysOf(t) \ {t[f].key}
               /\ At(u) = At(t) \ {f}
<1>1. PICK n \in Nat \ {0} : n = Size(t) /\ DOMAIN t = 0..(n - 1)
  BY DEF Searchable, Shaped
<1> DEFINE u == Drop(t, f)
<1>2. f \in DOMAIN t /\ t[f] \in Slot
  BY DEF At, Searchable, Shaped
<1>3. /\ DOMAIN u = DOMAIN t
      /\ u[f] = Deleted(t[f]) /\ \A i \in DOMAIN t \ {f} : u[i] = t[i]
  BY <1>2 DEF Drop, Searchable, Shaped
<1>4. Deleted(t[f]) \in Slot /\ Deleted(t[f]).type = "deleted"
  BY <1>2 DEF Deleted, Slot
<1>5. u \in [0..(n - 1) -> Slot]
  BY <1>1, <1>4 DEF Drop, Searchable, Shaped
<1> HIDE DEF u
<1>6. Size(u) = Size(t)
  BY <1>3 DEF Size
<1>7. Shaped(u)
  BY <1>1, <1>5, <1>6 DEF Shaped
<1>8. At(u) = At(t) \ {f}
  BY <1>2, <1>3, <1>4 DEF At
<1>9. \A i \in At(u) : i \in At(t) /\ i # f /\ u[i] = t[i]
  BY <1>3, <1>8 DEF At
<1>10. KeysOf(u) = KeysOf(t) \ {t[f].key}
  <2>1. \A i \in At(t) \ {f} : t[i].key # t[f].key
    BY DEF Searchable, Single
  <2> QED
    BY <1>8, <1>9, <2>1 DEF KeysOf
<1>11. Single(u)
  BY <1>9 DEF Searchable, Single
<1>12. Reached(u)
  <2>1. \A i \in DOMAIN t : u[i].type = "empty" => t[i].type = "empty"
    BY <1>3, <1>4
  <2>2. ASSUME NEW i \in At(t) PROVE \E d \in 0..(n - 1) : ComesTo(u, t[i].key, d, i)
    <3>1. PICK d \in 0..(n - 1) : ComesTo(t, t[i].key, d, i)
      BY <1>1 DEF Searchable, Reached
    <3>2. t[i].key \in Key /\ d \in Nat
      BY DEF Searchable, Single
    <3> QED
      BY <1>3, <2>1, <3>1, <3>2, SameSearch DEF Searchable
  <2> QED
    BY <1>1, <1>6, <1>9, <2>2 DEF Reached
<1> QED
  BY <1>6, <1>7, <1>8, <1>10, <1>11, <1>12 DEF Searchable, u

LEMMA EmptyIs ==
    ASSUME NEW n \in Nat \ {0}
    PROVE  /\ Searchable(allocTable(n)) /\ Size(allocTable(n)) = n
           /\ KeysOf(allocTable(n)) = {} /\ At(allocTable(n)) = {}
<1> DEFINE t == allocTable(n)
<1>1. DOMAIN t = 0..(n - 1) /\ \A i \in 0..(n - 1) : t[i] = EmptySlot
  BY DEF allocTable, Slots
<1>2. EmptySlot \in Slot /\ EmptySlot.type = "empty"
  BY DEF EmptySlot, Slot
<1>3. t \in [0..(n - 1) -> Slot]
  BY <1>2 DEF allocTable, Slots
<1> HIDE DEF t
<1>4. Size(t) = n
  <2>1. Cardinality(0..(n - 1)) = n
    BY FS_Interval
  <2> QED
    BY <1>1, <2>1 DEF Size
<1>5. At(t) = {}
  BY <1>1, <1>2 DEF At
<1>6. KeysOf(t) = {} /\ Single(t) /\ Reached(t)
  BY <1>5 DEF KeysOf, Single, Reached
<1> QED
  BY <1>3, <1>4, <1>5, <1>6 DEF Searchable, Shaped, t

(* resize goes through the old table slot by slot: after i slots the new   *)
(* one holds the keys of those, whatever slots they came to.               *)
MovedSlot(t, u, i) ==
    IF t[i].type # "occupied" THEN u ELSE Put(u, FreeSlot(u, t[i].key), t[i].key)

LEMMA RehashGoesThrough ==
    ASSUME NEW t, NEW n \in Nat, n = Size(t), NEW size
    PROVE  \E g : /\ g[0] = allocTable(size)
                  /\ \A i \in 0..(n - 1) : g[i + 1] = MovedSlot(t, g[i], i)
                  /\ Rehash(t, size) = g[n]
<1> DEFINE E == allocTable(size)
           R(m, g) == [i \in 0..m |-> IF i = 0 THEN E ELSE MovedSlot(t, g[i - 1], i - 1)]
           Bad == {m \in 0..n : \A g : g # R(m, g)}
           G == CHOOSE g : g = R(n, g)
<1>1. Rehash(t, size) = G[n]
  BY DEF Rehash, MovedSlot, Put, Size
<1> HIDE DEF E
<1>2. 0 \notin Bad
  <2> DEFINE h == [i \in 0..0 |-> E]
  <2>1. h = R(0, h)
    OBVIOUS
  <2> QED
    BY <2>1
<1>3. ASSUME NEW m \in 0..n, m # 0, m \in Bad PROVE m - 1 \in Bad
  <2> SUFFICES ASSUME NEW g, g = R(m - 1, g) PROVE FALSE
    BY <1>3
  <2> DEFINE h == [i \in 0..m |-> IF i = 0 THEN E ELSE MovedSlot(t, g[i - 1], i - 1)]
  <2>1. \A i \in 0..(m - 1) : g[i] = IF i = 0 THEN E ELSE MovedSlot(t, g[i - 1], i - 1)
    OBVIOUS
  <2>2. \A i \in 0..(m - 1) : h[i] = g[i]
    BY <2>1
  <2>3. \A i \in 0..m : i # 0 => i - 1 \in 0..(m - 1)
    OBVIOUS
  <2>4. h = R(m, h)
    <3> HIDE DEF h
    <3>1. \A i \in 0..m : i # 0 => MovedSlot(t, g[i - 1], i - 1) = MovedSlot(t, h[i - 1], i - 1)
      BY <2>2, <2>3
    <3>2. h = [i \in 0..m |-> IF i = 0 THEN E ELSE MovedSlot(t, g[i - 1], i - 1)]
      BY DEF h
    <3> QED
      BY <3>1, <3>2
  <2> QED
    BY <1>3, <2>4
<1>4. Bad = {}
  <2> SUFFICES ASSUME Bad # {} PROVE FALSE
    OBVIOUS
  <2>1. Bad \in SUBSET Nat
    OBVIOUS
  <2>2. PICK m \in Bad : \A l \in Bad : m <= l
    BY <2>1, Smallest
  <2>3. m \in 0..n /\ m # 0
    BY <1>2
  <2>4. m - 1 \in Bad
    BY <1>3, <2>3
  <2> QED
    BY <2>2, <2>3, <2>4
<1>5. \E g : g = R(n, g)
  <2>1. n \in 0..n /\ n \notin Bad
    BY <1>4
  <2> QED
    BY <2>1
<1>6. G = R(n, G)
  <2> HIDE DEF R
  <2> QED
    BY <1>5
<1> HIDE DEF G
<1>7. G[0] = E /\ \A i \in 0..(n - 1) : G[i + 1] = MovedSlot(t, G[i], i)
  <2>1. \A i \in 0..n : G[i] = IF i = 0 THEN E ELSE MovedSlot(t, G[i - 1], i - 1)
    BY <1>6
  <2>2. \A i \in 0..(n - 1) : i + 1 \in 0..n /\ i + 1 # 0 /\ (i + 1) - 1 = i
    OBVIOUS
  <2>3. 0 \in 0..n
    OBVIOUS
  <2> QED
    BY <2>1, <2>2, <2>3
<1> QED
  BY <1>1, <1>7 DEF E

LEMMA RehashIs ==
    ASSUME NEW t, Searchable(t), NEW size \in Nat, Size(t) <= size
    PROVE  LET u == Rehash(t, size)
           IN  /\ Searchable(u) /\ Size(u) = size
               /\ KeysOf(u) = KeysOf(t)
               /\ Cardinality(At(u)) = Cardinality(At(t))
<1>1. PICK n \in Nat \ {0} : n = Size(t) /\ DOMAIN t = 0..(n - 1)
  BY DEF Searchable, Shaped
<1>2. PICK g : /\ g[0] = allocTable(size)
               /\ \A i \in 0..(n - 1) : g[i + 1] = MovedSlot(t, g[i], i)
               /\ Rehash(t, size) = g[n]
  BY <1>1, RehashGoesThrough
<1> DEFINE Done(i) == {j \in At(t) : j < i}
           Good(i) == /\ Searchable(g[i]) /\ Size(g[i]) = size
                      /\ KeysOf(g[i]) = {t[j].key : j \in Done(i)}
                      /\ IsFiniteSet(At(g[i]))
                      /\ Cardinality(At(g[i])) = Cardinality(Done(i))
<1>3. At(t) \in SUBSET (0..(n - 1)) /\ At(t) \in SUBSET Nat
  BY <1>1 DEF At
<1>4. \A i \in 0..n : IsFiniteSet(Done(i)) /\ Cardinality(Done(i)) <= i /\ Cardinality(Done(i)) \in Nat
  <2> TAKE i \in 0..n
  <2>1. IsFiniteSet(0..(i - 1)) /\ Cardinality(0..(i - 1)) = i
    BY FS_Interval
  <2>2. Done(i) \in SUBSET (0..(i - 1))
    BY <1>3
  <2> QED
    BY <2>1, <2>2, FS_Subset, FS_CardinalityType
<1>5. Good(0)
  <2>1. size \in Nat \ {0}
    BY <1>1
  <2>2. Done(0) = {}
    BY <1>3
  <2> QED
    BY <1>2, <2>1, <2>2, EmptyIs, FS_EmptySet
<1>6. ASSUME NEW i \in 0..(n - 1), Good(i) PROVE Good(i + 1)
  <2>1. g[i + 1] = MovedSlot(t, g[i], i)
    BY <1>2
  <2>2. CASE i \notin At(t)
    <3>1. g[i + 1] = g[i]
      BY <1>1, <2>1, <2>2 DEF MovedSlot, At
    <3>2. Done(i + 1) = Done(i)
      BY <1>3, <2>2
    <3> QED
      BY <1>6, <3>1, <3>2
  <2>3. CASE i \in At(t)
    <3> DEFINE k == t[i].key
               u == g[i]
    <3>1. g[i + 1] = Put(u, FreeSlot(u, k), k)
      BY <2>1, <2>3 DEF MovedSlot, At
    <3>2. k \in Key
      BY <2>3 DEF Searchable, Single
    <3>3. k \notin KeysOf(u)
      <4>1. \A j \in Done(i) : t[j].key # k
        BY <1>3, <2>3 DEF Searchable, Single
      <4> QED
        BY <1>6, <4>1
    <3>4. Cardinality(At(u)) <= i /\ i < size
      BY <1>1, <1>4, <1>6
    <3>5. At(u) # DOMAIN u
      BY <1>6, <3>4 DEF Size
    <3> HIDE DEF u, k
    <3>6. /\ Searchable(g[i + 1]) /\ Size(g[i + 1]) = size
          /\ KeysOf(g[i + 1]) = KeysOf(u) \cup {k}
          /\ \E f \in DOMAIN u \ At(u) : At(g[i + 1]) = At(u) \cup {f}
      <4>1. Searchable(u) /\ Size(u) = size
        BY <1>6 DEF u
      <4> QED
        BY <3>1, <3>2, <3>3, <3>5, <4>1, PutKeeps
    <3>7. Done(i + 1) = Done(i) \cup {i} /\ i \notin Done(i)
      BY <1>3, <2>3
    <3>8. /\ IsFiniteSet(At(g[i + 1]))
          /\ Cardinality(At(g[i + 1])) = Cardinality(At(u)) + 1
      <4>1. PICK f : f \notin At(u) /\ At(g[i + 1]) = At(u) \cup {f}
        BY <3>6
      <4>2. IsFiniteSet(At(u))
        BY <1>6 DEF u
      <4> QED
        BY <4>1, <4>2, FS_AddElement
    <3>9. Cardinality(Done(i + 1)) = Cardinality(Done(i)) + 1
      BY <1>4, <3>7, FS_AddElement
    <3>10. Cardinality(At(g[i + 1])) = Cardinality(Done(i + 1))
      BY <1>6, <3>8, <3>9 DEF u
    <3>11. KeysOf(g[i + 1]) = {t[j].key : j \in Done(i + 1)}
      BY <1>6, <3>6, <3>7 DEF u, k
    <3> QED
      BY <3>6, <3>8, <3>10, <3>11
  <2> QED
    BY <2>2, <2>3
<1> HIDE DEF Good
<1>7. Good(n)
  <2> SUFFICES ASSUME ~ Good(n) PROVE FALSE
    OBVIOUS
  <2> DEFINE Bad == {i \in 0..n : ~ Good(i)}
  <2>1. Bad \in SUBSET Nat /\ n \in Bad
    OBVIOUS
  <2>2. PICK m \in Bad : \A l \in Bad : m <= l
    BY <2>1, Smallest
  <2>3. m \in 0..n /\ ~ Good(m) /\ m # 0
    BY <1>5
  <2>4. PICK l \in 0..(n - 1) : m = l + 1
    <3>1. m - 1 \in 0..(n - 1) /\ m = (m - 1) + 1
      BY <2>3
    <3> QED
      BY <3>1
  <2>5. Good(l)
    <3>1. l \notin Bad
      BY <2>2, <2>4
    <3> QED
      BY <2>4, <3>1
  <2> QED
    BY <1>6, <2>3, <2>4, <2>5
<1>8. Done(n) = At(t)
  BY <1>3
<1> QED
  BY <1>2, <1>7, <1>8 DEF Good, KeysOf

-----------------------------------------------------------------------------
(* Calls of the hash set.                                                  *)

LEMMA CountsAt ==
    ASSUME NEW t, Shaped(t)
    PROVE  /\ IsFiniteSet(DOMAIN t) /\ Cardinality(DOMAIN t) = Size(t)
           /\ IsFiniteSet(At(t)) /\ Cardinality(At(t)) \in Nat
           /\ Cardinality(At(t)) <= Size(t)
<1>1. PICK n \in Nat \ {0} : n = Size(t) /\ DOMAIN t = 0..(n - 1)
  BY DEF Shaped
<1>2. IsFiniteSet(DOMAIN t)
  BY <1>1, FS_Interval
<1>3. At(t) \in SUBSET (DOMAIN t)
  BY DEF At
<1> QED
  BY <1>2, <1>3, FS_Subset, FS_CardinalityType DEF Size

(* The table Set_insert puts a key into has room.                          *)
LEMMA GrownIs ==
    ASSUME SetInv
    PROVE  /\ Searchable(Grown) /\ KeysOf(Grown) = KeysOf(table)
           /\ Cardinality(At(Grown)) = usedSize
           /\ At(Grown) # DOMAIN Grown
<1>1. PICK n \in Nat \ {0} : n = Size(table)
  BY DEF SetInv, Searchable, Shaped
<1>2. usedSize \in Nat /\ usedSize <= n
  BY <1>1, CountsAt DEF SetInv, Searchable
<1>3. tableSize = n
  BY <1>1 DEF tableSize, Size
<1>4. CASE usedSize * 10 >= n * 7
  <2>1. Grown = Rehash(table, 2 * n)
    BY <1>3, <1>4 DEF Grown, Grow
  <2>2. 2 * n \in Nat /\ n <= 2 * n
    OBVIOUS
  <2>3. /\ Searchable(Grown) /\ Size(Grown) = 2 * n
        /\ KeysOf(Grown) = KeysOf(table)
        /\ Cardinality(At(Grown)) = usedSize
    BY <1>1, <2>1, <2>2, RehashIs DEF SetInv
  <2>4. usedSize # 2 * n
    BY <1>2
  <2> QED
    BY <2>3, <2>4 DEF Size
<1>5. CASE ~ (usedSize * 10 >= n * 7)
  <2>1. Grown = table
    BY <1>3, <1>5 DEF Grown
  <2>2. usedSize # n
    BY <1>2, <1>5
  <2> QED
    BY <1>1, <2>1, <2>2 DEF Size, SetInv
<1> QED
  BY <1>4, <1>5

LEMMA InsertIs ==
    ASSUME SetInv, NEW k \in Key, Set_insert(k)
    PROVE  /\ Searchable(table') /\ usedSize' = Cardinality(At(table'))
           /\ KeysOf(table') = KeysOf(table) \cup {k}
           /\ answer' = (k \notin KeysOf(table))
<1> DEFINE g == Grown
<1>1. /\ Searchable(g) /\ KeysOf(g) = KeysOf(table)
      /\ Cardinality(At(g)) = usedSize /\ At(g) # DOMAIN g
  BY GrownIs
<1>2. Has(g, k) <=> k \in KeysOf(table)
  BY <1>1, HasIff
<1>3. /\ answer' = ~ Has(g, k)
      /\ table' = IF Has(g, k) THEN g ELSE Put(g, FreeSlot(g, k), k)
      /\ usedSize' = IF Has(g, k) THEN usedSize ELSE usedSize + 1
  BY DEF Set_insert, Put
<1> HIDE DEF g
<1>4. CASE Has(g, k)
  BY <1>1, <1>2, <1>3, <1>4
<1>5. CASE ~ Has(g, k)
  <2> DEFINE u == Put(g, FreeSlot(g, k), k)
  <2>1. /\ Searchable(u) /\ KeysOf(u) = KeysOf(g) \cup {k}
        /\ \E f \in DOMAIN g \ At(g) : At(u) = At(g) \cup {f}
    BY <1>1, <1>2, <1>5, PutKeeps
  <2> HIDE DEF u
  <2>2. Cardinality(At(u)) = usedSize + 1
    <3>1. IsFiniteSet(At(g))
      BY <1>1, CountsAt DEF Searchable
    <3>2. PICK f : f \notin At(g) /\ At(u) = At(g) \cup {f}
      BY <2>1
    <3> QED
      BY <1>1, <3>1, <3>2, FS_AddElement
  <2>3. table' = u /\ usedSize' = usedSize + 1 /\ answer' = (k \notin KeysOf(table))
    BY <1>2, <1>3, <1>5 DEF u
  <2> QED
    BY <1>1, <2>1, <2>2, <2>3
<1> QED
  BY <1>4, <1>5

LEMMA RemoveIs ==
    ASSUME SetInv, NEW k \in Key, Set_remove(k)
    PROVE  /\ Searchable(table') /\ usedSize' = Cardinality(At(table'))
           /\ KeysOf(table') = KeysOf(table) \ {k}
           /\ answer' = (k \in KeysOf(table))
<1>1. Searchable(table) /\ usedSize = Cardinality(At(table))
  BY DEF SetInv
<1>2. Has(table, k) <=> k \in KeysOf(table)
  BY <1>1, HasIff
<1> DEFINE p == Probe(table, k, Steps(table, k))
<1>3. /\ answer' = Has(table, k)
      /\ IF Has(table, k) THEN table' = Drop(table, p) /\ usedSize' = usedSize - 1
                          ELSE table' = table /\ usedSize' = usedSize
  BY DEF Set_remove, Drop
<1>4. CASE ~ Has(table, k)
  <2>1. table' = table /\ usedSize' = usedSize
    BY <1>3, <1>4
  <2>2. answer' = (k \in KeysOf(table))
    BY <1>2, <1>3, <1>4 DEF Has
  <2>3. KeysOf(table) = KeysOf(table) \ {k}
    BY <1>2, <1>4
  <2> QED
    BY <1>1, <2>1, <2>2, <2>3
<1>5. CASE Has(table, k)
  <2>1. p \in DOMAIN table
    <3>1. Steps(table, k) \in Nat
      <4>1. Size(table) \in Nat /\ Steps(table, k) \in 0..Size(table)
        BY <1>1, SearchEnds DEF Searchable, Shaped
      <4> QED
        BY <4>1
    <3> QED
      BY <1>1, <3>1, ProbeIn DEF Searchable
  <2>2. table[p] = SlotOf(k)
    BY <1>5 DEF Has
  <2> HIDE DEF p
  <2>3. p \in At(table) /\ table[p].key = k
    BY <2>1, <2>2 DEF At, SlotOf
  <2> DEFINE u == Drop(table, p)
  <2>4. /\ Searchable(u) /\ KeysOf(u) = KeysOf(table) \ {k}
        /\ At(u) = At(table) \ {p}
    BY <1>1, <2>3, DropKeeps
  <2> HIDE DEF u
  <2>5. Cardinality(At(u)) = usedSize - 1
    <3>1. IsFiniteSet(At(table))
      BY <1>1, CountsAt DEF Searchable
    <3> QED
      BY <1>1, <2>3, <2>4, <3>1, FS_RemoveElement
  <2>6. table' = u /\ usedSize' = usedSize - 1 /\ answer' = (k \in KeysOf(table))
    BY <1>2, <1>3, <1>5 DEF u
  <2> QED
    BY <2>4, <2>5, <2>6
<1> QED
  BY <1>4, <1>5

LEMMA FindIs ==
    ASSUME SetInv, NEW k \in Key, Set_find(k)
    PROVE  answer' = (k \in KeysOf(table))
<1>1. Has(table, k) <=> k \in KeysOf(table)
  BY HasIff DEF SetInv
<1>2. answer' = Has(table, k)
  BY DEF Set_find
<1>3. Has(table, k) \in BOOLEAN
  BY DEF Has
<1> QED
  BY <1>1, <1>2, <1>3

LEMMA ClearIs ==
    ASSUME SetInv, Set_clear
    PROVE  /\ Searchable(table') /\ usedSize' = Cardinality(At(table'))
           /\ KeysOf(table') = {}
<1>1. PICK n \in Nat \ {0} : n = tableSize
  BY DEF SetInv, Searchable, Shaped, tableSize, Size
<1>2. table' = allocTable(n) /\ usedSize' = 0
  BY <1>1 DEF Set_clear
<1> QED
  BY <1>2, EmptyIs, FS_EmptySet

(* A call keeps the table searchable, and does to the keys what the call   *)
(* of a set of keys does.                                                  *)
LEMMA SetStep ==
    ASSUME SetInv, [SetNext]_setVars
    PROVE  SetInv' /\ [Keys!Next]_(Keys!keyVars)
<1> DEFINE K == KeysOf(table)
<1>1. K = {table[i].key : i \in Occupied}
  BY DEF KeysOf, Occupied, At
<1>2. CASE UNCHANGED setVars
  <2>1. SetInv'
    BY <1>2 DEF setVars, SetInv
  <2>2. UNCHANGED Keys!keyVars
    BY <1>2 DEF setVars, Keys!keyVars, Occupied
  <2> QED
    BY <2>1, <2>2
<1>3. CASE Set_clear
  <2>1. Searchable(table') /\ usedSize' = Cardinality(At(table')) /\ KeysOf(table') = {}
    BY <1>3, ClearIs
  <2>2. asked' = asked /\ answer' = answer
    BY <1>3 DEF Set_clear
  <2>3. SetInv'
    BY <2>1, <2>2 DEF SetInv
  <2>4. Keys!Clear
    BY <2>1, <2>2 DEF Keys!Clear, Occupied, KeysOf, At
  <2> QED
    BY <2>3, <2>4 DEF Keys!Next
<1>4. ASSUME NEW k \in Key, Set_insert(k) PROVE SetInv' /\ Keys!Insert(k)
  <2>1. /\ Searchable(table') /\ usedSize' = Cardinality(At(table'))
        /\ KeysOf(table') = KeysOf(table) \cup {k}
        /\ answer' = (k \notin KeysOf(table))
    BY <1>4, InsertIs
  <2>2. asked' = <<"insert", k>>
    BY <1>4 DEF Set_insert
  <2>3. SetInv'
    BY <2>1 DEF SetInv
  <2>4. Keys!Insert(k)
    BY <2>1, <2>2 DEF Keys!Insert, Occupied, KeysOf, At
  <2> QED
    BY <2>3, <2>4
<1>5. ASSUME NEW k \in Key, Set_remove(k) PROVE SetInv' /\ Keys!Remove(k)
  <2>1. /\ Searchable(table') /\ usedSize' = Cardinality(At(table'))
        /\ KeysOf(table') = KeysOf(table) \ {k}
        /\ answer' = (k \in KeysOf(table))
    BY <1>5, RemoveIs
  <2>2. asked' = <<"remove", k>>
    BY <1>5 DEF Set_remove
  <2>3. SetInv'
    BY <2>1 DEF SetInv
  <2>4. Keys!Remove(k)
    BY <2>1, <2>2 DEF Keys!Remove, Occupied, KeysOf, At
  <2> QED
    BY <2>3, <2>4
<1>6. ASSUME NEW k \in Key, Set_find(k) PROVE SetInv' /\ Keys!Find(k)
  <2>1. answer' = (k \in KeysOf(table))
    BY <1>6, FindIs
  <2>2. asked' = <<"find", k>> /\ table' = table /\ usedSize' = usedSize
    BY <1>6 DEF Set_find
  <2>3. SetInv'
    BY <2>1, <2>2 DEF SetInv
  <2>4. Keys!Find(k)
    BY <2>1, <2>2 DEF Keys!Find, Occupied, KeysOf, At
  <2> QED
    BY <2>3, <2>4
<1>7. CASE \E k \in Key : Set_insert(k) \/ Set_remove(k) \/ Set_find(k)
  BY <1>4, <1>5, <1>6, <1>7 DEF Keys!Next
<1> QED
  BY <1>2, <1>3, <1>7 DEF SetNext

LEMMA SetStarts == SetInit => SetInv /\ Keys!Init
<1> SUFFICES ASSUME SetInit PROVE SetInv /\ Keys!Init
  OBVIOUS
<1>1. table = allocTable(InitialSize) /\ usedSize = 0 /\ answer = FALSE /\ asked = <<>>
  BY DEF SetInit
<1>2. InitialSize \in Nat \ {0}
  BY SetAssumption
<1>3. SetInv
  BY <1>1, <1>2, EmptyIs, FS_EmptySet DEF SetInv
<1>4. KeysOf(table) = {}
  BY <1>1, <1>2, EmptyIs
<1>5. Keys!Init
  BY <1>1, <1>4 DEF Keys!Init, KeysOf, At, Occupied
<1> QED
  BY <1>3, <1>5

(* set.h promises of insert, remove and find that they tell whether the    *)
(* item was in, and of clear that nothing is: whatever the hash values of  *)
(* the keys, the slots that removed ones left and the times the table was  *)
(* built anew, the table answers as the set of its keys does.              *)
THEOREM HashSetIsASet == SetSpec => Keys!Spec
<1>1. SetInit => SetInv /\ Keys!Init
  BY SetStarts
<1>2. SetInv /\ [SetNext]_setVars => SetInv' /\ [Keys!Next]_(Keys!keyVars)
  BY SetStep
<1> QED
  BY <1>1, <1>2, PTL DEF SetSpec, Keys!Spec

(* No key is cut off: a search comes to every key that is in, though       *)
(* deleted slots and a growing table lie between; and usedSize counts the  *)
(* keys, which leaves room for the next.                                   *)
THEOREM KeysAreReached == SetSpec => [](SetTypeOK /\ Reachable /\ UsedCounts)
<1>1. SetInit => SetInv
  BY SetStarts
<1>2. SetInv /\ [SetNext]_setVars => SetInv'
  BY SetStep
<1>3. SetInv => SetTypeOK /\ Reachable /\ UsedCounts
  <2> SUFFICES ASSUME SetInv PROVE SetTypeOK /\ Reachable /\ UsedCounts
    OBVIOUS
  <2>1. PICK n \in Nat \ {0} : n = Size(table) /\ DOMAIN table = 0..(n - 1)
    BY DEF SetInv, Searchable, Shaped
  <2>2. tableSize = n /\ Occupied = At(table)
    BY <2>1 DEF tableSize, Size, Occupied, At
  <2>3. usedSize \in Nat /\ UsedCounts
    BY <2>1, <2>2, CountsAt DEF SetInv, Searchable, UsedCounts
  <2>4. SetTypeOK
    BY <2>1, <2>3 DEF SetTypeOK, SetInv, Searchable, Shaped, Slot
  <2>5. Reachable
    BY <2>1, <2>2 DEF Reachable, SetInv, Searchable, Reached, ComesTo
  <2> QED
    BY <2>3, <2>4, <2>5
<1> QED
  BY <1>1, <1>2, <1>3, PTL DEF SetSpec

-----------------------------------------------------------------------------
(* The search of the ordered dictionary.                                   *)

(* Keys so close to each other that an int holds their difference.         *)
KeysFit == \A a, b \in DictKeys : 2 * (a - b) < IntSpace /\ 0 <= 2 * (a - b) + IntSpace

Sorted(s) == \A i, j \in 1..Len(s) : i < j => s[i] < s[j]

LEMMA KeysAreNumbers == DictKeys \subseteq Nat
BY DictAssumption

(* The sign of the stored difference is that of the difference.            *)
LEMMA SignIsKept ==
    ASSUME KeysFit, NEW a \in DictKeys, NEW b \in DictKeys
    PROVE  /\ ToInt(a - b) \in Int
           /\ ToInt(a - b) = 0 <=> a = b
           /\ ToInt(a - b) < 0 <=> a < b
<1>1. PICK n \in Int : n = a - b
  BY KeysAreNumbers
<1>2. PICK S \in Nat \ {0} : S = IntSpace
  BY DictAssumption
<1>3. 2 * n < S /\ 0 <= 2 * n + S
  BY <1>1, <1>2 DEF KeysFit
<1>4. ToInt(n) = n
  <2>1. CASE n >= 0
    <3>1. n % S = n
      BY <1>3, <2>1
    <3> QED
      BY <1>2, <1>3, <3>1 DEF ToInt
  <2>2. CASE n < 0
    <3>1. n % S = n + S
      <4>1. PICK m \in 0..(S - 1) : m = n + S
        BY <1>3, <2>2
      <4>2. n = (0 - 1) * S + m /\ 0 - 1 \in Int
        BY <4>1
      <4>3. n % S = m
        BY <4>2, RemainderIs
      <4> QED
        BY <4>1, <4>3
    <3>2. ~ (2 * (n + S) < S)
      BY <1>3
    <3> QED
      BY <1>2, <3>1, <3>2 DEF ToInt
  <2> QED
    BY <2>1, <2>2
<1>5. a \in Nat /\ b \in Nat
  BY KeysAreNumbers
<1> QED
  BY <1>1, <1>4, <1>5

(* What one step of the halving leaves of the search from l to r.          *)
Halved(f, key, l, r) ==
    LET idx == (l + r) \div 2
    IN IF l > r THEN [match |-> FALSE, idx |-> l]
       ELSE IF ToInt(pairs[idx + 1] - key) = 0 THEN [match |-> TRUE, idx |-> idx]
       ELSE IF ToInt(pairs[idx + 1] - key) < 0 THEN f[<<idx + 1, r>>]
       ELSE f[<<l, idx - 1>>]

LEMMA SearchHalves ==
    ASSUME NEW key, NEW n \in Nat, n = Len(pairs)
    PROVE  \E f : /\ \A l \in 0..n, r \in -1..(n - 1) : f[<<l, r>>] = Halved(f, key, l, r)
                  /\ getSlot(key) = f[<<0, n - 1>>]
<1> DEFINE D == (0..n) \X (-1..(n - 1))
           B(f, p) == Halved(f, key, p[1], p[2])
           R(f) == [p \in D |-> B(f, p)]
           G == CHOOSE f : f = R(f)
           Part(m) == {p \in D : p[2] - p[1] < m}
           Bad == {m \in 0..n : \A f : f # [p \in Part(m) |-> B(f, p)]}
<1>1. getSlot(key) = G[<<0, n - 1>>]
  BY DEF getSlot, Halved
<1>2. ASSUME NEW m \in 0..n, NEW f, NEW h, \A p \in Part(m - 1) : f[p] = h[p]
      PROVE  \A p \in Part(m) : B(f, p) = B(h, p)
  <2> TAKE p \in Part(m)
  <2>1. PICK l \in 0..n, r \in -1..(n - 1) : p = <<l, r>> /\ p[1] = l /\ p[2] = r /\ r - l < m
    OBVIOUS
  <2>2. PICK x \in Int : x = (l + r) \div 2
    OBVIOUS
  <2>3. CASE l > r
    BY <2>1, <2>3 DEF Halved
  <2>4. CASE l <= r
    <3>1. l <= x /\ x <= r
      BY <2>1, <2>2, <2>4
    <3>2. <<x + 1, r>> \in Part(m - 1)
      <4>1. x + 1 \in 0..n /\ r \in -1..(n - 1) /\ r - (x + 1) < m - 1
        BY <2>1, <3>1
      <4> QED
        BY <4>1
    <3>3. <<l, x - 1>> \in Part(m - 1)
      <4>1. l \in 0..n /\ x - 1 \in -1..(n - 1) /\ (x - 1) - l < m - 1
        BY <2>1, <3>1
      <4> QED
        BY <4>1
    <3>4. f[<<x + 1, r>>] = h[<<x + 1, r>>] /\ f[<<l, x - 1>>] = h[<<l, x - 1>>]
      BY <1>2, <3>2, <3>3
    <3> QED
      BY <2>1, <2>2, <3>4 DEF Halved
  <2> QED
    BY <2>1, <2>3, <2>4
<1>3. Part(n) = D
  OBVIOUS
<1> HIDE DEF B, D
<1>4. 0 \notin Bad
  <2> DEFINE h == [p \in Part(0) |-> [match |-> FALSE, idx |-> p[1]]]
  <2>1. \A p \in Part(0) : B(h, p) = [match |-> FALSE, idx |-> p[1]]
    <3> HIDE DEF h
    <3> QED
      BY DEF B, D, Halved
  <2>2. h = [p \in Part(0) |-> B(h, p)]
    BY <2>1
  <2> QED
    BY <2>2
<1>5. ASSUME NEW m \in 0..n, m # 0, m \in Bad PROVE m - 1 \in Bad
  <2> SUFFICES ASSUME NEW f, f = [p \in Part(m - 1) |-> B(f, p)] PROVE FALSE
    BY <1>5
  <2> DEFINE h == [p \in Part(m) |-> B(f, p)]
  <2>1. Part(m - 1) \subseteq Part(m)
    BY DEF D
  <2>2. \A p \in Part(m - 1) : f[p] = h[p]
    <3>1. \A p \in Part(m - 1) : f[p] = B(f, p)
      OBVIOUS
    <3>2. \A p \in Part(m) : h[p] = B(f, p)
      OBVIOUS
    <3> QED
      BY <2>1, <3>1, <3>2
  <2>3. h = [p \in Part(m) |-> B(h, p)]
    <3> HIDE DEF h
    <3>1. \A p \in Part(m) : B(f, p) = B(h, p)
      <4> HIDE DEF Part
      <4> QED
        BY <1>2, <2>2
    <3>2. h = [p \in Part(m) |-> B(f, p)]
      BY DEF h
    <3> QED
      BY <3>1, <3>2
  <2> QED
    BY <1>5, <2>3
<1>6. Bad = {}
  <2> SUFFICES ASSUME Bad # {} PROVE FALSE
    OBVIOUS
  <2>1. Bad \in SUBSET Nat
    OBVIOUS
  <2>2. PICK m \in Bad : \A l \in Bad : m <= l
    BY <2>1, Smallest
  <2>3. m \in 0..n /\ m # 0
    BY <1>4
  <2>4. m - 1 \in Bad
    BY <1>5, <2>3
  <2> QED
    BY <2>2, <2>3, <2>4
<1>7. \E f : f = R(f)
  <2>1. n \in 0..n /\ n \notin Bad
    BY <1>6
  <2> QED
    BY <1>3, <2>1
<1>8. G = R(G)
  <2> HIDE DEF R
  <2> QED
    BY <1>7
<1> HIDE DEF G
<1>9. \A l \in 0..n, r \in -1..(n - 1) : G[<<l, r>>] = Halved(G, key, l, r)
  <2> TAKE l \in 0..n, r \in -1..(n - 1)
  <2>1. <<l, r>> \in D
    BY DEF D
  <2>2. G[<<l, r>>] = B(G, <<l, r>>)
    BY <1>8, <2>1
  <2> QED
    BY <2>2 DEF B
<1> QED
  BY <1>1, <1>9

(* A slot where the key is, or one that splits the pairs at the key.       *)
Splits(slot, key) ==
    /\ slot.match \in BOOLEAN
    /\ slot.idx \in 0..Len(pairs)
    /\ slot.match => slot.idx < Len(pairs) /\ pairs[slot.idx + 1] = key
    /\ ~ slot.match =>
          /\ \A j \in 1..Len(pairs) : j <= slot.idx => pairs[j] < key
          /\ \A j \in 1..Len(pairs) : j > slot.idx => key < pairs[j]

LEMMA SlotIs ==
    ASSUME KeysFit, pairs \in Seq(DictKeys), Sorted(pairs), NEW key \in DictKeys
    PROVE  Splits(getSlot(key), key)
<1>1. PICK n \in Nat : n = Len(pairs)
  OBVIOUS
<1>2. PICK f : /\ \A l \in 0..n, r \in -1..(n - 1) : f[<<l, r>>] = Halved(f, key, l, r)
               /\ getSlot(key) = f[<<0, n - 1>>]
  BY <1>1, SearchHalves
<1> DEFINE Below(l) == \A j \in 1..n : j <= l => pairs[j] < key
           Above(r) == \A j \in 1..n : j > r + 1 => key < pairs[j]
           Good(m) == \A l \in 0..n, r \in -1..(n - 1) :
                         /\ l <= r + 1 /\ r - l + 1 <= m
                         /\ Below(l) /\ Above(r)
                         => Splits(f[<<l, r>>], key)
<1>3. \A j \in 1..n : pairs[j] \in DictKeys /\ pairs[j] \in Nat
  <2>1. \A j \in 1..n : pairs[j] \in DictKeys
    BY <1>1
  <2> QED
    BY <2>1, KeysAreNumbers
<1>4. key \in Nat
  BY KeysAreNumbers
<1>5. ASSUME NEW l \in 0..n, NEW r \in -1..(n - 1), l = r + 1, Below(l), Above(r)
      PROVE  Splits(f[<<l, r>>], key)
  <2>1. f[<<l, r>>] = [match |-> FALSE, idx |-> l]
    <3>1. f[<<l, r>>] = Halved(f, key, l, r)
      BY <1>2
    <3>2. l > r
      BY <1>5
    <3> QED
      BY <3>1, <3>2 DEF Halved
  <2> QED
    BY <1>1, <1>5, <2>1 DEF Splits
<1>6. Good(0)
  <2> SUFFICES ASSUME NEW l \in 0..n, NEW r \in -1..(n - 1),
                      l <= r + 1, r - l + 1 <= 0, Below(l), Above(r)
               PROVE  Splits(f[<<l, r>>], key)
    OBVIOUS
  <2>1. l = r + 1
    OBVIOUS
  <2> QED
    BY <1>5, <2>1
<1>7. ASSUME NEW m \in 0..n, m # 0, Good(m - 1) PROVE Good(m)
  <2> SUFFICES ASSUME NEW l \in 0..n, NEW r \in -1..(n - 1),
                      l <= r + 1, r - l + 1 <= m, Below(l), Above(r)
               PROVE  Splits(f[<<l, r>>], key)
    OBVIOUS
  <2>1. CASE l = r + 1
    BY <1>5, <2>1
  <2>2. CASE l <= r
    <3>1. PICK x \in Int : x = (l + r) \div 2
      OBVIOUS
    <3>2. l <= x /\ x <= r /\ x \in 0..(n - 1)
      BY <2>2, <3>1
    <3>3. PICK y \in 1..n : y = x + 1
      BY <3>2
    <3>4. pairs[y] \in DictKeys /\ pairs[y] \in Nat
      BY <1>3
    <3>5. /\ ToInt(pairs[y] - key) \in Int
          /\ ToInt(pairs[y] - key) = 0 <=> pairs[y] = key
          /\ ToInt(pairs[y] - key) < 0 <=> pairs[y] < key
      BY <3>4, SignIsKept
    <3>6. f[<<l, r>>] = IF pairs[y] = key THEN [match |-> TRUE, idx |-> x]
                        ELSE IF pairs[y] < key THEN f[<<x + 1, r>>]
                        ELSE f[<<l, x - 1>>]
      <4>1. f[<<l, r>>] = Halved(f, key, l, r)
        BY <1>2
      <4>2. ~ (l > r)
        BY <2>2
      <4>3. Halved(f, key, l, r) =
               IF ToInt(pairs[y] - key) = 0 THEN [match |-> TRUE, idx |-> x]
               ELSE IF ToInt(pairs[y] - key) < 0 THEN f[<<x + 1, r>>]
               ELSE f[<<l, x - 1>>]
        BY <3>1, <3>3, <4>2 DEF Halved
      <4> QED
        BY <3>5, <4>1, <4>3
    <3>7. CASE pairs[y] = key
      <4>1. f[<<l, r>>] = [match |-> TRUE, idx |-> x]
        BY <3>6, <3>7
      <4> QED
        BY <1>1, <3>2, <3>3, <3>7, <4>1 DEF Splits
    <3>8. CASE pairs[y] < key
      <4>1. f[<<l, r>>] = f[<<x + 1, r>>]
        BY <1>4, <3>4, <3>6, <3>8
      <4>2. Below(x + 1)
        <5> SUFFICES ASSUME NEW j \in 1..n, j <= x + 1 PROVE pairs[j] < key
          OBVIOUS
        <5>1. j = y \/ j < y
          BY <3>2, <3>3
        <5>2. j < y => pairs[j] < pairs[y]
          BY <1>1 DEF Sorted
        <5> QED
          BY <1>3, <1>4, <3>8, <5>1, <5>2
      <4>3. x + 1 \in 0..n /\ x + 1 <= r + 1 /\ r - (x + 1) + 1 <= m - 1
        BY <3>2
      <4>4. Splits(f[<<x + 1, r>>], key)
        BY <1>7, <4>2, <4>3
      <4> QED
        BY <4>1, <4>4
    <3>9. CASE key < pairs[y]
      <4>1. f[<<l, r>>] = f[<<l, x - 1>>]
        BY <1>4, <3>4, <3>6, <3>9
      <4>2. Above(x - 1)
        <5> SUFFICES ASSUME NEW j \in 1..n, j > (x - 1) + 1 PROVE key < pairs[j]
          OBVIOUS
        <5>1. j = y \/ y < j
          BY <3>2, <3>3
        <5>2. y < j => pairs[y] < pairs[j]
          BY <1>1 DEF Sorted
        <5> QED
          BY <1>3, <1>4, <3>9, <5>1, <5>2
      <4>3. x - 1 \in -1..(n - 1) /\ l <= (x - 1) + 1 /\ (x - 1) - l + 1 <= m - 1
        BY <3>2
      <4>4. Splits(f[<<l, x - 1>>], key)
        BY <1>7, <4>2, <4>3
      <4> QED
        BY <4>1, <4>4
    <3> QED
      BY <1>4, <3>4, <3>7, <3>8, <3>9
  <2>3. l = r + 1 \/ l <= r
    OBVIOUS
  <2> HIDE DEF Splits
  <2> QED
    BY <2>1, <2>2, <2>3
<1> HIDE DEF Good
<1>8. Good(n)
  <2> SUFFICES ASSUME ~ Good(n) PROVE FALSE
    OBVIOUS
  <2> DEFINE Bad == {i \in 0..n : ~ Good(i)}
  <2>1. Bad \in SUBSET Nat /\ n \in Bad
    OBVIOUS
  <2>2. PICK m \in Bad : \A l \in Bad : m <= l
    BY <2>1, Smallest
  <2>3. m \in 0..n /\ ~ Good(m) /\ m # 0
    BY <1>6
  <2>4. Good(m - 1)
    BY <2>2, <2>3
  <2> QED
    BY <1>7, <2>3, <2>4
<1>9. 0 \in 0..n /\ n - 1 \in -1..(n - 1) /\ 0 <= (n - 1) + 1 /\ (n - 1) - 0 + 1 <= n
  OBVIOUS
<1>10. Below(0) /\ Above(n - 1)
  OBVIOUS
<1>11. Splits(f[<<0, n - 1>>], key)
  <2>1. \A l \in 0..n, r \in -1..(n - 1) :
           /\ l <= r + 1 /\ r - l + 1 <= n
           /\ Below(l) /\ Above(r)
           => Splits(f[<<l, r>>], key)
    BY <1>8 DEF Good
  <2> HIDE DEF Below, Above
  <2> QED
    BY <1>9, <1>10, <2>1
<1> QED
  BY <1>2, <1>11

-----------------------------------------------------------------------------
(* Calls of the ordered dictionary.                                        *)

IsInserted(u, S, s, i, e) ==
    /\ u \in Seq(S) /\ Len(u) = Len(s) + 1
    /\ \A j \in 1..(i - 1) : u[j] = s[j]
    /\ u[i] = e
    /\ \A j \in (i + 1)..(Len(s) + 1) : u[j] = s[j - 1]

LEMMA InsertedAt ==
    ASSUME NEW S, NEW s \in Seq(S), NEW i \in 1..(Len(s) + 1), NEW e \in S
    PROVE  IsInserted(InsertAt(s, i, e), S, s, i, e)
<1>1. PICK n \in Nat : n = Len(s)
  OBVIOUS
<1> DEFINE a == SubSeq(s, 1, i - 1)
           b == SubSeq(s, i, Len(s))
<1>2. /\ a \in Seq(S) /\ Len(a) = i - 1
      /\ \A j \in 1..(i - 1) : a[j] = s[j]
  BY <1>1
<1>3. /\ b \in Seq(S) /\ Len(b) = n + 1 - i
      /\ \A j \in 1..(n + 1 - i) : b[j] = s[i - 1 + j]
  BY <1>1
<1>4. InsertAt(s, i, e) = (a \o <<e>>) \o b
  BY DEF InsertAt
<1> HIDE DEF a, b
<1> DEFINE c == a \o <<e>>
<1>5. /\ c \in Seq(S) /\ Len(c) = i
      /\ \A j \in 1..(i - 1) : c[j] = s[j]
      /\ c[i] = e
  BY <1>2
<1> HIDE DEF c
<1> DEFINE u == c \o b
<1>6. /\ u \in Seq(S) /\ Len(u) = n + 1
      /\ \A j \in 1..i : u[j] = c[j]
      /\ \A j \in (i + 1)..(n + 1) : u[j] = b[j - i]
  <2>1. PICK p \in Nat : p = n + 1 - i
    BY <1>1
  <2>2. c \in Seq(S) /\ Len(c) = i /\ b \in Seq(S) /\ Len(b) = p
    BY <1>3, <1>5, <2>1
  <2>3. i + p = n + 1 /\ i \in Nat
    BY <1>1, <2>1
  <2>4. u \in Seq(S) /\ Len(u) = i + p
    BY <2>2, ConcatProperties DEF u
  <2>5. \A j \in 1..(i + p) : u[j] = IF j <= i THEN c[j] ELSE b[j - i]
    BY <2>2, ConcatProperties DEF u
  <2> QED
    BY <1>1, <2>3, <2>4, <2>5
<1> HIDE DEF u
<1>7. ASSUME NEW j \in (i + 1)..(n + 1) PROVE u[j] = s[j - 1]
  <2>1. PICK k \in 1..(n + 1 - i) : k = j - i
    BY <1>1
  <2>2. i - 1 + k = j - 1
    BY <1>1, <2>1
  <2> QED
    BY <1>3, <1>6, <2>1, <2>2
<1>8. /\ \A j \in 1..(i - 1) : u[j] = s[j]
      /\ u[i] = e
  BY <1>1, <1>5, <1>6
<1> QED
  BY <1>1, <1>4, <1>6, <1>7, <1>8 DEF u, c, IsInserted

(* The pairs are sorted, and what getNext gave is where they begin.        *)
DictInv ==
    /\ pairs \in Seq(DictKeys) /\ Sorted(pairs)
    /\ found \in BOOLEAN
    /\ round \in Seq(DictKeys) /\ Len(round) <= Len(pairs)
    /\ \A i \in 1..Len(round) : round[i] = pairs[i]
    /\ it = IF Len(round) = Len(pairs) THEN 0 ELSE Len(round)

PairKeys == {pairs[i] : i \in DOMAIN pairs}

(* A key that is not in splits the pairs and comes to lie between them.    *)
LEMMA SplitsAtKey ==
    ASSUME KeysFit, DictInv, NEW key \in DictKeys
    PROVE  /\ getSlot(key).match <=> key \in PairKeys
           /\ getSlot(key).match \in BOOLEAN
<1>1. PICK n \in Nat : n = Len(pairs) /\ DOMAIN pairs = 1..n
  BY DEF DictInv
<1>2. Splits(getSlot(key), key)
  BY SlotIs DEF DictInv
<1>3. PICK slot : slot = getSlot(key)
  OBVIOUS
<1>4. slot.match \in BOOLEAN /\ slot.idx \in 0..n
  BY <1>1, <1>2, <1>3 DEF Splits
<1>5. ASSUME slot.match PROVE key \in PairKeys
  <2>1. slot.idx + 1 \in 1..n /\ pairs[slot.idx + 1] = key
    BY <1>1, <1>2, <1>3, <1>4, <1>5 DEF Splits
  <2> QED
    BY <1>1, <2>1 DEF PairKeys
<1>6. ASSUME ~ slot.match PROVE key \notin PairKeys
  <2>1. \A j \in 1..n : IF j <= slot.idx THEN pairs[j] < key ELSE key < pairs[j]
    BY <1>1, <1>2, <1>3, <1>4, <1>6 DEF Splits
  <2>2. key \in Nat /\ \A j \in 1..n : pairs[j] \in Nat
    <3>1. \A j \in 1..n : pairs[j] \in DictKeys
      BY <1>1 DEF DictInv
    <3> QED
      BY <3>1, KeysAreNumbers
  <2>3. \A j \in 1..n : pairs[j] # key
    BY <2>1, <2>2
  <2> QED
    BY <1>1, <2>3 DEF PairKeys
<1> QED
  BY <1>3, <1>4, <1>5, <1>6

LEMMA SetIs ==
    ASSUME KeysFit, DictInv, NEW key \in DictKeys, round = <<>>, set(key)
    PROVE  DictInv' /\ Entries!Insert(key)
<1>1. PICK n \in Nat : n = Len(pairs) /\ DOMAIN pairs = 1..n
  BY DEF DictInv
<1>2. PICK slot : slot = getSlot(key)
  OBVIOUS
<1>3. /\ called' = <<"insert", key>>
      /\ found' = ~ slot.match
      /\ pairs' = IF slot.match THEN pairs ELSE InsertAt(pairs, slot.idx + 1, key)
      /\ it' = it /\ round' = round
  BY <1>2 DEF set, shiftRight
<1>4. slot.match \in BOOLEAN /\ (slot.match <=> key \in PairKeys)
  BY <1>2, SplitsAtKey
<1>5. Len(round) = 0 /\ it = 0
  BY <1>1 DEF DictInv
<1>6. CASE slot.match
  <2>1. pairs' = pairs /\ found' = FALSE
    BY <1>3, <1>6
  <2>2. DictInv'
    BY <1>3, <2>1 DEF DictInv
  <2>3. PairKeys = PairKeys \cup {key}
    BY <1>4, <1>6
  <2> QED
    BY <1>3, <1>4, <1>6, <2>1, <2>2, <2>3 DEF Entries!Insert, PairKeys
<1>7. CASE ~ slot.match
  <2>1. pairs' = InsertAt(pairs, slot.idx + 1, key) /\ found' = TRUE
    BY <1>3, <1>7
  <2>2. PICK x \in 0..n : /\ x = slot.idx
                          /\ \A j \in 1..n : j <= x => pairs[j] < key
                          /\ \A j \in 1..n : j > x => key < pairs[j]
    <3>1. Splits(slot, key)
      BY <1>2, SlotIs DEF DictInv
    <3> QED
      BY <1>1, <1>7, <3>1 DEF Splits
  <2>3. PICK u : u = pairs'
    OBVIOUS
  <2>4. /\ u \in Seq(DictKeys) /\ Len(u) = n + 1
        /\ \A j \in 1..x : u[j] = pairs[j]
        /\ u[x + 1] = key
        /\ \A j \in (x + 2)..(n + 1) : u[j] = pairs[j - 1]
    <3>1. PICK y \in 1..(Len(pairs) + 1) : y = x + 1
      BY <1>1
    <3>2. pairs \in Seq(DictKeys) /\ u = InsertAt(pairs, y, key)
      BY <2>1, <2>2, <2>3, <3>1 DEF DictInv
    <3>3. /\ u \in Seq(DictKeys) /\ Len(u) = Len(pairs) + 1
          /\ \A j \in 1..(y - 1) : u[j] = pairs[j]
          /\ u[y] = key
          /\ \A j \in (y + 1)..(Len(pairs) + 1) : u[j] = pairs[j - 1]
      <4>1. IsInserted(u, DictKeys, pairs, y, key)
        BY <3>2, InsertedAt
      <4> QED
        BY <4>1 DEF IsInserted
    <3> QED
      BY <1>1, <3>1, <3>3
  <2>5. key \in Nat /\ \A j \in 1..n : pairs[j] \in Nat
    <3>1. \A j \in 1..n : pairs[j] \in DictKeys
      BY <1>1 DEF DictInv
    <3> QED
      BY <3>1, KeysAreNumbers
  <2>6. Sorted(u)
    <3> SUFFICES ASSUME NEW i \in 1..(n + 1), NEW j \in 1..(n + 1), i < j
                 PROVE  u[i] < u[j]
      BY <2>4 DEF Sorted
    <3>1. \A a, b \in 1..n : a < b => pairs[a] < pairs[b]
      BY <1>1 DEF DictInv, Sorted
    <3>2. CASE j <= x
      BY <2>4, <3>1, <3>2
    <3>3. CASE j = x + 1
      BY <2>2, <2>4, <3>3
    <3>4. CASE j > x + 1 /\ i <= x
      <4>1. u[j] = pairs[j - 1] /\ u[i] = pairs[i] /\ j - 1 \in 1..n /\ i \in 1..n /\ i < j - 1
        BY <2>4, <3>4
      <4> QED
        BY <3>1, <4>1
    <3>5. CASE i = x + 1
      <4>1. u[j] = pairs[j - 1] /\ u[i] = key /\ j - 1 \in 1..n /\ j - 1 > x
        BY <2>4, <3>5
      <4> QED
        BY <2>2, <4>1
    <3>6. CASE i > x + 1
      <4>1. u[j] = pairs[j - 1] /\ u[i] = pairs[i - 1]
        BY <2>4, <3>6
      <4>2. j - 1 \in 1..n /\ i - 1 \in 1..n /\ i - 1 < j - 1
        BY <3>6
      <4> QED
        BY <3>1, <4>1, <4>2
    <3> QED
      BY <3>2, <3>3, <3>4, <3>5, <3>6
  <2>7. {u[i] : i \in DOMAIN u} = PairKeys \cup {key}
    <3>1. DOMAIN u = 1..(n + 1)
      BY <2>4
    <3>2. ASSUME NEW i \in 1..(n + 1) PROVE u[i] \in PairKeys \cup {key}
      <4>1. i \in 1..x => u[i] = pairs[i] /\ i \in 1..n
        BY <2>4
      <4>2. i \in (x + 2)..(n + 1) => u[i] = pairs[i - 1] /\ i - 1 \in 1..n
        BY <2>4
      <4>3. i \in 1..x \/ i = x + 1 \/ i \in (x + 2)..(n + 1)
        OBVIOUS
      <4> QED
        BY <1>1, <2>4, <4>1, <4>2, <4>3 DEF PairKeys
    <3>3. ASSUME NEW i \in 1..n PROVE \E k \in 1..(n + 1) : u[k] = pairs[i]
      <4>1. CASE i <= x
        BY <2>4, <4>1
      <4>2. CASE i > x
        <5>1. i + 1 \in (x + 2)..(n + 1) /\ (i + 1) - 1 = i /\ i + 1 \in 1..(n + 1)
          BY <4>2
        <5>2. u[i + 1] = pairs[i]
          BY <2>4, <5>1
        <5> QED
          BY <5>1, <5>2
      <4> QED
        BY <4>1, <4>2
    <3>4. x + 1 \in 1..(n + 1)
      OBVIOUS
    <3>5. PairKeys = {pairs[i] : i \in 1..n} /\ u[x + 1] = key
      BY <1>1, <2>4 DEF PairKeys
    <3> QED
      BY <3>1, <3>2, <3>3, <3>4, <3>5
  <2>8. DictInv'
    <3>1. Len(u) # 0 /\ 0 <= Len(u)
      BY <2>4
    <3>2. pairs' \in Seq(DictKeys) /\ Sorted(pairs')
      BY <2>3, <2>4, <2>6
    <3>3. found' \in BOOLEAN /\ round' = <<>> /\ it' = 0
      BY <1>3, <1>5, <2>1
    <3> QED
      BY <2>3, <3>1, <3>2, <3>3 DEF DictInv
  <2>9. found' = (key \notin PairKeys)
    BY <1>4, <1>7, <2>1
  <2> QED
    BY <1>3, <2>3, <2>7, <2>8, <2>9 DEF Entries!Insert, PairKeys
<1> QED
  BY <1>4, <1>6, <1>7

LEMMA GetNextIs ==
    ASSUME DictInv, getNext
    PROVE  DictInv' /\ UNCHANGED Entries!keyVars
<1>1. PICK n \in Nat : n = Len(pairs) /\ DOMAIN pairs = 1..n
  BY DEF DictInv
<1>2. PICK m \in Nat : m = Len(round) /\ m < n
  BY <1>1 DEF DictInv, getNext
<1>3. it = m
  BY <1>1, <1>2 DEF DictInv
<1>4. /\ round' = Append(round, pairs[m + 1])
      /\ it' = IF m + 1 >= n THEN 0 ELSE m + 1
      /\ pairs' = pairs /\ called' = called /\ found' = found
  BY <1>1, <1>3 DEF getNext, Advance
<1>5. m + 1 \in 1..n /\ pairs[m + 1] \in DictKeys
  BY <1>1, <1>2 DEF DictInv
<1>6. PICK v : v = round'
  OBVIOUS
<1>7. /\ v \in Seq(DictKeys) /\ Len(v) = m + 1
      /\ \A i \in 1..m : v[i] = round[i]
      /\ v[m + 1] = pairs[m + 1]
  BY <1>2, <1>4, <1>5, <1>6 DEF DictInv
<1>8. \A i \in 1..Len(v) : v[i] = pairs[i]
  <2> SUFFICES ASSUME NEW i \in 1..(m + 1) PROVE v[i] = pairs[i]
    BY <1>7
  <2>1. CASE i \in 1..m
    BY <1>2, <1>7, <2>1 DEF DictInv
  <2>2. CASE i = m + 1
    BY <1>7, <2>2
  <2> QED
    BY <2>1, <2>2
<1>9. it' = IF Len(v) = n THEN 0 ELSE Len(v)
  BY <1>2, <1>4, <1>7
<1>10. DictInv'
  BY <1>1, <1>2, <1>4, <1>6, <1>7, <1>8, <1>9 DEF DictInv
<1> QED
  BY <1>4, <1>10 DEF Entries!keyVars

(* A call keeps the pairs sorted and does to the keys what the call of a   *)
(* set of keys does.                                                       *)
LEMMA DictStep ==
    ASSUME KeysFit, DictInv, [DictNext]_dictVars
    PROVE  DictInv' /\ [Entries!Next]_(Entries!keyVars)
<1>1. CASE UNCHANGED dictVars
  <2>1. DictInv'
    BY <1>1 DEF dictVars, DictInv
  <2>2. UNCHANGED Entries!keyVars
    BY <1>1 DEF dictVars, Entries!keyVars
  <2> QED
    BY <2>1, <2>2
<1>2. ASSUME NEW key \in DictKeys, get(key) PROVE DictInv' /\ Entries!Find(key)
  <2>1. /\ called' = <<"find", key>> /\ found' = getSlot(key).match
        /\ pairs' = pairs /\ it' = it /\ round' = round
    BY <1>2 DEF get
  <2>2. found' = (key \in PairKeys)
    BY <2>1, SplitsAtKey
  <2>3. DictInv'
    BY <2>1, <2>2 DEF DictInv
  <2> QED
    BY <2>1, <2>2, <2>3 DEF Entries!Find, PairKeys
<1>3. ASSUME NEW key \in DictKeys, round = <<>>, set(key) PROVE DictInv' /\ Entries!Insert(key)
  BY <1>3, SetIs
<1>4. CASE getNext
  BY <1>4, GetNextIs
<1>5. CASE resetIterator
  <2>1. /\ pairs' = pairs /\ called' = called /\ found' = found
        /\ it' = 0 /\ round' = <<>>
    BY <1>5 DEF resetIterator
  <2>2. DictInv'
    BY <2>1 DEF DictInv
  <2> QED
    BY <2>1, <2>2 DEF Entries!keyVars
<1>6. CASE Dict_clear
  <2>1. /\ pairs' = <<>> /\ called' = called /\ found' = found
        /\ it' = 0 /\ round' = <<>>
    BY <1>6 DEF Dict_clear
  <2>2. DictInv'
    BY <2>1 DEF DictInv, Sorted
  <2>3. Entries!Clear
    BY <2>1 DEF Entries!Clear
  <2> QED
    BY <2>2, <2>3 DEF Entries!Next
<1> QED
  BY <1>1, <1>2, <1>3, <1>4, <1>5, <1>6 DEF DictNext, Entries!Next

LEMMA DictStarts == DictInit => DictInv /\ Entries!Init
<1> SUFFICES ASSUME DictInit PROVE DictInv /\ Entries!Init
  OBVIOUS
<1>1. pairs = <<>> /\ it = 0 /\ called = <<>> /\ found = FALSE /\ round = <<>>
  BY DEF DictInit
<1>2. Len(<<>>) = 0 /\ <<>> \in Seq(DictKeys)
  OBVIOUS
<1>3. DictInv
  <2>1. Sorted(<<>>)
    BY DEF Sorted
  <2>2. pairs \in Seq(DictKeys) /\ round \in Seq(DictKeys) /\ Sorted(pairs)
    BY <1>1, <1>2, <2>1
  <2>3. Len(round) = 0 /\ Len(pairs) = 0 /\ it = 0 /\ found \in BOOLEAN
    BY <1>1, <1>2
  <2> QED
    BY <2>2, <2>3 DEF DictInv
<1>4. {pairs[i] : i \in DOMAIN pairs} = {}
  BY <1>1
<1> QED
  BY <1>1, <1>3, <1>4 DEF Entries!Init

(* get and set answer as for a set of keys, whatever was set before:       *)
(* the array is sorted after every call, and the search by halving comes   *)
(* to a key that is in and to the place of one that is not.  The sign of   *)
(* the difference decides, so the keys must be as close as an int tells    *)
(* (ordered_dict.cpp:42).                                                  *)
THEOREM DictIsASet == KeysFit => (DictSpec => Entries!Spec)
<1> SUFFICES ASSUME KeysFit PROVE DictSpec => Entries!Spec
  OBVIOUS
<1>1. DictInit => DictInv /\ Entries!Init
  BY DictStarts
<1>2. DictInv /\ [DictNext]_dictVars => DictInv' /\ [Entries!Next]_(Entries!keyVars)
  BY DictStep
<1> QED
  BY <1>1, <1>2, PTL DEF DictSpec, Entries!Spec

(* Going round the dictionary gives every pair once, in order, and ends at *)
(* the first: the loops over a frame's locals stop there.                  *)
THEOREM RoundsAreWhole ==
    KeysFit => (DictSpec => [](DictTypeOK /\ PairsSorted /\ RoundIsWhole))
<1> SUFFICES ASSUME KeysFit
             PROVE  DictSpec => [](DictTypeOK /\ PairsSorted /\ RoundIsWhole)
  OBVIOUS
<1>1. DictInit => DictInv
  BY DictStarts
<1>2. DictInv /\ [DictNext]_dictVars => DictInv'
  BY DictStep
<1>3. DictInv => DictTypeOK /\ PairsSorted /\ RoundIsWhole
  <2> SUFFICES ASSUME DictInv PROVE DictTypeOK /\ PairsSorted /\ RoundIsWhole
    OBVIOUS
  <2>1. PICK n \in Nat, m \in Nat : n = Len(pairs) /\ m = Len(round) /\ m <= n
    BY DEF DictInv
  <2>2. it \in 0..n
    BY <2>1 DEF DictInv
  <2>3. DictTypeOK
    BY <2>1, <2>2 DEF DictInv, DictTypeOK
  <2>4. PairsSorted
    BY <2>1 DEF DictInv, Sorted, PairsSorted
  <2>5. RoundIsWhole
    <3> SUFFICES ASSUME m = n PROVE round = pairs /\ it = 0
      BY <2>1 DEF RoundIsWhole
    <3>1. it = 0
      BY <2>1 DEF DictInv
    <3>2. \A i \in 1..n : round[i] = pairs[i]
      BY <2>1 DEF DictInv
    <3>3. round \in Seq(DictKeys) /\ pairs \in Seq(DictKeys)
      BY DEF DictInv
    <3>4. round = pairs
      BY <2>1, <3>2, <3>3
    <3> QED
      BY <3>1, <3>4
  <2> QED
    BY <2>3, <2>4, <2>5
<1> QED
  BY <1>1, <1>2, <1>3, PTL DEF DictSpec

-----------------------------------------------------------------------------
(* The containers together: for keys that ints tell apart, rollbacks by a   *)
(* size and to a marker in the first block only, and arenas that are not   *)
(* pushed to and copied flat again after a clear.  Beyond these the code   *)
(* does not keep what follows: dynamic_arena.cpp:131, :168, :216.          *)

(* Whatever is pushed, inserted, removed, set and gone round, in any order: *)
(* allocations do not share a byte and lie where one block would have them, *)
(* no key is cut off and no round over the pairs misses one.               *)
THEOREM ContainersStayInOrder ==
    ~ Deep /\ "reused" \notin Uses /\ KeysFit => (ContainersSpec => []ContainersInOrder)
<1> SUFFICES ASSUME ~ Deep, "reused" \notin Uses, KeysFit
             PROVE  ContainersSpec => []ContainersInOrder
  OBVIOUS
<1>1. ArenaSpec => [](ArenaTypeOK /\ Placed)
  BY ArenaPlacesApart
<1>2. ArenaSpec => []FlatLayout
  BY FlatCopyIsTheOneBlock
<1>3. DictSpec => [](DictTypeOK /\ PairsSorted /\ RoundIsWhole)
  BY RoundsAreWhole
<1> QED
  BY <1>1, <1>2, <1>3, KeysAreReached, PTL DEF ContainersSpec, ContainersInOrder

(* And step by step they are what their callers take them for: one block   *)
(* without an end and two sets of keys (dynamic_arena.h, set.h and         *)
(* ordered_dict.h).                                                        *)
THEOREM ContainersAreWhatTheyStandFor ==
    ~ Deep /\ KeysFit => (ContainersSpec => ImplementsContainers)
<1> SUFFICES ASSUME ~ Deep, KeysFit PROVE ContainersSpec => ImplementsContainers
  OBVIOUS
<1>1. ArenaSpec => ImplementsOneBlock
  BY ArenaIsOneBlock DEF ImplementsOneBlock
<1>2. SetSpec => ImplementsKeySet
  BY HashSetIsASet DEF ImplementsKeySet
<1>3. DictSpec => ImplementsKeys
  BY DictIsASet DEF ImplementsKeys
<1> QED
  BY <1>1, <1>2, <1>3, PTL DEF ContainersSpec, ImplementsContainers

-----------------------------------------------------------------------------
(* Documents: offsets that list the members of a set, in order.            *)

Lists(e, S) ==
    /\ e \in Seq(Nat)
    /\ \A i, j \in 1..Len(e) : i < j => e[i] < e[j]
    /\ S = {e[i] : i \in 1..Len(e)}

Chars == Letter \cup {Newline}
Found(s, C) == {x \in 1..Len(s) : s[x] \in C}
Until(S, n) == {x \in S : x <= n}
After(S, n) == {x \in S : x > n}
Displaced(S, d) == {x + d : x \in S}

(* One more at the end.                                                    *)
LEMMA ListsMore ==
    ASSUME NEW e, NEW S, Lists(e, S), NEW n \in Nat, \A x \in S : x < n
    PROVE  Lists(Append(e, n), S \cup {n})
<1> DEFINE f == Append(e, n)
<1>1. /\ f \in Seq(Nat) /\ Len(f) = Len(e) + 1 /\ Len(e) \in Nat
      /\ \A i \in 1..Len(e) : f[i] = e[i]
      /\ f[Len(e) + 1] = n
  BY DEF Lists
<1>2. \A i \in 1..Len(e) : e[i] \in Nat /\ e[i] < n
  BY DEF Lists
<1> HIDE DEF f
<1>3. \A i, j \in 1..Len(f) : i < j => f[i] < f[j]
  <2> TAKE i, j \in 1..Len(f)
  <2> HAVE i < j
  <2>0. PICK m \in Nat : m = Len(e)
    BY <1>1
  <2>1. i \in 1..Len(e) /\ (j \in 1..Len(e) \/ j = Len(e) + 1)
    BY <1>1, <2>0
  <2>2. CASE j \in 1..Len(e)
    BY <1>1, <2>1, <2>2 DEF Lists
  <2>3. CASE j = Len(e) + 1
    BY <1>1, <1>2, <2>1, <2>3
  <2> QED
    BY <2>1, <2>2, <2>3
<1>4. S \cup {n} = {f[i] : i \in 1..Len(f)}
  <2>1. 1..Len(f) = 1..Len(e) \cup {Len(e) + 1}
    BY <1>1
  <2>2. S = {f[i] : i \in 1..Len(e)}
    BY <1>1 DEF Lists
  <2>3. n = f[Len(e) + 1]
    BY <1>1
  <2> QED
    BY <2>1, <2>2, <2>3
<1> QED
  BY <1>1, <1>3, <1>4 DEF Lists, f

(* One position, when those before it gave e.                              *)
WithNext(s, C, e, i) == IF s[i] \in C THEN Append(e, i) ELSE e

(* The positions are all found, in order.                                  *)
LEMMA WhereLists ==
    ASSUME NEW A, NEW s \in Seq(A), NEW C
    PROVE  Lists(Where(s, C), Found(s, C))
<1> DEFINE n == Len(s)
           R(m, g) == [i \in 0..m |-> IF i = 0 THEN <<>> ELSE WithNext(s, C, g[i - 1], i)]
           Bad == {m \in 0..n : \A g : g # R(m, g)}
           G == CHOOSE g : g = R(n, g)
<1>1. Where(s, C) = G[n]
  BY DEF Where, WithNext
<1>0. n \in Nat
  OBVIOUS
<1>2. 0 \notin Bad
  <2> DEFINE h == [i \in 0..0 |-> <<>>]
  <2>1. h = R(0, h)
    OBVIOUS
  <2> QED
    BY <2>1
<1>3. ASSUME NEW m \in 0..n, m # 0, m \in Bad PROVE m - 1 \in Bad
  <2> SUFFICES ASSUME NEW g, g = R(m - 1, g) PROVE FALSE
    BY <1>3
  <2> DEFINE h == [i \in 0..m |-> IF i = 0 THEN <<>> ELSE WithNext(s, C, g[i - 1], i)]
  <2>1. \A i \in 0..(m - 1) : g[i] = IF i = 0 THEN <<>> ELSE WithNext(s, C, g[i - 1], i)
    OBVIOUS
  <2>2. \A i \in 0..(m - 1) : h[i] = g[i]
    BY <2>1
  <2>3. \A i \in 0..m : i # 0 => i - 1 \in 0..(m - 1)
    OBVIOUS
  <2>4. h = R(m, h)
    <3> HIDE DEF h
    <3>1. \A i \in 0..m : i # 0 => WithNext(s, C, g[i - 1], i) = WithNext(s, C, h[i - 1], i)
      BY <2>2, <2>3
    <3>2. h = [i \in 0..m |-> IF i = 0 THEN <<>> ELSE WithNext(s, C, g[i - 1], i)]
      BY DEF h
    <3> QED
      BY <3>1, <3>2
  <2> QED
    BY <1>3, <2>4
<1>4. Bad = {}
  <2> SUFFICES ASSUME Bad # {} PROVE FALSE
    OBVIOUS
  <2>1. Bad \in SUBSET Nat
    BY <1>0
  <2> HIDE DEF Bad
  <2>2. PICK m \in Bad : \A l \in Bad : m <= l
    BY <2>1, Smallest
  <2>3. m \in 0..n /\ m # 0
    BY <1>2, <2>2 DEF Bad
  <2>4. m - 1 \in Bad
    BY <1>3, <2>2, <2>3
  <2>5. m \in Nat
    BY <2>3
  <2> QED
    BY <2>2, <2>4, <2>5
<1>5. \E g : g = R(n, g)
  <2>1. n \in 0..n /\ n \notin Bad
    BY <1>4
  <2> QED
    BY <2>1
<1>6. G = R(n, G)
  <2> HIDE DEF R
  <2> QED
    BY <1>5
<1> HIDE DEF G
<1>7. G[0] = <<>> /\ \A i \in 1..n : G[i] = WithNext(s, C, G[i - 1], i)
  <2>1. \A i \in 0..n : G[i] = IF i = 0 THEN <<>>
                               ELSE WithNext(s, C, G[i - 1], i)
    BY <1>6
  <2>2. \A i \in 1..n : i \in 0..n /\ i # 0
    OBVIOUS
  <2>3. 0 \in 0..n
    OBVIOUS
  <2> QED
    BY <2>1, <2>2, <2>3
<1> HIDE DEF R, Bad
<1> DEFINE Upto(i) == {x \in 1..i : s[x] \in C}
           Wrong == {i \in 0..n : ~ Lists(G[i], Upto(i))}
<1>8. 0 \notin Wrong
  <2>1. Upto(0) = {}
    OBVIOUS
  <2>2. Lists(<<>>, {})
    BY DEF Lists
  <2> QED
    BY <1>7, <2>1, <2>2
<1>9. ASSUME NEW i \in 1..n, Lists(G[i - 1], Upto(i - 1)) PROVE Lists(G[i], Upto(i))
  <2>1. CASE s[i] \in C
    <3>1. Upto(i) = Upto(i - 1) \cup {i}
      BY <2>1
    <3>2. \A x \in Upto(i - 1) : x < i
      OBVIOUS
    <3> HIDE DEF Upto
    <3>3. i \in Nat
      OBVIOUS
    <3>4. Lists(Append(G[i - 1], i), Upto(i - 1) \cup {i})
      BY <1>9, <3>2, <3>3, ListsMore
    <3> QED
      BY <1>7, <2>1, <3>1, <3>4 DEF WithNext
  <2>2. CASE s[i] \notin C
    <3>1. Upto(i) = Upto(i - 1)
      BY <2>2
    <3> QED
      BY <1>7, <1>9, <2>2, <3>1 DEF WithNext
  <2> QED
    BY <2>1, <2>2
<1>10. Wrong = {}
  <2> SUFFICES ASSUME Wrong # {} PROVE FALSE
    OBVIOUS
  <2>1. Wrong \in SUBSET Nat
    BY <1>0
  <2> HIDE DEF Wrong
  <2>2. PICK m \in Wrong : \A l \in Wrong : m <= l
    BY <2>1, Smallest
  <2>3. m \in 0..n /\ m # 0 /\ ~ Lists(G[m], Upto(m))
    BY <1>8, <2>2 DEF Wrong
  <2>4. m \in 1..n /\ m - 1 \in 0..n
    BY <1>0, <2>3
  <2>5. m - 1 \in Wrong
    BY <1>9, <2>3, <2>4 DEF Wrong
  <2>6. m \in Nat
    BY <2>4
  <2> HIDE DEF n
  <2> QED
    BY <2>2, <2>5, <2>6
<1> QED
  <2>1. n \in 0..n /\ Upto(n) = Found(s, C)
    BY DEF Found
  <2> QED
    BY <1>1, <1>10, <2>1

(* There is one list of a set.                                             *)
LEMMA ListsOnce ==
    ASSUME NEW e, NEW f, NEW S, Lists(e, S), Lists(f, S)
    PROVE  e = f
<1>1. ASSUME NEW a, NEW b, Lists(a, S), Lists(b, S), NEW k \in 1..Len(a),
             \A i \in 1..(k - 1) : i \in 1..Len(b) /\ a[i] = b[i]
      PROVE  k \in 1..Len(b) /\ b[k] <= a[k]
  <2>1. PICK l \in Nat, m \in Nat : l = Len(a) /\ m = Len(b)
    BY <1>1 DEF Lists
  <2>2. PICK j \in 1..m : b[j] = a[k]
    BY <1>1, <2>1 DEF Lists
  <2>3. ~ (j < k)
    <3> SUFFICES ASSUME j < k PROVE FALSE
      OBVIOUS
    <3>1. j \in 1..(k - 1) /\ j \in 1..l /\ k \in 1..l
      BY <1>1, <2>1
    <3>2. a[j] = a[k] /\ a[j] < a[k] /\ a[j] \in Nat /\ a[k] \in Nat
      BY <1>1, <2>1, <2>2, <3>1 DEF Lists
    <3> QED
      BY <3>2
  <2>4. k \in 1..m
    BY <1>1, <2>1, <2>3
  <2>5. b[k] \in Nat /\ b[j] \in Nat
    <3>1. \A i \in 1..m : b[i] \in Nat
      BY <1>1, <2>1 DEF Lists
    <3> QED
      BY <2>2, <2>4, <3>1
  <2>6. k < j => b[k] < b[j]
    BY <1>1, <2>1, <2>4 DEF Lists
  <2> QED
    BY <2>1, <2>2, <2>3, <2>4, <2>5, <2>6
<1> DEFINE Differ == {i \in 1..Len(e) : ~ (i \in 1..Len(f) /\ e[i] = f[i])}
<1>2. PICK l \in Nat, m \in Nat : l = Len(e) /\ m = Len(f)
  BY DEF Lists
<1>3. Differ = {}
  <2> SUFFICES ASSUME Differ # {} PROVE FALSE
    OBVIOUS
  <2>1. Differ \in SUBSET Nat
    BY <1>2
  <2>2. PICK k \in Differ : \A i \in Differ : k <= i
    BY <2>1, Smallest
  <2>3. k \in 1..Len(e) /\ ~ (k \in 1..Len(f) /\ e[k] = f[k])
    OBVIOUS
  <2>4. \A i \in 1..(k - 1) : i \in 1..Len(e) /\ i \in 1..Len(f) /\ e[i] = f[i]
    BY <1>2, <2>2
  <2> HIDE DEF Differ
  <2>5. k \in 1..Len(f) /\ f[k] <= e[k]
    BY <1>1, <2>3, <2>4
  <2>6. e[k] <= f[k]
    BY <1>1, <2>4, <2>5
  <2>7. e[k] \in Nat /\ f[k] \in Nat
    BY <2>3, <2>5 DEF Lists
  <2> QED
    BY <2>3, <2>5, <2>6, <2>7
<1>4. l <= m
  <2> SUFFICES ASSUME m < l PROVE FALSE
    BY <1>2
  <2>1. l \in 1..Len(e) /\ ~ (l \in 1..Len(f))
    BY <1>2
  <2> QED
    BY <1>3, <2>1
<1>5. ~ (l < m)
  <2> SUFFICES ASSUME l < m PROVE FALSE
    OBVIOUS
  <2>1. l + 1 \in 1..Len(f)
    BY <1>2
  <2>2. \A i \in 1..l : i \in 1..Len(e) /\ e[i] = f[i]
    BY <1>2, <1>3
  <2>3. l + 1 \in 1..Len(e)
    <3>1. \A i \in 1..((l + 1) - 1) : i \in 1..Len(e) /\ f[i] = e[i]
      BY <2>2
    <3> QED
      BY <1>1, <2>1, <3>1
  <2> QED
    BY <1>2, <2>3
<1> QED
  <2>1. Len(e) = Len(f) /\ \A i \in 1..Len(e) : e[i] = f[i]
    BY <1>2, <1>3, <1>4, <1>5
  <2>2. e = [i \in 1..Len(e) |-> e[i]] /\ f = [i \in 1..Len(f) |-> f[i]]
    BY DEF Lists
  <2> QED
    BY <2>1, <2>2

LEMMA Joined ==
    ASSUME NEW A, NEW e \in Seq(A), NEW f \in Seq(A)
    PROVE  /\ e \o f \in Seq(A) /\ Len(e \o f) = Len(e) + Len(f)
           /\ \A i \in 1..Len(e) : (e \o f)[i] = e[i]
           /\ \A i \in 1..Len(f), j \in Nat : j = Len(e) + i => (e \o f)[j] = f[i]
<1>0. PICK l \in Nat, m \in Nat : l = Len(e) /\ m = Len(f)
  OBVIOUS
<1>1. \A i \in 1..m : ~ (l + i <= l) /\ (l + i) - l = i /\ l + i \in 1..(l + m)
  OBVIOUS
<1>2. \A i \in 1..l : i <= l /\ i \in 1..(l + m)
  OBVIOUS
<1> QED
  BY <1>0, <1>1, <1>2, ConcatProperties

(* The list of what comes before goes before.                              *)
LEMMA ListsJoin ==
    ASSUME NEW e, NEW f, NEW S, NEW T, Lists(e, S), Lists(f, T),
           \A x \in S, y \in T : x < y
    PROVE  Lists(e \o f, S \cup T)
<1> DEFINE g == e \o f
<1>1. PICK l \in Nat, m \in Nat : l = Len(e) /\ m = Len(f)
  BY DEF Lists
<1>2. /\ g \in Seq(Nat) /\ Len(g) = l + m
      /\ \A i \in 1..l : g[i] = e[i]
      /\ \A i \in 1..m : g[l + i] = f[i]
  BY <1>1, Joined DEF Lists
<1>3. /\ \A i \in 1..l : e[i] \in S /\ e[i] \in Nat
      /\ \A i \in 1..m : f[i] \in T /\ f[i] \in Nat
  BY <1>1 DEF Lists
<1> HIDE DEF g
<1>4. \A i \in 1..(l + m) : \/ i \in 1..l /\ g[i] = e[i]
                            \/ i - l \in 1..m /\ ~ (i \in 1..l) /\ g[i] = f[i - l]
  <2> TAKE i \in 1..(l + m)
  <2>1. CASE i \in 1..l
    BY <1>2, <2>1
  <2>2. CASE ~ (i \in 1..l)
    <3>1. i - l \in 1..m /\ l + (i - l) = i
      BY <2>2
    <3>2. g[l + (i - l)] = f[i - l]
      BY <1>2, <3>1
    <3> QED
      BY <2>2, <3>1, <3>2
  <2> QED
    BY <2>1, <2>2
<1>5. \A i, j \in 1..(l + m) : i < j => g[i] < g[j]
  <2> TAKE i, j \in 1..(l + m)
  <2> HAVE i < j
  <2>1. CASE i \in 1..l /\ j \in 1..l
    BY <1>1, <1>2, <2>1 DEF Lists
  <2>2. CASE i \in 1..l /\ j - l \in 1..m
    <3>1. ~ (j \in 1..l)
      BY <2>2
    <3>2. g[i] = e[i] /\ g[j] = f[j - l]
      BY <1>4, <2>2, <3>1
    <3>3. e[i] \in S /\ f[j - l] \in T
      BY <1>3, <2>2
    <3> QED
      BY <3>2, <3>3
  <2>3. CASE i - l \in 1..m /\ j - l \in 1..m
    <3>1. g[i] = f[i - l] /\ g[j] = f[j - l]
      <4>1. ~ (i \in 1..l) /\ ~ (j \in 1..l)
        BY <2>3
      <4> QED
        BY <1>4, <4>1
    <3>2. i - l < j - l
      BY <1>1
    <3> QED
      BY <1>1, <2>3, <3>1, <3>2 DEF Lists
  <2>4. CASE i - l \in 1..m /\ j \in 1..l
    BY <2>4
  <2> QED
    BY <1>4, <2>1, <2>2, <2>3, <2>4
<1>6. S \cup T = {g[i] : i \in 1..(l + m)}
  <2>1. ASSUME NEW i \in 1..(l + m) PROVE g[i] \in S \cup T
    BY <1>2, <1>3, <1>4
  <2>2. ASSUME NEW x \in S PROVE \E i \in 1..(l + m) : g[i] = x
    <3>1. PICK i \in 1..l : e[i] = x
      BY <1>1 DEF Lists
    <3>2. i \in 1..(l + m)
      OBVIOUS
    <3> QED
      BY <1>2, <3>1, <3>2
  <2>3. ASSUME NEW x \in T PROVE \E i \in 1..(l + m) : g[i] = x
    <3>1. PICK i \in 1..m : f[i] = x
      BY <1>1 DEF Lists
    <3>2. l + i \in 1..(l + m)
      OBVIOUS
    <3> QED
      BY <1>2, <3>1, <3>2
  <2> QED
    BY <2>1, <2>2, <2>3
<1> QED
  BY <1>2, <1>5, <1>6 DEF Lists, g

(* A list whose members move by the same lists what they move to.          *)
LEMMA ListsShift ==
    ASSUME NEW e, NEW S, Lists(e, S), NEW d \in Int, \A x \in S : x + d \in Nat
    PROVE  Lists([i \in 1..Len(e) |-> e[i] + d], Displaced(S, d))
<1> DEFINE f == [i \in 1..Len(e) |-> e[i] + d]
<1>1. PICK l \in Nat : l = Len(e)
  BY DEF Lists
<1>2. \A i \in 1..l : e[i] \in S /\ e[i] \in Nat
  BY <1>1 DEF Lists
<1>3. f \in Seq(Nat) /\ Len(f) = l /\ \A i \in 1..l : f[i] = e[i] + d
  <2>1. f \in [1..l -> Nat]
    BY <1>1, <1>2
  <2> QED
    BY <1>1, <2>1
<1> HIDE DEF f
<1>4. \A i, j \in 1..l : i < j => f[i] < f[j]
  <2> TAKE i, j \in 1..l
  <2> HAVE i < j
  <2>1. e[i] < e[j]
    BY <1>1 DEF Lists
  <2> QED
    BY <1>2, <1>3, <2>1
<1>5. Displaced(S, d) = {f[i] : i \in 1..l}
  BY <1>1, <1>3 DEF Lists, Displaced
<1> QED
  BY <1>3, <1>4, <1>5 DEF Lists, f

(* The part of a list between two of its members.                          *)
LEMMA ListsPart ==
    ASSUME NEW e, NEW S, Lists(e, S), NEW c \in 0..Len(e), NEW n \in Nat,
           \A i \in 1..Len(e) : i <= c <=> e[i] <= n
    PROVE  /\ Lists(SubSeq(e, 1, c), Until(S, n))
           /\ Lists(SubSeq(e, c + 1, Len(e)), After(S, n))
<1>1. PICK l \in Nat : l = Len(e)
  BY DEF Lists
<1>2. e \in Seq(Nat) /\ \A i \in 1..l : e[i] \in S /\ e[i] \in Nat
  BY <1>1 DEF Lists
<1>3. Lists(SubSeq(e, 1, c), Until(S, n))
  <2> DEFINE f == SubSeq(e, 1, c)
  <2>1. f \in Seq(Nat) /\ Len(f) = c /\ \A i \in 1..c : f[i] = e[i]
    BY <1>1, <1>2
  <2> HIDE DEF f
  <2>2. \A i \in 1..c : i \in 1..l
    BY <1>1
  <2>3. \A i, j \in 1..c : i < j => f[i] < f[j]
    BY <1>1, <2>1, <2>2 DEF Lists
  <2>4. Until(S, n) = {f[i] : i \in 1..c}
    <3>1. ASSUME NEW i \in 1..c PROVE f[i] \in S /\ f[i] <= n
      BY <1>1, <1>2, <2>1, <2>2
    <3>2. ASSUME NEW x \in S, x <= n PROVE \E i \in 1..c : f[i] = x
      <4>1. PICK i \in 1..l : e[i] = x
        BY <1>1 DEF Lists
      <4>2. i \in 1..c
        BY <1>1, <3>2, <4>1
      <4> QED
        BY <2>1, <4>1, <4>2
    <3> QED
      BY <3>1, <3>2 DEF Until
  <2> QED
    BY <2>1, <2>3, <2>4 DEF Lists, f
<1>4. Lists(SubSeq(e, c + 1, Len(e)), After(S, n))
  <2> DEFINE f == SubSeq(e, c + 1, Len(e))
  <2>0. PICK k \in Nat : k = l - c
    <3>1. l - c \in Nat
      BY <1>1
    <3> QED
      BY <3>1
  <2>1. f \in Seq(Nat) /\ Len(f) = k /\ \A i \in 1..k : f[i] = e[c + i]
    BY <1>1, <1>2, <2>0
  <2> HIDE DEF f
  <2>2. \A i \in 1..k : c + i \in 1..l /\ ~ (c + i <= c)
    BY <1>1, <2>0
  <2>3. \A i, j \in 1..k : i < j => f[i] < f[j]
    <3> TAKE i, j \in 1..k
    <3> HAVE i < j
    <3>1. c + i < c + j
      OBVIOUS
    <3>2. e[c + i] < e[c + j]
      BY <1>1, <2>2, <3>1 DEF Lists
    <3> QED
      BY <2>1, <3>2
  <2>4. After(S, n) = {f[i] : i \in 1..k}
    <3>1. ASSUME NEW i \in 1..k PROVE f[i] \in S /\ f[i] > n
      <4>1. ~ (e[c + i] <= n) /\ e[c + i] \in Nat /\ e[c + i] \in S
        BY <1>1, <1>2, <2>2
      <4> QED
        BY <2>1, <4>1
    <3>2. ASSUME NEW x \in S, x > n PROVE \E i \in 1..k : f[i] = x
      <4>1. PICK i \in 1..l : e[i] = x
        BY <1>1 DEF Lists
      <4>2. ~ (i <= c)
        BY <1>1, <1>2, <3>2, <4>1
      <4>3. i - c \in 1..k /\ c + (i - c) = i
        BY <2>0, <4>2
      <4> QED
        BY <2>1, <4>1, <4>3
    <3> QED
      BY <3>1, <3>2 DEF After
  <2> QED
    BY <2>1, <2>3, <2>4 DEF Lists, f
<1> QED
  BY <1>3, <1>4

(* The members up to a number are the first of the list, as many as there  *)
(* are.                                                                    *)
LEMMA ListsCount ==
    ASSUME NEW e, NEW S, Lists(e, S), NEW n \in Nat
    PROVE  \E c \in 0..Len(e) :
              /\ \A i \in 1..Len(e) : i <= c <=> e[i] <= n
              /\ Cardinality({i \in DOMAIN e : e[i] <= n}) = c
<1>1. PICK l \in Nat : l = Len(e) /\ DOMAIN e = 1..l
  BY DEF Lists
<1>2. /\ \A i \in 1..l : e[i] \in Nat
      /\ \A i, j \in 1..l : i < j => e[i] < e[j]
  BY <1>1 DEF Lists
<1> DEFINE More == {i \in 1..l : n < e[i]} \cup {l + 1}
<1>3. More \in SUBSET Nat /\ More # {}
  OBVIOUS
<1>4. PICK m \in More : \A i \in More : m <= i
  BY <1>3, Smallest
<1>5. m \in 1..(l + 1) /\ (m \in 1..l => n < e[m])
  BY <1>4
<1>6. \A i \in 1..l : n < e[i] => m <= i
  BY <1>4
<1> HIDE DEF More
<1>7. PICK c \in 0..l : c = m - 1
  BY <1>5
<1>8. \A i \in 1..l : i <= c <=> e[i] <= n
  <2> TAKE i \in 1..l
  <2>1. i <= c => e[i] <= n
    <3>1. e[i] \in Nat /\ (n < e[i] => m <= i)
      BY <1>2, <1>6
    <3> QED
      BY <1>5, <1>7, <3>1
  <2>2. ASSUME ~ (i <= c) PROVE ~ (e[i] <= n)
    <3>1. m \in 1..l /\ (m = i \/ m < i)
      BY <1>5, <1>7, <2>2
    <3>2. e[m] <= e[i]
      BY <1>2, <3>1
    <3> QED
      BY <1>2, <1>5, <3>1, <3>2
  <2> QED
    BY <2>1, <2>2
<1>9. {i \in DOMAIN e : e[i] <= n} = 1..c
  <2>1. \A i \in 1..c : i \in 1..l /\ i <= c
    BY <1>1
  <2>2. \A i \in 1..l : i <= c => i \in 1..c
    BY <1>1
  <2> QED
    BY <1>1, <1>8, <2>1, <2>2
<1>10. Cardinality(1..c) = c
  BY FS_Interval
<1> QED
  BY <1>1, <1>8, <1>9, <1>10

-----------------------------------------------------------------------------
(* The lines of a document.                                                *)

Starts(s) == {0} \cup Found(s, {Newline})

LEMMA OffsetsAre ==
    ASSUME NEW A, NEW s \in Seq(A)
    PROVE  /\ Lists(LineEnds(s), Found(s, {Newline}))
           /\ Lists(AllOffsets(s), Starts(s))
           /\ Len(AllOffsets(s)) = Len(LineEnds(s)) + 1
           /\ AllOffsets(s)[1] = 0
           /\ \A i \in 1..Len(LineEnds(s)) : AllOffsets(s)[i + 1] = LineEnds(s)[i]
<1>1. Lists(LineEnds(s), Found(s, {Newline}))
  BY WhereLists DEF LineEnds
<1>2. PICK e \in Seq(Nat) : e = LineEnds(s)
  BY <1>1 DEF Lists
<1>3. Lists(<<0>>, {0})
  BY DEF Lists
<1>4. \A x \in {0}, y \in Found(s, {Newline}) : x < y
  BY DEF Found
<1>5. Lists(<<0>> \o e, {0} \cup Found(s, {Newline}))
  BY <1>1, <1>2, <1>3, <1>4, ListsJoin
<1>6. /\ Len(<<0>> \o e) = 1 + Len(e)
      /\ (<<0>> \o e)[1] = 0
      /\ \A i \in 1..Len(e) : (<<0>> \o e)[1 + i] = e[i]
  <2>1. <<0>> \in Seq(Nat) /\ Len(<<0>>) = 1 /\ <<0>>[1] = 0
    OBVIOUS
  <2> QED
    BY <1>2, <2>1, ConcatProperties
<1>7. AllOffsets(s) = <<0>> \o e
  BY <1>2 DEF AllOffsets
<1>8. Len(e) \in Nat /\ \A i \in 1..Len(e) : 1 + i = i + 1
  BY <1>2
<1> QED
  BY <1>1, <1>2, <1>5, <1>6, <1>7, <1>8 DEF Starts

(* The line of a position is the last that begins at it or before.         *)
LEMMA PositionIs ==
    ASSUME NEW A, NEW s \in Seq(A), NEW n \in Nat
    PROVE  \E c \in 0..Len(LineEnds(s)) :
              /\ PositionOf(s, n) = [line |-> c, character |-> n - AllOffsets(s)[c + 1]]
              /\ \A i \in 1..Len(AllOffsets(s)) : i <= c + 1 <=> AllOffsets(s)[i] <= n
              /\ Cardinality({i \in DOMAIN LineEnds(s) : LineEnds(s)[i] <= n}) = c
<1>1. PICK e : e = LineEnds(s) /\ Lists(e, Found(s, {Newline}))
  BY OffsetsAre
<1>2. PICK l \in Nat : l = Len(e)
  BY <1>1 DEF Lists
<1>3. PICK o : /\ o = AllOffsets(s) /\ Len(o) = l + 1 /\ o[1] = 0
               /\ \A i \in 1..l : o[i + 1] = e[i]
  BY <1>1, <1>2, OffsetsAre
<1>4. PICK c \in 0..l : /\ \A i \in 1..l : i <= c <=> e[i] <= n
                        /\ Cardinality({i \in DOMAIN e : e[i] <= n}) = c
  BY <1>1, <1>2, ListsCount
<1>5. \A i \in 1..(l + 1) : i <= c + 1 <=> o[i] <= n
  <2> TAKE i \in 1..(l + 1)
  <2>1. CASE i = 1
    BY <1>3, <2>1
  <2>2. CASE i # 1
    <3>1. i - 1 \in 1..l /\ (i - 1) + 1 = i /\ (i <= c + 1 <=> i - 1 <= c)
      BY <2>2
    <3>2. o[(i - 1) + 1] = e[i - 1]
      BY <1>3, <3>1
    <3> QED
      BY <1>4, <3>1, <3>2
  <2> QED
    BY <2>1, <2>2
<1>6. (IF c = 0 THEN 0 ELSE e[c]) = o[c + 1]
  BY <1>3
<1>7. PositionOf(s, n) = [line |-> c, character |-> n - (IF c = 0 THEN 0 ELSE e[c])]
  BY <1>1, <1>4 DEF PositionOf
<1> QED
  BY <1>1, <1>2, <1>3, <1>4, <1>5, <1>6, <1>7

LEMMA LineIs ==
    ASSUME NEW A, text \in Seq(A), offsets = AllOffsets(text), NEW n \in Nat,
           NEW l \in Nat, l = Len(offsets)
    PROVE  \E c \in 0..(l - 1) :
              /\ PositionOf(text, n) = [line |-> c, character |-> n - offsets[c + 1]]
              /\ \A i \in 1..l : i <= c + 1 <=> offsets[i] <= n
<1>1. \E c \in 0..Len(LineEnds(text)) :
         /\ PositionOf(text, n) = [line |-> c, character |-> n - AllOffsets(text)[c + 1]]
         /\ \A i \in 1..Len(AllOffsets(text)) : i <= c + 1 <=> AllOffsets(text)[i] <= n
  BY PositionIs
<1>2. Len(LineEnds(text)) = l - 1
  <2>1. Len(LineEnds(text)) \in Nat /\ Len(offsets) = Len(LineEnds(text)) + 1
    <3>1. Lists(LineEnds(text), Found(text, {Newline}))
      BY OffsetsAre
    <3>2. Len(LineEnds(text)) \in Nat
      BY <3>1 DEF Lists
    <3> QED
      BY <3>2, OffsetsAre
  <2> QED
    BY <2>1
<1> QED
  BY <1>1, <1>2

(* A position of the client's is the offset it was made of.                *)
LEMMA StrictOffsetIs ==
    ASSUME NEW A, text \in Seq(A), offsets = AllOffsets(text), NEW n \in 0..Len(text)
    PROVE  getStrictOffset(PositionOf(text, n)) = n
<1>1. PICK l \in Nat : Len(offsets) = l + 1
  <2>1. Len(LineEnds(text)) \in Nat /\ Len(offsets) = Len(LineEnds(text)) + 1
    <3>1. Lists(LineEnds(text), Found(text, {Newline}))
      BY OffsetsAre
    <3>2. Len(LineEnds(text)) \in Nat
      BY <3>1 DEF Lists
    <3> QED
      BY <3>2, OffsetsAre
  <2> QED
    BY <2>1
<1>2. PICK c \in 0..l : /\ PositionOf(text, n) = [line |-> c, character |-> n - offsets[c + 1]]
                        /\ \A i \in 1..(l + 1) : i <= c + 1 <=> offsets[i] <= n
  <2>1. PICK k \in Nat : k = l + 1 /\ k = Len(offsets) /\ k - 1 = l
    BY <1>1
  <2>2. n \in Nat
    OBVIOUS
  <2>3. \E c \in 0..(k - 1) :
           /\ PositionOf(text, n) = [line |-> c, character |-> n - offsets[c + 1]]
           /\ \A i \in 1..k : i <= c + 1 <=> offsets[i] <= n
    BY <2>1, <2>2, LineIs
  <2> QED
    BY <2>1, <2>3
<1>3. \A i \in 1..(l + 1) : offsets[i] \in Nat
  <2>1. Lists(offsets, Starts(text))
    BY OffsetsAre
  <2> QED
    BY <1>1, <2>1 DEF Lists
<1>4. PICK p : p = PositionOf(text, n) /\ p.line = c /\ p.character = n - offsets[c + 1]
  BY <1>2
<1>5. PICK start \in Nat : start = offsets[c + 1] /\ start <= n
  BY <1>2, <1>3
<1>6. PICK end \in Nat : end = (IF c + 1 < l + 1 THEN offsets[c + 2] ELSE Len(text)) /\ n <= end
  <2>1. CASE c + 1 < l + 1
    <3>1. c + 2 \in 1..(l + 1) /\ ~ (c + 2 <= c + 1)
      BY <2>1
    <3>2. offsets[c + 2] \in Nat /\ ~ (offsets[c + 2] <= n)
      BY <1>2, <1>3, <3>1
    <3> QED
      BY <2>1, <3>2
  <2>2. CASE ~ (c + 1 < l + 1)
    BY <2>2
  <2> QED
    BY <2>1, <2>2
<1>7. getStrictOffset(p) = IF c >= l + 1 THEN INVALID_OFFSET
                           ELSE IF n - start > end - start THEN INVALID_OFFSET
                           ELSE start + (n - start)
  BY <1>1, <1>4, <1>5, <1>6 DEF getStrictOffset
<1>8. ~ (c >= l + 1) /\ ~ (n - start > end - start) /\ start + (n - start) = n
  BY <1>5, <1>6
<1> QED
  BY <1>4, <1>7, <1>8

(* What an edit leaves of a text, and where.                               *)
LEMMA SpliceIs ==
    ASSUME NEW A, NEW s \in Seq(A), NEW new \in Seq(A), NEW m \in Nat, NEW n \in Nat,
           m <= n, n <= Len(s), NEW C
    PROVE  LET t == Splice(s, m, n, new)
               d == Len(new) - (n - m)
           IN  /\ t \in Seq(A) /\ Len(t) = Len(s) + d
               /\ Found(t, C) = Until(Found(s, C), m)
                                \cup Displaced(Found(new, C), m)
                                \cup Displaced(After(Found(s, C), n), d)
<1>1. PICK l \in Nat, k \in Nat : l = Len(s) /\ k = Len(new)
  OBVIOUS
<1> DEFINE u == SubSeq(s, 1, m)
           v == SubSeq(s, n + 1, l)
           w == u \o new
           t == w \o v
<1>2. u \in Seq(A) /\ Len(u) = m /\ \A i \in 1..m : u[i] = s[i]
  BY <1>1
<1>3. v \in Seq(A) /\ Len(v) = l - n /\ \A i \in 1..(l - n) : v[i] = s[n + i]
  BY <1>1
<1> HIDE DEF u, v
<1>4. /\ w \in Seq(A) /\ Len(w) = m + k
      /\ \A i \in 1..m : w[i] = s[i]
      /\ \A i \in 1..k : w[m + i] = new[i]
  <2>1. /\ w \in Seq(A) /\ Len(w) = m + k
        /\ \A i \in 1..m : w[i] = u[i]
        /\ \A i \in 1..k : w[m + i] = new[i]
    BY <1>1, <1>2, Joined
  <2> HIDE DEF w
  <2> QED
    BY <1>2, <2>1
<1> HIDE DEF w
<1>5. l - n \in Nat
  BY <1>1
<1>6. /\ t \in Seq(A) /\ Len(t) = (m + k) + (l - n)
      /\ \A i \in 1..(m + k) : t[i] = w[i]
      /\ \A i \in 1..(l - n) : t[(m + k) + i] = v[i]
  <2>1. v \in Seq(A) /\ Len(v) = l - n
    BY <1>3
  <2>2. PICK a \in Nat, b \in Nat : a = m + k /\ b = l - n
    BY <1>5
  <2>3. /\ t \in Seq(A) /\ Len(t) = a + b
        /\ \A i \in 1..a : t[i] = w[i]
        /\ \A i \in 1..b : t[a + i] = v[i]
    <3>1. Len(w) = a /\ Len(v) = b /\ w \in Seq(A)
      BY <1>4, <2>1, <2>2
    <3>2. \A i \in 1..b : a + i \in Nat /\ i \in 1..Len(v) /\ a + i = Len(w) + i
      BY <3>1
    <3>3. \A i \in 1..b : (w \o v)[a + i] = v[i]
      <4> TAKE i \in 1..b
      <4>1. PICK j \in Nat : j = a + i /\ i \in 1..Len(v) /\ j = Len(w) + i
        BY <3>2
      <4>2. (w \o v)[j] = v[i]
        <5>1. w \in Seq(A) /\ v \in Seq(A)
          BY <2>1, <3>1
        <5> HIDE DEF t
        <5> QED
          BY <4>1, <5>1, Joined
      <4> QED
        BY <4>1, <4>2
    <3>4. \A i \in 1..a : (w \o v)[i] = w[i]
      BY <2>1, <3>1, Joined
    <3>5. (w \o v) \in Seq(A) /\ Len(w \o v) = a + b
      BY <2>1, <3>1, Joined
    <3> QED
      BY <3>3, <3>4, <3>5
  <2> QED
    BY <2>2, <2>3
<1> HIDE DEF t
<1>7. PICK d \in Int : d = k - (n - m) /\ Len(t) = l + d
  BY <1>5, <1>6
<1>8. \A x \in 1..(l + d) : \/ x \in 1..m /\ t[x] = s[x]
                            \/ x - m \in 1..k /\ t[x] = new[x - m]
                            \/ x - d \in (n + 1)..l /\ t[x] = s[x - d]
  <2> TAKE x \in 1..(l + d)
  <2>1. CASE x <= m
    <3>1. x \in 1..m
      BY <1>7, <2>1
    <3>2. t[x] = s[x]
      BY <1>4, <1>6, <3>1
    <3> QED
      BY <3>1, <3>2
  <2>2. CASE m < x /\ x <= m + k
    <3>1. x - m \in 1..k /\ m + (x - m) = x /\ x \in 1..(m + k)
      BY <2>2
    <3>2. w[m + (x - m)] = new[x - m]
      BY <1>4, <3>1
    <3> QED
      BY <1>6, <3>1, <3>2
  <2>3. CASE m + k < x
    <3>1. /\ x - (m + k) \in 1..(l - n) /\ (m + k) + (x - (m + k)) = x
          /\ n + (x - (m + k)) = x - d /\ x - d \in (n + 1)..l
      BY <1>7, <2>3
    <3>2. t[(m + k) + (x - (m + k))] = v[x - (m + k)]
      BY <1>6, <3>1
    <3>3. v[x - (m + k)] = s[n + (x - (m + k))]
      BY <1>3, <3>1
    <3> QED
      BY <3>1, <3>2, <3>3
  <2> QED
    BY <1>7, <2>1, <2>2, <2>3
<1>9. \A x \in 1..m : x \in 1..(l + d) /\ x \in 1..l /\ t[x] = s[x]
  <2> TAKE x \in 1..m
  <2>1. x \in 1..(l + d) /\ x \in 1..l /\ x \in 1..(m + k)
    BY <1>1, <1>7
  <2> QED
    BY <1>4, <1>6, <2>1
<1>10. \A x \in 1..k : x + m \in 1..(l + d) /\ t[x + m] = new[x]
  <2> TAKE x \in 1..k
  <2>1. x + m \in 1..(l + d) /\ x + m \in 1..(m + k) /\ m + x = x + m
    BY <1>1, <1>7
  <2>2. w[m + x] = new[x]
    BY <1>4
  <2> QED
    BY <1>6, <2>1, <2>2
<1>11. \A x \in (n + 1)..l : x + d \in 1..(l + d) /\ t[x + d] = s[x] /\ x \in 1..l
  <2> TAKE x \in (n + 1)..l
  <2>1. x + d \in 1..(l + d) /\ x - n \in 1..(l - n) /\ (m + k) + (x - n) = x + d
        /\ n + (x - n) = x /\ x \in 1..l
    BY <1>1, <1>7
  <2>2. t[(m + k) + (x - n)] = v[x - n] /\ v[x - n] = s[n + (x - n)]
    BY <1>3, <1>6, <2>1
  <2> QED
    BY <2>1, <2>2
<1>12. Found(t, C) = Until(Found(s, C), m)
                     \cup Displaced(Found(new, C), m)
                     \cup Displaced(After(Found(s, C), n), d)
  <2> DEFINE P == Until(Found(s, C), m)
             Q == Displaced(Found(new, C), m)
             T == Displaced(After(Found(s, C), n), d)
  <2>1. ASSUME NEW x \in Found(t, C) PROVE x \in P \cup Q \cup T
    <3>1. x \in 1..(l + d) /\ t[x] \in C
      BY <1>7, <2>1 DEF Found
    <3>2. CASE x \in 1..m /\ t[x] = s[x]
      BY <1>1, <1>9, <3>1, <3>2 DEF Found, Until
    <3>3. CASE x - m \in 1..k /\ t[x] = new[x - m]
      <4>1. x - m \in Found(new, C) /\ (x - m) + m = x
        BY <1>1, <3>1, <3>3 DEF Found
      <4> QED
        BY <4>1 DEF Displaced
    <3>4. CASE x - d \in (n + 1)..l /\ t[x] = s[x - d]
      <4>1. x - d \in Found(s, C) /\ x - d > n /\ (x - d) + d = x
        BY <1>1, <3>1, <3>4 DEF Found
      <4> QED
        BY <4>1 DEF Displaced, After
    <3> QED
      BY <1>8, <3>1, <3>2, <3>3, <3>4
  <2>2. ASSUME NEW x \in P PROVE x \in Found(t, C)
    <3>1. x \in 1..m /\ s[x] \in C
      BY <2>2 DEF Found, Until
    <3> QED
      BY <1>7, <1>9, <3>1 DEF Found
  <2>3. ASSUME NEW x \in Q PROVE x \in Found(t, C)
    <3>1. PICK y \in 1..k : x = y + m /\ new[y] \in C
      BY <1>1, <2>3 DEF Found, Displaced
    <3> QED
      BY <1>7, <1>10, <3>1 DEF Found
  <2>4. ASSUME NEW x \in T PROVE x \in Found(t, C)
    <3>1. PICK y \in (n + 1)..l : x = y + d /\ s[y] \in C
      BY <1>1, <2>4 DEF Found, Displaced, After
    <3> QED
      BY <1>7, <1>11, <3>1 DEF Found
  <2> HIDE DEF P, Q, T
  <2>5. Found(t, C) = P \cup Q \cup T
    BY <2>1, <2>2, <2>3, <2>4
  <2> QED
    BY <2>5 DEF P, Q, T
<1>13. Splice(s, m, n, new) = t
  BY <1>1 DEF Splice, t, w, u, v
<1> QED
  BY <1>1, <1>6, <1>7, <1>12, <1>13

(* The offsets brought up to date are those of the edited text.            *)
LEMMA UpdateIs ==
    ASSUME NEW A, text \in Seq(A), offsets = AllOffsets(text), NEW new \in Seq(A),
           NEW m \in Nat, NEW n \in Nat, m <= n, n <= Len(text)
    PROVE  updateLineOffsets(PositionOf(text, m).line, PositionOf(text, n).line, m, new,
                             Len(new) - (n - m))
           = AllOffsets(Splice(text, m, n, new))
<1> DEFINE S == Starts(text)
           N == Found(new, {Newline})
           o == offsets
<1>0. Lists(o, S)
  BY OffsetsAre
<1>1. PICK l \in Nat : l = Len(o) /\ Lists(o, S)
  BY <1>0 DEF Lists
<1>2. PICK a \in 0..(l - 1) : /\ PositionOf(text, m).line = a
                              /\ \A i \in 1..l : i <= a + 1 <=> o[i] <= m
  <2>1. \E c \in 0..(l - 1) :
           /\ PositionOf(text, m) = [line |-> c, character |-> m - offsets[c + 1]]
           /\ \A i \in 1..l : i <= c + 1 <=> offsets[i] <= m
    BY <1>1, LineIs
  <2> QED
    BY <2>1
<1>3. PICK b \in 0..(l - 1) : /\ PositionOf(text, n).line = b
                              /\ \A i \in 1..l : i <= b + 1 <=> o[i] <= n
  <2>1. \E c \in 0..(l - 1) :
           /\ PositionOf(text, n) = [line |-> c, character |-> n - offsets[c + 1]]
           /\ \A i \in 1..l : i <= c + 1 <=> offsets[i] <= n
    BY <1>1, LineIs
  <2> QED
    BY <2>1
<1>4. \A i \in 1..l : o[i] \in Nat
  BY <1>1 DEF Lists
<1>5. a <= b
  <2>1. a + 1 \in 1..l
    BY <1>2
  <2>2. o[a + 1] <= m
    BY <1>2, <2>1
  <2>3. o[a + 1] <= n
    BY <1>4, <2>1, <2>2
  <2>4. a + 1 <= b + 1
    BY <1>3, <2>1, <2>3
  <2> QED
    BY <2>4
<1>6. PICK k \in Nat : k = Len(new)
  OBVIOUS
<1>7. PICK d \in Int : d = k - (n - m)
  OBVIOUS
<1>8. PICK e : e = LineEnds(new) /\ Lists(e, N)
  BY OffsetsAre
<1>9. PICK j \in Nat : j = Len(e) /\ DOMAIN e = 1..j /\ \A i \in 1..j : e[i] \in Nat
  BY <1>8 DEF Lists
<1>10. N \in SUBSET (1..k)
  BY <1>6 DEF Found
<1>11. S \in SUBSET Nat
  BY DEF Starts, Found
<1> DEFINE P == SubSeq(o, 1, a + 1)
           Q == [i \in 1..Len(e) |-> e[i] + m]
           T == SubSeq(o, (b + 1) + 1, Len(o))
           U == [i \in 1..Len(T) |-> T[i] + d]
           moved == [i \in 1..l |-> IF i >= b + 2 THEN o[i] + d ELSE o[i]]
<1>12. Lists(P, Until(S, m))
  <2>1. a + 1 \in 0..Len(o) /\ \A i \in 1..Len(o) : i <= a + 1 <=> o[i] <= m
    BY <1>1, <1>2
  <2> HIDE DEF S
  <2> QED
    BY <1>1, <2>1, ListsPart
<1>13. Lists(T, After(S, n))
  <2>1. PICK c \in 0..Len(o) : c = b + 1 /\ \A i \in 1..Len(o) : i <= c <=> o[i] <= n
    <3>1. b + 1 \in 0..Len(o)
      BY <1>1
    <3> QED
      BY <1>1, <1>3, <3>1
  <2>2. Lists(SubSeq(o, c + 1, Len(o)), After(S, n))
    <3> HIDE DEF S, T, o
    <3> QED
      BY <1>1, <2>1, ListsPart
  <2>3. T = SubSeq(o, c + 1, Len(o))
    BY <2>1
  <2> QED
    BY <2>2, <2>3
<1>14. Lists(Q, Displaced(N, m))
  <2>1. \A x \in N : x + m \in Nat
    BY <1>10
  <2>2. m \in Int
    OBVIOUS
  <2> HIDE DEF N
  <2> QED
    BY <1>8, <2>1, <2>2, ListsShift
<1>15. Lists(U, Displaced(After(S, n), d))
  <2> DEFINE V == After(S, n)
  <2>1. \A x \in V : x + d \in Nat
    BY <1>7, <1>11 DEF After
  <2> HIDE DEF T, V
  <2>2. Lists(T, V)
    BY <1>13 DEF V
  <2>3. Lists(U, Displaced(V, d))
    BY <2>1, <2>2, ListsShift
  <2> QED
    BY <2>3 DEF V
<1>16. SubSeq(moved, 1, a + 1) = P
  <2>1. o \in Seq(Int) /\ moved \in Seq(Int) /\ Len(moved) = l /\ Len(o) = l
    <3>1. moved \in [1..l -> Int]
      BY <1>4
    <3> HIDE DEF moved
    <3>2. moved \in Seq(Int) /\ Len(moved) = l
      BY <3>1
    <3>3. o \in Seq(Nat)
      BY <1>1 DEF Lists
    <3> QED
      BY <1>1, <3>2, <3>3
  <2>2. \A i \in 1..(a + 1) : i \in 1..l /\ moved[i] = o[i]
    BY <1>2, <1>5
  <2> HIDE DEF moved, o
  <2>3. a + 1 \in 0..l
    BY <1>2
  <2>4. /\ SubSeq(moved, 1, a + 1) \in Seq(Int) /\ Len(SubSeq(moved, 1, a + 1)) = a + 1
        /\ \A i \in 1..(a + 1) : SubSeq(moved, 1, a + 1)[i] = moved[i]
    <3>1. PICK c \in Nat : c = a + 1 /\ 1 <= c /\ c \in Int
      BY <2>3
    <3>2. \A i \in 1..c : moved[i] \in Int
      BY <2>1, <2>3, <3>1
    <3>3. (IF 1 <= c THEN c - 1 + 1 ELSE 0) = c /\ \A i \in 1..c : i \in 1..(c - 1 + 1) /\ 1 + i - 1 = i
      BY <3>1
    <3>4. /\ SubSeq(moved, 1, c) \in Seq(Int) /\ Len(SubSeq(moved, 1, c)) = c
          /\ \A i \in 1..(c - 1 + 1) : SubSeq(moved, 1, c)[i] = moved[1 + i - 1]
      BY <3>1, <3>2, <3>3, SubSeqProperties
    <3> QED
      BY <3>1, <3>3, <3>4
  <2>5. P \in Seq(Int) /\ Len(P) = a + 1 /\ \A i \in 1..(a + 1) : P[i] = o[i]
    BY <2>1, <2>3
  <2> HIDE DEF P
  <2>6. PICK f : f = SubSeq(moved, 1, a + 1)
    OBVIOUS
  <2>7. f \in Seq(Int) /\ Len(f) = a + 1 /\ \A i \in 1..(a + 1) : f[i] = P[i]
    BY <2>2, <2>4, <2>5, <2>6
  <2>8. f = P
    BY <2>5, <2>7
  <2> QED
    BY <2>6, <2>8
<1>17. SubSeq(moved, b + 2, Len(moved)) = U
  <2>1. o \in Seq(Int) /\ moved \in Seq(Int) /\ Len(moved) = l /\ Len(o) = l
    <3>1. moved \in [1..l -> Int]
      BY <1>4
    <3> HIDE DEF moved
    <3>2. moved \in Seq(Int) /\ Len(moved) = l
      BY <3>1
    <3>3. o \in Seq(Nat)
      BY <1>1 DEF Lists
    <3> QED
      BY <1>1, <3>2, <3>3
  <2>2. PICK c \in Nat : c = b + 2 /\ c \in 1..(l + 1) /\ c = (b + 1) + 1
    BY <1>3
  <2>3. PICK r \in Nat : r = l - c + 1
    <3>1. l - c + 1 \in Nat
      BY <2>2
    <3> QED
      BY <3>1
  <2>4. \A i \in 1..r : /\ c + i - 1 \in 1..l /\ c + i - 1 >= b + 2
                        /\ moved[c + i - 1] = o[c + i - 1] + d
    BY <2>2, <2>3
  <2> HIDE DEF moved, o
  <2>5. PICK f : f = SubSeq(moved, c, l)
    OBVIOUS
  <2>6. f \in Seq(Int) /\ Len(f) = r /\ \A i \in 1..r : f[i] = moved[c + i - 1]
    <3>1. \A i \in c..l : moved[i] \in Int
      BY <2>1, <2>2
    <3>2. r = (IF c <= l THEN l - c + 1 ELSE 0) /\ c \in Int /\ l \in Int
      BY <2>2, <2>3
    <3>3. /\ SubSeq(moved, c, l) \in Seq(Int) /\ Len(SubSeq(moved, c, l)) = r
          /\ \A i \in 1..(l - c + 1) : SubSeq(moved, c, l)[i] = moved[c + i - 1]
      BY <3>1, <3>2, SubSeqProperties
    <3> QED
      BY <2>3, <2>5, <3>3
  <2>7. PICK g : g = T
    OBVIOUS
  <2>8. g \in Seq(Int) /\ Len(g) = r /\ \A i \in 1..r : g[i] = o[c + i - 1]
    <3>1. \A i \in c..l : o[i] \in Int
      BY <2>1, <2>2
    <3>2. r = (IF c <= l THEN l - c + 1 ELSE 0) /\ c \in Int /\ l \in Int
      BY <2>2, <2>3
    <3>3. /\ SubSeq(o, c, l) \in Seq(Int) /\ Len(SubSeq(o, c, l)) = r
          /\ \A i \in 1..(l - c + 1) : SubSeq(o, c, l)[i] = o[c + i - 1]
      BY <3>1, <3>2, SubSeqProperties
    <3>4. g = SubSeq(o, c, l)
      BY <2>1, <2>2, <2>7
    <3> QED
      BY <2>3, <3>3, <3>4
  <2> HIDE DEF T
  <2>9. U = [i \in 1..r |-> g[i] + d]
    BY <2>7, <2>8
  <2>10. f = [i \in 1..r |-> f[i]]
    BY <2>6
  <2>11. \A i \in 1..r : f[i] = g[i] + d
    BY <2>4, <2>6, <2>8
  <2>12. f = U
    BY <2>9, <2>10, <2>11
  <2> QED
    BY <2>1, <2>2, <2>5, <2>12
<1>18. [i \in DOMAIN e |-> m + e[i]] = Q
  BY <1>9
<1>19. Moved(b, d) = moved
  <2>1. DOMAIN o = 1..l
    BY <1>1 DEF Lists
  <2> QED
    BY <2>1 DEF Moved
<1>20. updateLineOffsets(a, b, m, new, d) = (P \o Q) \o U
  <2> HIDE DEF P, Q, U, moved, o
  <2> QED
    BY <1>8, <1>16, <1>17, <1>18, <1>19 DEF updateLineOffsets
<1> DEFINE B == Until(S, m)
           I == Displaced(N, m)
           D == Displaced(After(S, n), d)
<1>21. Lists((P \o Q) \o U, (B \cup I) \cup D)
  <2>0. \A y \in I : y \in Nat /\ m < y /\ y <= m + k
    <3> TAKE y \in I
    <3>1. PICK z \in N : y = z + m
      BY DEF Displaced
    <3>2. z \in 1..k
      BY <1>10
    <3> QED
      BY <3>1, <3>2
  <2>5. \A x \in B : x \in Nat /\ x <= m
    BY <1>11 DEF Until
  <2>1. \A x \in B, y \in I : x < y
    <3> HIDE DEF B, I
    <3> QED
      BY <2>0, <2>5
  <2>2. \A x \in B \cup I, y \in D : x < y
    <3>1. \A x \in B \cup I : x \in Nat /\ x <= m + k
      <4> HIDE DEF B, I
      <4> QED
        BY <2>0, <2>5
    <3>2. \A y \in D : y \in Int /\ m + k < y
      <4> TAKE y \in D
      <4>1. PICK z \in S : y = z + d /\ z > n
        BY DEF Displaced, After
      <4> QED
        BY <1>7, <1>11, <4>1
    <3> HIDE DEF B, I, D
    <3> QED
      BY <3>1, <3>2
  <2>3. Lists(P, B) /\ Lists(Q, I) /\ Lists(U, D)
    BY <1>12, <1>14, <1>15
  <2> HIDE DEF B, I, D, P, Q, U
  <2>4. Lists(P \o Q, B \cup I)
    BY <2>1, <2>3, ListsJoin
  <2> QED
    BY <2>2, <2>3, <2>4, ListsJoin
<1> DEFINE t == Splice(text, m, n, new)
<1>22. t \in Seq(A) /\ Starts(t) = (B \cup I) \cup D
  <2> DEFINE F == Found(text, {Newline})
  <2>1. /\ t \in Seq(A)
        /\ Found(t, {Newline}) = Until(F, m) \cup Displaced(N, m)
                                 \cup Displaced(After(F, n), Len(new) - (n - m))
    BY SpliceIs
  <2>4. Len(new) - (n - m) = d
    BY <1>6, <1>7
  <2> HIDE DEF t, N
  <2>2. B = {0} \cup Until(F, m)
    BY DEF Starts, Until
  <2>3. After(S, n) = After(F, n)
    BY DEF Starts, After
  <2> QED
    BY <2>1, <2>2, <2>3, <2>4 DEF Starts
<1>23. Lists(AllOffsets(t), (B \cup I) \cup D)
  BY <1>22, OffsetsAre
<1> HIDE DEF B, I, D, P, Q, U, t
<1>24. (P \o Q) \o U = AllOffsets(t)
  BY <1>21, <1>23, ListsOnce
<1> QED
  BY <1>2, <1>3, <1>6, <1>7, <1>20, <1>24 DEF t

-----------------------------------------------------------------------------
(* The tokens of a document.                                               *)

(* Where the character i of the text that was opened is.                   *)
MarkOf(i) == [ln |-> PositionOf(opened, i - 1).line, ch |-> PositionOf(opened, i - 1).character]
BeforeToken(k) == IF k = 1 THEN [ln |-> 0, ch |-> 0] ELSE tokens[k - 1]

(* A token has the position of its letter.                                 *)
LEMMA TokensAre ==
    ASSUME NEW A, opened \in Seq(A), tokens = TokensOf(opened)
    PROVE  \E m \in Nat : /\ DOMAIN tokens = 1..m
                          /\ \A k \in 1..m : tokens[k] \in [ln : Int, ch : Int]
                          /\ {tokens[k] : k \in 1..m} = {MarkOf(i) : i \in Found(opened, Letter)}
<1>1. PICK e : e = Where(opened, Letter) /\ Lists(e, Found(opened, Letter))
  BY WhereLists
<1>2. PICK m \in Nat : DOMAIN e = 1..m /\ Len(e) = m
  BY <1>1 DEF Lists
<1> DEFINE ends == LineEnds(opened)
           Line(i) == 1 + Cardinality({j \in DOMAIN ends : ends[j] < i})
<1>3. tokens = [k \in DOMAIN e |-> toLspPos(e[k] - 1, Line(e[k]), opened)]
  BY <1>1 DEF TokensOf
<1>4. ASSUME NEW i \in 1..Len(opened)
      PROVE  toLspPos(i - 1, Line(i), opened) = MarkOf(i) /\ MarkOf(i) \in [ln : Int, ch : Int]
  <2>1. PICK n \in Nat : n = i - 1
    OBVIOUS
  <2>2. PICK c \in 0..Len(ends) :
              /\ PositionOf(opened, n) = [line |-> c, character |-> n - AllOffsets(opened)[c + 1]]
              /\ Cardinality({j \in DOMAIN ends : ends[j] <= n}) = c
    <3>1. \E c \in 0..Len(ends) :
             /\ PositionOf(opened, n) = [line |-> c, character |-> n - AllOffsets(opened)[c + 1]]
             /\ \A j \in 1..Len(AllOffsets(opened)) : j <= c + 1 <=> AllOffsets(opened)[j] <= n
             /\ Cardinality({j \in DOMAIN ends : ends[j] <= n}) = c
      BY PositionIs
    <3> QED
      BY <3>1
  <2>3. PICK l \in Nat : l = Len(ends) /\ DOMAIN ends = 1..l /\ \A j \in 1..l : ends[j] \in Nat
    <3>1. Lists(ends, Found(opened, {Newline}))
      BY OffsetsAre
    <3>2. PICK e1 : e1 = ends
      OBVIOUS
    <3> HIDE DEF ends
    <3>3. e1 \in Seq(Nat)
      BY <3>1, <3>2 DEF Lists
    <3>4. Len(e1) \in Nat /\ DOMAIN e1 = 1..Len(e1) /\ \A j \in 1..Len(e1) : e1[j] \in Nat
      BY <3>3
    <3> QED
      BY <3>2, <3>4
  <2>4. \A j \in 1..l : ends[j] < i <=> ends[j] <= n
    <3> HIDE DEF ends
    <3> QED
      BY <2>1, <2>3
  <2>5. {j \in DOMAIN ends : ends[j] < i} = {j \in DOMAIN ends : ends[j] <= n}
    <3> HIDE DEF ends
    <3> QED
      BY <2>3, <2>4
  <2>6. Line(i) = c + 1 /\ (c + 1) - 1 = c
    <3>1. c \in Nat
      BY <2>3
    <3>2. Cardinality({j \in DOMAIN ends : ends[j] < i}) = c
      BY <2>2, <2>5
    <3>3. Line(i) = 1 + c
      BY <3>2
    <3> QED
      BY <3>1, <3>3
  <2>7. AllOffsets(opened)[c + 1] \in Nat
    <3>1. Lists(AllOffsets(opened), Starts(opened)) /\ Len(AllOffsets(opened)) = l + 1
      BY <2>3, OffsetsAre
    <3>2. c + 1 \in 1..(l + 1)
      BY <2>3
    <3> QED
      BY <3>1, <3>2 DEF Lists
  <2> HIDE DEF Line, ends
  <2>8. MarkOf(i) = [ln |-> c, ch |-> n - AllOffsets(opened)[c + 1]]
    BY <2>1, <2>2 DEF MarkOf
  <2>9. toLspPos(i - 1, Line(i), opened) = [ln |-> c, ch |-> n - AllOffsets(opened)[c + 1]]
    BY <2>1, <2>6 DEF toLspPos
  <2>10. c \in Int /\ n - AllOffsets(opened)[c + 1] \in Int
    BY <2>3, <2>7
  <2> QED
    BY <2>8, <2>9, <2>10
<1> HIDE DEF Line, ends
<1>5. \A k \in 1..m : e[k] \in 1..Len(opened) /\ e[k] \in Found(opened, Letter)
  BY <1>1, <1>2 DEF Lists, Found
<1>6. DOMAIN tokens = 1..m /\ \A k \in 1..m : tokens[k] = MarkOf(e[k]) /\ tokens[k] \in [ln : Int, ch : Int]
  BY <1>2, <1>3, <1>4, <1>5
<1>7. {tokens[k] : k \in 1..m} = {MarkOf(i) : i \in Found(opened, Letter)}
  <2>1. \A i \in Found(opened, Letter) : \E k \in 1..m : e[k] = i
    BY <1>1, <1>2 DEF Lists
  <2>2. ASSUME NEW k \in 1..m PROVE \E i \in Found(opened, Letter) : tokens[k] = MarkOf(i)
    BY <1>5, <1>6
  <2>3. ASSUME NEW i \in Found(opened, Letter) PROVE \E k \in 1..m : tokens[k] = MarkOf(i)
    <3>1. PICK k \in 1..m : e[k] = i
      BY <2>1
    <3> QED
      BY <1>6, <3>1
  <2> QED
    BY <2>2, <2>3
<1> QED
  BY <1>6, <1>7

(* Adding the differences up gives the tokens back.                        *)
LEMMA ReceivedAre ==
    ASSUME NEW m \in Nat, DOMAIN tokens = 1..m, \A k \in 1..m : tokens[k] \in [ln : Int, ch : Int]
    PROVE  Received = {tokens[k] : k \in 1..m}
<1> DEFINE full == semanticTokensToFull(tokens)
           Zero == [ln |-> 0, ch |-> 0]
           Next(g, k) == [ln |-> g[k - 1].ln + full[k].ln,
                          ch |-> full[k].ch + (IF full[k].ln = 0 THEN g[k - 1].ch ELSE 0)]
           R(g) == [k \in 0..m |-> IF k = 0 THEN Zero ELSE Next(g, k)]
           h == [k \in 0..m |-> IF k = 0 THEN Zero ELSE tokens[k]]
           G == CHOOSE g : g = R(g)
<1>1. DOMAIN full = 1..m /\ Len(full) = m
  BY DEF semanticTokensToFull
<1>2. \A k \in 1..m : full[k] = [ln |-> tokens[k].ln - BeforeToken(k).ln,
                                 ch |-> tokens[k].ch
                                        - (IF BeforeToken(k).ln = tokens[k].ln THEN BeforeToken(k).ch ELSE 0)]
  BY DEF semanticTokensToFull, BeforeToken
<1>3. Received = {G[k] : k \in 1..m}
  BY <1>1 DEF Received
<1>4. \A k \in 1..m : BeforeToken(k) \in [ln : Int, ch : Int]
  <2> TAKE k \in 1..m
  <2>1. CASE k = 1
    BY <2>1 DEF BeforeToken
  <2>2. CASE k # 1
    <3>1. k - 1 \in 1..m
      BY <2>2
    <3> QED
      BY <2>2, <3>1 DEF BeforeToken
  <2> QED
    BY <2>1, <2>2
<1> HIDE DEF full
<1>5. ASSUME NEW g, NEW k \in 1..m, g[k - 1] = BeforeToken(k) PROVE Next(g, k) = tokens[k]
  <2>1. PICK i \in Int, j \in Int : tokens[k] = [ln |-> i, ch |-> j]
    OBVIOUS
  <2>2. PICK a \in Int, b \in Int : BeforeToken(k) = [ln |-> a, ch |-> b]
    BY <1>4
  <2>3. full[k] = [ln |-> i - a, ch |-> j - (IF a = i THEN b ELSE 0)]
    <3>1. tokens[k].ln = i /\ tokens[k].ch = j
      BY <2>1
    <3>2. BeforeToken(k).ln = a /\ BeforeToken(k).ch = b
      BY <2>2
    <3> QED
      BY <1>2, <3>1, <3>2
  <2>4. Next(g, k) = [ln |-> a + (i - a),
                      ch |-> (j - (IF a = i THEN b ELSE 0)) + (IF i - a = 0 THEN b ELSE 0)]
    <3>1. g[k - 1].ln = a /\ g[k - 1].ch = b
      BY <1>5, <2>2
    <3>2. full[k].ln = i - a /\ full[k].ch = j - (IF a = i THEN b ELSE 0)
      BY <2>3
    <3> QED
      BY <3>1, <3>2
  <2>5. /\ a + (i - a) = i
        /\ (j - (IF a = i THEN b ELSE 0)) + (IF i - a = 0 THEN b ELSE 0) = j
    OBVIOUS
  <2> QED
    BY <2>1, <2>4, <2>5
<1>6. \A k \in 1..m : h[k - 1] = BeforeToken(k)
  BY DEF BeforeToken
<1>7. h = R(h)
  <2>1. \A k \in 0..m : k # 0 => k \in 1..m
    OBVIOUS
  <2>2. \A k \in 0..m : k # 0 => Next(h, k) = tokens[k]
    <3> HIDE DEF h, Next
    <3> QED
      BY <1>5, <1>6, <2>1
  <2>3. h = [k \in 0..m |-> IF k = 0 THEN Zero ELSE tokens[k]]
    OBVIOUS
  <2> HIDE DEF h, Next, Zero
  <2> QED
    BY <2>2, <2>3
<1>8. G = R(G)
  <2>1. \E g : g = R(g)
    BY <1>7
  <2> HIDE DEF R
  <2> QED
    BY <2>1
<1> HIDE DEF G
<1>9. \A k \in 0..m : G[k] = IF k = 0 THEN Zero ELSE Next(G, k)
  BY <1>8
<1> HIDE DEF R
<1> DEFINE Wrong == {k \in 0..m : G[k] # h[k]}
<1>10. Wrong = {}
  <2> SUFFICES ASSUME Wrong # {} PROVE FALSE
    OBVIOUS
  <2>1. Wrong \in SUBSET Nat
    OBVIOUS
  <2> HIDE DEF Wrong
  <2>2. PICK k \in Wrong : \A l \in Wrong : k <= l
    BY <2>1, Smallest
  <2>3. k \in 0..m /\ G[k] # h[k]
    BY <2>2 DEF Wrong
  <2>4. k \in 1..m
    <3>1. G[0] = h[0]
      <4>1. 0 \in 0..m
        OBVIOUS
      <4>2. h[0] = Zero
        BY <4>1
      <4> HIDE DEF h, Next, Zero
      <4> QED
        BY <1>9, <4>1, <4>2
    <3> QED
      BY <2>3, <3>1
  <2>5. k - 1 \in 0..m /\ ~ (k <= k - 1)
    BY <2>4
  <2>6. G[k - 1] = h[k - 1]
    BY <2>2, <2>5 DEF Wrong
  <2>7. Next(G, k) = tokens[k]
    <3> HIDE DEF h, Next
    <3> QED
      BY <1>5, <1>6, <2>4, <2>6
  <2>8. G[k] = Next(G, k) /\ h[k] = tokens[k]
    <3> HIDE DEF Next
    <3> QED
      BY <1>9, <2>3, <2>4
  <2> QED
    BY <2>3, <2>7, <2>8
<1>11. \A k \in 1..m : G[k] = tokens[k]
  <2> TAKE k \in 1..m
  <2>1. k \in 0..m /\ k # 0
    OBVIOUS
  <2> QED
    BY <1>10, <2>1
<1> QED
  BY <1>3, <1>11

-----------------------------------------------------------------------------
(* The server's copy is the client's text, cut into its lines, and the     *)
(* tokens are those of the text that was opened.                           *)
DocumentInv ==
    /\ clientText \in Seq(Chars) /\ Len(clientText) <= MaxText
    /\ opened \in Seq(Chars)
    /\ text = clientText
    /\ offsets = AllOffsets(text)
    /\ tokens = TokensOf(opened)

LEMMA TextsAre ==
    ASSUME NEW max \in Nat, NEW s
    PROVE  s \in Texts(max) <=> s \in Seq(Chars) /\ Len(s) <= max
<1>1. s \in Texts(max) => s \in Seq(Chars) /\ Len(s) <= max
  BY DEF Texts, Chars
<1>2. ASSUME s \in Seq(Chars), Len(s) <= max PROVE s \in Texts(max)
  <2>1. PICK n \in 0..max : n = Len(s)
    BY <1>2
  <2>2. s \in [1..n -> Chars]
    BY <1>2, <2>1
  <2> QED
    BY <2>1, <2>2 DEF Texts, Chars
<1> QED
  BY <1>1, <1>2

LEMMA DocumentInvIs == DocumentInv => DocumentIsClients
<1> SUFFICES ASSUME DocumentInv PROVE DocumentIsClients
  OBVIOUS
<1>1. text \in Seq(Chars) /\ opened \in Seq(Chars)
  BY DEF DocumentInv
<1>2. text \in Texts(MaxText)
  BY DocumentAssumption, TextsAre DEF DocumentInv
<1>3. \A i \in DOMAIN offsets : offsets[i] \in 0..Len(text)
  <2>1. Lists(offsets, Starts(text))
    BY <1>1, OffsetsAre DEF DocumentInv
  <2>2. Starts(text) \in SUBSET (0..Len(text))
    BY <1>1 DEF Starts, Found
  <2> QED
    BY <2>1, <2>2 DEF Lists
<1>4. TokensMarkLetters
  <2>1. PICK m \in Nat : /\ DOMAIN tokens = 1..m
                         /\ \A k \in 1..m : tokens[k] \in [ln : Int, ch : Int]
                         /\ {tokens[k] : k \in 1..m} = {MarkOf(i) : i \in Found(opened, Letter)}
    BY <1>1, TokensAre DEF DocumentInv
  <2>2. Received = {MarkOf(i) : i \in Found(opened, Letter)}
    BY <2>1, ReceivedAre
  <2>3. Found(opened, Letter) = {j \in DOMAIN opened : opened[j] \in Letter}
    BY <1>1 DEF Found
  <2> QED
    BY <2>2, <2>3 DEF TokensMarkLetters, MarkOf
<1> QED
  BY <1>2, <1>3, <1>4 DEF DocumentInv, DocumentIsClients, DocumentTypeOK, SameText, OffsetsMatch

(* A change with a range is made to the copy as it was made by the client. *)
LEMMA RangeKeeps ==
    ASSUME DocumentInv, NEW m \in 0..Len(clientText), NEW n \in 0..Len(clientText), m <= n,
           NEW new \in Texts(MaxInsert), ChangeRange(m, n, new)
    PROVE  DocumentInv'
<1>1. text \in Seq(Chars) /\ text = clientText /\ offsets = AllOffsets(text)
  BY DEF DocumentInv
<1>2. new \in Seq(Chars) /\ m \in Nat /\ n \in Nat
  BY DocumentAssumption, TextsAre
<1>3. /\ getStrictOffset(PositionOf(clientText, m)) = m
      /\ getStrictOffset(PositionOf(clientText, n)) = n
  BY <1>1, StrictOffsetIs
<1>4. INVALID_OFFSET \notin {m, n}
  BY <1>2 DEF INVALID_OFFSET
<1>5. /\ clientText' = Splice(text, m, n, new) /\ Len(clientText') <= MaxText
      /\ text' = Splice(text, m, n, new)
      /\ offsets' = updateLineOffsets(PositionOf(text, m).line, PositionOf(text, n).line, m, new,
                                      Len(new) - (n - m))
      /\ opened' = opened /\ tokens' = tokens
  BY <1>1, <1>3, <1>4 DEF ChangeRange
<1>6. offsets' = AllOffsets(Splice(text, m, n, new))
  BY <1>1, <1>2, <1>5, UpdateIs
<1>7. Splice(text, m, n, new) \in Seq(Chars)
  BY <1>1, <1>2, SpliceIs
<1> QED
  BY <1>5, <1>6, <1>7 DEF DocumentInv, TokensOf

(* Whatever is opened and edited: the server's copy of the text is the     *)
(* client's, no edit refused, its lines begin where the text's do, and the *)
(* client, adding up the differences, marks the letters of what it opened. *)
THEOREM DocumentStaysTheClients == DocumentSpec => []DocumentIsClients
<1>1. DocumentInit => DocumentInv
  <2> SUFFICES ASSUME DocumentInit PROVE DocumentInv
    OBVIOUS
  <2>1. <<>> \in Seq(Chars) /\ Len(<<>>) <= MaxText
    BY DocumentAssumption
  <2>2. Where(<<>>, Letter) = <<>>
    <3>1. Lists(Where(<<>>, Letter), Found(<<>>, Letter))
      BY <2>1, WhereLists
    <3>2. Lists(<<>>, Found(<<>>, Letter))
      BY DEF Lists, Found
    <3> QED
      BY <3>1, <3>2, ListsOnce
  <2>3. TokensOf(<<>>) = <<>>
    <3>1. DOMAIN <<>> = {} /\ <<>> = [k \in {} |-> k]
      OBVIOUS
    <3> QED
      BY <2>2, <3>1 DEF TokensOf
  <2> QED
    BY <2>1, <2>3 DEF DocumentInit, DocumentInv
<1>2. DocumentInv /\ [DocumentNext]_documentVars => DocumentInv'
  <2> SUFFICES ASSUME DocumentInv, [DocumentNext]_documentVars PROVE DocumentInv'
    OBVIOUS
  <2>1. ASSUME NEW s \in Texts(MaxText), DidOpenText(s) \/ ChangeAll(s) PROVE DocumentInv'
    <3>1. s \in Seq(Chars) /\ Len(s) <= MaxText
      BY DocumentAssumption, TextsAre
    <3>2. CASE DidOpenText(s)
      BY <3>1, <3>2 DEF DidOpenText, DocumentInv
    <3>3. CASE ChangeAll(s)
      BY <3>1, <3>3 DEF ChangeAll, DocumentInv
    <3> QED
      BY <2>1, <3>2, <3>3
  <2>2. ASSUME NEW m \in 0..Len(clientText), NEW n \in 0..Len(clientText), m <= n,
               NEW new \in Texts(MaxInsert), ChangeRange(m, n, new)
        PROVE  DocumentInv'
    BY <2>2, RangeKeeps
  <2>3. CASE UNCHANGED documentVars
    BY <2>3 DEF documentVars, DocumentInv
  <2> QED
    BY <2>1, <2>2, <2>3 DEF DocumentNext
<1> QED
  BY <1>1, <1>2, DocumentInvIs, PTL DEF DocumentSpec

-----------------------------------------------------------------------------
(* The table of types.                                                     *)

TypeRecord == [kind : Kind, element : Nat, len : Nat]

Labels == {"lock", "wait", "asleep", "find", "make", "unlock", "notify"}
Inside == {"find", "make", "unlock"}

(* The condition of the theorem: the bits above an address hold every       *)
(* length that is asked for.  makeArray moves a longer one out of the key.  *)
LengthFits(n) == (n + 1) * AddressSpace <= KeySpace
LengthsFit == \A t \in TypeThread : \A i \in 1..Len(Requests[t]) : LengthFits(Requests[t][i].len)

(* The addresses given out so far stay below those bits.                   *)
AddressesFit == Cardinality(Basic) + Len(heap) <= AddressSpace

Made(a)   == a \in Cardinality(Basic)..(Cardinality(Basic) + Len(heap) - 1)
Asking(t) == [kind |-> KindOf(t), element |-> ElementOf(t), len |-> Asked(t).len]
KeyFor(r) == IF r.kind = "pointer" THEN r.element ELSE combineHash(r.element, r.len)

(* What may be asked for: its element is a basic type or one that was made. *)
Proper(r) ==
    /\ r \in TypeRecord
    /\ r.element \in Basic \/ Made(r.element)
    /\ LengthFits(r.len) /\ (r.kind = "pointer" => r.len = 0)

TypesTyped ==
    /\ heap \in Seq(TypeRecord)
    /\ lock \in [Kind -> BOOLEAN]
    /\ at \in [TypeThread -> Labels]
    /\ got \in [TypeThread -> Nat]
    /\ results \in [TypeThread -> Seq(Nat)]
    /\ DOMAIN entries = Kind
    /\ \A i \in 1..Len(heap) : Proper(heap[i])
    /\ \A t \in TypeThread :
         /\ Len(results[t]) <= Len(Requests[t])
         /\ \A i \in 1..Len(results[t]) : Made(results[t][i])
         /\ at[t] # "lock" => Busy(t)
         /\ at[t] \in {"unlock", "notify"} => Made(got[t])

(* A thread that is at the set of a kind has its lock, alone.               *)
LockHeld ==
    \A t \in TypeThread : at[t] \in Inside =>
        /\ lock[KindOf(t)]
        /\ \A s \in TypeThread \ {t} : at[s] \in Inside => KindOf(s) # KindOf(t)

(* The sets are an index of the heap: a key leads to the type it is the key *)
(* of, and every type that was made is found by its key.                   *)
Indexed ==
    /\ \A k \in Kind : \A q \in DOMAIN entries[k] :
         /\ Made(entries[k][q])
         /\ TypeAt(entries[k][q]).kind = k /\ KeyFor(TypeAt(entries[k][q])) = q
    /\ \A i \in 1..Len(heap) : KeyFor(heap[i]) \in DOMAIN entries[heap[i].kind]

(* What was not found is still not there when it is made.                  *)
MakesWhatIsNew == \A t \in TypeThread : at[t] = "make" => ~Known(t)

TypesInv ==
    /\ TypesTyped /\ LockHeld /\ Indexed /\ Interned /\ MakesWhatIsNew
    /\ (AddressesFit => AsAsked)

USE TypeAssumption, RequestAssumption

LEMMA BasicIsFinite == Cardinality(Basic) \in Nat /\ AddressSpace \in Nat /\ KeySpace \in Nat
<1>1. IsFiniteSet(0..(AddressSpace - 1))
  <2>1. 0 \in Int /\ AddressSpace - 1 \in Int
    OBVIOUS
  <2> QED
    BY <2>1, FS_Interval
<1> QED
  BY <1>1, FS_Subset, FS_CardinalityType

LEMMA SmallRemainder ==
    ASSUME NEW A \in Nat, NEW M \in Nat, NEW x \in 0..(A - 1), NEW p \in Nat, p + A <= M
    PROVE  (x + p) % M = x + p
<1>1. PICK z \in Nat : z = x + p /\ z < M
  OBVIOUS
<1>2. z % M = z
  BY <1>1
<1> QED
  BY <1>1, <1>2

(* Two types of a kind have two keys.                                      *)
LEMMA KeysDiffer ==
    ASSUME AddressesFit, heap \in Seq(TypeRecord), NEW r, NEW s, Proper(r), Proper(s),
           r.kind = s.kind, KeyFor(r) = KeyFor(s)
    PROVE  r = s
<1> DEFINE A == AddressSpace
           M == KeySpace
<1>1. A \in Nat /\ M \in Nat /\ Len(heap) \in Nat /\ Cardinality(Basic) \in Nat
  BY BasicIsFinite
<1>2. /\ r \in TypeRecord /\ s \in TypeRecord
      /\ r.element \in 0..(A - 1) /\ s.element \in 0..(A - 1)
      /\ r.len \in Nat /\ s.len \in Nat
      /\ (r.len + 1) * A <= M /\ (s.len + 1) * A <= M
      /\ r.kind = "pointer" => r.len = 0 /\ s.len = 0
  <2>1. \A p : Proper(p) => /\ p \in TypeRecord /\ p.element \in Nat /\ p.len \in Nat
                           /\ (p.len + 1) * A <= M /\ (p.kind = "pointer" => p.len = 0)
    BY DEF Proper, TypeRecord, LengthFits
  <2>2. \A p : Proper(p) => p.element \in 0..(A - 1)
    BY <1>1 DEF Proper, Made, AddressesFit
  <2> QED
    BY <2>1, <2>2
<1>3. combineHash(r.element, r.len) = (r.element + r.len * A) % M
  BY DEF combineHash
<1>4. combineHash(s.element, s.len) = (s.element + s.len * A) % M
  BY DEF combineHash
<1> HIDE DEF A, M
<1>5. ASSUME NEW x \in 0..(A - 1), NEW n \in Nat, (n + 1) * A <= M
      PROVE  (x + n * A) % M = x + n * A
  <2>1. n * A \in Nat /\ (n + 1) * A = n * A + A
    BY <1>1, <1>5
  <2>2. PICK p \in Nat : p = n * A /\ p + A <= M
    BY <1>5, <2>1
  <2> QED
    BY <1>1, <2>2, SmallRemainder
<1>6. r.element = s.element /\ r.len = s.len
  <2>1. CASE r.kind = "pointer"
    BY <1>2, <2>1 DEF KeyFor
  <2>2. CASE r.kind # "pointer"
    <3>1. r.element + r.len * A = s.element + s.len * A
      BY <1>2, <1>3, <1>4, <1>5, <2>2 DEF KeyFor
    <3> QED
      <4>1. PICK x \in 0..(A - 1), y \in 0..(A - 1), m \in Nat, n \in Nat :
               x = r.element /\ y = s.element /\ m = r.len /\ n = s.len
        BY <1>2
      <4>2. x + m * A = y + n * A
        BY <3>1, <4>1
      <4>3. x = y /\ m = n
        BY <1>1, <4>2, Digits, SMTT(30)
      <4> QED
        BY <4>1, <4>3
  <2> QED
    BY <2>1, <2>2
<1> QED
  <2>1. /\ r = [kind |-> r.kind, element |-> r.element, len |-> r.len]
        /\ s = [kind |-> s.kind, element |-> s.element, len |-> s.len]
    BY <1>2 DEF TypeRecord
  <2> QED
    BY <1>6, <2>1

(* What a thread asks for depends on what it got alone.                    *)
LEMMA SameAsked ==
    ASSUME NEW u \in TypeThread, results'[u] = results[u]
    PROVE  /\ Busy(u)' <=> Busy(u)
           /\ KindOf(u)' = KindOf(u) /\ KeyOf(u)' = KeyOf(u) /\ Asking(u)' = Asking(u)
BY DEF Busy, KindOf, KeyOf, Asking, Asked, ElementOf

LEMMA AskedIsProper ==
    ASSUME TypesTyped, LengthsFit, NEW t \in TypeThread, Busy(t)
    PROVE  /\ Proper(Asking(t)) /\ KindOf(t) \in Kind /\ KeyFor(Asking(t)) = KeyOf(t)
           /\ Asking(t).kind = KindOf(t)
<1> DEFINE r == Asked(t)
           n == Len(results[t]) + 1
<1>1. /\ Requests[t] \in Seq(Request) /\ results[t] \in Seq(Nat)
      /\ n \in 1..Len(Requests[t]) /\ Len(results[t]) \in Nat
  BY DEF TypesTyped, Busy
<1>2. r \in Request /\ r = Requests[t][n]
  BY <1>1 DEF Asked
<1>3. /\ r.element.at \in IF r.element.basic THEN Basic ELSE 1..(n - 1)
      /\ r.kind = "pointer" => r.len = 0
  BY <1>1, <1>2
<1>4. LengthFits(r.len)
  BY <1>1, <1>2 DEF LengthsFit
<1>5. r.kind \in Kind /\ r.len \in Nat /\ r.element.basic \in BOOLEAN
  BY <1>2 DEF Request
<1>6. ElementOf(t) \in Nat /\ (ElementOf(t) \in Basic \/ Made(ElementOf(t)))
  <2>1. CASE r.element.basic
    <3>1. ElementOf(t) = r.element.at /\ r.element.at \in Basic
      BY <1>3, <2>1 DEF ElementOf
    <3>2. \A b \in Basic : b \in Nat
      OBVIOUS
    <3> QED
      BY <3>1, <3>2
  <2>2. CASE ~ r.element.basic
    <3>1. r.element.at \in 1..Len(results[t])
      BY <1>1, <1>3, <2>2
    <3>2. Made(results[t][r.element.at])
      BY <3>1 DEF TypesTyped
    <3>3. results[t][r.element.at] \in Nat
      <4>1. PICK s, i : s = results[t] /\ i = r.element.at /\ s \in Seq(Nat) /\ i \in 1..Len(s)
        BY <1>1, <3>1
      <4>2. s[i] \in Nat
        BY <4>1
      <4> QED
        BY <4>1, <4>2
    <3> QED
      BY <2>2, <3>2, <3>3 DEF ElementOf
  <2> QED
    BY <2>1, <2>2
<1> HIDE DEF r
<1>7. /\ Asking(t) \in TypeRecord /\ Asking(t).kind = KindOf(t)
      /\ Asking(t).element = ElementOf(t) /\ Asking(t).len = Asked(t).len
      /\ KindOf(t) = r.kind /\ Asked(t) = r
  BY <1>5, <1>6 DEF Asking, TypeRecord, KindOf, r
<1>8. KeyFor(Asking(t)) = KeyOf(t)
  BY <1>7 DEF KeyFor, KeyOf
<1>9. Proper(Asking(t))
  BY <1>3, <1>4, <1>6, <1>7 DEF Proper
<1> QED
  BY <1>5, <1>7, <1>8, <1>9
(* While nothing is made every address means what it meant.                *)
LEMMA HeapStays ==
    ASSUME heap' = heap
    PROVE  /\ \A a : (Made(a)' <=> Made(a)) /\ TypeAt(a)' = TypeAt(a)
           /\ \A r : Proper(r)' <=> Proper(r)
           /\ AddressesFit' <=> AddressesFit
BY DEF Made, TypeAt, Proper, AddressesFit, LengthFits

(* A new type gets the next address; the others stay where they are.       *)
LEMMA HeapGrows ==
    ASSUME heap \in Seq(TypeRecord), NEW r \in TypeRecord, heap' = Append(heap, r)
    PROVE  /\ heap' \in Seq(TypeRecord) /\ Len(heap') = Len(heap) + 1 /\ Len(heap) \in Nat
           /\ \A a : Made(a) => Made(a)' /\ TypeAt(a)' = TypeAt(a) /\ a \in Nat
                                /\ \E i \in 1..Len(heap) : TypeAt(a) = heap[i]
           /\ \A s : Proper(s) => Proper(s)'
           /\ \A i \in 1..Len(heap) : heap'[i] = heap[i]
           /\ heap'[Len(heap) + 1] = r
           /\ \E new \in Nat : /\ new = Address(Len(heap')) /\ ~ Made(new)
                              /\ Made(new)' /\ TypeAt(new)' = r
           /\ AddressesFit' => AddressesFit
<1>1. /\ heap' \in Seq(TypeRecord) /\ Len(heap') = Len(heap) + 1 /\ Len(heap) \in Nat
      /\ \A i \in 1..Len(heap) : heap'[i] = heap[i]
      /\ heap'[Len(heap) + 1] = r
  OBVIOUS
<1>2. Cardinality(Basic) \in Nat /\ AddressSpace \in Nat
  BY BasicIsFinite
<1>3. ASSUME NEW a, Made(a)
      PROVE  /\ Made(a)' /\ TypeAt(a)' = TypeAt(a) /\ a \in Nat
             /\ \E i \in 1..Len(heap) : TypeAt(a) = heap[i]
  <2>1. a - Cardinality(Basic) + 1 \in 1..Len(heap) /\ a \in Nat
    BY <1>1, <1>2, <1>3 DEF Made
  <2>2. Made(a)'
    BY <1>1, <1>2, <1>3 DEF Made
  <2> QED
    BY <1>1, <2>1, <2>2 DEF TypeAt
<1>4. ASSUME NEW s, Proper(s) PROVE Proper(s)'
  BY <1>3, <1>4 DEF Proper, LengthFits
<1>5. \E new \in Nat : new = Address(Len(heap')) /\ ~ Made(new) /\ Made(new)' /\ TypeAt(new)' = r
  <2>1. PICK new \in Nat : new = Cardinality(Basic) + Len(heap)
    BY <1>1, <1>2
  <2>2. Address(Len(heap')) = new
    BY <1>1, <1>2, <2>1 DEF Address
  <2>3. ~ Made(new)
    BY <1>1, <1>2, <2>1 DEF Made
  <2>4. Made(new)'
    BY <1>1, <1>2, <2>1 DEF Made
  <2>5. TypeAt(new)' = heap'[Len(heap) + 1]
    BY <1>1, <1>2, <2>1 DEF TypeAt
  <2> QED
    BY <1>1, <2>1, <2>2, <2>3, <2>4, <2>5
<1>6. AddressesFit' => AddressesFit
  BY <1>1, <1>2 DEF AddressesFit
<1> QED
  BY <1>1, <1>3, <1>4, <1>5, <1>6

LEMMA TypesTypedStep ==
    ASSUME TypesTyped, Indexed, LengthsFit, NEW t \in TypeThread, TypeStep(t)
    PROVE  TypesTyped'
<1> USE DEF Step, Labels
<1>0. /\ heap \in Seq(TypeRecord) /\ lock \in [Kind -> BOOLEAN]
      /\ at \in [TypeThread -> Labels] /\ got \in [TypeThread -> Nat]
      /\ results \in [TypeThread -> Seq(Nat)] /\ DOMAIN entries = Kind
      /\ \A i \in 1..Len(heap) : Proper(heap[i])
  BY DEF TypesTyped
<1>1. Busy(t) /\ KindOf(t) \in Kind /\ Proper(Asking(t)) /\ KeyFor(Asking(t)) = KeyOf(t)
  <2>1. Busy(t)
    BY DEF TypeStep, lockSet, WaitForKey, Find, Miss, Make, unlockSet, Notify
  <2> QED
    BY <2>1, AskedIsProper
(* The threads' side, for all but the last step of a request.               *)
<1>2. ASSUME results' = results, NEW l \in Labels, at' = [at EXCEPT ![t] = l],
             got' = got \/ (\E a \in Nat : got' = [got EXCEPT ![t] = a] /\ Made(a)'),
             l \in {"unlock", "notify"} => Made(got[t])',
             \A a : Made(a) => Made(a)'
      PROVE  /\ at' \in [TypeThread -> Labels] /\ got' \in [TypeThread -> Nat]
             /\ results' \in [TypeThread -> Seq(Nat)]
             /\ \A u \in TypeThread :
                  /\ Len(results'[u]) <= Len(Requests[u])
                  /\ \A i \in 1..Len(results'[u]) : Made(results[u][i])'
                  /\ at'[u] # "lock" => Busy(u)'
                  /\ at'[u] \in {"unlock", "notify"} => Made(got[u])'
  <2>1. \A u \in TypeThread : Busy(u)' <=> Busy(u)
    BY <1>2, SameAsked
  <2>2. at' \in [TypeThread -> Labels] /\ got' \in [TypeThread -> Nat]
    BY <1>0, <1>2
  <2>3. ASSUME NEW u \in TypeThread
        PROVE  /\ at'[u] # "lock" => Busy(u)'
               /\ at'[u] \in {"unlock", "notify"} => Made(got[u])'
    <3>1. CASE u = t
      BY <1>0, <1>1, <1>2, <2>1, <3>1
    <3>2. CASE u # t
      <4>1. at'[u] = at[u] /\ got'[u] = got[u]
        BY <1>0, <1>2, <3>2
      <4> QED
        BY <1>2, <2>1, <4>1 DEF TypesTyped
    <3> QED
      BY <3>1, <3>2
  <2>4. \A u \in TypeThread : \A i \in 1..Len(results'[u]) : Made(results[u][i])'
    BY <1>2 DEF TypesTyped
  <2> QED
    BY <1>0, <1>2, <2>2, <2>3, <2>4 DEF TypesTyped
<1>3. ASSUME heap' = heap
      PROVE  /\ heap' \in Seq(TypeRecord) /\ \A i \in 1..Len(heap') : Proper(heap[i])'
             /\ \A a : Made(a) => Made(a)'
  BY <1>0, <1>3, HeapStays
<1>4. CASE lockSet(t) \/ WaitForKey(t) \/ Miss(t)
  <2>1. /\ UNCHANGED <<heap, entries, got, results>> /\ lock' \in [Kind -> BOOLEAN]
        /\ \E l \in Labels \ {"unlock", "notify"} : at' = [at EXCEPT ![t] = l]
    BY <1>0, <1>1, <1>4 DEF lockSet, WaitForKey, Miss
  <2> QED
    BY <1>0, <1>2, <1>3, <2>1 DEF TypesTyped
<1>5. CASE Find(t)
  <2>1. /\ UNCHANGED <<heap, entries, lock, results>> /\ at' = [at EXCEPT ![t] = "unlock"]
        /\ got' = [got EXCEPT ![t] = entries[KindOf(t)][KeyOf(t)]]
        /\ KeyOf(t) \in DOMAIN entries[KindOf(t)]
    BY <1>5 DEF Find, Known
  <2>2. Made(entries[KindOf(t)][KeyOf(t)])
    BY <1>1, <2>1 DEF Indexed
  <2>3. PICK a \in Nat : a = entries[KindOf(t)][KeyOf(t)]
    BY <1>0, <2>2, BasicIsFinite DEF Made
  <2>4. Made(a)' /\ got'[t] = a /\ Made(got[t])'
    BY <1>0, <2>1, <2>2, <2>3, HeapStays
  <2> QED
    BY <1>0, <1>2, <1>3, <2>1, <2>3, <2>4 DEF TypesTyped
<1>6. CASE Make(t)
  <2>1. /\ UNCHANGED <<lock, results>> /\ at' = [at EXCEPT ![t] = "unlock"]
        /\ heap' = Append(heap, Asking(t)) /\ Asking(t) \in TypeRecord
        /\ got' = [got EXCEPT ![t] = Address(Len(heap'))]
        /\ DOMAIN entries' = Kind
    BY <1>0, <1>1, <1>6 DEF Make, Asking, Proper
  <2>2. PICK a \in Nat : a = Address(Len(heap')) /\ Made(a)'
    BY <1>0, <2>1, HeapGrows
  <2>3. got' = [got EXCEPT ![t] = a] /\ got'[t] = a /\ Made(got[t])'
    BY <1>0, <2>1, <2>2
  <2>4. /\ heap' \in Seq(TypeRecord) /\ \A b : Made(b) => Made(b)'
        /\ Len(heap') = Len(heap) + 1 /\ Len(heap) \in Nat
        /\ \A s : Proper(s) => Proper(s)'
        /\ \A i \in 1..Len(heap) : heap'[i] = heap[i]
        /\ heap'[Len(heap) + 1] = Asking(t)
    BY <1>0, <2>1, HeapGrows
  <2>5. ASSUME NEW i \in 1..Len(heap') PROVE Proper(heap[i])'
    <3>0. i \in 1..Len(heap) \/ i = Len(heap) + 1
      BY <2>4
    <3>1. PICK r : r = heap'[i] /\ Proper(r)
      BY <1>0, <1>1, <2>4, <3>0
    <3> QED
      BY <2>4, <3>1
  <2>6. /\ at' \in [TypeThread -> Labels] /\ got' \in [TypeThread -> Nat]
        /\ results' \in [TypeThread -> Seq(Nat)]
        /\ \A u \in TypeThread :
             /\ Len(results'[u]) <= Len(Requests[u])
             /\ \A i \in 1..Len(results'[u]) : Made(results[u][i])'
             /\ at'[u] # "lock" => Busy(u)'
             /\ at'[u] \in {"unlock", "notify"} => Made(got[u])'
    BY <1>2, <2>1, <2>2, <2>3, <2>4
  <2> QED
    BY <1>0, <2>1, <2>4, <2>5, <2>6 DEF TypesTyped
<1>7. CASE unlockSet(t)
  <2>1. /\ UNCHANGED <<heap, entries, got, results>> /\ at' = [at EXCEPT ![t] = "notify"]
        /\ lock' \in [Kind -> BOOLEAN] /\ at[t] = "unlock"
    BY <1>0, <1>1, <1>7 DEF unlockSet
  <2>2. Made(got[t])'
    BY <2>1, HeapStays DEF TypesTyped
  <2> QED
    BY <1>0, <1>2, <1>3, <2>1, <2>2 DEF TypesTyped
<1>8. CASE Notify(t)
  <2>1. /\ UNCHANGED <<heap, entries, lock, got>> /\ at[t] = "notify"
        /\ results' = [results EXCEPT ![t] = Append(@, got[t])]
        /\ at' \in [TypeThread -> Labels] /\ at'[t] = "lock"
        /\ \A u \in TypeThread : at'[u] = at[u] \/ at'[u] = "lock"
    BY <1>0, <1>8 DEF Notify, Return, Asleep
  <2>2. /\ got[t] \in Nat /\ Made(got[t]) /\ results[t] \in Seq(Nat)
        /\ Len(results[t]) < Len(Requests[t])
    BY <1>0, <1>1, <2>1 DEF TypesTyped, Busy
  <2>3. results' \in [TypeThread -> Seq(Nat)] /\ results'[t] = Append(results[t], got[t])
    BY <1>0, <2>1, <2>2
  <2>4. ASSUME NEW u \in TypeThread
        PROVE  /\ Len(results'[u]) <= Len(Requests[u])
               /\ \A i \in 1..Len(results'[u]) : Made(results[u][i])'
               /\ at'[u] # "lock" => Busy(u)'
               /\ at'[u] \in {"unlock", "notify"} => Made(got[u])'
    <3>1. CASE u = t
      <4>1. Requests[t] \in Seq(Request) /\ Len(Requests[t]) \in Nat
        OBVIOUS
      <4>2. Len(results'[t]) = Len(results[t]) + 1 /\ Len(results[t]) \in Nat
        BY <2>2, <2>3
      <4>3. ASSUME NEW i \in 1..Len(results'[t]) PROVE Made(results[t][i])'
        <5>1. CASE i \in 1..Len(results[t])
          <6>1. results'[t][i] = results[t][i]
            BY <2>2, <2>3, <5>1
          <6>2. PICK a : a = results[t][i] /\ Made(a)
            BY <5>1 DEF TypesTyped
          <6> QED
            BY <2>1, <6>1, <6>2, HeapStays
        <5>2. CASE i = Len(results[t]) + 1
          <6>1. PICK a : a = got[t] /\ Made(a) /\ results'[t][i] = a
            BY <2>2, <2>3, <5>2
          <6> QED
            BY <2>1, <6>1, HeapStays
        <5> QED
          BY <4>2, <5>1, <5>2
      <4> QED
        BY <2>1, <2>2, <3>1, <4>1, <4>2, <4>3
    <3>2. CASE u # t
      <4>1. results'[u] = results[u] /\ got'[u] = got[u] /\ (at'[u] = at[u] \/ at'[u] = "lock")
        BY <1>0, <2>1, <3>2
      <4>2. Busy(u)' <=> Busy(u)
        BY <4>1, SameAsked
      <4>3. \A i \in 1..Len(results[u]) : Made(results[u][i])
        BY DEF TypesTyped
      <4>4. \A a : Made(a)' <=> Made(a)
        BY <2>1, HeapStays
      <4> QED
        BY <4>1, <4>2, <4>3, <4>4 DEF TypesTyped
    <3> QED
      BY <3>1, <3>2
  <2> QED
    BY <1>0, <1>3, <2>1, <2>3, <2>4 DEF TypesTyped
<1> QED
  BY <1>4, <1>5, <1>6, <1>7, <1>8 DEF TypeStep
(* The lock is taken by one, kept while the set is used and left before it  *)
(* is free.                                                                *)
LEMMA LockHeldStep ==
    ASSUME TypesTyped, LockHeld, LengthsFit, NEW t \in TypeThread, TypeStep(t)
    PROVE  LockHeld'
<1> USE DEF Step, Labels, Inside
<1>0. lock \in [Kind -> BOOLEAN] /\ at \in [TypeThread -> Labels]
  BY DEF TypesTyped
<1>1. \A u \in TypeThread : at[u] # "lock" => KindOf(u) \in Kind
  <2> SUFFICES ASSUME NEW u \in TypeThread, at[u] # "lock" PROVE KindOf(u) \in Kind
    OBVIOUS
  <2> QED
    BY AskedIsProper DEF TypesTyped
<1>2. Busy(t) /\ KindOf(t) \in Kind
  <2>1. Busy(t)
    BY DEF TypeStep, lockSet, WaitForKey, Find, Miss, Make, unlockSet, Notify
  <2> QED
    BY <2>1, AskedIsProper
<1>3. \A u \in TypeThread : results'[u] = results[u] => KindOf(u)' = KindOf(u)
  BY SameAsked
<1>4. CASE lockSet(t) /\ at'[t] = "find"
  <2>1. /\ at' = [at EXCEPT ![t] = "find"] /\ ~ lock[KindOf(t)] /\ results' = results
        /\ lock' = [lock EXCEPT ![KindOf(t)] = TRUE]
    BY <1>0, <1>4 DEF lockSet
  <2>2. \A u \in TypeThread \ {t} : at[u] \in Inside => KindOf(u) # KindOf(t) /\ lock[KindOf(u)]
    BY <2>1 DEF LockHeld
  <2>3. \A u \in TypeThread : KindOf(u)' = KindOf(u)
    BY <1>3, <2>1
  <2>4. \A u \in TypeThread : at'[u] \in Inside => lock'[KindOf(u)]
    BY <1>0, <1>1, <1>2, <2>1, <2>2
  <2> QED
    BY <1>0, <2>1, <2>2, <2>3, <2>4 DEF LockHeld
<1>5. CASE WaitForKey(t) \/ (lockSet(t) /\ at'[t] # "find")
  <2>1. /\ lock' = lock /\ results' = results
        /\ \A u \in TypeThread : at'[u] \in Inside => at[u] \in Inside
    BY <1>0, <1>5 DEF lockSet, WaitForKey
  <2>2. \A u \in TypeThread : KindOf(u)' = KindOf(u)
    BY <1>3, <2>1
  <2> QED
    BY <2>1, <2>2 DEF LockHeld
<1>6. CASE Find(t) \/ Miss(t) \/ Make(t)
  <2>1. /\ lock' = lock /\ results' = results
        /\ \A u \in TypeThread : at'[u] \in Inside => at[u] \in Inside
    BY <1>0, <1>6 DEF Find, Miss, Make
  <2>2. \A u \in TypeThread : KindOf(u)' = KindOf(u)
    BY <1>3, <2>1
  <2> QED
    BY <2>1, <2>2 DEF LockHeld
<1>7. CASE unlockSet(t)
  <2>1. /\ at' = [at EXCEPT ![t] = "notify"] /\ results' = results /\ at[t] \in Inside
        /\ lock' = [lock EXCEPT ![KindOf(t)] = FALSE]
    BY <1>0, <1>7 DEF unlockSet
  <2>2. \A u \in TypeThread : KindOf(u)' = KindOf(u)
    BY <1>3, <2>1
  <2>3. \A u \in TypeThread \ {t} : at[u] \in Inside => KindOf(u) # KindOf(t) /\ lock[KindOf(u)]
    BY <2>1 DEF LockHeld
  <2>4. \A u \in TypeThread : at'[u] \in Inside => u # t /\ at[u] \in Inside /\ lock'[KindOf(u)]
    BY <1>0, <1>1, <1>2, <2>1, <2>3
  <2> QED
    BY <2>2, <2>4 DEF LockHeld
<1>8. CASE Notify(t)
  <2>1. /\ lock' = lock /\ \A u \in TypeThread \ {t} : results'[u] = results[u]
        /\ at[t] = "notify" /\ at'[t] = "lock"
        /\ \A u \in TypeThread : at'[u] = at[u] \/ at'[u] = "lock"
    BY <1>0, <1>8 DEF Notify, Return, Asleep, TypesTyped
  <2>2. \A u \in TypeThread \ {t} : KindOf(u)' = KindOf(u)
    BY <1>3, <2>1
  <2>3. \A u \in TypeThread : at'[u] \in Inside => u # t /\ at[u] \in Inside
    BY <2>1
  <2> QED
    BY <2>1, <2>2, <2>3 DEF LockHeld
<1> QED
  BY <1>4, <1>5, <1>6, <1>7, <1>8 DEF TypeStep

(* A type enters the heap and the set of its kind in one stretch under the  *)
(* lock of that set, after it was not found there.                         *)
LEMMA IndexedStep ==
    ASSUME TypesTyped, Indexed, MakesWhatIsNew, Interned, LengthsFit,
           NEW t \in TypeThread, TypeStep(t)
    PROVE  Indexed' /\ Interned'
<1> USE DEF Step
<1>1. CASE ~ Make(t)
  <2>1. heap' = heap /\ entries' = entries
    BY <1>1 DEF TypeStep, lockSet, WaitForKey, Find, Miss, unlockSet, Notify
  <2>2. \A a : (Made(a)' <=> Made(a)) /\ TypeAt(a)' = TypeAt(a)
    BY <2>1, HeapStays
  <2>3. \A r : KeyFor(r)' = KeyFor(r)
    BY DEF KeyFor, combineHash
  <2>4. Indexed'
    BY <2>1, <2>2 DEF Indexed, KeyFor, combineHash
  <2> QED
    BY <2>1, <2>4 DEF Interned
<1>2. CASE Make(t)
  <2>1. /\ at[t] = "make" /\ Busy(t) /\ DOMAIN entries = Kind /\ heap \in Seq(TypeRecord)
        /\ \A i \in 1..Len(heap) : Proper(heap[i])
    BY <1>2 DEF Make, TypesTyped
  <2>2. PICK r, q, k : r = Asking(t) /\ q = KeyOf(t) /\ k = KindOf(t)
    OBVIOUS
  <2>3. r \in TypeRecord /\ k \in Kind /\ r.kind = k /\ KeyFor(r) = q
    BY <2>1, <2>2, AskedIsProper DEF Proper
  <2>4. heap' = Append(heap, r)
    BY <1>2, <2>2 DEF Make, Asking
  <2>5. /\ heap' \in Seq(TypeRecord) /\ Len(heap') = Len(heap) + 1 /\ Len(heap) \in Nat
        /\ \A a : Made(a) => Made(a)' /\ TypeAt(a)' = TypeAt(a)
        /\ \A i \in 1..Len(heap) : heap'[i] = heap[i]
        /\ heap'[Len(heap) + 1] = r
    BY <2>1, <2>3, <2>4, HeapGrows
  <2>6. PICK new \in Nat : new = Address(Len(heap')) /\ Made(new)' /\ TypeAt(new)' = r
    BY <2>1, <2>3, <2>4, HeapGrows
  <2>7. entries' = [entries EXCEPT ![k] = [x \in DOMAIN entries[k] \cup {q} |->
                                             IF x = q THEN new ELSE entries[k][x]]]
    BY <1>2, <2>2, <2>6 DEF Make
  <2>8. q \notin DOMAIN entries[k]
    BY <2>1, <2>2 DEF MakesWhatIsNew, Known
  <2>9. /\ DOMAIN entries' = Kind /\ DOMAIN entries'[k] = DOMAIN entries[k] \cup {q}
        /\ entries'[k][q] = new
        /\ \A x \in DOMAIN entries[k] : entries'[k][x] = entries[k][x]
        /\ \A j \in Kind \ {k} : entries'[j] = entries[j]
    BY <2>1, <2>3, <2>7, <2>8
  <2>10. ASSUME NEW j \in Kind, NEW x \in DOMAIN entries'[j]
         PROVE  /\ Made(entries[j][x])' /\ TypeAt(entries[j][x])'.kind = j
                /\ KeyFor(TypeAt(entries[j][x]))' = x
    <3>1. CASE j = k /\ x = q
      <4>1. entries'[j][x] = new
        BY <2>9, <3>1
      <4> QED
        BY <2>3, <2>6, <3>1, <4>1 DEF Made, TypeAt, KeyFor, combineHash
    <3>2. CASE ~ (j = k /\ x = q)
      <4>1. x \in DOMAIN entries[j] /\ entries'[j][x] = entries[j][x]
        BY <2>9, <2>10, <3>2
      <4>2. PICK a, s : /\ a = entries[j][x] /\ Made(a) /\ s = TypeAt(a)
                        /\ s.kind = j /\ KeyFor(s) = x
        BY <4>1 DEF Indexed
      <4>3. Made(a)' /\ TypeAt(a)' = s
        BY <2>5, <4>2
      <4> QED
        BY <4>1, <4>2, <4>3 DEF Made, TypeAt, KeyFor, combineHash
    <3> QED
      BY <3>1, <3>2
  <2>11. ASSUME NEW i \in 1..Len(heap')
         PROVE  KeyFor(heap'[i]) \in DOMAIN entries'[heap'[i].kind]
    <3>1. CASE i \in 1..Len(heap)
      <4>1. heap[i].kind \in Kind /\ KeyFor(heap[i]) \in DOMAIN entries[heap[i].kind]
        BY <2>1, <3>1 DEF Indexed, Proper, TypeRecord
      <4> QED
        BY <2>5, <2>9, <3>1, <4>1
    <3>2. CASE i = Len(heap) + 1
      BY <2>3, <2>5, <2>9, <3>2
    <3> QED
      BY <2>5, <3>1, <3>2
  <2>12. Indexed'
    BY <2>10, <2>11 DEF Indexed, KeyFor, combineHash
  <2>13. \A i \in 1..Len(heap) : heap[i] # r
    BY <2>3, <2>8 DEF Indexed
  <2>14. Interned'
    <3>1. DOMAIN heap' = 1..(Len(heap) + 1) /\ DOMAIN heap = 1..Len(heap)
      BY <2>1, <2>5
    <3> QED
      BY <2>5, <2>13, <3>1 DEF Interned
  <2> QED
    BY <2>12, <2>14
<1> QED
  BY <1>1, <1>2

LEMMA MakesWhatIsNewStep ==
    ASSUME TypesTyped, LockHeld, MakesWhatIsNew, LengthsFit, NEW t \in TypeThread, TypeStep(t)
    PROVE  MakesWhatIsNew'
<1> SUFFICES ASSUME NEW u \in TypeThread, at'[u] = "make"
             PROVE  ~ Known(u)'
  BY DEF MakesWhatIsNew
<1>0. at \in [TypeThread -> Labels]
  BY DEF TypesTyped
<1>1. CASE u = t
  <2>1. Miss(t)
    BY <1>0, <1>1 DEF TypeStep, lockSet, WaitForKey, Find, Make, unlockSet, Notify, Step
  <2> QED
    BY <1>1, <2>1, SameAsked DEF Miss, Known
<1>2. CASE u # t
  <2>1. at[u] = "make" /\ results'[u] = results[u]
    BY <1>0, <1>2 DEF TypeStep, lockSet, WaitForKey, Find, Miss, Make, unlockSet, Notify, Step,
       Return, Asleep, TypesTyped
  <2>2. KindOf(u)' = KindOf(u) /\ KeyOf(u)' = KeyOf(u) /\ ~ Known(u)
    BY <2>1, SameAsked DEF MakesWhatIsNew
  <2>3. CASE entries' = entries
    BY <2>2, <2>3 DEF Known
  <2>4. CASE Make(t)
    <3>1. KindOf(t) # KindOf(u)
      BY <1>2, <2>1, <2>4 DEF LockHeld, Inside, Make, Step
    <3>2. entries'[KindOf(u)] = entries[KindOf(u)]
      BY <3>1, <2>4 DEF Make
    <3> QED
      BY <2>2, <3>2 DEF Known
  <2> QED
    BY <2>3, <2>4 DEF TypeStep, lockSet, WaitForKey, Find, Miss, unlockSet, Notify
<1> QED
  BY <1>1, <1>2

(* What is found under a key is what was asked for, as two types of a kind  *)
(* have two keys.                                                          *)
LEMMA AsAskedStep ==
    ASSUME TypesTyped, Indexed, LengthsFit, AddressesFit => AsAsked, AddressesFit',
           NEW t \in TypeThread, TypeStep(t)
    PROVE  AsAsked'
<1> SUFFICES ASSUME NEW u \in TypeThread, at'[u] = "unlock"
             PROVE  TypeAt(got[u])' = Asking(u)'
  BY DEF AsAsked, Asking
<1>0. at \in [TypeThread -> Labels] /\ got \in [TypeThread -> Nat] /\ heap \in Seq(TypeRecord)
  BY DEF TypesTyped
<1>1. CASE u = t
  <2>1. Find(t) \/ Make(t)
    BY <1>0, <1>1 DEF TypeStep, lockSet, WaitForKey, Miss, unlockSet, Notify, Step
  <2>2. results' = results /\ Busy(t)
    BY <2>1 DEF Find, Make, Step
  <2>3. Asking(t)' = Asking(t)
    BY <2>2, SameAsked
  <2>4. Proper(Asking(t)) /\ KindOf(t) \in Kind /\ KeyFor(Asking(t)) = KeyOf(t)
        /\ Asking(t).kind = KindOf(t)
    BY <2>2, AskedIsProper
  <2>5. CASE Find(t)
    <3>1. /\ heap' = heap /\ KeyOf(t) \in DOMAIN entries[KindOf(t)]
          /\ got'[t] = entries[KindOf(t)][KeyOf(t)]
      BY <1>0, <2>5 DEF Find, Known
    <3>2. PICK a, s : /\ a = entries[KindOf(t)][KeyOf(t)] /\ Made(a) /\ s = TypeAt(a)
                      /\ s.kind = KindOf(t) /\ KeyFor(s) = KeyOf(t)
      BY <2>4, <3>1 DEF Indexed
    <3>3. Proper(s)
      <4>1. a - Cardinality(Basic) + 1 \in 1..Len(heap)
        <5>1. a \in Cardinality(Basic)..(Cardinality(Basic) + Len(heap) - 1)
          BY <3>2 DEF Made
        <5>2. Len(heap) \in Nat
          BY <1>0
        <5> QED
          BY <5>1, <5>2, BasicIsFinite
      <4> QED
        BY <3>2, <4>1 DEF TypeAt, TypesTyped
    <3>4. AddressesFit
      BY <3>1, HeapStays
    <3>5. s = Asking(t)
      BY <1>0, <2>4, <3>2, <3>3, <3>4, KeysDiffer
    <3>6. TypeAt(a)' = s /\ got'[t] = a
      BY <3>1, <3>2, HeapStays
    <3> QED
      BY <1>1, <2>3, <3>5, <3>6 DEF TypeAt
  <2>6. CASE Make(t)
    <3>1. heap' = Append(heap, Asking(t)) /\ Asking(t) \in TypeRecord
      BY <2>4, <2>6 DEF Make, Asking, Proper
    <3>2. PICK new \in Nat : new = Address(Len(heap')) /\ TypeAt(new)' = Asking(t)
      BY <1>0, <3>1, HeapGrows
    <3>3. got'[t] = new
      BY <1>0, <2>6, <3>2 DEF Make
    <3> QED
      BY <1>1, <2>3, <3>2, <3>3 DEF TypeAt
  <2> QED
    BY <2>1, <2>5, <2>6
<1>2. CASE u # t
  <2>1. at[u] = "unlock" /\ results'[u] = results[u] /\ got'[u] = got[u]
    BY <1>0, <1>2 DEF TypeStep, lockSet, WaitForKey, Find, Miss, Make, unlockSet, Notify, Step,
       Return, Asleep, TypesTyped
  <2>2. Asking(u)' = Asking(u)
    BY <2>1, SameAsked
  <2>3. PICK a, s : a = got[u] /\ Made(a) /\ s = TypeAt(a)
    BY <2>1 DEF TypesTyped
  <2>4. TypeAt(a)' = s /\ AddressesFit
    <3>1. CASE heap' = heap
      BY <2>3, <3>1, HeapStays
    <3>2. CASE Make(t)
      <4>1. Busy(t)
        BY <3>2 DEF Make, Step
      <4>2. heap' = Append(heap, Asking(t)) /\ Asking(t) \in TypeRecord
        BY <3>2, <4>1, AskedIsProper DEF Make, Asking, Proper
      <4> QED
        BY <1>0, <2>3, <4>2, HeapGrows
    <3> QED
      BY <3>1, <3>2 DEF TypeStep, lockSet, WaitForKey, Find, Miss, unlockSet, Notify
  <2>5. s = Asking(u)
    BY <2>1, <2>3, <2>4 DEF AsAsked, Asking
  <2> QED
    BY <2>1, <2>2, <2>3, <2>4, <2>5 DEF TypeAt
<1> QED
  BY <1>1, <1>2

LEMMA TypesInvHolds == LengthsFit => (TypesSpec => []TypesInv)
<1> SUFFICES ASSUME LengthsFit
             PROVE  TypesSpec => []TypesInv
  OBVIOUS
<1>1. TypesInit => TypesInv
  <2> SUFFICES ASSUME TypesInit PROVE TypesInv
    OBVIOUS
  <2>1. heap = <<>> /\ entries = [k \in Kind |-> <<>>] /\ \A t \in TypeThread : at[t] = "lock"
    BY DEF TypesInit
  <2>2. TypesTyped
    <3>1. \A t \in TypeThread : Len(Requests[t]) \in Nat
      OBVIOUS
    <3>2. \A t \in TypeThread : results[t] = <<>> /\ Len(results[t]) = 0
      BY DEF TypesInit
    <3> QED
      BY <2>1, <3>1, <3>2 DEF TypesInit, TypesTyped, Labels
  <2>3. LockHeld /\ MakesWhatIsNew /\ AsAsked
    BY <2>1 DEF LockHeld, Inside, MakesWhatIsNew, AsAsked
  <2>4. Indexed /\ Interned
    <3>1. \A k \in Kind : DOMAIN entries[k] = {}
      BY <2>1
    <3>2. Len(heap) = 0 /\ DOMAIN heap = {}
      BY <2>1
    <3> QED
      BY <3>1, <3>2 DEF Indexed, Interned
  <2> QED
    BY <2>2, <2>3, <2>4 DEF TypesInv
<1>2. TypesInv /\ [TypesNext]_typeVars => TypesInv'
  <2> SUFFICES ASSUME TypesInv, [TypesNext]_typeVars PROVE TypesInv'
    OBVIOUS
  <2>1. ASSUME NEW t \in TypeThread, TypeStep(t) PROVE TypesInv'
    BY <2>1, TypesTypedStep, LockHeldStep, IndexedStep, MakesWhatIsNewStep, AsAskedStep
       DEF TypesInv
  <2>2. CASE UNCHANGED typeVars
    <3> USE <2>2 DEF typeVars
    <3>1. TypesTyped'
      BY DEF TypesInv, TypesTyped, Busy, Made, Proper, LengthFits
    <3>2. LockHeld' /\ MakesWhatIsNew'
      BY DEF TypesInv, LockHeld, MakesWhatIsNew, Known, KeyOf, KindOf, ElementOf, Asked, combineHash
    <3>3. Indexed' /\ Interned'
      BY DEF TypesInv, Indexed, Interned, Made, TypeAt, KeyFor, combineHash
    <3>4. AddressesFit' => AsAsked'
      BY DEF TypesInv, AsAsked, AddressesFit, KindOf, ElementOf, Asked, TypeAt
    <3> QED
      BY <3>1, <3>2, <3>3, <3>4 DEF TypesInv
  <2> QED
    BY <2>1, <2>2 DEF TypesNext
<1> QED
  BY <1>1, <1>2, PTL DEF TypesSpec

(* Types are compared by their addresses, so that what is asked for several *)
(* times, by whichever threads, must be made once, and everyone must get    *)
(* what was asked for: makePointer, makeArray and makeSlice do that, as     *)
(* long as the addresses and the lengths fit into the key side by side.     *)
THEOREM TypesAreMadeOnce ==
    LengthsFit => (TypesSpec => [](AddressesFit => TypesAreOne))
<1>1. TypesInv => (AddressesFit => TypesAreOne)
  BY DEF TypesInv, TypesAreOne, TypesTypeOK, TypesTyped, Labels
<1> QED
  BY <1>1, TypesInvHolds, PTL

(* However many addresses are given out: no two of the same are made, and   *)
(* one thread at a time is at a set of types (data_types.cpp:132-148).      *)
THEOREM NoTypeTwice ==
    LengthsFit => (TypesSpec => [](Interned /\ LockHeld))
<1>1. TypesInv => Interned /\ LockHeld
  BY DEF TypesInv
<1> QED
  BY <1>1, TypesInvHolds, PTL
===============================================================================
