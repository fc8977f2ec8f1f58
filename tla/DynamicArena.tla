---------------------------- MODULE DynamicArena ----------------------------
(***************************************************************************)
(* The arena of src/src/dynamic_arena.cpp: a list of blocks of one size,   *)
(* the block pushes go to (tail), and the position in the one block the    *)
(* arena stands for (logicalPos).  An address is a block and an offset in  *)
(* it; the data of a block begins at a multiple of BaseAlign, as           *)
(* alignof(max_align_t) has it.  blockCount, which only tests read, is left  *)
(* out.                                                                    *)
(***************************************************************************)
EXTENDS Integers, Sequences, FiniteSets

CONSTANTS
    Payload,        \* blockPayloadSize
    BaseAlign,      \* alignof(std::max_align_t)
    Sizes, Aligns,  \* what is pushed
    Bound,          \* nothing is pushed at a logical position beyond it
    Uses,           \* how the arena is used, see ArenaInit
    Deep            \* TRUE: rollbacks by size and to a marker from any block

ASSUME ArenaAssumption ==
    /\ Payload \in Nat /\ BaseAlign \in Nat \ {0} /\ Bound \in Nat
    /\ Sizes \subseteq Nat \ {0} /\ Aligns \subseteq 1..BaseAlign
    /\ \A align \in Aligns : BaseAlign % align = 0   \* powers of two
    /\ \A size \in Sizes : size + BaseAlign <= Payload
    /\ Uses \subseteq {"scratch", "flat", "reused"} /\ Deep \in BOOLEAN

VARIABLES
    use,
    blocks,         \* [start, padding, pos]: startLogicalPos, padding, pos
    tail,           \* index of the block that is pushed to
    logicalPos,
    live,           \* history: the allocations not given back, oldest first
    marker          \* a marker the user keeps, or NoMarker

arenaVars == <<use, blocks, tail, logicalPos, live, marker>>

NoMarker == [block |-> 0, pos |-> 0, kept |-> 0]

(* Mutant: the bytes that are there already. *)
PaddingOfRest(n, align) == n % align
getPadding(n, align) == (align - (n % align)) % align

initBlock == [start |-> 0, padding |-> 0, pos |-> 0]

(* A scratch arena is rolled back and cleared; one for a result grows and  *)
(* is copied flat, once, or, as the lexer's for string literals and the    *)
(* compiler's for bytecode, again after it was cleared.                    *)
ArenaInit ==
    /\ use \in Uses
    /\ blocks = <<initBlock>> /\ tail = 1
    /\ logicalPos = 0
    /\ live = <<>> /\ marker = NoMarker

-----------------------------------------------------------------------------
(* The user's view of an allocation: where it lies, its logical position.  *)
LogicalAt(a) == blocks[a.block].start + a.off - blocks[a.block].padding

(* The allocations that end at or before logical position n stay. *)
Kept(n) == CHOOSE k \in 0..Len(live) :
              \A i \in 1..Len(live) : i <= k <=> LogicalAt(live[i]) + live[i].size <= n

(* Mutant: the padding in front of the allocation is forgotten. *)
FitsUnpadded(size, align) == blocks[tail].pos + size <= Payload
FitsHere(size, align) ==
    blocks[tail].pos + getPadding(blocks[tail].pos, align) + size <= Payload

PushAt(bs, t, size, align) ==
    LET padding == getPadding(bs[t].pos, align)
    IN /\ blocks' = [bs EXCEPT ![t].pos = @ + padding + size]
       /\ tail' = t
       /\ logicalPos' = logicalPos + padding + size
       /\ live' = Append(live, [block |-> t, off |-> bs[t].pos + padding,
                                size |-> size, align |-> align])
       /\ UNCHANGED marker

PushHere(size, align) ==
    /\ logicalPos <= Bound /\ FitsHere(size, align)
    /\ PushAt(blocks, tail, size, align)

(* Mutant: the new block starts at 0, whatever the logical position is. *)
ZeroedPadding == 0

(* The padding of a new block keeps the layout that one block would have. *)
SyncPadding == logicalPos % BaseAlign

(* Mutant: the position the block before began at. *)
StartOfTail == blocks[tail].start
NextStart == logicalPos

(* The next block is fetched, when an earlier use left one, or made. *)
PushNext(size, align) ==
    LET next == [start |-> NextStart, padding |-> SyncPadding, pos |-> SyncPadding]
        new  == tail = Len(blocks)
    IN /\ logicalPos <= Bound /\ ~FitsHere(size, align)
       /\ PushAt(IF new THEN Append(blocks, next) ELSE [blocks EXCEPT ![tail + 1] = next],
               tail + 1, size, align)

-----------------------------------------------------------------------------
(* rollback to a pointer: the tail it comes from is emptied, the blocks    *)
(* between are left as they are, unless the memory is freed.               *)
RollbackPointer(i, freeMemory) ==
    LET a == live[i]
        emptied == [blocks EXCEPT ![tail].pos = 0]
        cut == IF freeMemory THEN SubSeq(emptied, 1, a.block) ELSE emptied
    IN /\ i \in 1..Len(live)
       /\ blocks' = [cut EXCEPT ![a.block].pos = a.off]
       /\ tail' = a.block
       /\ logicalPos' = LogicalAt(a)
       /\ live' = SubSeq(live, 1, i - 1)
       /\ marker' = NoMarker

(* rollback by a size, within the tail block: end is a logical position,   *)
(* pos is taken from it as if it were one in the block.                    *)
RollbackSize(size) ==
    LET block == blocks[tail]
        end == block.start + block.pos - block.padding
        pos == block.padding + end - size
    IN /\ Deep \/ tail = 1
       /\ size \in 1..(end - block.start)
       /\ blocks' = [blocks EXCEPT ![tail].pos = pos]
       /\ logicalPos' = block.start + pos - block.padding
       /\ live' = SubSeq(live, 1, Kept(logicalPos - size))
       /\ marker' = NoMarker
       /\ UNCHANGED tail

getMarker ==
    /\ Deep \/ tail = 1
    /\ marker' = [block |-> tail, pos |-> logicalPos, kept |-> Len(live)]
    /\ UNCHANGED <<blocks, tail, logicalPos, live>>

RollbackMarker(freeMemory) ==
    /\ marker # NoMarker
    /\ LET cut == IF freeMemory THEN SubSeq(blocks, 1, marker.block) ELSE blocks
       IN blocks' = [cut EXCEPT ![marker.block].pos = marker.pos]
    /\ tail' = marker.block
    /\ logicalPos' = blocks[marker.block].start
                     + (marker.pos - blocks[tail'].padding)
    /\ live' = SubSeq(live, 1, marker.kept)
    /\ marker' = NoMarker

(* The blocks behind the first one stay as they are.                       *)
Arena_clear ==
    /\ tail' = 1 /\ blocks' = [blocks EXCEPT ![1].pos = 0]
    /\ logicalPos' = 0
    /\ live' = <<>> /\ marker' = NoMarker

Arena_push == \E size \in Sizes, align \in Aligns : PushHere(size, align) \/ PushNext(size, align)
ArenaRollback ==
    \/ \E i \in 1..Len(live), freeMemory \in BOOLEAN : RollbackPointer(i, freeMemory)
    \/ \E size \in Sizes : RollbackSize(size)
    \/ getMarker
    \/ \E freeMemory \in BOOLEAN : RollbackMarker(freeMemory)

ArenaNext ==
    /\ \/ Arena_push
       \/ (use = "scratch" /\ ArenaRollback)
       \/ (use # "flat" /\ Arena_clear)
    /\ UNCHANGED use

ArenaSpec == ArenaInit /\ [][ArenaNext]_arenaVars

-----------------------------------------------------------------------------
(* flatCopy goes through every block of the list. Copied[b] are the logical *)
(* positions it writes from block b.                                       *)
Copied(b) == blocks[b].start .. (blocks[b].start + blocks[b].pos - blocks[b].padding - 1)

(* The block that the byte at logical position n comes from in the end. *)
CopiedFrom(n) == CHOOSE b \in 1..Len(blocks) :
                    /\ n \in Copied(b)
                    /\ \A c \in (b + 1)..Len(blocks) : n \notin Copied(c)

ArenaTypeOK ==
    /\ tail \in 1..Len(blocks)
    /\ \A b \in 1..Len(blocks) : blocks[b].pos \in 0..Payload
    /\ logicalPos \in Nat

(* Allocations that were not given back lie in a block, aligned, and no    *)
(* two share a byte.                                                       *)
Placed ==
    \A i \in 1..Len(live) :
        /\ live[i].off + live[i].size <= Payload
        /\ live[i].off % live[i].align = 0
        /\ \A j \in 1..(i - 1) :
              live[j].block = live[i].block =>
                  live[j].off + live[j].size <= live[i].off

(* flatCopy puts each allocation where the one block has it: its bytes     *)
(* come from the block they were written to, at the distance they have     *)
(* there.  test/unit/test_arena.cpp:68 compares the two byte for byte.     *)
FlatLayout ==
    use # "scratch" => \A i \in 1..Len(live) :
        \A n \in LogicalAt(live[i]) .. (LogicalAt(live[i]) + live[i].size - 1) :
            n \in Copied(live[i].block) /\ CopiedFrom(n) = live[i].block

(* The arena is the one block it stands for. *)
InOne(a) == [at |-> LogicalAt(a), size |-> a.size, align |-> a.align]
LiveInOne == [i \in 1..Len(live) |-> InOne(live[i])]
One == INSTANCE OneBlock WITH end <- logicalPos, live <- LiveInOne
ImplementsOneBlock == One!Spec
=============================================================================
