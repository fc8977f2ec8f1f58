-------------------------------- MODULE Tables --------------------------------
(***************************************************************************)
(* The two tables the compiler finds things in by a key.                   *)
(*                                                                         *)
(* The hash set of src/src/set.cpp: open addressing with linear probing, a *)
(* mark for deleted slots, and a table of a power of two of slots that is  *)
(* doubled when seven of ten are used.  An item is its key, hash(key) a    *)
(* constant of the model.                                                  *)
(*                                                                         *)
(* The ordered dictionary of src/src/ordered_dict.cpp with integer keys: a *)
(* sorted array searched by halving, and a cursor that goes round it.      *)
(* Keys are unsigned 64-bit numbers and their difference is stored in an   *)
(* int: here modulo IntSpace, as a signed number.                          *)
(***************************************************************************)
EXTENDS Integers, FiniteSets, Sequences, SequencesExt

CONSTANTS Key, NoKey,
          Hash,         \* Hash[k]: what the hash method gives
          InitialSize   \* tableSize after init, a power of two

ASSUME SetAssumption ==
    /\ NoKey \notin Key
    /\ Hash \in [Key -> Nat]
    /\ InitialSize \in Nat \ {0}

VARIABLES table,        \* slots: [type, key]
          usedSize,
          asked,        \* history: the last call, <<operation, key>>
          answer        \* what it returned

setVars == <<table, usedSize, asked, answer>>

EmptySlot  == [type |-> "empty", key |-> NoKey]
Deleted(s) == [s EXCEPT !.type = "deleted"]
SlotOf(k)  == [type |-> "occupied", key |-> k]

Slots(size) == 0 .. size - 1
tableSize   == Cardinality(DOMAIN table)
allocTable(size) == [i \in Slots(size) |-> EmptySlot]

SetInit ==
    /\ table = allocTable(InitialSize) /\ usedSize = 0
    /\ asked = <<>> /\ answer = FALSE

-----------------------------------------------------------------------------
(* The slot a search is at after i steps, and what stops it: the key, an   *)
(* empty slot, or having seen every slot.                                  *)
Probe(t, k, i) == (Hash[k] + i) % Cardinality(DOMAIN t)
(* Mutant: a deleted slot ends the search. *)
StopsAtDeleted(t, k, i) == t[Probe(t, k, i)].type # "occupied" \/ t[Probe(t, k, i)].key = k
Stops(t, k, i) ==
    \/ t[Probe(t, k, i)].type = "empty"
    \/ t[Probe(t, k, i)] = SlotOf(k)

Steps(t, k) ==
    LET n == Cardinality(DOMAIN t)
    IN CHOOSE i \in 0..n : /\ i = n \/ Stops(t, k, i)
                           /\ \A j \in 0..(i - 1) : ~Stops(t, k, j)

Has(t, k) == t[Probe(t, k, Steps(t, k))] = SlotOf(k)

(* Where insert puts a key it did not find: the first deleted slot of the  *)
(* search, or the slot the search stopped at.                              *)
FreeSlot(t, k) ==
    LET deleted == {i \in 0..(Steps(t, k) - 1) : t[Probe(t, k, i)].type = "deleted"}
    IN IF deleted = {} THEN Probe(t, k, Steps(t, k))
       ELSE Probe(t, k, CHOOSE i \in deleted : \A j \in deleted : i <= j)

(* resize: the occupied slots of the old table, in order, into an empty    *)
(* one.                                                                    *)
Rehash(t, size) ==
    LET filled[i \in 0..Cardinality(DOMAIN t)] ==
            IF i = 0 THEN allocTable(size)
            ELSE IF t[i - 1].type # "occupied" THEN filled[i - 1]
            ELSE [filled[i - 1] EXCEPT ![FreeSlot(filled[i - 1], t[i - 1].key)]
                     = SlotOf(t[i - 1].key)]
    IN filled[Cardinality(DOMAIN t)]

(* Mutant: the new table keeps the slots of the old one where they are. *)
CopyTable(t) == [i \in Slots(2 * tableSize) |-> IF i < tableSize THEN t[i] ELSE EmptySlot]
Grow(t) == Rehash(t, 2 * tableSize)

(* Mutant: the table grows when it is more than full. *)
GrownLate == IF usedSize > tableSize THEN Grow(table) ELSE table
Grown == IF usedSize * 10 >= tableSize * 7 THEN Grow(table) ELSE table

-----------------------------------------------------------------------------
(* The table grows before the search, also for a key that is in already.   *)
Set_insert(k) ==
    /\ asked' = <<"insert", k>>
    /\ answer' = ~Has(Grown, k)
    /\ table' = IF Has(Grown, k) THEN Grown
                ELSE [Grown EXCEPT ![FreeSlot(Grown, k)] = SlotOf(k)]
    /\ usedSize' = IF Has(Grown, k) THEN usedSize ELSE usedSize + 1

Set_remove(k) ==
    /\ asked' = <<"remove", k>>
    /\ answer' = Has(table, k)
    /\ IF Has(table, k)
         THEN /\ table' = [table EXCEPT ![Probe(table, k, Steps(table, k))] = Deleted(@)]
              /\ usedSize' = usedSize - 1
         ELSE UNCHANGED <<table, usedSize>>

Set_find(k) ==
    /\ asked' = <<"find", k>>
    /\ answer' = Has(table, k)
    /\ UNCHANGED <<table, usedSize>>

Set_clear ==
    /\ table' = allocTable(tableSize) /\ usedSize' = 0
    /\ UNCHANGED <<asked, answer>>

SetNext == Set_clear \/ \E k \in Key : Set_insert(k) \/ Set_remove(k) \/ Set_find(k)

SetSpec == SetInit /\ [][SetNext]_setVars

-----------------------------------------------------------------------------
SetTypeOK ==
    /\ table \in [DOMAIN table -> [type : {"empty", "deleted", "occupied"},
                                   key : Key \cup {NoKey}]]
    /\ usedSize \in Nat /\ answer \in BOOLEAN

Occupied == {i \in DOMAIN table : table[i].type = "occupied"}

(* A search comes to every key that is in: between the slot its hash gives *)
(* and the one it lies in no slot is empty.  It is what deleted slots are  *)
(* kept for, and what a new table must be built to.                        *)
Reachable ==
    \A i \in Occupied :
        \E n \in 0..(tableSize - 1) :
            /\ Probe(table, table[i].key, n) = i
            /\ \A j \in 0..(n - 1) : table[Probe(table, table[i].key, j)].type # "empty"

(* usedSize, on which growth depends, is the number of items; it leaves a  *)
(* slot that is not occupied, so that Set_insert always finds one.             *)
UsedCounts == usedSize = Cardinality(Occupied) /\ usedSize <= tableSize

(* The table answers as the set of its keys does, whatever was deleted and *)
(* however often it grew; no key is in twice.                              *)
Keys == INSTANCE KeySet WITH keys   <- {table[i].key : i \in Occupied}
ImplementsKeySet == Keys!Spec

---------------------------------------------------------------------------
(* The dictionary.                                                         *)

CONSTANTS DictKeys,
          IntSpace      \* how many values an int has, an even number

ASSUME DictAssumption ==
    /\ DictKeys \subseteq Nat
    /\ IntSpace \in Nat \ {0} /\ IntSpace % 2 = 0

VARIABLES pairs,        \* the keys, in the order of the array
          it,           \* dict->it, from 0
          called,       \* history: the last get or set, <<operation, key>>
          found,        \* what it returned
          round         \* history: what getNext returned since the last reset

dictVars == <<pairs, it, called, found, round>>

DictInit == pairs = <<>> /\ it = 0 /\ called = <<>> /\ found = FALSE /\ round = <<>>

-----------------------------------------------------------------------------
(* Mutant: the difference stays without a sign. *)
ToUnsigned(n) == n % IntSpace
ToInt(n) == LET low == n % IntSpace
            IN IF 2 * low < IntSpace THEN low ELSE low - IntSpace

(* getSlot: search[<<l, r>>] is the slot for key in pairs[l..r], from 0.   *)
getSlot(key) ==
    LET Cmp(idx) == ToInt(pairs[idx + 1] - key)
        search[part \in (0..Len(pairs)) \X (-1..(Len(pairs) - 1))] ==
            LET l == part[1]
                r == part[2]
                idx == (l + r) \div 2
            IN IF l > r THEN [match |-> FALSE, idx |-> l]
               ELSE IF Cmp(idx) = 0 THEN [match |-> TRUE, idx |-> idx]
               ELSE IF Cmp(idx) < 0 THEN search[<<idx + 1, r>>]
               ELSE search[<<l, idx - 1>>]
    IN search[<<0, Len(pairs) - 1>>]

get(key) ==
    /\ called' = <<"find", key>>
    /\ found' = getSlot(key).match
    /\ UNCHANGED <<pairs, it, round>>

(* Mutant: the elements are shifted from one slot further on. *)
ShiftedBehind(slot) == IF slot.idx < Len(pairs) THEN slot.idx + 2 ELSE slot.idx + 1
shiftRight(slot) == slot.idx + 1

(* set leaves a key that is in as it is. *)
set(key) ==
    LET slot == getSlot(key)
    IN /\ called' = <<"insert", key>>
       /\ found' = ~slot.match
       /\ pairs' = IF slot.match THEN pairs ELSE InsertAt(pairs, shiftRight(slot), key)
       /\ UNCHANGED <<it, round>>

(* Mutant: the cursor stops at the end. *)
CursorStays == IF it + 1 >= Len(pairs) THEN it ELSE it + 1
Advance == IF it + 1 >= Len(pairs) THEN 0 ELSE it + 1

getNext ==
    /\ pairs # <<>> /\ Len(round) < Len(pairs)
    /\ round' = Append(round, pairs[it + 1])
    /\ it' = Advance
    /\ UNCHANGED <<pairs, called, found>>

resetIterator ==
    /\ it' = 0 /\ round' = <<>>
    /\ UNCHANGED <<pairs, called, found>>

Dict_clear ==
    /\ pairs' = <<>> /\ it' = 0 /\ round' = <<>>
    /\ UNCHANGED <<called, found>>

(* The users go round the dictionary without adding to it. *)
DictNext ==
    \/ \E key \in DictKeys : get(key) \/ (round = <<>> /\ set(key))
    \/ getNext \/ resetIterator \/ Dict_clear

DictSpec == DictInit /\ [][DictNext]_dictVars

-----------------------------------------------------------------------------
DictTypeOK ==
    /\ pairs \in Seq(DictKeys)
    /\ it \in 0..Len(pairs) /\ found \in BOOLEAN
    /\ round \in Seq(DictKeys)

(* The array stays sorted, which the search by halving needs. *)
PairsSorted == \A i \in 1..(Len(pairs) - 1) : pairs[i] < pairs[i + 1]

(* As many calls of getNext as there are pairs give every pair once and    *)
(* leave the cursor at the first: the loops that print a frame's locals    *)
(* (interpreter_exec.cpp:425) stop when they are at the first again.       *)
RoundIsWhole == round # <<>> /\ Len(round) = Len(pairs) => round = pairs /\ it = 0

(* Whatever was set before, get and set answer as for a set of keys.       *)
Entries == INSTANCE KeySet WITH Key    <- DictKeys,
                                keys   <- {pairs[i] : i \in DOMAIN pairs},
                                asked  <- called,
                                answer <- found
ImplementsKeys == Entries!Spec
===============================================================================
