------------------------------ MODULE TypeTable ------------------------------
(***************************************************************************)
(* The table of derived types of src/src/data_types.cpp: pointers, arrays  *)
(* and slices are made once and shared by all threads.  Each of the three  *)
(* sets is guarded by a lock of its own, an atomic flag threads wait at;   *)
(* an entry is found by one number, the address of the element with the    *)
(* length (or the flags) in the bits above it.                             *)
(***************************************************************************)
EXTENDS Integers, Sequences, FiniteSets

CONSTANTS
    TypeThread,
    Requests,       \* Requests[t]: [kind, element, len] in order; an element
                    \* is a basic type or the number of an earlier request
    Basic,          \* addresses of the basic types
    AddressSpace,   \* 2^48 in the program: what a length is multiplied by
    KeySpace        \* 2^64 in the program

Kind == {"pointer", "array", "slice"}

ASSUME TypeAssumption ==
    /\ {AddressSpace, KeySpace} \subseteq Nat
    /\ Basic \subseteq 0..(AddressSpace - 1) /\ Basic = 0..(Cardinality(Basic) - 1)

(* A pointer has no length; what is derived is derived from what is there.  *)
Request == [kind : Kind, element : [basic : BOOLEAN, at : Nat], len : Nat]
ASSUME RequestAssumption ==
    /\ Requests \in [TypeThread -> Seq(Request)]
    /\ \A t \in TypeThread : \A i \in 1..Len(Requests[t]) :
         LET r == Requests[t][i]
         IN /\ r.element.at \in IF r.element.basic THEN Basic ELSE 1..(i - 1)
            /\ r.kind = "pointer" => r.len = 0

VARIABLES
    heap,           \* address -> what was made there
    entries,        \* per kind: the keys in its set, with the address found
    lock,           \* per kind: setPointerLock, setArrayLock, setSliceLock
    at,             \* per thread: the next step
    got,            \* per thread: the address its present request found
    results         \* per thread: the addresses its requests gave

typeVars == <<heap, entries, lock, at, got, results>>

TypesInit ==
    /\ heap = <<>>
    /\ entries = [k \in Kind |-> <<>>]
    /\ lock = [k \in Kind |-> FALSE]
    /\ at = [t \in TypeThread |-> "lock"]
    /\ got = [t \in TypeThread |-> 0]
    /\ results = [t \in TypeThread |-> <<>>]

(* alloc gives every new type an address of its own, behind the basic ones.*)
Address(n) == Cardinality(Basic) + n - 1

Asked(t) == Requests[t][Len(results[t]) + 1]
Busy(t)  == Len(results[t]) < Len(Requests[t])
KindOf(t) == Asked(t).kind
ElementOf(t) == IF Asked(t).element.basic THEN Asked(t).element.at
                ELSE results[t][Asked(t).element.at]

(* Mutant: the length is added without being moved up. *)
AddedLength(address, len) == address + len
combineHash(address, len) == (address + len * AddressSpace) % KeySpace
KeyOf(t) == IF KindOf(t) = "pointer" THEN ElementOf(t)
            ELSE combineHash(ElementOf(t), Asked(t).len)

Step(t, from, to) == Busy(t) /\ at[t] = from /\ at' = [at EXCEPT ![t] = to]

-----------------------------------------------------------------------------
(* Mutant: a thread that lost the race goes on. *)
LockOrNot(t) ==
    /\ Step(t, "lock", "find")
    /\ lock' = [lock EXCEPT ![KindOf(t)] = TRUE]
    /\ UNCHANGED <<heap, entries, got, results>>

lockSet(t) ==
    \/ /\ Step(t, "lock", "find") /\ ~lock[KindOf(t)]
       /\ lock' = [lock EXCEPT ![KindOf(t)] = TRUE]
       /\ UNCHANGED <<heap, entries, got, results>>
    \/ /\ Step(t, "lock", "wait") /\ lock[KindOf(t)]
       /\ UNCHANGED <<heap, entries, lock, got, results>>

(* wait(true) goes to sleep only when the flag is still set. *)
WaitForKey(t) ==
    /\ \/ Step(t, "wait", "asleep") /\ lock[KindOf(t)]
       \/ Step(t, "wait", "lock") /\ ~lock[KindOf(t)]
    /\ UNCHANGED <<heap, entries, lock, got, results>>

Known(t) == KeyOf(t) \in DOMAIN entries[KindOf(t)]

Find(t) ==
    /\ Step(t, "find", "unlock") /\ Known(t)
    /\ got' = [got EXCEPT ![t] = entries[KindOf(t)][KeyOf(t)]]
    /\ UNCHANGED <<heap, entries, lock, results>>

Miss(t) ==
    /\ Step(t, "find", "make") /\ ~Known(t)
    /\ UNCHANGED <<heap, entries, lock, got, results>>

Make(t) ==
    /\ Step(t, "make", "unlock")
    /\ heap' = Append(heap, [kind |-> KindOf(t), element |-> ElementOf(t),
                             len |-> Asked(t).len])
    /\ entries' = [entries EXCEPT ![KindOf(t)] =
                     [k \in DOMAIN @ \cup {KeyOf(t)} |->
                        IF k = KeyOf(t) THEN Address(Len(heap')) ELSE @[k]]]
    /\ got' = [got EXCEPT ![t] = Address(Len(heap'))]
    /\ UNCHANGED <<lock, results>>

(* unlockSet stores false, then wakes one of those asleep. *)
unlockSet(t) ==
    /\ Step(t, "unlock", "notify")
    /\ lock' = [lock EXCEPT ![KindOf(t)] = FALSE]
    /\ UNCHANGED <<heap, entries, got, results>>

Asleep(kind) == {t \in TypeThread : at[t] = "asleep" /\ KindOf(t) = kind}

Return(t) == results' = [results EXCEPT ![t] = Append(@, got[t])]

(* Mutant: nobody is woken. *)
ReturnAtOnce(t) ==
    /\ Step(t, "notify", "lock") /\ Return(t)
    /\ UNCHANGED <<heap, entries, lock, got>>

Notify(t) ==
    /\ Busy(t) /\ at[t] = "notify" /\ Return(t)
    /\ \/ /\ Asleep(KindOf(t)) = {}
          /\ at' = [at EXCEPT ![t] = "lock"]
       \/ \E s \in Asleep(KindOf(t)) : at' = [at EXCEPT ![t] = "lock", ![s] = "lock"]
    /\ UNCHANGED <<heap, entries, lock, got>>

TypeStep(t) == \/ lockSet(t) \/ WaitForKey(t) \/ Find(t) \/ Miss(t) \/ Make(t)
               \/ unlockSet(t) \/ Notify(t)

TypesNext == \E t \in TypeThread : TypeStep(t)

TypesSpec == TypesInit /\ [][TypesNext]_typeVars

-----------------------------------------------------------------------------
TypesTypeOK ==
    /\ lock \in [Kind -> BOOLEAN]
    /\ at \in [TypeThread -> {"lock", "wait", "asleep", "find", "make", "unlock", "notify"}]
    /\ \A t \in TypeThread : Len(results[t]) <= Len(Requests[t])

TypeAt(address) == heap[address - Cardinality(Basic) + 1]

(* Types are compared by address: what was asked for once, by whichever    *)
(* thread, is made once.                                                   *)
Interned == \A i, j \in DOMAIN heap : heap[i] = heap[j] => i = j

(* A thread gets the type it asked for: kind, element and length.  Two     *)
(* that differ must not meet at one key.                                   *)
AsAsked ==
    \A t \in TypeThread : at[t] = "unlock" =>
        TypeAt(got[t]) = [kind |-> KindOf(t), element |-> ElementOf(t),
                          len |-> Asked(t).len]

(* One type of a kind, and every thread gets the one it asked for.          *)
TypesAreOne == TypesTypeOK /\ Interned /\ AsAsked

(* No thread sleeps at a lock that is never given to it. *)
EveryTypeIsMade == <>(\A t \in TypeThread : Len(results[t]) = Len(Requests[t]))
=============================================================================
