--------------------------- MODULE LibrariesProofs ----------------------------
(***************************************************************************)
(* Proofs about the libraries of foreign functions, for any threads,       *)
(* functions, imports and files.                                           *)
(***************************************************************************)
EXTENDS Libraries, FiniteSetTheorems, SequenceTheorems, TLAPS

Inside(t) == step[t] \in {"find", "add", "free", "reload", "keep", "unlock"}

(* What holds whatever is disturbed: who is in the set of libraries is     *)
(* alone, and what a thread needs for its next step is there.              *)
Guarded ==
    /\ \A t \in LibThread : Inside(t) => setLock
    /\ \A t, u \in LibThread : Inside(t) /\ Inside(u) => t = u
LocalIn(t, s) ==
    /\ s # "idle" => job[t] <= Len(Work[t])
    /\ s \in {"release", "context", "invoke", "free", "reload"} => JobIs(t, "run")
    /\ s = "record" => JobIs(t, "bind")
    /\ s # "idle" /\ JobIs(t, "run") => Lib(t) # NoLib
    /\ s \in {"record", "resolve", "unlock"} => Lib(t) # NoLib
    /\ s \in {"free", "reload", "keep"} => FoundAt(Path(t)) # {}
    /\ s = "add" => FoundAt(Path(t)) = {}
    /\ s \in {"free", "reload"} => libs[Slot(t)].level = "inspect"
    /\ s = "keep" /\ JobIs(t, "run") => libs[Slot(t)].level = "execute"
    /\ s \in {"unlock", "resolve", "context"} /\ JobIs(t, "run") => libs[Lib(t)].level = "execute"
LocalOf(t) == LocalIn(t, step[t])
Locals == \A t \in LibThread : LocalOf(t)
ImportsMatch == \A i \in LibImport : importLib[i] # NoLib => libs[importLib[i]].file = FileOf[i]
BoundHaveOne == \A f \in bound : fcnLib[f] # NoLib
LibInv == LibrariesTypeOK /\ OneLibrary /\ ImportsMatch /\ BoundHaveOne /\ Guarded /\ Locals

(* While nothing is disturbed.  Away: the library's handle was given back  *)
(* by the one thread that is to load it for calls.  A holder has a load of *)
(* its own to give back; a file is loaded at least as often as its holders *)
(* and its library need it, and all of them know it where it lies.         *)
Gone == {"open", "identify", "lock", "find", "add", "free", "reload"}
TakesAway(t, l) == JobIs(t, "run") /\ step[t] \in Gone /\ Lib(t) = l
Away(l) == \E t \in LibThread : TakesAway(t, l)
LoadAt(t, s) == s \in {"identify", "lock", "find", "add", "free"} \/ (s = "keep" /\ JobIs(t, "bind"))
HasLoad(t, x) == LoadAt(t, step[t]) /\ FileOf[Import(t)] = x
Holders(x) == {t \in LibThread : HasLoad(t, x)}
Held(x) == \E l \in DOMAIN libs : libs[l].file = x /\ ~Away(l)
Claims(x) == Cardinality(Holders(x)) + (IF Held(x) THEN 1 ELSE 0)
Backed(x) ==
    /\ os[x].count >= Claims(x)
    /\ \A t \in Holders(x) : os[x].base = hnd[t]
    /\ \A l \in DOMAIN libs : libs[l].file = x /\ ~Away(l) => os[x].base = libs[l].handle

OneUpgrades == \A t, u \in LibThread :
    Upgrading(t) /\ Upgrading(u) /\ Lib(t) = Lib(u) => t = u
StillInspect == \A t \in LibThread :
    JobIs(t, "run") /\ step[t] \in Gone => libs[Lib(t)].level = "inspect"
AllBacked == \A x \in LibFile : Backed(x)
TargetsLie == \A f \in LibFunction : target[f] # NoHandle =>
    /\ fcnLib[f] # NoLib /\ libs[fcnLib[f]].level = "execute" /\ target[f] = libs[fcnLib[f]].handle
AddressIn(t, s) ==
    /\ s = "context" => externAddress[JobFcn(t)] = libs[Lib(t)].handle
    /\ s = "invoke" => target[JobFcn(t)] = libs[Lib(t)].handle /\ libs[Lib(t)].level = "execute"
Addresses == \A t \in LibThread : AddressIn(t, step[t])
Undisturbed == OneUpgrades /\ StillInspect /\ AllBacked /\ TargetsLie /\ Addresses
StayInv == ~spoilt => Undisturbed

-----------------------------------------------------------------------------
(* Types. *)

LEMMA SlotIsThere ==
    ASSUME NEW t \in LibThread, FoundAt(Path(t)) # {}
    PROVE  Slot(t) \in DOMAIN libs /\ libs[Slot(t)].file = Path(t)
  BY DEF Slot, FoundAt

LEMMA JobIsOne ==
    ASSUME NEW t \in LibThread, LibrariesTypeOK, job[t] <= Len(Work[t])
    PROVE  /\ job[t] \in 1..Len(Work[t]) /\ JobFcn(t) \in LibFunction /\ Import(t) \in LibImport
           /\ FileOf[Import(t)] \in LibFile
           /\ JobIs(t, "run") <=> ~JobIs(t, "bind")
<1> DEFINE Jobs == [do : {"bind", "run"}, fcn : LibFunction]
<1>a. Work[t] \in Seq(Jobs)
  BY LibraryAssumption
<1>b. job[t] \in Nat \ {0}
  BY DEF LibrariesTypeOK
<1>c. Work[t][job[t]] \in Jobs /\ job[t] \in 1..Len(Work[t])
  <2> HIDE DEF Jobs
  <2> QED  BY <1>a, <1>b
<1>1. job[t] \in 1..Len(Work[t])
  BY <1>c
<1>2. Work[t][job[t]] \in [do : {"bind", "run"}, fcn : LibFunction]
  BY <1>c
<1> QED
  BY <1>1, <1>2, LibraryAssumption DEF JobFcn, Import, JobIs

LEMMA PathIsFile ==
    ASSUME NEW t \in LibThread, LibrariesTypeOK, OneLibrary, job[t] <= Len(Work[t]),
           JobIs(t, "run") => Lib(t) # NoLib
    PROVE  Path(t) = FileOf[Import(t)] /\ Path(t) \in LibFile
  BY JobIsOne DEF Path, Lib, OneLibrary, Import, LibrariesTypeOK


LibraryRecord == [file : LibFile, handle : Bases \cup {NoHandle}, level : {"inspect", "execute"}]

LEMMA FreedIsTyped ==
    ASSUME LibrariesTypeOK, NEW x, NEW h
    PROVE  Freed(x, h) \in [LibFile -> [count : Nat, base : Bases \cup {NoHandle}]]
<1> DEFINE Entry == [count : Nat, base : Bases \cup {NoHandle}]
<1>1. os \in [LibFile -> Entry]
  BY DEF LibrariesTypeOK
<1>2. CASE x \in LibFile /\ IsLoaded(x, h)
  <2>1. os[x] \in Entry /\ os[x].count \in Nat /\ os[x].count > 0
    BY <1>1, <1>2 DEF IsLoaded
  <2> DEFINE one == [os[x] EXCEPT !.count = @ - 1]
  <2>2. one \in Entry
    BY <2>1
  <2>3. Freed(x, h) = [os EXCEPT ![x] = one]
    BY <1>1, <1>2, <2>1 DEF Freed
  <2>4. Freed(x, h) \in [LibFile -> Entry]
    <3> HIDE DEF Entry, one
    <3> QED  BY <1>1, <1>2, <2>2, <2>3
  <2> QED  BY <2>4
<1>3. CASE ~(x \in LibFile /\ IsLoaded(x, h))
  BY <1>1, <1>3 DEF Freed
<1> QED  BY <1>2, <1>3

LEMMA LoadedIsTyped ==
    ASSUME LibrariesTypeOK, NEW x \in LibFile, NEW base \in Bases
    PROVE  /\ LoadedAt(x, base) \in [count : Nat, base : Bases \cup {NoHandle}]
           /\ LoadedAt(x, base).count > 0
<1>1. os[x] \in [count : Nat, base : Bases \cup {NoHandle}]
  BY DEF LibrariesTypeOK
<1>2. CASE os[x].count > 0
  BY <1>1, <1>2 DEF LoadedAt
<1>3. CASE ~(os[x].count > 0)
  BY <1>1, <1>3 DEF LoadedAt
<1> QED  BY <1>2, <1>3

OsTyped == os \in [LibFile -> [count : Nat, base : Bases \cup {NoHandle}]]
SetTyped == setLock \in BOOLEAN /\ spoilt \in BOOLEAN
LibsTyped == libs \in Seq(LibraryRecord)
FcnTyped ==
    /\ importLib \in [LibImport -> {NoLib} \cup DOMAIN libs]
    /\ fcnLib \in [LibFunction -> {NoLib} \cup DOMAIN libs]
AddressTyped ==
    /\ externAddress \in [LibFunction -> Bases \cup {NoHandle}]
    /\ target \in [LibFunction -> Bases \cup {NoHandle}]
    /\ bound \subseteq LibFunction
Steps == Loading \cup {"idle", "record", "release", "context", "resolve", "invoke"}
StepTyped == step \in [LibThread -> Steps] /\ job \in [LibThread -> Nat \ {0}]
HndTyped == hnd \in [LibThread -> Bases \cup {NoHandle}]

LEMMA TypedParts ==
    LibrariesTypeOK <=> OsTyped /\ SetTyped /\ LibsTyped /\ FcnTyped /\ AddressTyped /\ StepTyped /\ HndTyped
  BY DEF LibrariesTypeOK, OsTyped, SetTyped, LibsTyped, LibraryRecord, FcnTyped, AddressTyped,
         StepTyped, Steps, HndTyped

LEMMA TypedPartsAfter ==
    ASSUME OsTyped', SetTyped', LibsTyped', FcnTyped', AddressTyped', StepTyped', HndTyped'
    PROVE  LibrariesTypeOK'
  BY DEF LibrariesTypeOK, OsTyped, SetTyped, LibsTyped, LibraryRecord, FcnTyped, AddressTyped,
         StepTyped, Steps, HndTyped

LEMMA TypedPartsNow ==
    ASSUME LibrariesTypeOK'
    PROVE  OsTyped' /\ SetTyped' /\ LibsTyped' /\ FcnTyped' /\ AddressTyped' /\ StepTyped' /\ HndTyped'
  BY DEF LibrariesTypeOK, OsTyped, SetTyped, LibsTyped, LibraryRecord, FcnTyped, AddressTyped,
         StepTyped, Steps, HndTyped

LEMMA GoIsTyped ==
    ASSUME StepTyped, NEW t \in LibThread, NEW to \in Steps, Go(t, to) PROVE StepTyped'
  BY DEF StepTyped, Go
LEMMA DoneIsTyped ==
    ASSUME StepTyped, NEW t \in LibThread, EndsJob(t) PROVE StepTyped'
<1>1. job[t] + 1 \in Nat \ {0}
  BY DEF StepTyped
<1> QED
  BY <1>1 DEF StepTyped, EndsJob, Steps
LEMMA FailsIsTyped ==
    ASSUME StepTyped, SetTyped, NEW t \in LibThread, Fails(t) PROVE StepTyped' /\ spoilt' \in BOOLEAN
  BY GoIsTyped, DoneIsTyped DEF Fails, Steps, SetTyped

LEMMA RecordAt ==
    ASSUME LibsTyped, NEW l \in DOMAIN libs PROVE libs[l] \in LibraryRecord
<1> HIDE DEF LibraryRecord
<1> QED  BY DEF LibsTyped

LEMMA ChangedIsTyped ==
    ASSUME LibsTyped, NEW l \in DOMAIN libs, NEW h \in Bases \cup {NoHandle},
           libs' = [libs EXCEPT ![l].handle = h, ![l].level = "execute"]
    PROVE  LibsTyped' /\ DOMAIN libs' = DOMAIN libs
<1> DEFINE r == [libs[l] EXCEPT !.handle = h, !.level = "execute"]
<1>1. r \in LibraryRecord
  BY RecordAt DEF LibraryRecord
<1>2. libs' = [libs EXCEPT ![l] = r]
  BY RecordAt DEF LibraryRecord
<1>3. libs' \in Seq(LibraryRecord) /\ DOMAIN libs' = DOMAIN libs
  <2>1. libs \in Seq(LibraryRecord) /\ l \in 1..Len(libs)
    BY DEF LibsTyped
  <2> HIDE DEF r, LibraryRecord
  <2>2. [libs EXCEPT ![l] = r] \in Seq(LibraryRecord) /\ Len([libs EXCEPT ![l] = r]) = Len(libs)
    BY <2>1, <1>1, ExceptSeq
  <2> QED  BY <1>2, <2>1, <2>2
<1> QED  BY <1>3 DEF LibsTyped, LibraryRecord

LEMMA TypesKept ==
    ASSUME LibInv, NEW t \in LibThread, LibraryStep(t) PROVE LibrariesTypeOK'
<1>0. LibrariesTypeOK /\ OneLibrary /\ LocalOf(t)
  BY DEF LibInv, Locals
<1>a. OsTyped /\ SetTyped /\ LibsTyped /\ FcnTyped /\ AddressTyped /\ StepTyped /\ HndTyped
  BY <1>0, TypedParts
<1>b. job[t] <= Len(Work[t]) => JobFcn(t) \in LibFunction /\ Import(t) \in LibImport /\ Lib(t) \in {NoLib} \cup DOMAIN libs
  BY <1>0, <1>a, JobIsOne DEF Lib, FcnTyped
<1>c. job[t] <= Len(Work[t]) /\ step[t] # "idle" => Path(t) \in LibFile
  BY <1>0, PathIsFile DEF LocalOf, LocalIn
<1>d. step[t] = "resolve" /\ job[t] <= Len(Work[t]) => libs[Lib(t)].handle \in Bases \cup {NoHandle}
  BY <1>0, <1>a, <1>b, RecordAt DEF LocalOf, LocalIn, LibraryRecord
<1>e. step[t] = "reload" => Slot(t) \in DOMAIN libs
  BY <1>0, SlotIsThere DEF LocalOf, LocalIn
<1>1. CASE BindAgain(t)
  <2>1. OsTyped'
    BY <1>1, <1>a DEF BindAgain, fcnVars, OsTyped
  <2>2. SetTyped'
    BY <1>1, <1>a, FailsIsTyped DEF BindAgain, fcnVars, SetTyped, UsedMeanwhile, Go, EndsJob
  <2>3. LibsTyped'
    BY <1>1, <1>a DEF BindAgain, fcnVars, LibsTyped
  <2>4. FcnTyped'
    BY <1>1, <1>a DEF BindAgain, fcnVars, FcnTyped
  <2>5. AddressTyped'
    BY <1>1, <1>a DEF BindAgain, fcnVars, AddressTyped
  <2>6. StepTyped'
    BY <1>1, <1>a, GoIsTyped, DoneIsTyped, FailsIsTyped DEF BindAgain, fcnVars, Steps, Loading
  <2>7. HndTyped'
    BY <1>1, <1>a DEF BindAgain, fcnVars, HndTyped
  <2> QED  BY <2>1, <2>2, <2>3, <2>4, <2>5, <2>6, <2>7, TypedPartsAfter
<1>2. CASE BindImported(t)
  BY <1>2, <1>0, <1>b DEF BindImported, LibrariesTypeOK, fcnVars, Go, StepIs, Loading
<1>3. CASE BindLoads(t)
  BY <1>3, <1>0 DEF BindLoads, LibrariesTypeOK, fcnVars, Go, StepIs, Loading
<1>4. CASE RecordImport(t)
  BY <1>4, <1>0, <1>b DEF RecordImport, LibrariesTypeOK, fcnVars, Go, StepIs, Loading
<1>5. CASE CompileUpgrades(t)
  BY <1>5, <1>0 DEF CompileUpgrades, LibrariesTypeOK, fcnVars, Go, StepIs, Loading
<1>6. CASE CompileResolves(t)
  BY <1>6, <1>0 DEF CompileResolves, LibrariesTypeOK, fcnVars, Go, StepIs, Loading
<1>7. CASE CompiledBefore(t)
  BY <1>7, <1>0 DEF CompiledBefore, LibrariesTypeOK, fcnVars, Go, StepIs, Loading
<1>8. CASE GiveBack(t)
  BY <1>8, <1>0, FreedIsTyped DEF GiveBack, LibrariesTypeOK, fcnVars, Go, StepIs, Loading
<1>9. CASE MakeContext(t)
  BY <1>9, <1>0, <1>b DEF MakeContext, LibrariesTypeOK, fcnVars, Go, StepIs, Loading
<1>10. CASE invoke(t)
  <2>1. OsTyped'
    BY <1>10, <1>a DEF invoke, fcnVars, OsTyped
  <2>2. SetTyped'
    BY <1>10, <1>a, FailsIsTyped DEF invoke, fcnVars, SetTyped, UsedMeanwhile, Go, EndsJob
  <2>3. LibsTyped'
    BY <1>10, <1>a DEF invoke, fcnVars, LibsTyped
  <2>4. FcnTyped'
    BY <1>10, <1>a DEF invoke, fcnVars, FcnTyped
  <2>5. AddressTyped'
    BY <1>10, <1>a DEF invoke, fcnVars, AddressTyped
  <2>6. StepTyped'
    BY <1>10, <1>a, GoIsTyped, DoneIsTyped, FailsIsTyped DEF invoke, fcnVars, Steps, Loading
  <2>7. HndTyped'
    BY <1>10, <1>a DEF invoke, fcnVars, HndTyped
  <2> QED  BY <2>1, <2>2, <2>3, <2>4, <2>5, <2>6, <2>7, TypedPartsAfter
<1>11. CASE resolveFunction(t)
  <2>1. OsTyped'
    BY <1>11, <1>a DEF resolveFunction, fcnVars, OsTyped
  <2>2. SetTyped'
    BY <1>11, <1>a, FailsIsTyped DEF resolveFunction, fcnVars, SetTyped, UsedMeanwhile, Go, EndsJob
  <2>3. LibsTyped'
    BY <1>11, <1>a DEF resolveFunction, fcnVars, LibsTyped
  <2>4. FcnTyped'
    BY <1>11, <1>a DEF resolveFunction, fcnVars, FcnTyped
  <2>5. AddressTyped'
    BY <1>11, <1>a, <1>b, <1>d DEF resolveFunction, fcnVars, StepIs, AddressTyped
  <2>6. StepTyped'
    BY <1>11, <1>a, GoIsTyped, DoneIsTyped, FailsIsTyped DEF resolveFunction, fcnVars, Steps, Loading
  <2>7. HndTyped'
    BY <1>11, <1>a DEF resolveFunction, fcnVars, HndTyped
  <2> QED  BY <2>1, <2>2, <2>3, <2>4, <2>5, <2>6, <2>7, TypedPartsAfter
<1>12. CASE SymbolNotFound(t)
  <2>1. OsTyped'
    BY <1>12, <1>a DEF SymbolNotFound, fcnVars, OsTyped
  <2>2. SetTyped'
    BY <1>12, <1>a, FailsIsTyped DEF SymbolNotFound, fcnVars, SetTyped, UsedMeanwhile, Go, EndsJob
  <2>3. LibsTyped'
    BY <1>12, <1>a DEF SymbolNotFound, fcnVars, LibsTyped
  <2>4. FcnTyped'
    BY <1>12, <1>a DEF SymbolNotFound, fcnVars, FcnTyped
  <2>5. AddressTyped'
    BY <1>12, <1>a DEF SymbolNotFound, fcnVars, AddressTyped
  <2>6. StepTyped'
    BY <1>12, <1>a, GoIsTyped, DoneIsTyped, FailsIsTyped DEF SymbolNotFound, fcnVars, Steps, Loading
  <2>7. HndTyped'
    BY <1>12, <1>a DEF SymbolNotFound, fcnVars, HndTyped
  <2> QED  BY <2>1, <2>2, <2>3, <2>4, <2>5, <2>6, <2>7, TypedPartsAfter
<1>13. CASE Open(t)
  <2>1. OsTyped'
    BY <1>13, <1>a, <1>0, <1>c, FreedIsTyped, LoadedIsTyped DEF Open, fcnVars, StepIs, OsTyped
  <2>2. SetTyped'
    BY <1>13, <1>a, FailsIsTyped DEF Open, fcnVars, SetTyped, UsedMeanwhile, Go, EndsJob
  <2>3. LibsTyped'
    BY <1>13, <1>a DEF Open, fcnVars, LibsTyped
  <2>4. FcnTyped'
    BY <1>13, <1>a DEF Open, fcnVars, FcnTyped
  <2>5. AddressTyped'
    BY <1>13, <1>a DEF Open, fcnVars, AddressTyped
  <2>6. StepTyped'
    BY <1>13, <1>a, GoIsTyped, DoneIsTyped, FailsIsTyped DEF Open, fcnVars, Steps, Loading
  <2>7. HndTyped'
    BY <1>13, <1>a, <1>0, <1>c, LoadedIsTyped DEF Open, fcnVars, StepIs, HndTyped, OsTyped
  <2> QED  BY <2>1, <2>2, <2>3, <2>4, <2>5, <2>6, <2>7, TypedPartsAfter
<1>14. CASE OpenFails(t)
  <2>1. OsTyped'
    BY <1>14, <1>a DEF OpenFails, fcnVars, OsTyped
  <2>2. SetTyped'
    BY <1>14, <1>a, FailsIsTyped DEF OpenFails, fcnVars, SetTyped, UsedMeanwhile, Go, EndsJob
  <2>3. LibsTyped'
    BY <1>14, <1>a DEF OpenFails, fcnVars, LibsTyped
  <2>4. FcnTyped'
    BY <1>14, <1>a DEF OpenFails, fcnVars, FcnTyped
  <2>5. AddressTyped'
    BY <1>14, <1>a DEF OpenFails, fcnVars, AddressTyped
  <2>6. StepTyped'
    BY <1>14, <1>a, GoIsTyped, DoneIsTyped, FailsIsTyped DEF OpenFails, fcnVars, Steps, Loading
  <2>7. HndTyped'
    BY <1>14, <1>a DEF OpenFails, fcnVars, HndTyped
  <2> QED  BY <2>1, <2>2, <2>3, <2>4, <2>5, <2>6, <2>7, TypedPartsAfter
<1>15. CASE Identify(t)
  BY <1>15, <1>0 DEF Identify, LibrariesTypeOK, fcnVars, Go, StepIs, Loading
<1>16. CASE IdentifyFails(t)
  <2>1. OsTyped'
    BY <1>16, <1>a, <1>0, <1>c, FreedIsTyped, LoadedIsTyped DEF IdentifyFails, fcnVars, StepIs, OsTyped
  <2>2. SetTyped'
    BY <1>16, <1>a, FailsIsTyped DEF IdentifyFails, fcnVars, SetTyped, UsedMeanwhile, Go, EndsJob
  <2>3. LibsTyped'
    BY <1>16, <1>a DEF IdentifyFails, fcnVars, LibsTyped
  <2>4. FcnTyped'
    BY <1>16, <1>a DEF IdentifyFails, fcnVars, FcnTyped
  <2>5. AddressTyped'
    BY <1>16, <1>a DEF IdentifyFails, fcnVars, AddressTyped
  <2>6. StepTyped'
    BY <1>16, <1>a, GoIsTyped, DoneIsTyped, FailsIsTyped DEF IdentifyFails, fcnVars, Steps, Loading
  <2>7. HndTyped'
    BY <1>16, <1>a DEF IdentifyFails, fcnVars, HndTyped
  <2> QED  BY <2>1, <2>2, <2>3, <2>4, <2>5, <2>6, <2>7, TypedPartsAfter
<1>17. CASE lockLibSet(t)
  BY <1>17, <1>0 DEF lockLibSet, LibrariesTypeOK, fcnVars, Go, StepIs, Loading
<1>18. CASE AddLibrary(t)
  <2>1. OsTyped'
    BY <1>18, <1>a DEF AddLibrary, fcnVars, OsTyped
  <2>2. SetTyped'
    BY <1>18, <1>a, FailsIsTyped DEF AddLibrary, fcnVars, SetTyped, UsedMeanwhile, Go, EndsJob
  <2>3. LibsTyped'
    BY <1>18, <1>a, <1>c DEF AddLibrary, fcnVars, StepIs, LibsTyped, LibraryRecord, HndTyped, Level
  <2>4. FcnTyped'
    BY <1>18, <1>a, <1>b, <1>0, SlotIsThere DEF AddLibrary, fcnVars, StepIs, Hands, FcnTyped, LibsTyped, LocalOf, LocalIn
  <2>5. AddressTyped'
    BY <1>18, <1>a DEF AddLibrary, fcnVars, AddressTyped
  <2>6. StepTyped'
    BY <1>18, <1>a, GoIsTyped, DoneIsTyped, FailsIsTyped DEF AddLibrary, fcnVars, Steps, Loading
  <2>7. HndTyped'
    BY <1>18, <1>a DEF AddLibrary, fcnVars, HndTyped
  <2> QED  BY <2>1, <2>2, <2>3, <2>4, <2>5, <2>6, <2>7, TypedPartsAfter
<1>19. CASE FindLibrary(t)
  BY <1>19, <1>0 DEF FindLibrary, LibrariesTypeOK, fcnVars, Go, StepIs, Loading
<1>20. CASE UpgradeFrees(t)
  BY <1>20, <1>0, FreedIsTyped DEF UpgradeFrees, LibrariesTypeOK, fcnVars, Go, StepIs, Loading
<1>21. CASE UpgradeReloads(t)
  <2>1. OsTyped'
    BY <1>21, <1>a, <1>0, <1>c, FreedIsTyped, LoadedIsTyped DEF UpgradeReloads, fcnVars, StepIs, OsTyped
  <2>2. SetTyped'
    BY <1>21, <1>a, FailsIsTyped DEF UpgradeReloads, fcnVars, SetTyped, UsedMeanwhile, Go, EndsJob
  <2>3. LibsTyped'
    <3>1. PICK base \in Bases : os' = [os EXCEPT ![Path(t)] = LoadedAt(Path(t), base)]
                                    /\ libs' = [libs EXCEPT ![Slot(t)].handle = os'[Path(t)].base, ![Slot(t)].level = "execute"]
      BY <1>21 DEF UpgradeReloads
    <3>2. os'[Path(t)].base \in Bases \cup {NoHandle}
      BY <1>21, <2>1, <1>c DEF OsTyped, UpgradeReloads, StepIs
    <3> QED  BY <1>21, <1>a, <1>e, <3>1, <3>2, ChangedIsTyped DEF UpgradeReloads, StepIs
  <2>4. FcnTyped'
    BY <1>21, <1>a, <1>b, <1>0, SlotIsThere DEF UpgradeReloads, fcnVars, StepIs, Hands, FcnTyped, LibsTyped, LocalOf, LocalIn
  <2>5. AddressTyped'
    BY <1>21, <1>a DEF UpgradeReloads, fcnVars, AddressTyped
  <2>6. StepTyped'
    BY <1>21, <1>a, GoIsTyped, DoneIsTyped, FailsIsTyped DEF UpgradeReloads, fcnVars, Steps, Loading
  <2>7. HndTyped'
    BY <1>21, <1>a DEF UpgradeReloads, fcnVars, HndTyped
  <2> QED  BY <2>1, <2>2, <2>3, <2>4, <2>5, <2>6, <2>7, TypedPartsAfter
<1>22. CASE UpgradeFails(t)
  <2>1. OsTyped'
    BY <1>22, <1>a DEF UpgradeFails, fcnVars, OsTyped
  <2>2. SetTyped'
    BY <1>22, <1>a, FailsIsTyped DEF UpgradeFails, fcnVars, SetTyped, UsedMeanwhile, Go, EndsJob
  <2>3. LibsTyped'
    BY <1>22, <1>a, <1>e, ChangedIsTyped DEF UpgradeFails, StepIs
  <2>4. FcnTyped'
    BY <1>22, <1>a, <1>b, <1>0, SlotIsThere DEF UpgradeFails, fcnVars, StepIs, Hands, FcnTyped, LibsTyped, LocalOf, LocalIn
  <2>5. AddressTyped'
    BY <1>22, <1>a DEF UpgradeFails, fcnVars, AddressTyped
  <2>6. StepTyped'
    BY <1>22, <1>a, GoIsTyped, DoneIsTyped, FailsIsTyped DEF UpgradeFails, fcnVars, Steps, Loading
  <2>7. HndTyped'
    BY <1>22, <1>a DEF UpgradeFails, fcnVars, HndTyped
  <2> QED  BY <2>1, <2>2, <2>3, <2>4, <2>5, <2>6, <2>7, TypedPartsAfter
<1>23. CASE KeepLibrary(t)
  <2>1. OsTyped'
    BY <1>23, <1>a, <1>0, <1>c, FreedIsTyped, LoadedIsTyped DEF KeepLibrary, fcnVars, StepIs, OsTyped
  <2>2. SetTyped'
    BY <1>23, <1>a, FailsIsTyped DEF KeepLibrary, fcnVars, SetTyped, UsedMeanwhile, Go, EndsJob
  <2>3. LibsTyped'
    BY <1>23, <1>a DEF KeepLibrary, fcnVars, LibsTyped
  <2>4. FcnTyped'
    BY <1>23, <1>a, <1>b, <1>0, SlotIsThere DEF KeepLibrary, fcnVars, StepIs, Hands, FcnTyped, LibsTyped, LocalOf, LocalIn
  <2>5. AddressTyped'
    BY <1>23, <1>a DEF KeepLibrary, fcnVars, AddressTyped
  <2>6. StepTyped'
    BY <1>23, <1>a, GoIsTyped, DoneIsTyped, FailsIsTyped DEF KeepLibrary, fcnVars, Steps, Loading
  <2>7. HndTyped'
    BY <1>23, <1>a DEF KeepLibrary, fcnVars, HndTyped
  <2> QED  BY <2>1, <2>2, <2>3, <2>4, <2>5, <2>6, <2>7, TypedPartsAfter
<1>24. CASE unlockLibSet(t)
  BY <1>24, <1>0 DEF unlockLibSet, LibrariesTypeOK, fcnVars, Go, StepIs, Loading
<1> QED
  BY <1>1, <1>2, <1>3, <1>4, <1>5, <1>6, <1>7, <1>8, <1>9, <1>10, <1>11, <1>12, <1>13, <1>14, <1>15, <1>16, <1>17, <1>18, <1>19, <1>20, <1>21, <1>22, <1>23, <1>24 DEF LibraryStep

-----------------------------------------------------------------------------
(* A file is one library. *)

(* Libraries are added and their levels raised, nothing else; only who     *)
(* reloads a library changes it.                                           *)
Grows(t) ==
    /\ DOMAIN libs \subseteq DOMAIN libs'
    /\ DOMAIN libs' \subseteq DOMAIN libs \/ step[t] = "add"
    /\ \A l \in DOMAIN libs :
          /\ libs'[l].file = libs[l].file
          /\ libs[l].level = "execute" => libs'[l].level = "execute"
          /\ libs'[l] # libs[l] => step[t] = "reload" /\ l = Slot(t)
    /\ \A f \in LibFunction : fcnLib[f] # NoLib => fcnLib'[f] = fcnLib[f]
    /\ OneLibrary'

Keeps == UNCHANGED <<libs, fcnLib>>

LEMMA KeepsGrows ==
    ASSUME LibInv, NEW t \in LibThread, Keeps PROVE Grows(t)
  BY DEF LibInv, OneLibrary, Keeps, Grows

LEMMA SlotIsLib ==
    ASSUME LibInv, NEW t \in LibThread, job[t] <= Len(Work[t]), FoundAt(Path(t)) # {}, step[t] # "idle"
    PROVE  /\ Slot(t) \in DOMAIN libs /\ libs[Slot(t)].file = FileOf[Import(t)]
           /\ Lib(t) # NoLib => Slot(t) = Lib(t)
<1>1. LibrariesTypeOK /\ OneLibrary /\ LocalOf(t)
  BY DEF LibInv, Locals
<1>2. JobFcn(t) \in LibFunction
  BY <1>1, JobIsOne
<1>3. Slot(t) \in DOMAIN libs /\ libs[Slot(t)].file = FileOf[Import(t)]
  BY <1>1, SlotIsThere, PathIsFile DEF LocalOf, LocalIn
<1> QED
  BY <1>1, <1>2, <1>3 DEF Lib, OneLibrary, LibrariesTypeOK, Import

LEMMA HandsGrows ==
    ASSUME LibInv, NEW t \in LibThread, StepIs(t, "keep"), UNCHANGED libs, Hands(t, Slot(t)) PROVE Grows(t)
<1>1. LibrariesTypeOK /\ OneLibrary /\ LocalOf(t) /\ step[t] = "keep" /\ job[t] <= Len(Work[t])
  BY DEF LibInv, Locals, StepIs
<1>2. JobFcn(t) \in LibFunction
  BY <1>1, JobIsOne
<1>3. /\ Slot(t) \in DOMAIN libs /\ libs[Slot(t)].file = FileOf[Import(t)]
      /\ Lib(t) # NoLib => Slot(t) = Lib(t)
  BY <1>1, SlotIsLib DEF LocalOf, LocalIn
<1>4. \A f \in LibFunction : fcnLib'[f] = IF f = JobFcn(t) THEN Slot(t) ELSE fcnLib[f]
  BY <1>1 DEF Hands, LibrariesTypeOK
<1>5. OneLibrary'
  BY <1>1, <1>2, <1>3, <1>4 DEF OneLibrary, Import
<1> QED
  BY <1>1, <1>2, <1>3, <1>4, <1>5 DEF Grows, Lib

LEMMA AddedAt ==
    ASSUME LibrariesTypeOK, NEW t \in LibThread, AddLibrary(t)
    PROVE  /\ DOMAIN libs' = 1..(Len(libs) + 1) /\ DOMAIN libs = 1..Len(libs) /\ Len(libs) \in Nat
           /\ \A l \in DOMAIN libs : libs'[l] = libs[l]
           /\ libs'[Len(libs) + 1] = [file |-> Path(t), handle |-> hnd[t], level |-> Level(t)]
<1> DEFINE r == [file |-> Path(t), handle |-> hnd[t], level |-> Level(t)]
<1>1. libs' = Append(libs, r)
  BY DEF AddLibrary
<1>2. libs \in Seq(LibraryRecord)
  BY TypedParts DEF LibsTyped
<1>3. /\ DOMAIN libs' = 1..(Len(libs) + 1) /\ DOMAIN libs = 1..Len(libs) /\ Len(libs) \in Nat
      /\ \A l \in DOMAIN libs : libs'[l] = libs[l]
      /\ libs'[Len(libs) + 1] = r
  <2> HIDE DEF r, LibraryRecord
  <2> QED  BY <1>1, <1>2
<1> QED  BY <1>3

LEMMA AddGrows ==
    ASSUME LibInv, NEW t \in LibThread, AddLibrary(t) PROVE Grows(t)
<1>1. LibrariesTypeOK /\ OneLibrary /\ LocalOf(t) /\ step[t] = "add" /\ job[t] <= Len(Work[t])
  BY DEF LibInv, Locals, StepIs, AddLibrary
<1>2. JobFcn(t) \in LibFunction /\ Path(t) = FileOf[Import(t)]
  BY <1>1, JobIsOne, PathIsFile DEF LocalOf, LocalIn
<1>3. \A l \in DOMAIN libs : libs[l].file # FileOf[Import(t)]
  BY <1>1, <1>2 DEF FoundAt, LocalOf, LocalIn
<1>4. Lib(t) = NoLib
  BY <1>1, <1>2, <1>3 DEF Lib, OneLibrary, LibrariesTypeOK, Import
<1>5. /\ DOMAIN libs' = 1..(Len(libs) + 1) /\ DOMAIN libs = 1..Len(libs) /\ Len(libs) \in Nat
      /\ \A l \in DOMAIN libs : libs'[l] = libs[l]
      /\ libs'[Len(libs) + 1].file = FileOf[Import(t)]
  <2>1. LibrariesTypeOK
    BY <1>1
  <2>2. /\ DOMAIN libs' = 1..(Len(libs) + 1) /\ DOMAIN libs = 1..Len(libs) /\ Len(libs) \in Nat
        /\ \A l \in DOMAIN libs : libs'[l] = libs[l]
        /\ libs'[Len(libs) + 1] = [file |-> Path(t), handle |-> hnd[t], level |-> Level(t)]
    BY <2>1, AddedAt
  <2> QED  BY <1>2, <2>2
<1>6. \A f \in LibFunction : fcnLib'[f] = IF f = JobFcn(t) THEN Len(libs) + 1 ELSE fcnLib[f]
  BY <1>1 DEF AddLibrary, Hands, LibrariesTypeOK
<1>7. OneLibrary'
  <2>1. ASSUME NEW k \in DOMAIN libs', NEW l \in DOMAIN libs', libs'[k].file = libs'[l].file PROVE k = l
    BY <1>1, <1>3, <1>5, <2>1 DEF OneLibrary
  <2>2. ASSUME NEW f \in LibFunction, fcnLib'[f] # NoLib PROVE libs'[fcnLib'[f]].file = FileOf[ImportOf[f]]
    <3>1. f # JobFcn(t) => fcnLib[f] \in DOMAIN libs /\ libs[fcnLib[f]].file = FileOf[ImportOf[f]]
      BY <1>1, <1>6, <2>2, TypedParts DEF OneLibrary, FcnTyped
    <3> QED  BY <1>5, <1>6, <3>1 DEF Import
  <2> QED  BY <2>1, <2>2 DEF OneLibrary
<1> QED
  BY <1>1, <1>2, <1>4, <1>5, <1>6, <1>7 DEF Grows, Lib

LEMMA ReloadGrows ==
    ASSUME LibInv, NEW t \in LibThread, StepIs(t, "reload"), UNCHANGED fcnLib,
           NEW h \in Bases \cup {NoHandle},
           libs' = [libs EXCEPT ![Slot(t)].handle = h, ![Slot(t)].level = "execute"]
    PROVE  Grows(t)
<1>1. LibrariesTypeOK /\ OneLibrary /\ LocalOf(t) /\ step[t] = "reload" /\ job[t] <= Len(Work[t])
  BY DEF LibInv, Locals, StepIs
<1>2. Slot(t) \in DOMAIN libs
  BY <1>1, SlotIsLib DEF LocalOf, LocalIn
<1>3. DOMAIN libs' = DOMAIN libs /\ LibsTyped
  BY <1>1, <1>2, ChangedIsTyped, TypedParts
<1>4. \A l \in DOMAIN libs : l # Slot(t) => libs'[l] = libs[l]
  BY <1>2
<1>5. libs'[Slot(t)].file = libs[Slot(t)].file /\ libs'[Slot(t)].level = "execute"
  BY <1>2, <1>3, RecordAt DEF LibraryRecord
<1>a. \A l \in DOMAIN libs : libs'[l].file = libs[l].file
  BY <1>4, <1>5
<1>b. \A f \in LibFunction : fcnLib[f] # NoLib => fcnLib[f] \in DOMAIN libs
  BY <1>1, TypedParts DEF FcnTyped
<1>6. OneLibrary'
  BY <1>1, <1>3, <1>a, <1>b DEF OneLibrary
<1> QED
  BY <1>1, <1>3, <1>4, <1>5, <1>6 DEF Grows


LEMMA StepGrows ==
    ASSUME LibInv, NEW t \in LibThread, LibraryStep(t) PROVE Grows(t)
<1>0. LibrariesTypeOK /\ OneLibrary /\ LocalOf(t)
  BY DEF LibInv, Locals
<1>1. CASE Keeps
  BY <1>1, KeepsGrows
<1>2. CASE BindImported(t)
  <2>1. \A f \in LibFunction : f # JobFcn(t) => fcnLib'[f] = fcnLib[f]
    BY <1>0, <1>2 DEF BindImported, LibrariesTypeOK
  <2>2. JobFcn(t) \in LibFunction /\ Import(t) \in LibImport /\ fcnLib'[JobFcn(t)] = importLib[Import(t)] /\ Lib(t) = NoLib
    BY <1>0, <1>2, JobIsOne DEF BindImported, LibrariesTypeOK, StepIs
  <2>3. OneLibrary'
    BY <1>0, <1>2, <2>1, <2>2 DEF OneLibrary, BindImported, LibInv, ImportsMatch, Import
  <2> QED  BY <1>2, <2>1, <2>2, <2>3 DEF Grows, BindImported, Lib
<1>3. CASE AddLibrary(t)
  BY <1>3, AddGrows
<1>4. CASE UpgradeReloads(t)
  <2>1. PICK base \in Bases : os' = [os EXCEPT ![Path(t)] = LoadedAt(Path(t), base)]
                              /\ libs' = [libs EXCEPT ![Slot(t)].handle = os'[Path(t)].base, ![Slot(t)].level = "execute"]
    BY <1>4 DEF UpgradeReloads
  <2>2. os'[Path(t)].base \in Bases \cup {NoHandle}
    <3>1. OsTyped' /\ Path(t) \in LibFile
      BY <1>0, <1>4, TypesKept, PathIsFile, TypedParts DEF LocalOf, LocalIn, UpgradeReloads, StepIs, LibraryStep, LibrariesTypeOK, OsTyped
    <3> QED  BY <3>1 DEF OsTyped
  <2> QED  BY <1>4, <2>1, <2>2, ReloadGrows DEF UpgradeReloads, fcnVars
<1>5. CASE UpgradeFails(t)
  BY <1>5, ReloadGrows DEF UpgradeFails, fcnVars
<1>6. CASE KeepLibrary(t)
  BY <1>6, HandsGrows DEF KeepLibrary
<1> QED
  BY <1>1, <1>2, <1>3, <1>4, <1>5, <1>6
  DEF LibraryStep, Keeps, fcnVars, BindAgain, BindLoads, RecordImport, CompileUpgrades, CompileResolves, CompiledBefore, GiveBack, MakeContext, invoke, resolveFunction, SymbolNotFound, Open, OpenFails, Identify, IdentifyFails, lockLibSet, FindLibrary, UpgradeFrees, unlockLibSet

(* What a thread relies on is not changed by the others. *)
LEMMA OthersRelyOnTheSame ==
    ASSUME LibInv, LibrariesTypeOK', NEW t \in LibThread, Grows(t), NEW u \in LibThread, u # t,
           step'[u] = step[u], job'[u] = job[u]
    PROVE  LocalOf(u)'
<1>1. LibrariesTypeOK /\ OneLibrary /\ LocalOf(u)
  BY DEF LibInv, Locals
<1>2. CASE step[u] = "idle"
  BY <1>2 DEF LocalOf, LocalIn
<1>3. CASE step[u] # "idle"
  <2>1. job[u] <= Len(Work[u]) /\ JobFcn(u) \in LibFunction /\ UNCHANGED <<JobFcn(u), Import(u), JobIs(u, "run"), JobIs(u, "bind")>>
    BY <1>1, <1>3, JobIsOne DEF LocalOf, LocalIn, JobFcn, Import, JobIs
  <2>2. /\ Lib(u) # NoLib => Lib(u)' = Lib(u) /\ Lib(u) \in DOMAIN libs
        /\ Path(u) = FileOf[Import(u)]
    BY <1>1, <1>3, <2>1, PathIsFile DEF Lib, Grows, LibrariesTypeOK, LocalOf, LocalIn
  <2>3. Path(u)' = Path(u)
    BY <1>1, <1>3, <2>1, <2>2 DEF Path, Grows, LocalOf, LocalIn
  <2>4. CASE step[u] \in {"free", "reload", "keep"}
    <3>1. FoundAt(Path(u)) # {} /\ Slot(u) \in DOMAIN libs /\ libs[Slot(u)].file = Path(u)
      BY <1>1, <2>4, SlotIsThere DEF LocalOf, LocalIn
    <3>2. FoundAt(Path(u))' = {Slot(u)}
      BY <2>3, <3>1 DEF FoundAt, Grows, OneLibrary
    <3>3. Slot(u)' = Slot(u)
      BY <3>2 DEF Slot
    <3>4. libs'[Slot(u)] = libs[Slot(u)]
      BY <2>4, <3>1 DEF Grows, LibInv, Guarded, Inside
    <3> QED
      BY <1>1, <2>1, <2>2, <2>4, <3>2, <3>3, <3>4 DEF LocalOf, LocalIn
  <2>5. CASE step[u] = "add"
    <3>1. DOMAIN libs' = DOMAIN libs
      BY <2>5 DEF Grows, LibInv, Guarded, Inside
    <3>2. FoundAt(Path(u))' = {}
      BY <1>1, <2>3, <2>5, <3>1 DEF FoundAt, Grows, LocalOf, LocalIn
    <3> QED
      BY <1>1, <2>1, <2>2, <2>5, <3>2 DEF LocalOf, LocalIn
  <2>6. CASE step[u] \notin {"free", "reload", "keep", "add"}
    BY <1>1, <2>1, <2>2, <2>6 DEF LocalOf, LocalIn, Grows
  <2> QED  BY <2>4, <2>5, <2>6
<1> QED  BY <1>2, <1>3


LEMMA DoneIsIdle ==
    ASSUME LibrariesTypeOK, NEW t \in LibThread, EndsJob(t) PROVE LocalOf(t)'
<1>1. step'[t] = "idle"
  BY DEF EndsJob, LibrariesTypeOK
<1> QED  BY <1>1 DEF LocalOf, LocalIn

LEMMA GoKeepsLocal ==
    ASSUME LibrariesTypeOK, NEW t \in LibThread, NEW to, Go(t, to), Keeps, LocalIn(t, to) PROVE LocalOf(t)'
<1>1. step'[t] = to
  BY DEF Go, LibrariesTypeOK
<1>2. UNCHANGED <<job, libs, fcnLib>>
  BY DEF Go, Keeps
<1>3. UNCHANGED <<JobIs(t, "run"), JobIs(t, "bind"), Lib(t), Path(t)>>
  BY <1>2 DEF JobIs, Lib, Path, JobFcn, Import
<1>4. FoundAt(Path(t))' = FoundAt(Path(t)) /\ Slot(t)' = Slot(t)
  BY <1>2, <1>3 DEF FoundAt, Slot
<1> QED
  BY <1>1, <1>2, <1>3, <1>4 DEF LocalOf, LocalIn

LEMMA OwnStep ==
    ASSUME LibInv, NEW t \in LibThread, LibraryStep(t) PROVE LocalOf(t)'
<1>0. LibrariesTypeOK /\ OneLibrary /\ LocalOf(t) /\ Grows(t) /\ LibrariesTypeOK'
  BY StepGrows, TypesKept DEF LibInv, Locals
<1>1. CASE EndsJob(t)
  BY <1>0, <1>1, DoneIsIdle
<1>2. ASSUME NEW to, Go(t, to), Keeps, LocalIn(t, to) PROVE LocalOf(t)'
  BY <1>0, <1>2, GoKeepsLocal
<1>b. job[t] <= Len(Work[t]) => JobFcn(t) \in LibFunction /\ Import(t) \in LibImport /\ (JobIs(t, "run") <=> ~JobIs(t, "bind"))
  BY <1>0, JobIsOne
<1>c. JobFcn(t) \in bound => Lib(t) # NoLib
  BY DEF LibInv, BoundHaveOne, Lib
<1>d. ASSUME NEW l \in DOMAIN libs PROVE libs[l].level \in {"inspect", "execute"}
  BY <1>0, RecordAt, TypedParts DEF LibraryRecord
<1>e. ASSUME NEW to, Go(t, to), StepIs(t, step[t])
      PROVE  step'[t] = to /\ UNCHANGED <<job, JobFcn(t), Import(t), JobIs(t, "run"), JobIs(t, "bind")>>
  BY <1>0, <1>e DEF Go, LibrariesTypeOK, JobFcn, Import, JobIs
<1>3. CASE BindAgain(t)
  BY <1>3, <1>0, <1>1, <1>2, <1>b DEF BindAgain, StepIs, LocalOf, LocalIn, Keeps, Fails, fcnVars
<1>4. CASE BindImported(t)
  <2>1. /\ step'[t] = "resolve" /\ job'[t] <= Len(Work[t]) /\ JobFcn(t)' = JobFcn(t)
        /\ ~JobIs(t, "run") /\ JobIs(t, "run")' = JobIs(t, "run") /\ JobFcn(t) \in LibFunction
    BY <1>4, <1>b, <1>e DEF BindImported, StepIs
  <2>2. Lib(t)' = importLib[Import(t)] /\ importLib[Import(t)] # NoLib
    BY <1>4, <1>0, <2>1, TypedParts DEF BindImported, Lib, FcnTyped
  <2> QED  BY <2>1, <2>2 DEF LocalOf, LocalIn
<1>5. CASE BindLoads(t)
  BY <1>5, <1>0, <1>1, <1>2, <1>b DEF BindLoads, StepIs, LocalOf, LocalIn, Keeps, Fails, fcnVars
<1>6. CASE RecordImport(t)
  BY <1>6, <1>0, <1>1, <1>2, <1>b DEF RecordImport, StepIs, LocalOf, LocalIn, Keeps, Fails, fcnVars
<1>7. CASE CompileUpgrades(t)
  BY <1>7, <1>0, <1>2, <1>c DEF CompileUpgrades, StepIs, LocalOf, LocalIn, Keeps, fcnVars
<1>8. CASE CompileResolves(t)
  BY <1>8, <1>0, <1>2, <1>c DEF CompileResolves, StepIs, LocalOf, LocalIn, Keeps, fcnVars
<1>9. CASE CompiledBefore(t)
  BY <1>9, <1>0, <1>2, <1>c DEF CompiledBefore, StepIs, LocalOf, LocalIn, Keeps, fcnVars
<1>10. CASE GiveBack(t)
  BY <1>10, <1>0, <1>1, <1>2, <1>b DEF GiveBack, StepIs, LocalOf, LocalIn, Keeps, Fails, fcnVars
<1>11. CASE MakeContext(t)
  BY <1>11, <1>0, <1>1, <1>2, <1>b DEF MakeContext, StepIs, LocalOf, LocalIn, Keeps, Fails, fcnVars
<1>12. CASE invoke(t)
  BY <1>12, <1>0, <1>1, <1>2, <1>b DEF invoke, StepIs, LocalOf, LocalIn, Keeps, Fails, fcnVars
<1>13. CASE resolveFunction(t)
  BY <1>13, <1>0, <1>1, <1>2, <1>b DEF resolveFunction, StepIs, LocalOf, LocalIn, Keeps, Fails, fcnVars
<1>14. CASE SymbolNotFound(t)
  BY <1>14, <1>0, <1>1, <1>2, <1>b DEF SymbolNotFound, StepIs, LocalOf, LocalIn, Keeps, Fails, fcnVars
<1>15. CASE Open(t)
  BY <1>15, <1>0, <1>1, <1>2, <1>b DEF Open, StepIs, LocalOf, LocalIn, Keeps, Fails, fcnVars
<1>16. CASE OpenFails(t)
  BY <1>16, <1>0, <1>1, <1>2, <1>b DEF OpenFails, StepIs, LocalOf, LocalIn, Keeps, Fails, fcnVars
<1>17. CASE Identify(t)
  BY <1>17, <1>0, <1>1, <1>2, <1>b DEF Identify, StepIs, LocalOf, LocalIn, Keeps, Fails, fcnVars
<1>18. CASE IdentifyFails(t)
  BY <1>18, <1>0, <1>1, <1>2, <1>b DEF IdentifyFails, StepIs, LocalOf, LocalIn, Keeps, Fails, fcnVars
<1>19. CASE lockLibSet(t)
  BY <1>19, <1>0, <1>1, <1>2, <1>b DEF lockLibSet, StepIs, LocalOf, LocalIn, Keeps, Fails, fcnVars
<1>20. CASE AddLibrary(t)
  <2>1. ~JobIs(t, "run")
    <3>1. JobIs(t, "run") => Lib(t) \in DOMAIN libs /\ Lib(t) \in FoundAt(Path(t))
      BY <1>20, <1>0, <1>b DEF AddLibrary, StepIs, LocalOf, LocalIn, LibrariesTypeOK, Lib, Path, FoundAt
    <3> QED  BY <1>20, <1>0, <3>1 DEF AddLibrary, StepIs, LocalOf, LocalIn
  <2>2. /\ step'[t] = "unlock" /\ job'[t] <= Len(Work[t]) /\ JobFcn(t)' = JobFcn(t)
        /\ JobIs(t, "run")' = JobIs(t, "run") /\ JobFcn(t) \in LibFunction
    BY <1>20, <1>b, <1>e DEF AddLibrary, StepIs
  <2>3. Lib(t)' = Len(libs) + 1 /\ Len(libs) \in Nat
    BY <1>20, <1>0, <2>2, TypedParts DEF AddLibrary, Hands, Lib, FcnTyped, LibsTyped
  <2> QED  BY <2>1, <2>2, <2>3 DEF LocalOf, LocalIn, NoLib
<1>21. CASE FindLibrary(t)
  <2> DEFINE to == IF FoundAt(Path(t)) = {} THEN "add"
                   ELSE IF libs[Slot(t)].level = "inspect" /\ Level(t) = "execute" THEN "free" ELSE "keep"
  <2>1. FoundAt(Path(t)) # {} => Slot(t) \in DOMAIN libs
    BY SlotIsThere
  <2>2. Go(t, to) /\ Keeps
    BY <1>21 DEF FindLibrary, Keeps, fcnVars
  <2>3. LocalIn(t, to)
    BY <1>21, <1>0, <1>b, <1>d, <2>1 DEF FindLibrary, StepIs, LocalOf, LocalIn, Level
  <2> HIDE DEF to
  <2> QED  BY <1>2, <2>2, <2>3
<1>22. CASE UpgradeFrees(t)
  BY <1>22, <1>0, <1>1, <1>2, <1>b DEF UpgradeFrees, StepIs, LocalOf, LocalIn, Keeps, Fails, fcnVars
<1>23. CASE UpgradeReloads(t)
  <2>1. job[t] <= Len(Work[t]) /\ JobIs(t, "run") /\ Slot(t) \in DOMAIN libs /\ Lib(t) # NoLib /\ Slot(t) = Lib(t)
    BY <1>23, <1>0, SlotIsLib DEF UpgradeReloads, StepIs, LocalOf, LocalIn
  <2>2. step'[t] = "keep" /\ UNCHANGED <<job, fcnLib, Lib(t), JobIs(t, "run"), JobIs(t, "bind")>>
    BY <1>23, <1>e DEF UpgradeReloads, StepIs, fcnVars, Lib
  <2>3. DOMAIN libs \subseteq DOMAIN libs' /\ libs'[Slot(t)].file = libs[Slot(t)].file
    BY <1>0, <2>1 DEF Grows
  <2>4. libs'[Slot(t)].level = "execute"
    <3>1. PICK h : libs' = [libs EXCEPT ![Slot(t)].handle = h, ![Slot(t)].level = "execute"]
      BY <1>23 DEF UpgradeReloads
    <3>2. libs[Slot(t)] \in LibraryRecord
      BY <1>0, <2>1, RecordAt, TypedParts
    <3>3. libs'[Slot(t)] = [libs[Slot(t)] EXCEPT !.handle = h, !.level = "execute"]
      BY <2>1, <3>1
    <3> QED  BY <3>2, <3>3 DEF LibraryRecord
  <2>5. FoundAt(Path(t))' = {Slot(t)}
    BY <1>0, <2>1, <2>2, <2>3 DEF FoundAt, Path, Grows, OneLibrary
  <2>6. Slot(t)' = Slot(t)
    BY <2>5 DEF Slot
  <2> QED  BY <2>1, <2>2, <2>4, <2>5, <2>6 DEF LocalOf, LocalIn
<1>24. CASE UpgradeFails(t)
  <2>1. JobIs(t, "run") /\ Lib(t) # NoLib /\ ~JobIs(t, "bind")
    BY <1>24, <1>0, <1>b DEF UpgradeFails, StepIs, LocalOf, LocalIn
  <2>2. Go(t, "invoke") /\ StepIs(t, step[t]) /\ UNCHANGED fcnLib
    BY <1>24, <2>1 DEF UpgradeFails, Fails, StepIs, fcnVars
  <2>3. step'[t] = "invoke" /\ UNCHANGED <<job, Lib(t), JobIs(t, "run")>>
    BY <2>2, <1>e DEF Lib
  <2> QED  BY <2>1, <2>2, <2>3 DEF LocalOf, LocalIn, StepIs
<1>25. CASE KeepLibrary(t)
  <2>1. job[t] <= Len(Work[t]) /\ Slot(t) \in DOMAIN libs
    BY <1>25, <1>0, SlotIsLib DEF KeepLibrary, StepIs, LocalOf, LocalIn
  <2>2. /\ step'[t] = "unlock" /\ job'[t] <= Len(Work[t]) /\ JobFcn(t)' = JobFcn(t)
        /\ JobIs(t, "run")' = JobIs(t, "run") /\ JobFcn(t) \in LibFunction
    BY <1>25, <1>b, <1>e DEF KeepLibrary, StepIs
  <2>3. Lib(t)' = Slot(t) /\ Slot(t) \in Nat \ {0}
    BY <1>25, <1>0, <2>1, <2>2, TypedParts DEF KeepLibrary, Hands, Lib, FcnTyped, LibsTyped
  <2>4. JobIs(t, "run") => libs'[Slot(t)].level = "execute"
    BY <1>25, <1>0 DEF KeepLibrary, StepIs, LocalOf, LocalIn
  <2> QED  BY <2>2, <2>3, <2>4 DEF LocalOf, LocalIn, NoLib
<1>26. CASE unlockLibSet(t)
  BY <1>26, <1>0, <1>1, <1>2, <1>b DEF unlockLibSet, StepIs, LocalOf, LocalIn, Keeps, Fails, fcnVars
<1> QED
  BY <1>3, <1>4, <1>5, <1>6, <1>7, <1>8, <1>9, <1>10, <1>11, <1>12, <1>13, <1>14, <1>15, <1>16, <1>17, <1>18, <1>19, <1>20, <1>21, <1>22, <1>23, <1>24, <1>25, <1>26 DEF LibraryStep
LEMMA StillGuarded ==
    ASSUME LibInv, NEW t \in LibThread, LibraryStep(t) PROVE Guarded'
<1>0. LibrariesTypeOK /\ Guarded /\ LocalOf(t)
  BY DEF LibInv, Locals
<1>1. \A u \in LibThread : u # t => step'[u] = step[u]
  BY <1>0 DEF LibrariesTypeOK, LibraryStep, Go, EndsJob, Fails, BindAgain, BindImported, BindLoads, RecordImport, CompileUpgrades, CompileResolves, CompiledBefore, GiveBack, MakeContext, invoke, resolveFunction, SymbolNotFound, Open, OpenFails, Identify, IdentifyFails, lockLibSet, AddLibrary, FindLibrary, UpgradeFrees, UpgradeReloads, UpgradeFails, KeepLibrary, unlockLibSet
<1>2. CASE UNCHANGED setLock /\ (Inside(t)' => Inside(t))
  BY <1>0, <1>1, <1>2 DEF Guarded, Inside
<1>3. CASE lockLibSet(t)
  BY <1>0, <1>1, <1>3 DEF Guarded, Inside, lockLibSet, Go
<1>4. CASE Inside(t) /\ ~Inside(t)'
  BY <1>0, <1>1, <1>4 DEF Guarded, Inside
<1>5. ASSUME NEW to, Go(t, to) PROVE step'[t] = to
  BY <1>0, <1>5 DEF Go, LibrariesTypeOK
<1>6. EndsJob(t) => step'[t] = "idle"
  BY <1>0 DEF EndsJob, LibrariesTypeOK
<1>7. CASE unlockLibSet(t) \/ UpgradeFails(t)
  BY <1>4, <1>5, <1>6, <1>7 DEF Inside, unlockLibSet, UpgradeFails, StepIs, Fails
<1>8. CASE AddLibrary(t) \/ FindLibrary(t) \/ UpgradeFrees(t) \/ UpgradeReloads(t) \/ KeepLibrary(t)
  BY <1>2, <1>5, <1>8 DEF Inside, AddLibrary, FindLibrary, UpgradeFrees, UpgradeReloads, KeepLibrary, StepIs
<1>9. CASE UNCHANGED setLock /\ ~Inside(t)'
  BY <1>2, <1>9
<1> QED
  BY <1>3, <1>5, <1>6, <1>7, <1>8, <1>9
  DEF LibraryStep, Inside, Fails, StepIs, fcnVars, BindAgain, BindImported, BindLoads, RecordImport, CompileUpgrades, CompileResolves, CompiledBefore, GiveBack, MakeContext, invoke, resolveFunction, SymbolNotFound, Open, OpenFails, Identify, IdentifyFails

LEMMA ImportsStillMatch ==
    ASSUME LibInv, NEW t \in LibThread, LibraryStep(t) PROVE ImportsMatch' /\ BoundHaveOne'
<1>0. LibrariesTypeOK /\ OneLibrary /\ LocalOf(t) /\ ImportsMatch /\ BoundHaveOne /\ Grows(t)
  BY StepGrows DEF LibInv, Locals
<1>a. /\ importLib \in [LibImport -> {NoLib} \cup DOMAIN libs] /\ fcnLib \in [LibFunction -> {NoLib} \cup DOMAIN libs]
      /\ bound \subseteq LibFunction
  BY <1>0 DEF LibrariesTypeOK
<1>1. CASE UNCHANGED <<importLib, bound>>
  BY <1>0, <1>1, <1>a DEF Grows, ImportsMatch, BoundHaveOne
<1>2. CASE RecordImport(t)
  <2>1. Lib(t) # NoLib /\ JobFcn(t) \in LibFunction /\ Import(t) \in LibImport /\ UNCHANGED <<libs, fcnLib, bound>>
    BY <1>0, <1>2, JobIsOne DEF RecordImport, StepIs, LocalOf, LocalIn
  <2>2. libs[Lib(t)].file = FileOf[Import(t)]
    BY <1>0, <2>1 DEF OneLibrary, Lib, Import
  <2> QED  BY <1>0, <1>2, <1>a, <2>1, <2>2 DEF RecordImport, ImportsMatch, BoundHaveOne
<1>3. CASE resolveFunction(t)
  <2>1. Lib(t) # NoLib /\ UNCHANGED <<importLib, libs, fcnLib>> /\ bound' \subseteq bound \cup {JobFcn(t)}
    BY <1>0, <1>3 DEF resolveFunction, StepIs, LocalOf, LocalIn
  <2> QED  BY <1>0, <2>1 DEF ImportsMatch, BoundHaveOne, Lib
<1> QED
  BY <1>1, <1>2, <1>3 DEF LibraryStep, fcnVars, BindAgain, BindImported, BindLoads, CompileUpgrades, CompileResolves, CompiledBefore, GiveBack, MakeContext, invoke, SymbolNotFound, Open, OpenFails, Identify, IdentifyFails, lockLibSet, AddLibrary, FindLibrary, UpgradeFrees, UpgradeReloads, UpgradeFails, KeepLibrary, unlockLibSet

LEMMA LibInvKept == LibInv /\ [LibrariesNext]_libraryVars => LibInv'
<1>1. ASSUME LibInv, NEW t \in LibThread, LibraryStep(t) PROVE LibInv'
  <2>1. LibrariesTypeOK' /\ Grows(t) /\ Guarded' /\ ImportsMatch' /\ BoundHaveOne'
    BY <1>1, TypesKept, StepGrows, StillGuarded, ImportsStillMatch
  <2>2. \A u \in LibThread : u # t => step'[u] = step[u] /\ job'[u] = job[u]
    BY <1>1 DEF LibInv, LibrariesTypeOK, LibraryStep, Go, EndsJob, Fails, BindAgain, BindImported, BindLoads, RecordImport, CompileUpgrades, CompileResolves, CompiledBefore, GiveBack, MakeContext, invoke, resolveFunction, SymbolNotFound, Open, OpenFails, Identify, IdentifyFails, lockLibSet, AddLibrary, FindLibrary, UpgradeFrees, UpgradeReloads, UpgradeFails, KeepLibrary, unlockLibSet
  <2>3. Locals'
    BY <1>1, <2>1, <2>2, OthersRelyOnTheSame, OwnStep DEF Locals
  <2> QED  BY <2>1, <2>3 DEF LibInv, Grows
<1>2. ASSUME LibInv, UNCHANGED libraryVars PROVE LibInv'
  <2>1. UNCHANGED <<os, setLock, libs, importLib, fcnLib, externAddress, target, bound, step, job, hnd, spoilt>>
    BY <1>2 DEF libraryVars, fcnVars
  <2>2. LibrariesTypeOK'
    BY <1>2, <2>1 DEF LibInv, LibrariesTypeOK
  <2>3. OneLibrary' /\ ImportsMatch' /\ BoundHaveOne'
    BY <1>2, <2>1 DEF LibInv, OneLibrary, ImportsMatch, BoundHaveOne
  <2>4. Guarded'
    BY <1>2, <2>1 DEF LibInv, Guarded, Inside
  <2>5. \A t \in LibThread : LocalOf(t)'
    <3> TAKE t \in LibThread
    <3>1. UNCHANGED <<JobIs(t, "run"), JobIs(t, "bind"), Lib(t), Path(t)>>
      BY <2>1 DEF JobIs, Lib, Path, JobFcn, Import
    <3>2. UNCHANGED <<FoundAt(Path(t)), Slot(t)>>
      BY <2>1, <3>1 DEF FoundAt, Slot
    <3>3. LocalOf(t)
      BY <1>2 DEF LibInv, Locals
    <3> QED  BY <2>1, <3>1, <3>2, <3>3 DEF LocalOf, LocalIn
  <2> QED  BY <2>2, <2>3, <2>4, <2>5 DEF LibInv, Locals
<1> QED  BY <1>1, <1>2 DEF LibrariesNext

LEMMA LibInvStarts == LibrariesStart => LibInv
<1> SUFFICES ASSUME LibrariesStart PROVE LibInv
  OBVIOUS
<1>1. libs = <<>> /\ libs \in Seq(LibraryRecord) /\ DOMAIN libs = {}
  BY DEF LibrariesStart
<1>2. OsTyped /\ SetTyped /\ AddressTyped /\ HndTyped
  BY DEF LibrariesStart, OsTyped, SetTyped, AddressTyped, HndTyped
<1>3. LibsTyped /\ FcnTyped
  BY <1>1 DEF LibrariesStart, LibsTyped, FcnTyped
<1>4. StepTyped
  BY DEF LibrariesStart, StepTyped, Steps
<1>5. LibrariesTypeOK
  BY <1>2, <1>3, <1>4, TypedParts
<1>6. OneLibrary /\ ImportsMatch /\ BoundHaveOne
  BY <1>1 DEF LibrariesStart, OneLibrary, ImportsMatch, BoundHaveOne
<1>7. Guarded /\ Locals
  BY DEF LibrariesStart, Guarded, Inside, Locals, LocalOf, LocalIn
<1> QED  BY <1>5, <1>6, <1>7 DEF LibInv

(* A file is one library and a function has its own, whatever is disturbed *)
(* meanwhile (foreign_code.cpp:289).                                       *)
THEOREM LibrariesAreOne == LibrariesSpec => [](LibrariesTypeOK /\ OneLibrary)
<1>1. LibInv => LibrariesTypeOK /\ OneLibrary
  BY DEF LibInv
<1> QED  BY LibInvStarts, LibInvKept, <1>1, PTL DEF LibrariesSpec

-----------------------------------------------------------------------------
(* While nothing is disturbed. *)

LEMMA BackedIsLoaded ==
    ASSUME LibrariesTypeOK, IsFiniteSet(LibThread), NEW x \in LibFile, Backed(x)
    PROVE  /\ \A t \in Holders(x) : IsLoaded(x, hnd[t])
           /\ \A l \in DOMAIN libs : libs[l].file = x /\ ~Away(l) => IsLoaded(x, libs[l].handle)
<1>1. IsFiniteSet(Holders(x)) /\ Cardinality(Holders(x)) \in Nat
  BY FS_Subset, FS_CardinalityType DEF Holders
<1>2. Holders(x) # {} => Cardinality(Holders(x)) > 0
  BY <1>1, FS_EmptySet
<1>3. os[x].count \in Nat
  BY TypedParts DEF OsTyped
<1>4. Holders(x) # {} \/ Held(x) => os[x].count > 0
  BY <1>1, <1>2, <1>3 DEF Backed, Claims
<1> QED  BY <1>4 DEF Backed, IsLoaded, Held

(* What a step leaves to the other threads. *)
LEMMA OthersGoOn ==
    ASSUME LibInv, NEW t \in LibThread, LibraryStep(t), NEW u \in LibThread, u # t
    PROVE  /\ step'[u] = step[u] /\ job'[u] = job[u] /\ hnd'[u] = hnd[u]
           /\ JobFcn(u)' = JobFcn(u) /\ Import(u)' = Import(u)
           /\ JobIs(u, "run")' = JobIs(u, "run") /\ JobIs(u, "bind")' = JobIs(u, "bind")
           /\ step[u] # "idle" /\ JobIs(u, "run") => Lib(u)' = Lib(u) /\ Lib(u) \in DOMAIN libs
           /\ Upgrading(u)' = Upgrading(u)
           /\ \A l : TakesAway(u, l)' = TakesAway(u, l)
           /\ \A x : HasLoad(u, x)' = HasLoad(u, x)
<1>1. step'[u] = step[u] /\ job'[u] = job[u]
  BY DEF LibInv, LibrariesTypeOK, LibraryStep, Go, EndsJob, Fails, BindAgain, BindImported, BindLoads, RecordImport, CompileUpgrades, CompileResolves, CompiledBefore, GiveBack, MakeContext, invoke, resolveFunction, SymbolNotFound, Open, OpenFails, Identify, IdentifyFails, lockLibSet, AddLibrary, FindLibrary, UpgradeFrees, UpgradeReloads, UpgradeFails, KeepLibrary, unlockLibSet
<1>2. hnd'[u] = hnd[u]
  BY DEF LibInv, LibrariesTypeOK, LibraryStep, BindAgain, BindImported, BindLoads, RecordImport, CompileUpgrades, CompileResolves, CompiledBefore, GiveBack, MakeContext, invoke, resolveFunction, SymbolNotFound, Open, OpenFails, Identify, IdentifyFails, lockLibSet, AddLibrary, FindLibrary, UpgradeFrees, UpgradeReloads, UpgradeFails, KeepLibrary, unlockLibSet
<1>3. /\ JobFcn(u)' = JobFcn(u) /\ Import(u)' = Import(u)
      /\ JobIs(u, "run")' = JobIs(u, "run") /\ JobIs(u, "bind")' = JobIs(u, "bind")
  BY <1>1 DEF JobFcn, Import, JobIs
<1>4. step[u] # "idle" /\ JobIs(u, "run") => Lib(u)' = Lib(u) /\ Lib(u) \in DOMAIN libs
  <2>1. LibrariesTypeOK /\ LocalOf(u) /\ Grows(t)
    BY StepGrows DEF LibInv, Locals
  <2>2. job[u] <= Len(Work[u]) => JobFcn(u) \in LibFunction
    BY <2>1, JobIsOne
  <2> QED  BY <1>3, <2>1, <2>2 DEF LocalOf, LocalIn, Grows, Lib, LibrariesTypeOK
<1>5. Upgrading(u)' = Upgrading(u)
  BY <1>1, <1>3 DEF Upgrading
<1>6. \A l : TakesAway(u, l)' = TakesAway(u, l)
  BY <1>1, <1>3, <1>4 DEF TakesAway, Gone
<1>7. \A x : HasLoad(u, x)' = HasLoad(u, x)
  BY <1>1, <1>3 DEF HasLoad, LoadAt
<1> QED  BY <1>1, <1>2, <1>3, <1>4, <1>5, <1>6, <1>7

LEMMA HoldersCount ==
    ASSUME NEW S, NEW T, NEW t, IsFiniteSet(S), IsFiniteSet(T)
    PROVE  /\ Cardinality(S) \in Nat /\ Cardinality(T) \in Nat
           /\ T \subseteq S => Cardinality(T) <= Cardinality(S)
           /\ T \subseteq S /\ t \in S /\ t \notin T => Cardinality(T) <= Cardinality(S) - 1
           /\ T \subseteq S \cup {t} => Cardinality(T) <= Cardinality(S) + 1
<1>1. Cardinality(S) \in Nat /\ Cardinality(T) \in Nat
  BY FS_CardinalityType
<1>2. T \subseteq S => Cardinality(T) <= Cardinality(S)
  BY FS_Subset
<1>3. T \subseteq S /\ t \in S /\ t \notin T => Cardinality(T) <= Cardinality(S) - 1
  <2>1. IsFiniteSet(S \ {t}) /\ (t \in S => Cardinality(S \ {t}) = Cardinality(S) - 1)
    BY FS_RemoveElement
  <2>2. T \subseteq S /\ t \notin T => Cardinality(T) <= Cardinality(S \ {t})
    BY <2>1, FS_Subset
  <2> QED  BY <1>1, <2>1, <2>2
<1>4. T \subseteq S \cup {t} => Cardinality(T) <= Cardinality(S) + 1
  <2>1. /\ IsFiniteSet(S \cup {t})
        /\ Cardinality(S \cup {t}) = Cardinality(S) \/ Cardinality(S \cup {t}) = Cardinality(S) + 1
    BY FS_AddElement
  <2>2. T \subseteq S \cup {t} => Cardinality(T) <= Cardinality(S \cup {t})
    BY <2>1, FS_Subset
  <2> QED  BY <1>1, <2>1, <2>2, FS_CardinalityType
<1> QED  BY <1>1, <1>2, <1>3, <1>4

(* A step after which no thread or library needs a load of the file that   *)
(* did not before.                                                         *)
NoNewClaims(t, x) ==
    /\ \A l \in DOMAIN libs' : libs'[l].file = x =>
          /\ l \in DOMAIN libs /\ libs'[l] = libs[l]
          /\ TakesAway(t, l) => TakesAway(t, l)'
    /\ HasLoad(t, x)' => HasLoad(t, x) /\ hnd'[t] = hnd[t]

LEMMA FewerClaims ==
    ASSUME LibInv, LibrariesTypeOK', NEW t \in LibThread, LibraryStep(t),
           NEW x \in LibFile, NoNewClaims(t, x), Backed(x), os'[x].base = os[x].base,
           \/ os'[x].count >= os[x].count
           \/ os'[x].count >= os[x].count - 1 /\ HasLoad(t, x) /\ ~HasLoad(t, x)'
           \/ os'[x].count >= os[x].count - 1 /\ Held(x) /\ ~Held(x)'
    PROVE  Backed(x)'
<1>1. Holders(x)' \subseteq Holders(x) /\ (HasLoad(t, x) /\ ~HasLoad(t, x)' => t \in Holders(x) /\ t \notin Holders(x)')
  BY OthersGoOn DEF Holders, NoNewClaims
<1>2. \A l \in DOMAIN libs' : libs'[l].file = x /\ Away(l) => Away(l)'
  BY OthersGoOn DEF Away, NoNewClaims
<1>3. Held(x)' => Held(x)
  BY <1>2 DEF Held, NoNewClaims
<1>4. IsFiniteSet(Holders(x)) /\ IsFiniteSet(Holders(x)')
  BY <1>1, LibraryAssumption, FS_Subset DEF Holders
<1>5. /\ Cardinality(Holders(x)) \in Nat /\ Cardinality(Holders(x)') \in Nat
      /\ Cardinality(Holders(x)') <= Cardinality(Holders(x))
      /\ HasLoad(t, x) /\ ~HasLoad(t, x)' => Cardinality(Holders(x)') <= Cardinality(Holders(x)) - 1
  BY <1>1, <1>4, HoldersCount
<1>6. Claims(x)' = Cardinality(Holders(x)') + (IF Held(x)' THEN 1 ELSE 0)
  BY DEF Claims
<1>7. os[x].count \in Nat /\ os'[x].count \in Nat
  BY TypedParts, TypedPartsNow DEF LibInv, OsTyped
<1>8. os'[x].count >= Claims(x)'
  BY <1>3, <1>5, <1>6, <1>7 DEF Backed, Claims
<1>9. \A u \in Holders(x)' : os'[x].base = hnd'[u]
  <2> TAKE u \in Holders(x)'
  <2>1. u \in Holders(x) /\ u \in LibThread /\ HasLoad(u, x)'
    BY <1>1 DEF Holders
  <2>2. hnd'[u] = hnd[u]
    BY <2>1, OthersGoOn DEF NoNewClaims
  <2> QED  BY <2>1, <2>2 DEF Backed
<1>10. \A l \in DOMAIN libs' : libs'[l].file = x /\ ~Away(l)' => os'[x].base = libs'[l].handle
  BY <1>2 DEF Backed, NoNewClaims
<1> QED  BY <1>8, <1>9, <1>10 DEF Backed

LEMMA ClaimsAfter ==
    ASSUME LibrariesTypeOK, NEW t \in LibThread
    PROVE  /\ \A to : Go(t, to) =>
                 /\ step'[t] = to /\ UNCHANGED <<JobFcn(t), Import(t), JobIs(t, "run"), JobIs(t, "bind")>>
                 /\ \A l : TakesAway(t, l)' <=> JobIs(t, "run") /\ to \in Gone /\ Lib(t)' = l
                 /\ \A x : HasLoad(t, x)' <=> LoadAt(t, to) /\ FileOf[Import(t)] = x
           /\ EndsJob(t) => \A l : ~TakesAway(t, l)' /\ ~HasLoad(t, l)'
<1>1. ASSUME NEW to, Go(t, to) PROVE step'[t] = to /\ UNCHANGED <<JobFcn(t), Import(t), JobIs(t, "run"), JobIs(t, "bind")>>
  BY <1>1 DEF Go, LibrariesTypeOK, JobFcn, Import, JobIs
<1>2. EndsJob(t) => step'[t] = "idle"
  BY DEF EndsJob, LibrariesTypeOK
<1>3. EndsJob(t) => \A l : ~TakesAway(t, l)' /\ ~HasLoad(t, l)'
  BY <1>2 DEF TakesAway, HasLoad, LoadAt, Gone
<1>4. ASSUME NEW to, Go(t, to)
      PROVE  \A l : TakesAway(t, l)' <=> JobIs(t, "run") /\ to \in Gone /\ Lib(t)' = l
  BY <1>1, <1>4 DEF TakesAway
<1>5. ASSUME NEW to, Go(t, to)
      PROVE  \A x : HasLoad(t, x)' <=> LoadAt(t, to) /\ FileOf[Import(t)] = x
  BY <1>1, <1>5 DEF HasLoad, LoadAt
<1> QED  BY <1>1, <1>3, <1>4, <1>5

LEMMA StillUndisturbed ==
    ASSUME NEW t \in LibThread, LibraryStep(t), ~spoilt'
    PROVE  ~spoilt
  BY DEF LibraryStep, UsedMeanwhile, Fails, fcnVars, BindAgain, BindImported, BindLoads, RecordImport, CompileUpgrades, CompileResolves, CompiledBefore, GiveBack, MakeContext, invoke, resolveFunction, SymbolNotFound, Open, OpenFails, Identify, IdentifyFails, lockLibSet, AddLibrary, FindLibrary, UpgradeFrees, UpgradeReloads, UpgradeFails, KeepLibrary, unlockLibSet

Quiet(t) ==
    \/ BindAgain(t) \/ BindImported(t) \/ BindLoads(t) \/ RecordImport(t)
    \/ CompileUpgrades(t) \/ CompileResolves(t) \/ CompiledBefore(t)
    \/ MakeContext(t) \/ invoke(t) \/ resolveFunction(t) \/ SymbolNotFound(t)
    \/ OpenFails(t) \/ Identify(t) \/ lockLibSet(t) \/ FindLibrary(t) \/ unlockLibSet(t)

LEMMA QuietMakesNoClaims ==
    ASSUME LibInv, Undisturbed, NEW t \in LibThread, Quiet(t), ~spoilt'
    PROVE  UNCHANGED os /\ \A x : NoNewClaims(t, x)
<1>0. LibrariesTypeOK /\ LocalOf(t)
  BY DEF LibInv, Locals
<1>b. job[t] <= Len(Work[t]) => (JobIs(t, "run") <=> ~JobIs(t, "bind"))
  BY <1>0, JobIsOne
<1>1. UNCHANGED <<os, libs, hnd>>
  BY DEF Quiet, BindAgain, BindImported, BindLoads, RecordImport, CompileUpgrades, CompileResolves, CompiledBefore, MakeContext, invoke, resolveFunction, SymbolNotFound, OpenFails, Identify, lockLibSet, FindLibrary, unlockLibSet, fcnVars
<1>2. ASSUME EndsJob(t), ~(JobIs(t, "run") /\ step[t] \in Gone) PROVE \A x : NoNewClaims(t, x)
  BY <1>0, <1>1, <1>2, ClaimsAfter DEF NoNewClaims, TakesAway
<1>3. ASSUME NEW to, Go(t, to), JobIs(t, "run") /\ step[t] \in Gone => to \in Gone /\ UNCHANGED fcnLib,
             LoadAt(t, to) => LoadAt(t, step[t])
      PROVE \A x : NoNewClaims(t, x)
  <2>1. JobIs(t, "run") /\ step[t] \in Gone => Lib(t)' = Lib(t)
    BY <1>0, <1>3, ClaimsAfter DEF Lib
  <2> QED  BY <1>0, <1>1, <1>3, <2>1, ClaimsAfter DEF NoNewClaims, TakesAway, HasLoad
<1>4. CASE BindAgain(t)
  BY <1>4, <1>0, <1>b, <1>1, <1>2, <1>3 DEF LoadAt, BindAgain, StepIs, Gone, LocalOf, LocalIn, Fails, fcnVars
<1>5. CASE BindImported(t)
  BY <1>5, <1>0, <1>b, <1>1, <1>2, <1>3 DEF LoadAt, BindImported, StepIs, Gone, LocalOf, LocalIn, Fails, fcnVars
<1>6. CASE BindLoads(t)
  BY <1>6, <1>0, <1>b, <1>1, <1>2, <1>3 DEF LoadAt, BindLoads, StepIs, Gone, LocalOf, LocalIn, Fails, fcnVars
<1>7. CASE RecordImport(t)
  BY <1>7, <1>0, <1>b, <1>1, <1>2, <1>3 DEF LoadAt, RecordImport, StepIs, Gone, LocalOf, LocalIn, Fails, fcnVars
<1>8. CASE CompileUpgrades(t)
  BY <1>8, <1>0, <1>b, <1>1, <1>2, <1>3 DEF LoadAt, CompileUpgrades, StepIs, Gone, LocalOf, LocalIn, Fails, fcnVars
<1>9. CASE CompileResolves(t)
  BY <1>9, <1>0, <1>b, <1>1, <1>2, <1>3 DEF LoadAt, CompileResolves, StepIs, Gone, LocalOf, LocalIn, Fails, fcnVars
<1>10. CASE CompiledBefore(t)
  BY <1>10, <1>0, <1>b, <1>1, <1>2, <1>3 DEF LoadAt, CompiledBefore, StepIs, Gone, LocalOf, LocalIn, Fails, fcnVars
<1>11. CASE MakeContext(t)
  BY <1>11, <1>0, <1>b, <1>1, <1>2, <1>3 DEF LoadAt, MakeContext, StepIs, Gone, LocalOf, LocalIn, Fails, fcnVars
<1>12. CASE invoke(t)
  BY <1>12, <1>0, <1>b, <1>1, <1>2, <1>3 DEF LoadAt, invoke, StepIs, Gone, LocalOf, LocalIn, Fails, fcnVars
<1>13. CASE resolveFunction(t)
  BY <1>13, <1>0, <1>b, <1>1, <1>2, <1>3 DEF LoadAt, resolveFunction, StepIs, Gone, LocalOf, LocalIn, Fails, fcnVars
<1>14. CASE SymbolNotFound(t)
  BY <1>14, <1>0, <1>b, <1>1, <1>2, <1>3 DEF LoadAt, SymbolNotFound, StepIs, Gone, LocalOf, LocalIn, Fails, fcnVars
<1>15. CASE OpenFails(t)
  BY <1>15, <1>0, <1>b, <1>1, <1>2, <1>3 DEF LoadAt, OpenFails, StepIs, Gone, LocalOf, LocalIn, Fails, fcnVars
<1>16. CASE Identify(t)
  BY <1>16, <1>0, <1>b, <1>1, <1>2, <1>3 DEF LoadAt, Identify, StepIs, Gone, LocalOf, LocalIn, Fails, fcnVars
<1>17. CASE lockLibSet(t)
  BY <1>17, <1>0, <1>b, <1>1, <1>2, <1>3 DEF LoadAt, lockLibSet, StepIs, Gone, LocalOf, LocalIn, Fails, fcnVars
<1>18. CASE FindLibrary(t)
  <2>1. StepIs(t, "find") /\ (FoundAt(Path(t)) # {} => Slot(t) \in DOMAIN libs)
    BY <1>18, SlotIsThere DEF FindLibrary
  <2>2. FoundAt(Path(t)) # {} => libs[Slot(t)].level \in {"inspect", "execute"}
    BY <1>0, <2>1, RecordAt, TypedParts DEF LibraryRecord
  <2>3. JobIs(t, "run") => Level(t) = "execute" /\ (FoundAt(Path(t)) # {} => Slot(t) = Lib(t) /\ libs[Slot(t)].level = "inspect")
    BY <1>0, <1>18, <2>1, SlotIsLib DEF FindLibrary, StepIs, LocalOf, LocalIn, Undisturbed, StillInspect, Gone, Level
  <2> DEFINE to == IF FoundAt(Path(t)) = {} THEN "add"
                   ELSE IF libs[Slot(t)].level = "inspect" /\ Level(t) = "execute" THEN "free" ELSE "keep"
  <2>4. Go(t, to) /\ UNCHANGED fcnLib
    BY <1>18 DEF FindLibrary, fcnVars
  <2>5. JobIs(t, "run") => to \in Gone
    BY <2>3 DEF Gone
  <2>6. LoadAt(t, step[t])
    BY <2>1 DEF StepIs, LoadAt
  <2> HIDE DEF to
  <2> QED  BY <1>1, <1>3, <2>4, <2>5, <2>6
<1>19. CASE unlockLibSet(t)
  BY <1>19, <1>0, <1>b, <1>1, <1>2, <1>3 DEF LoadAt, unlockLibSet, StepIs, Gone, LocalOf, LocalIn, Fails, fcnVars
<1> QED  BY <1>1, <1>4, <1>5, <1>6, <1>7, <1>8, <1>9, <1>10, <1>11, <1>12, <1>13, <1>14, <1>15, <1>16, <1>17, <1>18, <1>19 DEF Quiet

LEMMA FreedOnce ==
    ASSUME LibrariesTypeOK, NEW x \in LibFile, NEW y, NEW h, os' = Freed(y, h)
    PROVE  /\ os'[x].base = os[x].base /\ os'[x].count >= os[x].count - 1
           /\ x # y \/ ~IsLoaded(y, h) => os'[x].count >= os[x].count
<1>1. os \in [LibFile -> [count : Nat, base : Bases \cup {NoHandle}]]
  BY DEF LibrariesTypeOK
<1>2. os[x] \in [count : Nat, base : Bases \cup {NoHandle}]
  BY <1>1
<1>3. CASE ~IsLoaded(y, h)
  BY <1>2, <1>3 DEF Freed
<1>4. CASE IsLoaded(y, h) /\ x # y
  BY <1>1, <1>2, <1>4 DEF Freed
<1>5. CASE IsLoaded(y, h) /\ x = y
  <2>1. os'[x] = [os[x] EXCEPT !.count = @ - 1]
    BY <1>1, <1>5 DEF Freed
  <2> QED  BY <1>2, <1>5, <2>1
<1> QED  BY <1>3, <1>4, <1>5

LEMMA LoadedOnce ==
    ASSUME LibrariesTypeOK, NEW x \in LibFile, NEW y \in LibFile, NEW base \in Bases,
           os' = [os EXCEPT ![y] = LoadedAt(y, base)]
    PROVE  /\ x # y => os'[x] = os[x]
           /\ os[y].count > 0 => os'[y].base = os[y].base
           /\ os'[y].count = os[y].count + 1
<1>1. os \in [LibFile -> [count : Nat, base : Bases \cup {NoHandle}]]
  BY DEF LibrariesTypeOK
<1>2. os[y] \in [count : Nat, base : Bases \cup {NoHandle}]
  BY <1>1
<1>3. os'[y] = LoadedAt(y, base) /\ (x # y => os'[x] = os[x])
  BY <1>1
<1>4. CASE os[y].count > 0
  BY <1>2, <1>3, <1>4 DEF LoadedAt
<1>5. CASE ~(os[y].count > 0)
  BY <1>2, <1>3, <1>5 DEF LoadedAt
<1> QED  BY <1>3, <1>4, <1>5

(* One more load of a file, for one more that needs it.                    *)
LEMMA OneMoreClaim ==
    ASSUME LibrariesTypeOK, NEW x \in LibFile, NEW base \in Bases, Backed(x),
           os' = [os EXCEPT ![x] = LoadedAt(x, base)], OsTyped',
           IsFiniteSet(Holders(x)), IsFiniteSet(Holders(x)'),
           NEW t,
           \/ Holders(x)' \subseteq Holders(x) \cup {t} /\ (Held(x)' => Held(x))
           \/ Holders(x)' \subseteq Holders(x),
           \A u \in Holders(x)' : hnd'[u] = os'[x].base \/ (u \in Holders(x) /\ hnd'[u] = hnd[u]),
           \A l \in DOMAIN libs' : libs'[l].file = x /\ ~Away(l)' =>
               \/ libs'[l].handle = os'[x].base
               \/ l \in DOMAIN libs /\ libs'[l] = libs[l] /\ ~Away(l)
    PROVE  Backed(x)'
<1>1. os'[x].count = os[x].count + 1 /\ (os[x].count > 0 => os'[x].base = os[x].base)
  BY LoadedOnce
<1>2. os[x].count \in Nat
  BY TypedParts DEF OsTyped
<1>3. /\ Cardinality(Holders(x)) \in Nat /\ Cardinality(Holders(x)') \in Nat
      /\ Holders(x)' \subseteq Holders(x) => Cardinality(Holders(x)') <= Cardinality(Holders(x))
      /\ Holders(x)' \subseteq Holders(x) \cup {t} => Cardinality(Holders(x)') <= Cardinality(Holders(x)) + 1
  BY HoldersCount
<1>4. Holders(x) # {} => Cardinality(Holders(x)) > 0
  BY <1>3, FS_EmptySet
<1>5. Holders(x) # {} \/ Held(x) => os[x].count > 0
  BY <1>2, <1>3, <1>4 DEF Backed, Claims
<1>6. Claims(x)' = Cardinality(Holders(x)') + (IF Held(x)' THEN 1 ELSE 0)
  BY DEF Claims
<1>7. os'[x].count >= Claims(x)'
  BY <1>1, <1>2, <1>3, <1>6 DEF Backed, Claims
<1>8. \A u \in Holders(x)' : os'[x].base = hnd'[u]
  BY <1>1, <1>5 DEF Backed
<1>9. \A l \in DOMAIN libs' : libs'[l].file = x /\ ~Away(l)' => os'[x].base = libs'[l].handle
  BY <1>1, <1>5 DEF Backed, Held
<1> QED  BY <1>7, <1>8, <1>9 DEF Backed

LEMMA BackedAsGivenBack ==
    ASSUME LibInv, LibrariesTypeOK', Undisturbed, NEW t \in LibThread, GiveBack(t), ~spoilt', NEW x \in LibFile
    PROVE  Backed(x)'
<1>0. LibrariesTypeOK /\ OneLibrary /\ LocalOf(t) /\ Backed(x) /\ LibraryStep(t) /\ job[t] <= Len(Work[t])
  BY DEF LibInv, Locals, Undisturbed, AllBacked, LibraryStep, GiveBack, StepIs
<1>b. JobFcn(t) \in LibFunction /\ Path(t) = FileOf[Import(t)] /\ Path(t) \in LibFile /\ (JobIs(t, "run") <=> ~JobIs(t, "bind"))
  BY <1>0, JobIsOne, PathIsFile DEF LocalOf, LocalIn, GiveBack, StepIs
<1>1. /\ step[t] = "release" /\ JobIs(t, "run") /\ Lib(t) \in DOMAIN libs /\ libs[Lib(t)].file = Path(t)
      /\ Go(t, "open") /\ UNCHANGED <<libs, hnd, fcnLib>> /\ os' = Freed(Path(t), libs[Lib(t)].handle)
  BY <1>0, <1>b DEF GiveBack, StepIs, LocalOf, LocalIn, LibrariesTypeOK, Lib, Path, fcnVars
<1>2. NoNewClaims(t, x)
  BY <1>0, <1>1, ClaimsAfter DEF NoNewClaims, TakesAway, Gone, LoadAt
<1>3. os'[x].base = os[x].base /\ os'[x].count >= os[x].count - 1 /\ (x # Path(t) => os'[x].count >= os[x].count)
  BY <1>0, <1>1, FreedOnce
<1>4. x = Path(t) => Held(x) /\ ~Held(x)'
  <2>1. ~Away(Lib(t))
    BY <1>1 DEF Away, TakesAway, Gone, Loading, Upgrading, Disturbs, GiveBack
  <2>2. Away(Lib(t))' /\ Lib(t)' = Lib(t)
    <3>1. Lib(t)' = Lib(t)
      BY <1>0, <1>1, ClaimsAfter DEF Lib
    <3>2. TakesAway(t, Lib(t))'
      BY <1>0, <1>1, <3>1, ClaimsAfter DEF Gone
    <3> QED  BY <3>1, <3>2 DEF Away
  <2>3. \A l \in DOMAIN libs : libs[l].file = Path(t) => l = Lib(t)
    BY <1>0, <1>1 DEF OneLibrary
  <2> QED  BY <1>1, <2>1, <2>2, <2>3 DEF Held
<1> QED  BY <1>0, <1>2, <1>3, <1>4, FewerClaims

LEMMA BackedAsIdentifyFails ==
    ASSUME LibInv, LibrariesTypeOK', Undisturbed, NEW t \in LibThread, IdentifyFails(t), ~spoilt', NEW x \in LibFile
    PROVE  Backed(x)'
<1>0. LibrariesTypeOK /\ OneLibrary /\ LocalOf(t) /\ Backed(x) /\ LibraryStep(t) /\ job[t] <= Len(Work[t])
  BY DEF LibInv, Locals, Undisturbed, AllBacked, LibraryStep, IdentifyFails, StepIs
<1>b. JobFcn(t) \in LibFunction /\ Path(t) = FileOf[Import(t)] /\ Path(t) \in LibFile /\ (JobIs(t, "run") <=> ~JobIs(t, "bind"))
  BY <1>0, JobIsOne, PathIsFile DEF LocalOf, LocalIn, IdentifyFails, StepIs
<1>1. /\ step[t] = "identify" /\ JobIs(t, "bind") /\ EndsJob(t) /\ UNCHANGED <<libs, hnd>>
      /\ os' = Freed(Path(t), hnd[t])
  BY DEF IdentifyFails, StepIs, Fails
<1>2. NoNewClaims(t, x)
  BY <1>0, <1>1, <1>b, ClaimsAfter DEF NoNewClaims, TakesAway
<1>3. os'[x].base = os[x].base /\ os'[x].count >= os[x].count - 1 /\ (x # Path(t) => os'[x].count >= os[x].count)
  BY <1>0, <1>1, FreedOnce
<1>4. x = Path(t) => HasLoad(t, x) /\ ~HasLoad(t, x)'
  BY <1>0, <1>1, <1>b, ClaimsAfter DEF HasLoad, LoadAt
<1> QED  BY <1>0, <1>2, <1>3, <1>4, FewerClaims

LEMMA BackedAsUpgradeFrees ==
    ASSUME LibInv, LibrariesTypeOK', Undisturbed, NEW t \in LibThread, UpgradeFrees(t), ~spoilt', NEW x \in LibFile
    PROVE  Backed(x)'
<1>0. LibrariesTypeOK /\ OneLibrary /\ LocalOf(t) /\ Backed(x) /\ LibraryStep(t) /\ job[t] <= Len(Work[t])
  BY DEF LibInv, Locals, Undisturbed, AllBacked, LibraryStep, UpgradeFrees, StepIs
<1>b. JobFcn(t) \in LibFunction /\ Path(t) = FileOf[Import(t)] /\ Path(t) \in LibFile /\ (JobIs(t, "run") <=> ~JobIs(t, "bind"))
  BY <1>0, JobIsOne, PathIsFile DEF LocalOf, LocalIn, UpgradeFrees, StepIs
<1>1. /\ step[t] = "free" /\ JobIs(t, "run") /\ Go(t, "reload") /\ UNCHANGED <<libs, hnd, fcnLib>>
      /\ os' = Freed(Path(t), libs[Slot(t)].handle)
  BY <1>0 DEF UpgradeFrees, StepIs, LocalOf, LocalIn, fcnVars
<1>2. NoNewClaims(t, x)
  <2>1. Lib(t)' = Lib(t)
    BY <1>0, <1>1, ClaimsAfter DEF Lib
  <2> QED  BY <1>0, <1>1, <2>1, ClaimsAfter DEF NoNewClaims, TakesAway, Gone, LoadAt
<1>3. os'[x].base = os[x].base /\ os'[x].count >= os[x].count - 1 /\ (x # Path(t) => os'[x].count >= os[x].count)
  BY <1>0, <1>1, FreedOnce
<1>4. x = Path(t) => HasLoad(t, x) /\ ~HasLoad(t, x)'
  BY <1>0, <1>1, <1>b, ClaimsAfter DEF HasLoad, LoadAt
<1> QED  BY <1>0, <1>2, <1>3, <1>4, FewerClaims

LEMMA BackedAsKept ==
    ASSUME LibInv, LibrariesTypeOK', Undisturbed, NEW t \in LibThread, KeepLibrary(t), ~spoilt', NEW x \in LibFile
    PROVE  Backed(x)'
<1>0. LibrariesTypeOK /\ OneLibrary /\ LocalOf(t) /\ Backed(x) /\ LibraryStep(t) /\ job[t] <= Len(Work[t])
  BY DEF LibInv, Locals, Undisturbed, AllBacked, LibraryStep, KeepLibrary, StepIs
<1>b. JobFcn(t) \in LibFunction /\ Path(t) = FileOf[Import(t)] /\ Path(t) \in LibFile /\ (JobIs(t, "run") <=> ~JobIs(t, "bind"))
  BY <1>0, JobIsOne, PathIsFile DEF LocalOf, LocalIn, KeepLibrary, StepIs
<1>1. /\ step[t] = "keep" /\ Go(t, "unlock") /\ UNCHANGED <<libs, hnd>>
      /\ os' = IF hnd[t] # libs[Slot(t)].handle THEN Freed(Path(t), hnd[t]) ELSE os
  BY DEF KeepLibrary, StepIs
<1>2. NoNewClaims(t, x)
  BY <1>0, <1>1, ClaimsAfter DEF NoNewClaims, TakesAway, Gone, LoadAt
<1>3. JobIs(t, "run") => os' = os
  <2> SUFFICES ASSUME JobIs(t, "run"), hnd[t] # libs[Slot(t)].handle PROVE os' = os
    BY <1>1
  <2>1. Slot(t) \in DOMAIN libs /\ libs[Slot(t)].file = Path(t) /\ libs[Slot(t)].level = "execute"
    BY <1>0, <1>1, <1>b, SlotIsLib DEF LocalOf, LocalIn
  <2>2. ~Away(Slot(t))
    BY <2>1 DEF Away, TakesAway, Undisturbed, StillInspect
  <2>3. os[Path(t)].base = libs[Slot(t)].handle
    BY <1>b, <2>1, <2>2 DEF Undisturbed, AllBacked, Backed
  <2> QED  BY <1>1, <2>3 DEF Freed, IsLoaded
<1>4. /\ os'[x].base = os[x].base /\ os'[x].count >= os[x].count - 1
      /\ x # Path(t) \/ JobIs(t, "run") => os'[x].count >= os[x].count
  <2>1. os[x].count \in Nat
    BY <1>0, TypedParts DEF OsTyped
  <2>2. CASE os' = os
    BY <2>1, <2>2
  <2>3. CASE os' = Freed(Path(t), hnd[t])
    BY <1>0, <1>3, <2>1, <2>3, FreedOnce
  <2> QED  BY <1>1, <2>2, <2>3
<1>5. x = Path(t) /\ JobIs(t, "bind") => HasLoad(t, x) /\ ~HasLoad(t, x)'
  BY <1>0, <1>1, <1>b, ClaimsAfter DEF HasLoad, LoadAt
<1> QED  BY <1>0, <1>b, <1>2, <1>4, <1>5, FewerClaims

LEMMA BackedAsOpened ==
    ASSUME LibInv, LibrariesTypeOK', Undisturbed, NEW t \in LibThread, Open(t), ~spoilt', NEW x \in LibFile
    PROVE  Backed(x)'
<1>0. LibrariesTypeOK /\ OneLibrary /\ LocalOf(t) /\ Backed(x) /\ LibraryStep(t) /\ job[t] <= Len(Work[t])
  BY DEF LibInv, Locals, Undisturbed, AllBacked, LibraryStep, Open, StepIs
<1>b. JobFcn(t) \in LibFunction /\ Path(t) = FileOf[Import(t)] /\ Path(t) \in LibFile /\ (JobIs(t, "run") <=> ~JobIs(t, "bind"))
  BY <1>0, JobIsOne, PathIsFile DEF LocalOf, LocalIn, Open, StepIs
<1>f. IsFiniteSet(Holders(x)) /\ IsFiniteSet(Holders(x)') /\ OsTyped'
  BY LibraryAssumption, FS_Subset, TypedPartsNow DEF Holders
<1>1. PICK base \in Bases : /\ os' = [os EXCEPT ![Path(t)] = LoadedAt(Path(t), base)]
                           /\ hnd' = [hnd EXCEPT ![t] = os'[Path(t)].base]
  BY DEF Open
<1>2. step[t] = "open" /\ Go(t, "identify") /\ UNCHANGED <<libs, fcnLib>>
  BY DEF Open, StepIs, fcnVars
<1>3. \A l : TakesAway(t, l) <=> TakesAway(t, l)'
  <2>1. Lib(t)' = Lib(t)
    BY <1>0, <1>2, ClaimsAfter DEF Lib
  <2> QED  BY <1>0, <1>2, <2>1, ClaimsAfter DEF TakesAway, Gone
<1>4. HasLoad(t, x)' => x = Path(t)
  BY <1>0, <1>2, <1>b, ClaimsAfter
<1>5. CASE x # Path(t)
  <2>1. NoNewClaims(t, x)
    BY <1>2, <1>3, <1>4, <1>5 DEF NoNewClaims
  <2>2. os'[x] = os[x] /\ os[x].count \in Nat
    BY <1>0, <1>1, <1>b, <1>5, LoadedOnce, TypedParts DEF OsTyped
  <2> QED  BY <1>0, <2>1, <2>2, FewerClaims
<1>6. CASE x = Path(t)
  <2>1. hnd'[t] = os'[x].base
    BY <1>0, <1>1, <1>6 DEF LibrariesTypeOK
  <2>2. \A l : Away(l) <=> Away(l)'
    BY <1>0, <1>3, OthersGoOn DEF Away
  <2>3. Holders(x)' \subseteq Holders(x) \cup {t}
    BY <1>0, OthersGoOn DEF Holders
  <2>4. \A u \in Holders(x)' : hnd'[u] = os'[x].base \/ (u \in Holders(x) /\ hnd'[u] = hnd[u])
    BY <1>0, <2>1, OthersGoOn DEF Holders
  <2>5. Held(x)' => Held(x)
    BY <1>2, <2>2 DEF Held
  <2>6. \A l \in DOMAIN libs' : libs'[l].file = x /\ ~Away(l)' => l \in DOMAIN libs /\ libs'[l] = libs[l] /\ ~Away(l)
    BY <1>2, <2>2
  <2>7. os' = [os EXCEPT ![x] = LoadedAt(x, base)]
    BY <1>1, <1>6
  <2> QED  BY <1>0, <1>f, <2>3, <2>4, <2>5, <2>6, <2>7, OneMoreClaim
<1> QED  BY <1>5, <1>6

LEMMA BackedAsAdded ==
    ASSUME LibInv, LibrariesTypeOK', Undisturbed, NEW t \in LibThread, AddLibrary(t), ~spoilt', NEW x \in LibFile
    PROVE  Backed(x)'
<1>0. LibrariesTypeOK /\ OneLibrary /\ LocalOf(t) /\ Backed(x) /\ LibraryStep(t) /\ job[t] <= Len(Work[t])
  BY DEF LibInv, Locals, Undisturbed, AllBacked, LibraryStep, AddLibrary, StepIs
<1>b. JobFcn(t) \in LibFunction /\ Path(t) = FileOf[Import(t)] /\ Path(t) \in LibFile /\ (JobIs(t, "run") <=> ~JobIs(t, "bind"))
  BY <1>0, JobIsOne, PathIsFile DEF LocalOf, LocalIn, AddLibrary, StepIs
<1>f. IsFiniteSet(Holders(x)) /\ IsFiniteSet(Holders(x)') /\ OsTyped'
  BY LibraryAssumption, FS_Subset, TypedPartsNow DEF Holders
<1>1. step[t] = "add" /\ FoundAt(Path(t)) = {} /\ Go(t, "unlock") /\ UNCHANGED <<os, hnd>>
  BY <1>0 DEF AddLibrary, StepIs, LocalOf, LocalIn
<1>2. /\ DOMAIN libs' = 1..(Len(libs) + 1) /\ DOMAIN libs = 1..Len(libs) /\ Len(libs) \in Nat
      /\ \A l \in DOMAIN libs : libs'[l] = libs[l]
      /\ libs'[Len(libs) + 1] = [file |-> Path(t), handle |-> hnd[t], level |-> Level(t)]
  BY <1>0, AddedAt
<1>3. JobIs(t, "bind")
  <2>1. JobIs(t, "run") => Lib(t) \in FoundAt(Path(t))
    BY <1>0, <1>1, <1>b DEF LocalOf, LocalIn, LibrariesTypeOK, Lib, Path, FoundAt
  <2> QED  BY <1>b, <1>1, <2>1
<1>4. \A l : ~TakesAway(t, l) /\ ~TakesAway(t, l)'
  BY <1>0, <1>1, <1>3, <1>b, ClaimsAfter DEF TakesAway
<1>5. ~HasLoad(t, x)'
  BY <1>0, <1>1, ClaimsAfter DEF LoadAt
<1>6. CASE x # Path(t)
  <2>1. NoNewClaims(t, x)
    BY <1>2, <1>4, <1>5, <1>6 DEF NoNewClaims
  <2>2. os'[x] = os[x] /\ os[x].count \in Nat
    BY <1>0, <1>1, TypedParts DEF OsTyped
  <2> QED  BY <1>0, <2>1, <2>2, FewerClaims
<1>7. CASE x = Path(t)
  <2>1. t \in Holders(x) /\ t \notin Holders(x)' /\ Holders(x)' \subseteq Holders(x)
    BY <1>0, <1>1, <1>5, <1>7, <1>b, OthersGoOn DEF Holders, HasLoad, LoadAt
  <2>2. ~Held(x)
    BY <1>1, <1>7 DEF Held, FoundAt
  <2>3. Cardinality(Holders(x)') <= Cardinality(Holders(x)) - 1 /\ Cardinality(Holders(x)) \in Nat /\ Cardinality(Holders(x)') \in Nat
    BY <1>f, <2>1, HoldersCount
  <2>4. os[x].count \in Nat
    BY <1>0, TypedParts DEF OsTyped
  <2>5. Claims(x)' = Cardinality(Holders(x)') + (IF Held(x)' THEN 1 ELSE 0)
    BY DEF Claims
  <2>6. os'[x].count >= Claims(x)'
    BY <1>0, <1>1, <2>2, <2>3, <2>4, <2>5 DEF Backed, Claims
  <2>7. \A u \in Holders(x)' : os'[x].base = hnd'[u]
    BY <1>0, <1>1, <2>1 DEF Backed
  <2>8. \A l \in DOMAIN libs' : libs'[l].file = x => os'[x].base = libs'[l].handle
    <3> SUFFICES ASSUME NEW l \in DOMAIN libs', libs'[l].file = x PROVE os'[x].base = libs'[l].handle
      OBVIOUS
    <3>1. l \notin DOMAIN libs
      BY <1>1, <1>2, <1>7 DEF FoundAt
    <3>2. libs'[l].handle = hnd[t]
      BY <1>2, <3>1
    <3> QED  BY <1>0, <1>1, <2>1, <3>2 DEF Backed
  <2> QED  BY <2>6, <2>7, <2>8 DEF Backed
<1> QED  BY <1>6, <1>7

LEMMA BackedAsReloaded ==
    ASSUME LibInv, LibrariesTypeOK', Undisturbed, NEW t \in LibThread, UpgradeReloads(t), ~spoilt', NEW x \in LibFile
    PROVE  Backed(x)'
<1>0. LibrariesTypeOK /\ OneLibrary /\ LocalOf(t) /\ Backed(x) /\ LibraryStep(t) /\ job[t] <= Len(Work[t])
  BY DEF LibInv, Locals, Undisturbed, AllBacked, LibraryStep, UpgradeReloads, StepIs
<1>b. JobFcn(t) \in LibFunction /\ Path(t) = FileOf[Import(t)] /\ Path(t) \in LibFile /\ (JobIs(t, "run") <=> ~JobIs(t, "bind"))
  BY <1>0, JobIsOne, PathIsFile DEF LocalOf, LocalIn, UpgradeReloads, StepIs
<1>f. IsFiniteSet(Holders(x)) /\ IsFiniteSet(Holders(x)') /\ OsTyped'
  BY LibraryAssumption, FS_Subset, TypedPartsNow DEF Holders
<1>1. PICK base \in Bases :
         /\ os' = [os EXCEPT ![Path(t)] = LoadedAt(Path(t), base)]
         /\ libs' = [libs EXCEPT ![Slot(t)].handle = os'[Path(t)].base, ![Slot(t)].level = "execute"]
  BY DEF UpgradeReloads
<1>2. step[t] = "reload" /\ JobIs(t, "run") /\ Go(t, "keep") /\ UNCHANGED <<hnd, fcnLib>>
  BY <1>0 DEF UpgradeReloads, StepIs, LocalOf, LocalIn, fcnVars
<1>3. Slot(t) \in DOMAIN libs /\ libs[Slot(t)].file = Path(t) /\ Slot(t) = Lib(t) /\ Lib(t)' = Lib(t)
  BY <1>0, <1>2, <1>b, SlotIsLib, ClaimsAfter DEF LocalOf, LocalIn, Lib
<1>4. os'[Path(t)].base \in Bases \cup {NoHandle}
  BY <1>f, <1>b DEF OsTyped
<1>5. /\ DOMAIN libs' = DOMAIN libs /\ \A l \in DOMAIN libs : l # Slot(t) => libs'[l] = libs[l]
      /\ libs'[Slot(t)].file = Path(t) /\ libs'[Slot(t)].handle = os'[Path(t)].base
  <2>1. libs[Slot(t)] \in LibraryRecord
    BY <1>0, <1>3, RecordAt, TypedParts
  <2>a. PICK h : h = os'[Path(t)].base
    OBVIOUS
  <2>b. libs' = [libs EXCEPT ![Slot(t)].handle = h, ![Slot(t)].level = "execute"]
    BY <1>1, <2>a
  <2>2. libs' = [libs EXCEPT ![Slot(t)] = [libs[Slot(t)] EXCEPT !.handle = h, !.level = "execute"]]
    BY <1>3, <2>b
  <2>3. libs'[Slot(t)].file = Path(t) /\ libs'[Slot(t)].handle = h
    BY <1>3, <2>1, <2>2 DEF LibraryRecord
  <2>4. DOMAIN libs' = DOMAIN libs /\ \A l \in DOMAIN libs : l # Slot(t) => libs'[l] = libs[l]
    BY <2>2
  <2> QED  BY <2>3, <2>4, <2>a
<1>6. ~HasLoad(t, x)'
  BY <1>0, <1>2, <1>b, ClaimsAfter DEF LoadAt
<1>7. \A l : l # Slot(t) => ~TakesAway(t, l)
  BY <1>3 DEF TakesAway
<1>8. CASE x # Path(t)
  <2>1. NoNewClaims(t, x)
    BY <1>5, <1>6, <1>7, <1>8 DEF NoNewClaims
  <2>2. os'[x] = os[x] /\ os[x].count \in Nat
    BY <1>0, <1>1, <1>b, <1>8, LoadedOnce, TypedParts DEF OsTyped
  <2> QED  BY <1>0, <2>1, <2>2, FewerClaims
<1>9. CASE x = Path(t)
  <2>1. \A l \in DOMAIN libs' : libs'[l].file = x => l = Slot(t)
    BY <1>0, <1>3, <1>5, <1>9 DEF OneLibrary
  <2>2. Holders(x)' \subseteq Holders(x)
    BY <1>0, <1>6, OthersGoOn DEF Holders
  <2>3. \A u \in Holders(x)' : u \in Holders(x) /\ hnd'[u] = hnd[u]
    BY <1>2, <2>2
  <2>4. \A l \in DOMAIN libs' : libs'[l].file = x => libs'[l].handle = os'[x].base
    BY <1>5, <1>9, <2>1
  <2>5. os' = [os EXCEPT ![x] = LoadedAt(x, base)]
    BY <1>1, <1>9
  <2> QED  BY <1>0, <1>f, <2>2, <2>3, <2>4, <2>5, OneMoreClaim
<1> QED  BY <1>8, <1>9

LEMMA StillBacked ==
    ASSUME LibInv, LibrariesTypeOK', Undisturbed, NEW t \in LibThread, LibraryStep(t), ~spoilt'
    PROVE  AllBacked'
<1> SUFFICES ASSUME NEW x \in LibFile PROVE Backed(x)'
  BY DEF AllBacked
<1>1. CASE Quiet(t)
  <2>1. UNCHANGED os /\ NoNewClaims(t, x)
    BY <1>1, QuietMakesNoClaims
  <2>2. Backed(x) /\ os[x].count \in Nat
    BY TypedParts DEF LibInv, Undisturbed, AllBacked, OsTyped
  <2>3. os'[x].base = os[x].base /\ os'[x].count >= os[x].count
    BY <2>1, <2>2
  <2> QED  BY <2>1, <2>2, <2>3, FewerClaims
<1>2. CASE GiveBack(t)
  BY <1>2, BackedAsGivenBack
<1>3. CASE Open(t)
  BY <1>3, BackedAsOpened
<1>4. CASE IdentifyFails(t)
  BY <1>4, BackedAsIdentifyFails
<1>5. CASE AddLibrary(t)
  BY <1>5, BackedAsAdded
<1>6. CASE UpgradeFrees(t)
  BY <1>6, BackedAsUpgradeFrees
<1>7. CASE UpgradeReloads(t)
  BY <1>7, BackedAsReloaded
<1>8. CASE KeepLibrary(t)
  BY <1>8, BackedAsKept
<1>9. ~UpgradeFails(t)
  <2>1. UpgradeFails(t) => JobIs(t, "run") /\ ~JobIs(t, "bind")
    BY JobIsOne DEF LibInv, Locals, LocalOf, LocalIn, UpgradeFails, StepIs
  <2> QED  BY <2>1 DEF UpgradeFails, Fails
<1> QED
  BY <1>1, <1>2, <1>3, <1>4, <1>5, <1>6, <1>7, <1>8, <1>9 DEF LibraryStep, Quiet

LEMMA UpgraderGoesOn ==
    ASSUME LibInv, NEW t \in LibThread, LibraryStep(t), Upgrading(t)'
    PROVE  /\ JobIs(t, "run") /\ Lib(t)' = Lib(t) /\ Lib(t) \in DOMAIN libs
           /\ step[t] \in Loading \/ GiveBack(t)
           /\ step'[t] \in Gone => step[t] \in Gone \ {"reload"} \/ GiveBack(t)
<1>0. LibrariesTypeOK /\ LocalOf(t)
  BY DEF LibInv, Locals
<1>1. job[t] <= Len(Work[t])
  BY DEF LibraryStep, BindAgain, BindImported, BindLoads, RecordImport, CompileUpgrades, CompileResolves, CompiledBefore, GiveBack, MakeContext, invoke, resolveFunction, SymbolNotFound, Open, OpenFails, Identify, IdentifyFails, lockLibSet, AddLibrary, FindLibrary, UpgradeFrees, UpgradeReloads, UpgradeFails, KeepLibrary, unlockLibSet, StepIs
<1>2. JobFcn(t) \in LibFunction /\ (JobIs(t, "run") <=> ~JobIs(t, "bind"))
  BY <1>0, <1>1, JobIsOne
<1>3. ~EndsJob(t)
  BY <1>0 DEF EndsJob, Upgrading, Loading, LibrariesTypeOK
<1>4. PICK to : Go(t, to)
  BY <1>3 DEF LibraryStep, BindAgain, BindImported, BindLoads, RecordImport, CompileUpgrades, CompileResolves, CompiledBefore, GiveBack, MakeContext, invoke, resolveFunction, SymbolNotFound, Open, OpenFails, Identify, IdentifyFails, lockLibSet, AddLibrary, FindLibrary, UpgradeFrees, UpgradeReloads, UpgradeFails, KeepLibrary, unlockLibSet, Fails
<1>5. JobIs(t, "run") /\ UNCHANGED <<JobFcn(t), JobIs(t, "run")>>
  BY <1>0, <1>4, ClaimsAfter DEF Upgrading
<1>6. ASSUME NEW s, Go(t, s) PROVE s \in Loading /\ step'[t] = s
  BY <1>0, <1>6, ClaimsAfter DEF Upgrading
<1>7. step[t] \in Loading \/ GiveBack(t)
  <2>1. ~BindAgain(t) /\ ~BindImported(t) /\ ~BindLoads(t) /\ ~RecordImport(t)
    BY <1>2, <1>5, <1>6 DEF BindAgain, BindImported, BindLoads, RecordImport, Loading
  <2>2. ~CompileUpgrades(t) /\ ~CompileResolves(t) /\ ~CompiledBefore(t)
    <3>1. ~Go(t, "release")
      BY <1>6 DEF Loading
    <3>2. ~Go(t, "resolve")
      BY <1>6 DEF Loading
    <3>3. ~Go(t, "invoke")
      BY <1>6 DEF Loading
    <3> QED  BY <3>1, <3>2, <3>3 DEF CompileUpgrades, CompileResolves, CompiledBefore
  <2>4. ~MakeContext(t) /\ ~invoke(t)
    BY <1>3, <1>6 DEF MakeContext, invoke, Loading
  <2>3. ~resolveFunction(t) /\ ~SymbolNotFound(t)
    BY <1>2, <1>3, <1>5, <1>6 DEF resolveFunction, SymbolNotFound, Fails, Loading
  <2> QED
    BY <2>1, <2>2, <2>3, <2>4 DEF Loading, StepIs, LibraryStep, Open, OpenFails, Identify, IdentifyFails, lockLibSet, AddLibrary, FindLibrary, UpgradeFrees, UpgradeReloads, UpgradeFails, KeepLibrary, unlockLibSet
<1>8. Lib(t) # NoLib
  BY <1>0, <1>5, <1>7 DEF LocalOf, LocalIn, Loading, GiveBack, StepIs
<1>9. Lib(t)' = Lib(t) /\ Lib(t) \in DOMAIN libs
  BY <1>0, <1>2, <1>5, <1>8, StepGrows DEF Grows, Lib, LibrariesTypeOK
<1>10. step[t] \in {"reload", "keep", "unlock"} => step'[t] \notin Gone
  <2> SUFFICES ASSUME step[t] \in {"reload", "keep", "unlock"} PROVE step'[t] \notin Gone
    OBVIOUS
  <2>1. UpgradeReloads(t) \/ UpgradeFails(t) \/ KeepLibrary(t) \/ unlockLibSet(t)
    BY DEF StepIs, LibraryStep, BindAgain, BindImported, BindLoads, RecordImport, CompileUpgrades, CompileResolves, CompiledBefore, GiveBack, MakeContext, invoke, resolveFunction, SymbolNotFound, Open, OpenFails, Identify, IdentifyFails, lockLibSet, AddLibrary, FindLibrary, UpgradeFrees, UpgradeReloads, UpgradeFails, KeepLibrary, unlockLibSet
  <2> QED  BY <2>1, <1>2, <1>3, <1>5, <1>6 DEF Gone, Fails, UpgradeReloads, UpgradeFails, KeepLibrary, unlockLibSet
<1> QED  BY <1>5, <1>7, <1>9, <1>10 DEF Loading, Gone

LEMMA StillOneUpgrades ==
    ASSUME LibInv, Undisturbed, NEW t \in LibThread, LibraryStep(t), ~spoilt'
    PROVE  OneUpgrades'
<1>1. SUFFICES ASSUME NEW u \in LibThread, NEW v \in LibThread, u # v, Upgrading(u)', Upgrading(v)', Lib(u)' = Lib(v)' PROVE FALSE
  BY DEF OneUpgrades
<1>2. \A w \in LibThread : w # t /\ Upgrading(w)' => Upgrading(w) /\ Lib(w)' = Lib(w)
  BY OthersGoOn DEF Upgrading, Loading
<1>3. Upgrading(t)' => Lib(t)' = Lib(t) /\ (Upgrading(t) \/ ~Disturbs(t, Lib(t)))
  BY UpgraderGoesOn DEF Upgrading, GiveBack
<1> QED  BY <1>1, <1>2, <1>3 DEF Undisturbed, OneUpgrades, Disturbs

(* A library changes only by the one step that loads it for calls.         *)
LEMMA ChangedByItsUpgrader ==
    ASSUME LibInv, NEW t \in LibThread, LibraryStep(t), NEW l \in DOMAIN libs, libs'[l] # libs[l]
    PROVE  step[t] = "reload" /\ TakesAway(t, l) /\ libs[l].level = "inspect"
<1>1. Grows(t) /\ LocalOf(t)
  BY StepGrows DEF LibInv, Locals
<1>2. step[t] = "reload" /\ l = Slot(t)
  BY <1>1 DEF Grows
<1> QED  BY <1>1, <1>2, SlotIsLib DEF LocalOf, LocalIn, TakesAway, Gone

LEMMA StillInspected ==
    ASSUME LibInv, Undisturbed, NEW t \in LibThread, LibraryStep(t), ~spoilt'
    PROVE  StillInspect'
<1>0. LibrariesTypeOK /\ OneUpgrades /\ StillInspect
  BY DEF LibInv, Undisturbed
<1>1. SUFFICES ASSUME NEW u \in LibThread, JobIs(u, "run")', step'[u] \in Gone PROVE libs'[Lib(u)'].level = "inspect"
  BY DEF StillInspect
<1>2. CASE u # t
  <2>1. JobIs(u, "run") /\ step[u] \in Gone /\ Lib(u)' = Lib(u) /\ Lib(u) \in DOMAIN libs
    BY <1>1, <1>2, OthersGoOn DEF Gone
  <2>2. libs'[Lib(u)] = libs[Lib(u)]
    BY <1>0, <1>2, <2>1, ChangedByItsUpgrader DEF OneUpgrades, Upgrading, TakesAway, Gone, Loading
  <2> QED  BY <1>0, <2>1, <2>2 DEF StillInspect
<1>3. CASE u = t
  <2>1. /\ JobIs(t, "run") /\ Lib(t)' = Lib(t) /\ Lib(t) \in DOMAIN libs
        /\ step[t] \in Gone \ {"reload"} \/ GiveBack(t)
    BY <1>1, <1>3, UpgraderGoesOn DEF Upgrading, Gone, Loading
  <2>2. libs'[Lib(t)] = libs[Lib(t)]
    BY <2>1, ChangedByItsUpgrader DEF GiveBack, StepIs
  <2>3. libs[Lib(t)].level \in {"inspect", "execute"}
    BY <1>0, <2>1, RecordAt, TypedParts DEF LibraryRecord
  <2> QED  BY <1>0, <1>3, <2>1, <2>2, <2>3 DEF StillInspect, GiveBack
<1> QED  BY <1>2, <1>3

LEMMA TargetsStillLie ==
    ASSUME LibInv, Undisturbed, NEW t \in LibThread, LibraryStep(t), ~spoilt'
    PROVE  TargetsLie'
<1>0. LibrariesTypeOK /\ LocalOf(t) /\ TargetsLie /\ Grows(t) /\ Addresses
  BY StepGrows DEF LibInv, Locals, Undisturbed
<1>1. \A f \in LibFunction : fcnLib[f] # NoLib => fcnLib[f] \in DOMAIN libs /\ fcnLib'[f] = fcnLib[f]
  BY <1>0 DEF Grows, LibrariesTypeOK
<1>2. \A l \in DOMAIN libs : libs[l].level = "execute" => libs'[l] = libs[l]
  BY ChangedByItsUpgrader
<1>3. CASE UNCHANGED target
  BY <1>0, <1>1, <1>2, <1>3 DEF TargetsLie
<1>4. CASE MakeContext(t)
  <2>1. JobFcn(t) \in LibFunction /\ Lib(t) # NoLib /\ libs[Lib(t)].level = "execute"
    BY <1>0, <1>4, JobIsOne DEF MakeContext, StepIs, LocalOf, LocalIn
  <2>2. externAddress[JobFcn(t)] = libs[Lib(t)].handle
    BY <1>0, <1>4 DEF MakeContext, StepIs, Addresses, AddressIn
  <2>3. \A f \in LibFunction : target'[f] = IF f = JobFcn(t) THEN externAddress[f] ELSE target[f]
    BY <1>0, <1>4 DEF MakeContext, LibrariesTypeOK
  <2> QED  BY <1>0, <1>1, <1>2, <2>1, <2>2, <2>3 DEF TargetsLie, Lib
<1> QED
  BY <1>3, <1>4 DEF LibraryStep, fcnVars, BindAgain, BindImported, BindLoads, RecordImport, CompileUpgrades, CompileResolves, CompiledBefore, GiveBack, MakeContext, invoke, resolveFunction, SymbolNotFound, Open, OpenFails, Identify, IdentifyFails, lockLibSet, AddLibrary, FindLibrary, UpgradeFrees, UpgradeReloads, UpgradeFails, KeepLibrary, unlockLibSet

LEMMA AddressesStay ==
    ASSUME LibInv, Undisturbed, NEW t \in LibThread, LibraryStep(t), ~spoilt'
    PROVE  Addresses'
<1>0. LibrariesTypeOK /\ LocalOf(t) /\ TargetsLie /\ Grows(t) /\ Addresses /\ TargetsLie'
  BY StepGrows, TargetsStillLie DEF LibInv, Locals, Undisturbed
<1>1. \A f \in LibFunction : fcnLib[f] # NoLib => fcnLib[f] \in DOMAIN libs /\ fcnLib'[f] = fcnLib[f]
  BY <1>0 DEF Grows, LibrariesTypeOK
<1>2. \A l \in DOMAIN libs : libs[l].level = "execute" => libs'[l] = libs[l]
  BY ChangedByItsUpgrader
<1>j. job[t] <= Len(Work[t]) => JobFcn(t) \in LibFunction /\ (JobIs(t, "run") <=> ~JobIs(t, "bind"))
  BY <1>0, JobIsOne
<1>3. \A f \in LibFunction : externAddress'[f] = externAddress[f]
                             \/ (fcnLib[f] # NoLib /\ libs[fcnLib[f]].level = "execute" /\ externAddress'[f] = libs[fcnLib[f]].handle)
  <2>1. CASE UNCHANGED externAddress
    BY <2>1
  <2>2. CASE resolveFunction(t)
    BY <1>0, <2>2 DEF resolveFunction, StepIs, LocalOf, LocalIn, LibrariesTypeOK, Lib
  <2> QED  BY <2>1, <2>2 DEF LibraryStep, fcnVars, BindAgain, BindImported, BindLoads, RecordImport, CompileUpgrades, CompileResolves, CompiledBefore, GiveBack, MakeContext, invoke, resolveFunction, SymbolNotFound, Open, OpenFails, Identify, IdentifyFails, lockLibSet, AddLibrary, FindLibrary, UpgradeFrees, UpgradeReloads, UpgradeFails, KeepLibrary, unlockLibSet
<1>4. \A f \in LibFunction : target'[f] = target[f] \/ MakeContext(t)
  BY DEF LibraryStep, fcnVars, BindAgain, BindImported, BindLoads, RecordImport, CompileUpgrades, CompileResolves, CompiledBefore, GiveBack, MakeContext, invoke, resolveFunction, SymbolNotFound, Open, OpenFails, Identify, IdentifyFails, lockLibSet, AddLibrary, FindLibrary, UpgradeFrees, UpgradeReloads, UpgradeFails, KeepLibrary, unlockLibSet
<1>5. SUFFICES ASSUME NEW u \in LibThread PROVE AddressIn(u, step[u])'
  BY DEF Addresses
<1>6. CASE u # t
  <2>1. step'[u] = step[u] /\ JobFcn(u)' = JobFcn(u)
    BY <1>6, OthersGoOn
  <2>2. SUFFICES ASSUME step[u] \in {"context", "invoke"} PROVE AddressIn(u, step[u])'
    BY <2>1 DEF AddressIn
  <2>3. LocalOf(u) /\ AddressIn(u, step[u])
    BY <1>0 DEF LibInv, Locals, Addresses
  <2>4. JobIs(u, "run") /\ JobFcn(u) \in LibFunction /\ Lib(u) # NoLib /\ Lib(u)' = Lib(u) /\ Lib(u) \in DOMAIN libs
    BY <1>0, <1>6, <2>2, <2>3, JobIsOne, OthersGoOn DEF LocalOf, LocalIn
  <2>5. libs[Lib(u)].level = "execute" /\ libs'[Lib(u)] = libs[Lib(u)]
    BY <1>2, <2>2, <2>3, <2>4 DEF LocalOf, LocalIn, AddressIn
  <2>6. CASE step[u] = "context"
    BY <1>3, <2>1, <2>3, <2>4, <2>5, <2>6 DEF AddressIn, Lib
  <2>7. CASE step[u] = "invoke"
    <3>1. target'[JobFcn(u)] = target[JobFcn(u)] \/ target'[JobFcn(u)] = libs[Lib(u)].handle
      <4>1. CASE MakeContext(t)
        <5>1. externAddress[JobFcn(t)] = libs[Lib(t)].handle
          BY <1>0, <4>1 DEF MakeContext, StepIs, Addresses, AddressIn
        <5> QED  BY <1>0, <2>4, <4>1, <5>1 DEF MakeContext, LibrariesTypeOK, Lib
      <4> QED  BY <1>4, <2>4, <4>1
    <3> QED  BY <2>1, <2>3, <2>4, <2>5, <2>7, <3>1 DEF AddressIn
  <2> QED  BY <2>2, <2>6, <2>7
<1>7. CASE u = t
  <2>0. SUFFICES AddressIn(t, step[t])'
    BY <1>7
  <2>1. ASSUME EndsJob(t) PROVE AddressIn(t, step[t])'
    BY <1>0, <2>1 DEF EndsJob, AddressIn, LibrariesTypeOK
  <2>2. ASSUME NEW to, Go(t, to), to \notin {"context", "invoke"} PROVE AddressIn(t, step[t])'
    BY <1>0, <2>2, ClaimsAfter DEF AddressIn
  <2>3. CASE resolveFunction(t)
    <3>1. CASE JobIs(t, "bind")
      BY <1>j, <2>1, <2>3, <3>1 DEF resolveFunction, StepIs
    <3>2. CASE JobIs(t, "run")
      <4>1. Lib(t) # NoLib /\ libs[Lib(t)].level = "execute" /\ Go(t, "context") /\ JobFcn(t) \in LibFunction /\ UNCHANGED <<libs, fcnLib>>
        BY <1>0, <1>j, <2>3, <3>2 DEF resolveFunction, StepIs, LocalOf, LocalIn
      <4>2. step'[t] = "context" /\ JobFcn(t)' = JobFcn(t) /\ Lib(t)' = Lib(t)
        BY <1>0, <4>1, ClaimsAfter DEF Lib
      <4>3. externAddress'[JobFcn(t)] = libs[Lib(t)].handle
        BY <1>0, <2>3, <4>1 DEF resolveFunction, LibrariesTypeOK
      <4> QED  BY <4>1, <4>2, <4>3 DEF AddressIn
    <3> QED  BY <1>j, <2>3, <3>1, <3>2 DEF resolveFunction, StepIs
  <2>4. CASE CompiledBefore(t) \/ MakeContext(t)
    <3>1. Go(t, "invoke") /\ JobFcn(t) \in LibFunction /\ UNCHANGED fcnLib
      BY <1>j, <2>4 DEF CompiledBefore, MakeContext, StepIs, fcnVars
    <3>2. step'[t] = "invoke" /\ JobFcn(t)' = JobFcn(t) /\ Lib(t)' = Lib(t)
      BY <1>0, <3>1, ClaimsAfter DEF Lib
    <3>3. target'[JobFcn(t)] # NoHandle \/ (MakeContext(t) /\ target'[JobFcn(t)] = libs[Lib(t)].handle /\ libs[Lib(t)].level = "execute" /\ UNCHANGED libs)
      BY <1>0, <2>4, <3>1 DEF CompiledBefore, MakeContext, StepIs, LibrariesTypeOK, fcnVars, Addresses, AddressIn, LocalOf, LocalIn
    <3>4. target'[JobFcn(t)] # NoHandle => target'[JobFcn(t)] = libs'[Lib(t)'].handle /\ libs'[Lib(t)'].level = "execute"
      BY <1>0, <3>1, <3>2 DEF TargetsLie, Lib
    <3> QED  BY <3>2, <3>3, <3>4 DEF AddressIn
  <2>5. ~(Fails(t) /\ JobIs(t, "run")) 
    BY <1>j DEF Fails, LibraryStep, BindAgain, BindImported, BindLoads, RecordImport, CompileUpgrades, CompileResolves, CompiledBefore, GiveBack, MakeContext, invoke, resolveFunction, SymbolNotFound, Open, OpenFails, Identify, IdentifyFails, lockLibSet, AddLibrary, FindLibrary, UpgradeFrees, UpgradeReloads, UpgradeFails, KeepLibrary, unlockLibSet, StepIs
  <2> QED
    BY <1>7, <1>j, <2>1, <2>2, <2>3, <2>4 DEF LibraryStep, BindAgain, BindImported, BindLoads, RecordImport, CompileUpgrades, CompileResolves, CompiledBefore, GiveBack, MakeContext, invoke, resolveFunction, SymbolNotFound, Open, OpenFails, Identify, IdentifyFails, lockLibSet, AddLibrary, FindLibrary, UpgradeFrees, UpgradeReloads, UpgradeFails, KeepLibrary, unlockLibSet, Fails, StepIs
<1> QED  BY <1>6, <1>7

LEMMA StayInvKept == LibInv /\ StayInv /\ [LibrariesNext]_libraryVars => StayInv'
<1>1. ASSUME LibInv, StayInv, ~spoilt', NEW t \in LibThread, LibraryStep(t) PROVE Undisturbed'
  <2>1. LibrariesTypeOK' /\ Undisturbed
    BY <1>1, TypesKept, StillUndisturbed DEF StayInv
  <2>2. OneUpgrades' /\ StillInspect' /\ AllBacked'
    BY <1>1, <2>1, StillOneUpgrades, StillInspected, StillBacked
  <2>3. TargetsLie' /\ Addresses'
    BY <1>1, <2>1, TargetsStillLie, AddressesStay
  <2> QED  BY <2>2, <2>3 DEF Undisturbed
<1>2. ASSUME Undisturbed, UNCHANGED libraryVars PROVE Undisturbed'
  <2>1. UNCHANGED <<os, setLock, libs, importLib, fcnLib, externAddress, target, bound, step, job, hnd, spoilt>>
    BY <1>2 DEF libraryVars, fcnVars
  <2>2. \A t \in LibThread : UNCHANGED <<JobIs(t, "run"), JobIs(t, "bind"), Lib(t), JobFcn(t), Import(t)>>
    BY <2>1 DEF JobIs, Lib, JobFcn, Import
  <2>3. OneUpgrades'
    BY <1>2, <2>1, <2>2 DEF Undisturbed, OneUpgrades, Upgrading
  <2>4. StillInspect'
    BY <1>2, <2>1, <2>2 DEF Undisturbed, StillInspect
  <2>5. \A t \in LibThread : \A x : UNCHANGED <<TakesAway(t, x), HasLoad(t, x)>>
    BY <2>1, <2>2 DEF TakesAway, HasLoad, LoadAt
  <2>6. \A x : UNCHANGED <<Away(x), Holders(x)>>
    BY <2>5 DEF Away, Holders
  <2>7. \A x : Held(x)' = Held(x)
    BY <2>1, <2>6 DEF Held
  <2>8. \A x : Backed(x)' = Backed(x)
    BY <2>1, <2>6, <2>7 DEF Backed, Claims
  <2>9. AllBacked' /\ TargetsLie'
    BY <1>2, <2>1, <2>8 DEF Undisturbed, AllBacked, TargetsLie
  <2>10. Addresses'
    BY <1>2, <2>1, <2>2 DEF Undisturbed, Addresses, AddressIn
  <2> QED  BY <2>3, <2>4, <2>9, <2>10 DEF Undisturbed
<1>3. UNCHANGED libraryVars => (spoilt' <=> spoilt)
  BY DEF libraryVars
<1> QED  BY <1>1, <1>2, <1>3 DEF LibrariesNext, StayInv

LEMMA StayInvStarts == LibrariesStart => StayInv
<1> SUFFICES ASSUME LibrariesStart PROVE Undisturbed
  BY DEF StayInv
<1>1. DOMAIN libs = {}
  BY DEF LibrariesStart
<1>2. OneUpgrades /\ StillInspect /\ TargetsLie /\ Addresses
  BY DEF LibrariesStart, OneUpgrades, Upgrading, Loading, StillInspect, Gone, TargetsLie, Addresses, AddressIn
<1>3. ASSUME NEW x \in LibFile PROVE Backed(x)
  <2>1. Holders(x) = {} /\ ~Held(x)
    BY <1>1 DEF LibrariesStart, Holders, HasLoad, LoadAt, Held
  <2>2. Cardinality(Holders(x)) = 0
    BY <2>1, FS_EmptySet
  <2>3. os[x].count = 0
    BY DEF LibrariesStart
  <2> QED  BY <1>1, <2>1, <2>2, <2>3 DEF Backed, Claims
<1> QED  BY <1>2, <1>3 DEF Undisturbed, AllBacked

(* While no library is used by one thread as another loads it for calls,   *)
(* and that does not fail, every library that is not being loaded is       *)
(* there, and what is called lies where it was found (foreign_code.cpp:    *)
(* 289): no thread frees the load another still needs.                     *)
THEOREM LibrariesStayLoaded == LibrariesSpec => []LibrariesStay
<1>1. LibInv /\ StayInv => LibrariesStay
  <2> SUFFICES ASSUME LibInv, Undisturbed PROVE StaysLoaded
    BY DEF LibInv, StayInv, LibrariesStay, StaysLoaded
  <2>1. LibrariesTypeOK /\ OneLibrary /\ IsFiniteSet(LibThread) /\ AllBacked
    BY LibraryAssumption DEF LibInv, Undisturbed
  <2>2. ASSUME NEW l \in DOMAIN libs, ~Away(l) PROVE IsLoaded(libs[l].file, libs[l].handle)
    <3>1. libs[l].file \in LibFile
      BY <2>1, RecordAt, TypedParts DEF LibraryRecord
    <3> QED  BY <2>1, <2>2, <3>1, BackedIsLoaded DEF AllBacked
  <2>3. ASSUME NEW l \in DOMAIN libs, ~\E t \in LibThread : Upgrading(t) /\ Lib(t) = l PROVE ~Away(l)
    BY <2>3 DEF Away, TakesAway, Upgrading, Gone, Loading
  <2>4. ASSUME NEW t \in LibThread, step[t] = "invoke" PROVE IsLoaded(FileOf[Import(t)], target[JobFcn(t)])
    <3>1. LocalOf(t) /\ AddressIn(t, step[t])
      BY DEF LibInv, Locals, Undisturbed, Addresses
    <3>2. Lib(t) # NoLib /\ JobFcn(t) \in LibFunction
      BY <2>1, <2>4, <3>1, JobIsOne DEF LocalOf, LocalIn
    <3>3. Lib(t) \in DOMAIN libs /\ libs[Lib(t)].file = FileOf[Import(t)]
      BY <2>1, <3>2 DEF Lib, OneLibrary, Import, LibrariesTypeOK
    <3>4. target[JobFcn(t)] = libs[Lib(t)].handle /\ libs[Lib(t)].level = "execute"
      BY <2>4, <3>1 DEF AddressIn
    <3>5. ~Away(Lib(t))
      BY <3>4 DEF Away, TakesAway, Undisturbed, StillInspect
    <3> QED  BY <2>2, <3>3, <3>4, <3>5
  <2> QED  BY <2>2, <2>3, <2>4 DEF StaysLoaded
<1> QED  BY LibInvStarts, LibInvKept, StayInvStarts, StayInvKept, <1>1, PTL DEF LibrariesSpec

=============================================================================
