------------------------------ MODULE Libraries ------------------------------
(***************************************************************************)
(* The libraries of foreign functions, as foreign_code.cpp loads them and  *)
(* validator.cpp and the evaluators ask for them.  A function is validated *)
(* against its library, which is mapped to be inspected only; before the   *)
(* first call the library is loaded as code instead.  Validation and       *)
(* evaluation run on several threads.  One set holds the libraries, found  *)
(* by the file they are, whatever name led to it, under a lock.            *)
(*                                                                         *)
(* The operating system counts how often a file was loaded and unloads it  *)
(* when it was freed as often; freeing what is not loaded does nothing.    *)
(* Loaded again it may lie elsewhere.                                      *)
(***************************************************************************)
EXTENDS Integers, Sequences, FiniteSets

CONSTANTS
    LibThread,
    LibFunction,    \* the foreign functions
    LibImport,      \* the import statements that name a library
    LibFile,        \* the files of libraries
    ImportOf,       \* ImportOf[f]: the import of the scope f is declared in
    FileOf,         \* FileOf[i]: the file the name in the import leads to
    Exported,       \* the functions that are in their files
    Bases,          \* where a file may be loaded
    Work            \* Work[t]: [do, fcn] in order, do is "bind" or "run"

ASSUME LibraryAssumption ==
    /\ ImportOf \in [LibFunction -> LibImport] /\ FileOf \in [LibImport -> LibFile]
    /\ Exported \subseteq LibFunction
    /\ Bases \subseteq Nat \ {0} /\ IsFiniteSet(LibThread)
    /\ Work \in [LibThread -> Seq([do : {"bind", "run"}, fcn : LibFunction])]

VARIABLES
    os,             \* the system's: per file how often it is loaded, and where
    setLock,        \* gLibSetLock is TS_RUNNING
    libs,           \* gLibSet, as the sequence of its libraries: file, osHandle, loadLevel
    importLib,      \* ImportStatement.lib
    fcnLib,         \* Function.lib
    externAddress,  \* Function.externAddress: where the library lay when it was set
    target,         \* Function.abiCtx.target
    bound,          \* the functions that were validated without an error
    step,           \* per thread: the next step
    job,            \* per thread: which of its jobs
    hnd,            \* per thread: hnd of loadLibrary
    spoilt          \* an upgrade failed, or the library was used meanwhile

fcnVars == <<importLib, fcnLib, externAddress, target, bound>>
libraryVars == <<os, setLock, libs, fcnVars, step, job, hnd, spoilt>>

NoHandle == 0
NoLib == 0

LibrariesStart ==
    /\ os = [x \in LibFile |-> [count |-> 0, base |-> NoHandle]]
    /\ setLock = FALSE /\ libs = <<>>
    /\ importLib = [i \in LibImport |-> NoLib] /\ fcnLib = [f \in LibFunction |-> NoLib]
    /\ externAddress = [f \in LibFunction |-> NoHandle] /\ target = [f \in LibFunction |-> NoHandle]
    /\ bound = {} /\ spoilt = FALSE
    /\ step = [t \in LibThread |-> "idle"] /\ job = [t \in LibThread |-> 1]
    /\ hnd = [t \in LibThread |-> NoHandle]

-----------------------------------------------------------------------------
(* The system. *)

IsLoaded(x, handle) == os[x].count > 0 /\ os[x].base = handle
LoadedAt(x, base) == IF os[x].count > 0 THEN [os[x] EXCEPT !.count = @ + 1] ELSE [count |-> 1, base |-> base]
Freed(x, handle) == IF IsLoaded(x, handle) THEN [os EXCEPT ![x].count = @ - 1] ELSE os

-----------------------------------------------------------------------------
JobFcn(t) == Work[t][job[t]].fcn
JobIs(t, do) == job[t] <= Len(Work[t]) /\ Work[t][job[t]].do = do
Import(t) == ImportOf[JobFcn(t)]
Lib(t) == fcnLib[JobFcn(t)]
Level(t) == IF JobIs(t, "run") THEN "execute" ELSE "inspect"
\* The name loadLibrary is given: the import's, or the full path of the library.
Path(t) == IF JobIs(t, "run") THEN libs[Lib(t)].file ELSE FileOf[Import(t)]
FoundAt(x) == {l \in DOMAIN libs : libs[l].file = x}
Slot(t) == CHOOSE l \in FoundAt(Path(t)) : TRUE

StepIs(t, from) == job[t] <= Len(Work[t]) /\ step[t] = from
Go(t, to) == step' = [step EXCEPT ![t] = to] /\ UNCHANGED job
EndsJob(t) == step' = [step EXCEPT ![t] = "idle"] /\ job' = [job EXCEPT ![t] = @ + 1]

\* From the moment compile gives its handle back to the end of loadLibrary.
Loading == {"open", "identify", "lock", "find", "add", "free", "reload", "keep", "unlock"}
Upgrading(t) == JobIs(t, "run") /\ step[t] \in Loading
Disturbs(t, l) == \E u \in LibThread \ {t} : Upgrading(u) /\ Lib(u) = l
UsedMeanwhile(t) == spoilt' = (spoilt \/ Disturbs(t, Lib(t)))

\* An error of compile is dropped by those who called it, they go on to invoke.
Fails(t) ==
    \/ JobIs(t, "bind") /\ EndsJob(t) /\ UNCHANGED spoilt
    \/ JobIs(t, "run") /\ Go(t, "invoke") /\ spoilt' = TRUE

-----------------------------------------------------------------------------
(* Validation: bindFromExternalLibrary. *)

BindAgain(t) ==
    /\ StepIs(t, "idle") /\ JobIs(t, "bind") /\ Lib(t) # NoLib
    /\ EndsJob(t)
    /\ UNCHANGED <<os, setLock, libs, fcnVars, hnd, spoilt>>

BindImported(t) ==
    /\ StepIs(t, "idle") /\ JobIs(t, "bind") /\ Lib(t) = NoLib /\ importLib[Import(t)] # NoLib
    /\ fcnLib' = [fcnLib EXCEPT ![JobFcn(t)] = importLib[Import(t)]]
    /\ Go(t, "resolve")
    /\ UNCHANGED <<os, setLock, libs, importLib, externAddress, target, bound, hnd, spoilt>>

BindLoads(t) ==
    /\ StepIs(t, "idle") /\ JobIs(t, "bind") /\ Lib(t) = NoLib /\ importLib[Import(t)] = NoLib
    /\ Go(t, "open")
    /\ UNCHANGED <<os, setLock, libs, fcnVars, hnd, spoilt>>

RecordImport(t) ==
    /\ StepIs(t, "record")
    /\ importLib' = [importLib EXCEPT ![Import(t)] = Lib(t)]
    /\ Go(t, "resolve")
    /\ UNCHANGED <<os, setLock, libs, fcnLib, externAddress, target, bound, hnd, spoilt>>

-----------------------------------------------------------------------------
(* Evaluation: compile and invoke, of a function that was validated. *)

CompileUpgrades(t) ==
    /\ StepIs(t, "idle") /\ JobIs(t, "run") /\ JobFcn(t) \in bound
    /\ target[JobFcn(t)] = NoHandle /\ libs[Lib(t)].level # "execute"
    /\ Go(t, "release")
    /\ UNCHANGED <<os, setLock, libs, fcnVars, hnd, spoilt>>

CompileResolves(t) ==
    /\ StepIs(t, "idle") /\ JobIs(t, "run") /\ JobFcn(t) \in bound
    /\ target[JobFcn(t)] = NoHandle /\ libs[Lib(t)].level = "execute"
    /\ Go(t, "resolve")
    /\ UNCHANGED <<os, setLock, libs, fcnVars, hnd, spoilt>>

CompiledBefore(t) ==
    /\ StepIs(t, "idle") /\ JobIs(t, "run") /\ JobFcn(t) \in bound /\ target[JobFcn(t)] # NoHandle
    /\ Go(t, "invoke")
    /\ UNCHANGED <<os, setLock, libs, fcnVars, hnd, spoilt>>

\* Without the lock, and on what was read before of the level.
GiveBack(t) ==
    /\ StepIs(t, "release")
    /\ os' = Freed(libs[Lib(t)].file, libs[Lib(t)].handle)
    /\ Go(t, "open")
    /\ spoilt' = (spoilt \/ Disturbs(t, Lib(t)) \/ libs[Lib(t)].level = "execute")
    /\ UNCHANGED <<setLock, libs, fcnVars, hnd>>

MakeContext(t) ==
    /\ StepIs(t, "context")
    /\ target' = [target EXCEPT ![JobFcn(t)] = externAddress[JobFcn(t)]]
    /\ Go(t, "invoke")
    /\ UNCHANGED <<os, setLock, libs, importLib, fcnLib, externAddress, bound, hnd, spoilt>>

invoke(t) ==
    /\ StepIs(t, "invoke")
    /\ EndsJob(t) /\ UsedMeanwhile(t)
    /\ UNCHANGED <<os, setLock, libs, fcnVars, hnd>>

-----------------------------------------------------------------------------
(* resolveFunction: an address is kept when the library is there to be run. *)

SymbolThere(t) == IsLoaded(libs[Lib(t)].file, libs[Lib(t)].handle) /\ JobFcn(t) \in Exported

resolveFunction(t) ==
    /\ StepIs(t, "resolve") /\ SymbolThere(t) /\ UsedMeanwhile(t)
    /\ externAddress' = IF libs[Lib(t)].level = "execute"
                        THEN [externAddress EXCEPT ![JobFcn(t)] = libs[Lib(t)].handle] ELSE externAddress
    /\ \/ JobIs(t, "bind") /\ EndsJob(t) /\ bound' = bound \cup {JobFcn(t)}
       \/ JobIs(t, "run") /\ Go(t, "context") /\ UNCHANGED bound
    /\ UNCHANGED <<os, setLock, libs, importLib, fcnLib, target, hnd>>

SymbolNotFound(t) ==
    /\ StepIs(t, "resolve") /\ ~SymbolThere(t)
    /\ \/ JobIs(t, "bind") /\ EndsJob(t) /\ UsedMeanwhile(t)
       \/ JobIs(t, "run") /\ Fails(t)
    /\ UNCHANGED <<os, setLock, libs, fcnVars, hnd>>

-----------------------------------------------------------------------------
(* loadLibrary. *)

Open(t) ==
    /\ StepIs(t, "open")
    /\ \E base \in Bases :
           /\ os' = [os EXCEPT ![Path(t)] = LoadedAt(Path(t), base)]
           /\ hnd' = [hnd EXCEPT ![t] = os'[Path(t)].base]
    /\ Go(t, "identify")
    /\ UNCHANGED <<setLock, libs, fcnVars, spoilt>>

OpenFails(t) ==
    /\ StepIs(t, "open") /\ Fails(t)
    /\ UNCHANGED <<os, setLock, libs, fcnVars, hnd>>

\* The path, the file and its number on the volume are asked for.
Identify(t) ==
    /\ StepIs(t, "identify") /\ Go(t, "lock")
    /\ UNCHANGED <<os, setLock, libs, fcnVars, hnd, spoilt>>

IdentifyFails(t) ==
    /\ StepIs(t, "identify") /\ Fails(t)
    /\ os' = Freed(Path(t), hnd[t])
    /\ UNCHANGED <<setLock, libs, fcnVars, hnd>>

(* Mutant: the exchange is not asked whether it took place.                *)
LockUnasked(t) ==
    /\ StepIs(t, "lock")
    /\ setLock' = TRUE /\ Go(t, "find")
    /\ UNCHANGED <<os, libs, fcnVars, hnd, spoilt>>

\* Who finds the lock taken waits at it until the store that frees it.
lockLibSet(t) ==
    /\ StepIs(t, "lock") /\ ~setLock
    /\ setLock' = TRUE /\ Go(t, "find")
    /\ UNCHANGED <<os, libs, fcnVars, hnd, spoilt>>

Hands(t, l) == fcnLib' = [fcnLib EXCEPT ![JobFcn(t)] = l]

FindLibrary(t) ==
    /\ StepIs(t, "find")
    /\ Go(t, IF FoundAt(Path(t)) = {} THEN "add"
             ELSE IF libs[Slot(t)].level = "inspect" /\ Level(t) = "execute" THEN "free" ELSE "keep")
    /\ UNCHANGED <<os, setLock, libs, fcnVars, hnd, spoilt>>

AddLibrary(t) ==
    /\ StepIs(t, "add")
    /\ libs' = Append(libs, [file |-> Path(t), handle |-> hnd[t], level |-> Level(t)])
    /\ Hands(t, Len(libs) + 1) /\ Go(t, "unlock")
    /\ UNCHANGED <<os, setLock, importLib, externAddress, target, bound, hnd, spoilt>>

UpgradeFrees(t) ==
    /\ StepIs(t, "free")
    /\ os' = Freed(Path(t), libs[Slot(t)].handle)
    /\ Go(t, "reload")
    /\ UNCHANGED <<setLock, libs, fcnVars, hnd, spoilt>>

UpgradeReloads(t) ==
    /\ StepIs(t, "reload")
    /\ \E base \in Bases :
           /\ os' = [os EXCEPT ![Path(t)] = LoadedAt(Path(t), base)]
           /\ libs' = [libs EXCEPT ![Slot(t)].handle = os'[Path(t)].base, ![Slot(t)].level = "execute"]
    /\ Go(t, "keep")
    /\ UNCHANGED <<setLock, fcnVars, hnd, spoilt>>

(* Mutant: the way out of a failed upgrade leaves the set locked.          *)
FailsLocked(t) ==
    /\ StepIs(t, "reload") /\ Fails(t)
    /\ libs' = [libs EXCEPT ![Slot(t)].handle = NoHandle, ![Slot(t)].level = "execute"]
    /\ UNCHANGED <<os, setLock, fcnVars, hnd>>

UpgradeFails(t) ==
    /\ StepIs(t, "reload") /\ Fails(t)
    /\ libs' = [libs EXCEPT ![Slot(t)].handle = NoHandle, ![Slot(t)].level = "execute"]
    /\ setLock' = FALSE
    /\ UNCHANGED <<os, fcnVars, hnd>>

(* Mutant: the handle is freed whether the library has it or not.          *)
KeepFreesAll(t) ==
    /\ StepIs(t, "keep")
    /\ os' = Freed(Path(t), hnd[t])
    /\ Hands(t, Slot(t)) /\ Go(t, "unlock")
    /\ UNCHANGED <<setLock, libs, importLib, externAddress, target, bound, hnd, spoilt>>

KeepLibrary(t) ==
    /\ StepIs(t, "keep")
    /\ os' = IF hnd[t] # libs[Slot(t)].handle THEN Freed(Path(t), hnd[t]) ELSE os
    /\ Hands(t, Slot(t)) /\ Go(t, "unlock")
    /\ UNCHANGED <<setLock, libs, importLib, externAddress, target, bound, hnd, spoilt>>

unlockLibSet(t) ==
    /\ StepIs(t, "unlock")
    /\ setLock' = FALSE
    /\ Go(t, IF JobIs(t, "bind") THEN "record" ELSE "resolve")
    /\ UNCHANGED <<os, libs, fcnVars, hnd, spoilt>>

LibraryStep(t) ==
    \/ BindAgain(t) \/ BindImported(t) \/ BindLoads(t) \/ RecordImport(t)
    \/ CompileUpgrades(t) \/ CompileResolves(t) \/ CompiledBefore(t)
    \/ GiveBack(t) \/ MakeContext(t) \/ invoke(t)
    \/ resolveFunction(t) \/ SymbolNotFound(t)
    \/ Open(t) \/ OpenFails(t) \/ Identify(t) \/ IdentifyFails(t)
    \/ lockLibSet(t) \/ AddLibrary(t) \/ FindLibrary(t)
    \/ UpgradeFrees(t) \/ UpgradeReloads(t) \/ UpgradeFails(t)
    \/ KeepLibrary(t) \/ unlockLibSet(t)

LibrariesNext == \E t \in LibThread : LibraryStep(t)

LibrariesSpec == LibrariesStart /\ [][LibrariesNext]_libraryVars

-----------------------------------------------------------------------------
LibrariesTypeOK ==
    /\ os \in [LibFile -> [count : Nat, base : Bases \cup {NoHandle}]]
    /\ setLock \in BOOLEAN /\ spoilt \in BOOLEAN
    /\ libs \in Seq([file : LibFile, handle : Bases \cup {NoHandle}, level : {"inspect", "execute"}])
    /\ importLib \in [LibImport -> {NoLib} \cup DOMAIN libs]
    /\ fcnLib \in [LibFunction -> {NoLib} \cup DOMAIN libs]
    /\ externAddress \in [LibFunction -> Bases \cup {NoHandle}]
    /\ target \in [LibFunction -> Bases \cup {NoHandle}]
    /\ bound \subseteq LibFunction
    /\ step \in [LibThread -> Loading \cup {"idle", "record", "release", "context", "resolve", "invoke"}]
    /\ job \in [LibThread -> Nat \ {0}]
    /\ hnd \in [LibThread -> Bases \cup {NoHandle}]

(* A file is one library, whichever threads load it under whatever names,  *)
(* and a function has the library its import names (foreign_code.cpp:289). *)
OneLibrary ==
    /\ \A k, l \in DOMAIN libs : libs[k].file = libs[l].file => k = l
    /\ \A f \in LibFunction : fcnLib[f] # NoLib => libs[fcnLib[f]].file = FileOf[ImportOf[f]]

(* While no library is used by one thread as another loads it for calls,   *)
(* and that does not fail, no load is undone by a free that belongs to     *)
(* another: a library that is not being loaded is there, a function that   *)
(* was validated is in it, and what is called lies where it was found.     *)
StaysLoaded ==
    ~spoilt =>
        /\ \A l \in DOMAIN libs :
              (\E t \in LibThread : Upgrading(t) /\ Lib(t) = l) \/ IsLoaded(libs[l].file, libs[l].handle)
        /\ \A t \in LibThread : step[t] = "invoke" =>
              IsLoaded(FileOf[Import(t)], target[JobFcn(t)])
LibrariesStay == LibrariesTypeOK /\ OneLibrary /\ StaysLoaded

(* Nobody is left waiting for the set of libraries: no way out of          *)
(* loadLibrary leaves it locked.  What a thread has to do has an end, so   *)
(* after some time nobody waits any more.                                  *)
SetIsFreed == <>[](\A t \in LibThread : step[t] # "lock")
=============================================================================
