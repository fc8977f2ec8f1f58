--------------------------- MODULE LanguageServer ---------------------------
(***************************************************************************)
(* The language server of src/lsp/src: the message loop of main.cpp, the   *)
(* master thread that recompiles queued files (compiler_worker.cpp), the   *)
(* workers that parse (task_system.cpp), and what they share: the table of *)
(* documents (file_system.cpp), the two units and the two arenas of each   *)
(* document and the counters of the queries that read them (lsp.h, lsp.cpp)*)
(*                                                                         *)
(* A text is its version.  A tree is the version it was parsed from, the   *)
(* arena its nodes lie in and how often that arena had been cleared then:  *)
(* an arena cleared again holds the nodes of the tree no longer.  The pool *)
(* is a bag of tasks and the group counter; its own protocol is modelled   *)
(* in TaskSystem.                                                          *)
(***************************************************************************)
EXTENDS Integers, Sequences, FiniteSets

CONSTANTS
    Worker,         \* the threads of the pool
    Setups          \* the builds and the clients a run is about

Path == UNION {s.paths : s \in Setups}
MaxVersion == 2     \* versions of a text, 1 when it is opened
Mixed == MaxVersion + 1     \* read while it was edited: of no version
NoFile == 0
NoTree == [text |-> 0, arena |-> 0, age |-> 0]

ASSUME SetupAssumption ==
    \A s \in Setups :
        /\ s.async \in BOOLEAN          \* gIsAsync: the build without threads
        /\ s.opens \in Nat \ {0}        \* how often the client opens a path
        /\ s.edits \in BOOLEAN          \* the client edits documents
        /\ s.closes \in BOOLEAN         \* and closes them

ASSUME ThreadAssumption == Worker \cap {"loop", "master"} = {}

VARIABLES
    setup,
    entry,          \* filesLsp.set: path -> the file found under it, or NoFile
    files,          \* every File made, with its FileInfo and its FileData
    client,         \* the client's view: path -> <<opens so far, is open>>
    current,        \* the file the last DidOpen of a path was about
    queue,          \* tasks in the pool: the files to parse
    taskCount,      \* gTaskCount
    stack, hasWork, \* the master's queue of files and its wake-up flag
    pc, job,        \* per thread: the next step, the file it is about
    slot,           \* per thread: workingIdx of a parse, idx of a query
    asks,           \* what the loop's query reads, "tree" or "tokens"
    apart           \* history: no group was begun while tasks of another one
                    \* were counted

vars == <<setup, entry, files, client, current, queue, taskCount, stack,
          hasWork, pc, job, slot, asks, apart>>

Thread == {"loop", "master"} \cup Worker

-----------------------------------------------------------------------------
(* makeFileData: no tree in either unit, both arenas empty, unit 0 is the  *)
(* committed one; a File comes out of calloc, so its status is FS_DIRTY.   *)
makeFileData(version) ==
    [open |-> TRUE, status |-> "DIRTY", text |-> version, committed |-> 0,
     readers |-> [i \in 0..1 |-> 0], unit |-> [i \in 0..1 |-> NoTree],
     age |-> [i \in 0..1 |-> 0], tokens |-> "none", edited |-> FALSE, parses |-> 0]

Init ==
    /\ setup \in Setups
    /\ entry = [p \in Path |-> NoFile]
    /\ files = <<>>
    /\ client = [p \in Path |-> [opens |-> 0, open |-> FALSE]]
    /\ current = [p \in Path |-> NoFile]
    /\ queue = <<>> /\ taskCount = 0
    /\ stack = <<>> /\ hasWork = FALSE
    /\ pc = [t \in Thread |-> IF t = "loop" THEN "receive" ELSE "sleep"]
    /\ job = [t \in Thread |-> NoFile]
    /\ slot = [t \in Thread |-> 0]
    /\ asks = "tree"
    /\ apart = TRUE

Go(t, next) == pc' = [pc EXCEPT ![t] = next]
Ready(t, at) == pc[t] = at

(* Mutant: the unit that is to be committed. *)
GetSpare(file) == 1 - file.committed

(* Reg::get: the unit that is committed. *)
Get(file) == file.committed

-----------------------------------------------------------------------------
(* DidOpen.  load looks the URI up among the paths the table is keyed by,  *)
(* so that it never finds a file and makes one; insert keeps the old entry *)
(* when the path has one already.                                          *)
DidOpen(p) ==
    /\ Ready("loop", "receive")
    /\ p \in setup.paths /\ ~client[p].open /\ client[p].opens < setup.opens
    /\ client' = [client EXCEPT ![p] = [opens |-> @.opens + 1, open |-> TRUE]]
    /\ files' = Append(files, makeFileData(1))
    /\ entry' = [entry EXCEPT ![p] = IF @ = NoFile THEN Len(files') ELSE @]
    /\ current' = [current EXCEPT ![p] = Len(files')]
    /\ job' = [job EXCEPT !["loop"] = Len(files')]
    /\ slot' = [slot EXCEPT !["loop"] = 1]      \* the first parse
    /\ Go("loop", "begin")
    /\ UNCHANGED <<setup, queue, taskCount, stack, hasWork, asks, apart>>

(* compileFileSync, and the same three calls in DidOpen. *)
BeginGroup(t) ==
    /\ Ready(t, "begin")
    /\ taskCount' = 0
    /\ apart' = (apart /\ taskCount = 0)
    /\ Go(t, "dispatch")
    /\ UNCHANGED <<setup, entry, files, client, current, queue, stack,
                   hasWork, job, slot, asks>>

(* Mutant: the task is not counted. *)
DispatchUncounted(t) ==
    /\ Ready(t, "dispatch")
    /\ Go(t, "wait")
    /\ files[job[t]].status = "DIRTY"
    /\ files' = [files EXCEPT ![job[t]].status = "BUSY"]
    /\ queue' = Append(queue, job[t])
    /\ UNCHANGED <<setup, entry, client, current, taskCount, stack, hasWork,
                   job, slot, asks, apart>>

DispatchParse(t) ==
    /\ Ready(t, "dispatch")
    /\ Go(t, "wait")
    /\ \/ /\ files[job[t]].status = "DIRTY"
          /\ files' = [files EXCEPT ![job[t]].status = "BUSY"]
          /\ queue' = Append(queue, job[t])
          /\ taskCount' = taskCount + 1
       \/ /\ files[job[t]].status # "DIRTY"
          /\ UNCHANGED <<files, queue, taskCount>>
    /\ UNCHANGED <<setup, entry, client, current, stack, hasWork, job, slot,
                   asks, apart>>

(* Mutant: goes on at once. *)
NeverWaits(t) == Ready(t, "wait")

Waited(t) == Ready(t, "wait") /\ taskCount <= 0

(* Mutant: the file stays clean. *)
OpenLeftClean ==
    /\ Waited("loop") /\ slot["loop"] = 1
    /\ slot' = [slot EXCEPT !["loop"] = 0]
    /\ Go("loop", IF setup.async THEN "enqueue" ELSE "begin")
    /\ UNCHANGED <<setup, entry, files, client, current, queue, taskCount,
                   stack, hasWork, job, asks, apart>>

(* The first parse of DidOpen is over: the file is dirty again, and is     *)
(* queued for the master or, in the other build, parsed here once more.    *)
OpenParsed ==
    /\ Waited("loop") /\ slot["loop"] = 1
    /\ files' = [files EXCEPT ![job["loop"]].status = "DIRTY"]
    /\ slot' = [slot EXCEPT !["loop"] = 0]
    /\ Go("loop", IF setup.async THEN "enqueue" ELSE "begin")
    /\ UNCHANGED <<setup, entry, client, current, queue, taskCount, stack,
                   hasWork, job, asks, apart>>

enqueueCompilation ==
    /\ Ready("loop", "enqueue")
    /\ stack' = Append(stack, job["loop"])
    /\ Go("loop", "wake")
    /\ UNCHANGED <<setup, entry, files, client, current, queue, taskCount,
                   hasWork, job, slot, asks, apart>>

WakeMaster ==
    /\ Ready("loop", "wake")
    /\ hasWork' = TRUE
    /\ Go("loop", "receive")
    /\ UNCHANGED <<setup, entry, files, client, current, queue, taskCount,
                   stack, job, slot, asks, apart>>

OpenCompiled ==
    /\ Waited("loop") /\ slot["loop"] = 0
    /\ Go("loop", "receive")
    /\ UNCHANGED <<setup, entry, files, client, current, queue, taskCount,
                   stack, hasWork, job, slot, asks, apart>>

-----------------------------------------------------------------------------
(* DidClose frees the FileData of the file found under the path.  unload   *)
(* asks the table to remove the file's name, which is no key of it.        *)
DidClose(p) ==
    /\ Ready("loop", "receive") /\ setup.closes
    /\ client[p].open
    /\ client' = [client EXCEPT ![p].open = FALSE]
    /\ files' = [files EXCEPT ![entry[p]].open = FALSE]
    /\ UNCHANGED <<setup, entry, current, queue, taskCount, stack, hasWork,
                   pc, job, slot, asks, apart>>

(* DidChange drops what is not newer; an edit changes the text, nothing    *)
(* queues the file.  A file without data is dereferenced: the server dies. *)
DidChange(p, version) ==
    /\ Ready("loop", "receive") /\ setup.edits
    /\ client[p].open
    /\ IF files[entry[p]].open
         THEN /\ version > files[entry[p]].text
              /\ files' = [files EXCEPT ![entry[p]] =
                             [@ EXCEPT !.text = version, !.edited = TRUE]]
              /\ UNCHANGED pc
         ELSE Go("loop", "dead") /\ UNCHANGED files
    /\ UNCHANGED <<setup, entry, client, current, queue, taskCount, stack,
                   hasWork, job, slot, asks, apart>>

-----------------------------------------------------------------------------
(* A query checks in at the committed unit, in two steps, and again when   *)
(* the units were switched between them.  What it asks for is the tree or  *)
(* the list of tokens; a file without data is dereferenced for the first,  *)
(* the second is answered at once then, and while the list is empty.       *)
Query(p, what) ==
    /\ Ready("loop", "receive")
    /\ client[p].open
    /\ IF files[entry[p]].open
         THEN /\ what = "tokens" => files[entry[p]].tokens # "none"
              /\ asks' = what
              /\ job' = [job EXCEPT !["loop"] = entry[p]]
              /\ slot' = [slot EXCEPT !["loop"] = files[entry[p]].committed]
              /\ Go("loop", "check in")
         ELSE what = "tree" /\ Go("loop", "dead") /\ UNCHANGED <<job, slot, asks>>
    /\ UNCHANGED <<setup, entry, files, client, current, queue, taskCount,
                   stack, hasWork, apart>>

(* Mutant: the counter is left alone. *)
CheckInUncounted ==
    /\ Ready("loop", "check in")
    /\ Go("loop", "recheck")
    /\ UNCHANGED <<setup, entry, files, client, current, queue, taskCount,
                   stack, hasWork, job, slot, asks, apart>>

CheckIn ==
    /\ Ready("loop", "check in")
    /\ files' = [files EXCEPT ![job["loop"]].readers[slot["loop"]] = @ + 1]
    /\ Go("loop", "recheck")
    /\ UNCHANGED <<setup, entry, client, current, queue, taskCount, stack,
                   hasWork, job, slot, asks, apart>>

Recheck ==
    /\ Ready("loop", "recheck")
    /\ Go("loop", IF files[job["loop"]].committed = slot["loop"]
                    THEN "read" ELSE "unlucky")
    /\ UNCHANGED <<setup, entry, files, client, current, queue, taskCount,
                   stack, hasWork, job, slot, asks, apart>>

Unlucky ==
    /\ Ready("loop", "unlucky")
    /\ files' = [files EXCEPT ![job["loop"]].readers[slot["loop"]] = @ - 1]
    /\ slot' = [slot EXCEPT !["loop"] = files[job["loop"]].committed]
    /\ Go("loop", "check in")
    /\ UNCHANGED <<setup, entry, client, current, queue, taskCount, stack,
                   hasWork, job, asks, apart>>

CheckOut ==
    /\ Ready("loop", "read")
    /\ files' = [files EXCEPT ![job["loop"]].readers[slot["loop"]] = @ - 1]
    /\ Go("loop", "receive")
    /\ UNCHANGED <<setup, entry, client, current, queue, taskCount, stack,
                   hasWork, job, slot, asks, apart>>

-----------------------------------------------------------------------------
(* runMaster. *)
MasterWakes ==
    /\ Ready("master", "sleep") /\ setup.async /\ hasWork
    /\ Go("master", "look")
    /\ UNCHANGED <<setup, entry, files, client, current, queue, taskCount,
                   stack, hasWork, job, slot, asks, apart>>

MasterPops ==
    /\ Ready("master", "look") /\ stack # <<>>
    /\ job' = [job EXCEPT !["master"] = stack[Len(stack)]]
    /\ stack' = SubSeq(stack, 1, Len(stack) - 1)
    /\ Go("master", "begin")
    /\ UNCHANGED <<setup, entry, files, client, current, queue, taskCount,
                   hasWork, slot, asks, apart>>

MasterSawEmpty ==
    /\ Ready("master", "look") /\ stack = <<>>
    /\ Go("master", "clear")
    /\ UNCHANGED <<setup, entry, files, client, current, queue, taskCount,
                   stack, hasWork, job, slot, asks, apart>>

MasterClears ==
    /\ Ready("master", "clear")
    /\ hasWork' = FALSE
    /\ Go("master", "sleep")
    /\ UNCHANGED <<setup, entry, files, client, current, queue, taskCount,
                   stack, job, slot, asks, apart>>

MasterCompiled ==
    /\ Waited("master")
    /\ Go("master", "look")
    /\ UNCHANGED <<setup, entry, files, client, current, queue, taskCount,
                   stack, hasWork, job, slot, asks, apart>>

-----------------------------------------------------------------------------
(* Mutant: takes the committed buffer for the spare one. *)
TakeCommitted(w) ==
    /\ Ready(w, "sleep") /\ queue # <<>>
    /\ job' = [job EXCEPT ![w] = Head(queue)]
    /\ queue' = Tail(queue)
    /\ slot' = [slot EXCEPT ![w] = files[Head(queue)].committed]
    /\ Go(w, "drain")
    /\ UNCHANGED <<setup, entry, files, client, current, taskCount, stack,
                   hasWork, asks, apart>>

(* runParse on a worker.  The tree goes to the unit Reg::get gives, its    *)
(* nodes to the other arena; unit and arena are paired crosswise.          *)
TakeParse(w) ==
    /\ Ready(w, "sleep") /\ queue # <<>>
    /\ job' = [job EXCEPT ![w] = Head(queue)]
    /\ queue' = Tail(queue)
    /\ slot' = [slot EXCEPT ![w] = 1 - files[Head(queue)].committed]
    /\ Go(w, "drain")
    /\ UNCHANGED <<setup, entry, files, client, current, taskCount, stack,
                   hasWork, asks, apart>>

WorkingUnit(w) == Get(files[job[w]])

ParseBegins(w) ==
    /\ Ready(w, "drain") /\ files[job[w]].readers[slot[w]] = 0
    /\ LET age == files[job[w]].age[slot[w]] + 1
           root == [text |-> 0, arena |-> slot[w], age |-> age]
       IN files' = [files EXCEPT ![job[w]] =
                      [@ EXCEPT !.age[slot[w]] = age, !.unit[WorkingUnit(w)] = root,
                                !.edited = FALSE]]
    /\ Go(w, "parse")
    /\ UNCHANGED <<setup, entry, client, current, queue, taskCount, stack,
                   hasWork, job, slot, asks, apart>>

(* The text is read where it lies, while the parse goes on. *)
ParseEnds(w) ==
    /\ Ready(w, "parse")
    /\ LET file == files[job[w]]
           read == IF file.edited THEN Mixed ELSE file.text
       IN files' = [files EXCEPT ![job[w]] =
                      [file EXCEPT !.unit[WorkingUnit(w)].text = read,
                                   !.parses = file.parses + 1]]
    /\ Go(w, "tokens")
    /\ UNCHANGED <<setup, entry, client, current, queue, taskCount, stack,
                   hasWork, job, slot, asks, apart>>

(* updateSemanticTokens empties the one list there is, fills it from the   *)
(* first unit, whichever was written, and sorts it.  A text has tokens.    *)
SetTokens(w, tokens) ==
    /\ files' = [files EXCEPT ![job[w]].tokens = tokens]
    /\ UNCHANGED <<setup, entry, client, current, queue, taskCount, stack,
                   hasWork, job, slot, asks, apart>>

ClearTokens(w)   == Ready(w, "tokens")  /\ SetTokens(w, "none") /\ Go(w, "collect")
CollectTokens(w) == Ready(w, "collect") /\ SetTokens(w, "some") /\ Go(w, "sort")
SortTokens(w)    == Ready(w, "sort")    /\ SetTokens(w, "all")  /\ Go(w, "commit")
updateSemanticTokens(w) == ClearTokens(w) \/ CollectTokens(w) \/ SortTokens(w)

Commit(w) ==
    /\ Ready(w, "commit")
    /\ files' = [files EXCEPT ![job[w]].committed = slot[w]]
    /\ Go(w, "ready")
    /\ UNCHANGED <<setup, entry, client, current, queue, taskCount, stack,
                   hasWork, job, slot, asks, apart>>

StatusReady(w) ==
    /\ Ready(w, "ready")
    /\ files' = [files EXCEPT ![job[w]].status = "READY"]
    /\ Go(w, "done")
    /\ UNCHANGED <<setup, entry, client, current, queue, taskCount, stack,
                   hasWork, job, slot, asks, apart>>

(* Mutant: the task stays counted. *)
TaskStaysCounted(w) ==
    /\ Ready(w, "done")
    /\ Go(w, "sleep")
    /\ UNCHANGED <<setup, entry, files, client, current, queue, taskCount,
                   stack, hasWork, job, slot, asks, apart>>

TaskDone(w) ==
    /\ Ready(w, "done")
    /\ taskCount' = taskCount - 1
    /\ Go(w, "sleep")
    /\ UNCHANGED <<setup, entry, files, client, current, queue, stack,
                   hasWork, job, slot, asks, apart>>

-----------------------------------------------------------------------------
Compile(t) == BeginGroup(t) \/ DispatchParse(t)

Open == \/ Compile("loop") \/ OpenParsed \/ enqueueCompilation \/ WakeMaster
        \/ OpenCompiled
Read == CheckIn \/ Recheck \/ Unlucky \/ CheckOut
Receive == \E p \in Path : \/ DidOpen(p) \/ DidClose(p)
                           \/ \E what \in {"tree", "tokens"} : Query(p, what)
                           \/ \E v \in 1..MaxVersion : DidChange(p, v)
Master == \/ MasterWakes \/ MasterPops \/ MasterSawEmpty \/ MasterClears
          \/ MasterCompiled \/ Compile("master")
Parse(w) == \/ TakeParse(w) \/ ParseBegins(w) \/ ParseEnds(w)
            \/ updateSemanticTokens(w) \/ Commit(w) \/ StatusReady(w)
            \/ TaskDone(w)

Next == Receive \/ Open \/ Read \/ Master \/ \E w \in Worker : Parse(w)

(* Threads of the operating system run on; the client need not go on.      *)
Spec == Init /\ [][Next]_vars
FairSpec == /\ Spec /\ WF_vars(Open) /\ WF_vars(Read) /\ WF_vars(Master)
            /\ \A w \in Worker : WF_vars(Parse(w))

-----------------------------------------------------------------------------
Tree == [text : 0..Mixed, arena : 0..1, age : Nat]

TypeOK ==
    /\ setup \in Setups
    /\ entry \in [Path -> 0..Len(files)]
    /\ \A f \in DOMAIN files :
          /\ files[f].status \in {"DIRTY", "BUSY", "READY"}
          /\ files[f].text \in 1..MaxVersion /\ files[f].committed \in 0..1
          /\ files[f].tokens \in {"none", "some", "all"} /\ files[f].edited \in BOOLEAN
          /\ files[f].readers \in [0..1 -> Nat]
          /\ files[f].unit \in [0..1 -> Tree]
    /\ current \in [Path -> 0..Len(files)]
    /\ queue \in Seq(DOMAIN files) /\ stack \in Seq(DOMAIN files)
    /\ taskCount \in Int /\ hasWork \in BOOLEAN
    /\ job \in [Thread -> 0..Len(files)] /\ slot \in [Thread -> 0..1]
    /\ asks \in {"tree", "tokens"} /\ apart \in BOOLEAN

Parsing(w, f) == job[w] = f /\ pc[w] \in {"parse", "tokens", "collect", "sort", "commit"}

(* What the counters of readers are for: while a query is between its      *)
(* recheck and its check-out, no parse of the file works on the arena the  *)
(* query holds (handleQuery in lsp.cpp against runParse in task_system.cpp).*)
BufferHeld ==
    \A w \in Worker : ~( /\ Ready("loop", "read")
                         /\ Parsing(w, job["loop"])
                         /\ slot[w] = slot["loop"] )

(* Queries read the tree of the first unit whatever they checked in at.    *)
(* The tree they read is a whole one: parsed to its end from one version of *)
(* the text, its nodes in an arena that has not been cleared since, though *)
(* an edit may be under way while the master has the text parsed again.    *)
TreeWhole ==
    Ready("loop", "read") =>
        LET tree == files[job["loop"]].unit[0]
        IN /\ tree.text \in 1..MaxVersion
           /\ tree.age = files[job["loop"]].age[tree.arena]

(* The list of tokens has no second buffer: a query that reads it may meet *)
(* a worker that makes it anew.  Without one it reads all of it.           *)
Retokens(w, f) == job[w] = f /\ pc[w] \in {"collect", "sort"}
TokensWhole ==
    Ready("loop", "read") /\ asks = "tokens" =>
        \/ files[job["loop"]].tokens = "all"
        \/ \E w \in Worker : Retokens(w, job["loop"])

(* "We wait for all UI queries to finish reading buffer we want to modify",*)
(* as runParse has it, said of the tokens: none are moved under a query.   *)
TokensHeld ==
    Ready("loop", "read") /\ asks = "tokens" =>
        \A w \in Worker : ~Retokens(w, job["loop"])

(* "We parse in sync at the beginning to have at least something to query":*)
(* a document the client has opened, and the loop is done with, is found   *)
(* under its path, and has a tree that was parsed to its end.  So long as  *)
(* the loop and the master have not reset the count they share under each  *)
(* other: after that either may go on before its file is parsed.           *)
SomethingToQuery ==
    \A p \in Path : apart /\ client[p].open /\ Ready("loop", "receive") =>
        /\ entry[p] = current[p]
        /\ files[current[p]].parses > 0
        /\ files[current[p]].unit[0].text > 0

(* One parse of a file at a time, the condition under which the two        *)
(* buffers suffice: the status handshake of dispatchParse and the reset in *)
(* DidOpen give no file to two workers.                                    *)
OneParse ==
    \A v, w \in Worker :
        v # w /\ job[v] = job[w] => "sleep" \in {pc[v], pc[w]}

(* A query of the tree is safe from the parse beside it, and that from     *)
(* another; a query of the tokens is safe but from one that collects them. *)
(* This needs groups that wait for their own tasks, as does the next.      *)
QueriesAreSafe ==
    TypeOK /\ (apart => BufferHeld /\ TreeWhole /\ TokensWhole /\ OneParse)

(* A document that is opened is parsed a second time, by the master or by  *)
(* the loop, and the parse is committed; the loop comes back for the next  *)
(* message.  Not so for two documents and a master: it may clear hasWork    *)
(* over a file that was queued since it looked.                            *)
Alone == \A p, q \in setup.paths : setup.async => p = q
OpenedIsCompiled ==
    \A p \in Path : client[p].open /\ Alone ~> \/ ~client[p].open
                                               \/ /\ files[current[p]].parses = 2
                                                  /\ files[current[p]].status = "READY"
LoopComesBack == []<>Ready("loop", "receive")

(* Neither the loop nor a document waits for ever. *)
NobodyWaitsForEver == OpenedIsCompiled /\ LoopComesBack
=============================================================================
