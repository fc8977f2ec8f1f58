# A TLA+ verification of the qVi-lang compiler

The modules in this directory specify parts of the qVi-lang compiler (`src/src`)
and of its language server (`src/lsp`), check them with TLC on small instances
and prove central properties with TLAPS for every instance. Each definition is a
translation of code; `PROJECT.json` names the lines.

- [Inventory](#1-inventory): the system, part by part
- [Modules](#2-modules): how the state and the actions correspond to the code
- [Runs](#3-runs): what is checked, with which bounds, and what it shows
- [Proofs](#4-proofs): what holds for every value of the constants
- [Findings](#5-findings): where the code disagrees with what is said of it
- [Not modelled](#6-not-modelled-and-why) and [Plan](#7-plan)

To check a run: `tlc -config TaskSystem_groups.cfg MCTaskSystem`, and so on with
the pairs of the table in section 3. To check the proofs: `tlapm M.tla` for each
of the eight modules whose name ends in `Proofs`.

## 1. Inventory

The compiler reads a file, parses it and what it imports, validates the
definitions, and hands the syntax tree to one or more back ends. All of this is
done by tasks on a pool of worker threads; what has to be known at compile time
is computed by an evaluator, or by compiling it to bytecode and running it on the
virtual machine, or by calling a foreign library. The language server uses the
same front end on edited text.

### Task system (`task_system_core.cpp`, `task_system.cpp`)
*State*: a bit mask of idle workers (`gCheckList`), a counter of unfinished
tasks (`gTaskCount`), per worker a flag `hasWork` and an unsynchronised stack of
tasks, per file a status. *Operations*: `beginGroup`, `dispatch…`, `wait` by the
main thread; `enqueue` by anyone; `secureWorker`, and the loop `runWorker` with
its hand-off of a backlog. *Interaction*: parse tasks dispatch the files they
import; every phase of the compiler (`compiler.cpp:84-131`: parsing,
pre-validation, validation, back ends) is one group. *Hard*: the stacks have no
lock, their exclusivity is a protocol over the mask; the flag, the mask and the
stack are changed one by one. *Correct when*: one thread at a time uses a stack;
a task runs exactly once; the counter counts it from its dispatch to its end; no
worker blocks on a backlog; `wait` returns, and only when the group is over.

### Definition locks, on-demand validation (`syntax.cpp`, `validator.cpp`, `interpreter_eval.cpp`, `foreign_code.cpp`)
*State*: per top-level definition a lock, the number of the worker that has it
and a `NodeState`; per variable whether its value is known. *Operations*:
`acquireNode`, `releaseNode`; `ensureValidated`, `eval`, `ensureTypeInfoReady`,
which claim a definition that is needed and do its work inside the work in
progress. *Hard*: the nesting is arbitrary, units that are validated at the
same time need each other's definitions, an error may end the work anywhere,
recursion is told from waiting by the recorded number alone, and errors are
dropped on the way: those of a function's statements all of them, since
`validate(SyntaxNode)` returns OK. *Correct when*: a definition is worked on once
at a time; no path leaves it locked; a reported cycle is a cycle; what a successful
request relies on is there; an error that is dropped is told; all units end.

### Compile-time builds (`task_system_core.cpp`, `interpreter_build.cpp`, `interpreter_eval.cpp`)
*State*: per function a `compilationStatus` and its bytecode, per worker a local
stack of functions to build beside the stack of its tasks. *Operations*:
`dispatchCompileTimeBuild` (with and without waiting), `secureFunction`,
`releaseFunction`, the local loop of `runWorker`. *Hard*: two workers want one
function, functions call each other in circles, a build that fails still counts
as built. *Correct when*: one worker compiles a function, once; what runs has
been compiled, with everything it calls; every job ends.

### Bytecode compiler and virtual machine (`interpreter_build.cpp`, `interpreter_exec.cpp`, `vec_kernel.cpp`)
*State*: the code emitted so far, lists of pending jumps threaded through their
own operands, the locals of a block; the machine's stack, instruction and frame
pointers, the frame of each block, the scratch memory of vector operations.
*Operations*: one `compile` per kind of statement and expression; one handler per
opcode. *Hard*: one pass, so every forward jump is patched later and by somebody
else; loops keep words on the operand stack while their body runs, which every
way out of the body must leave as they are; results of vector operations lie in
memory that the next statement takes back. *Correct when*: jumps lead to
instructions, the stack is balanced at statements, and the program prints what
its syntax tree means; a number is of the kind its expression has; the bytes of
an operand are read in the order they were written in.

### Disassembler (`interpreter_debug.cpp`)
*State*: a pointer into the bytes of a block and into its table of lines; the list
of functions found so far. *Correct when*: it goes from instruction to
instruction as the machine does and finds the line of each.

### Expression parser (`parser.cpp`)
*State*: the position, the token in hand, the C++ call stack of five mutually
recursive functions, and a stack of nodes shared by every list in progress.
*Hard*: each activation compares an operator with the one it waits with and
knows none below; the recursion is handed the address of an operand that its
caller goes on rewriting. *Correct when*: the tree is the one the ranks of the
language description ask for, nothing is lost, the shared stack is given back as
it was found, what the language has is accepted, and parsing ends.

### Statement parser (`parser.cpp`)
*State*: position, current scope and function, the registry's lists. *Operations*:
one per statement and definition, directives and imports; after an error
`syncToken` skips to a token where parsing can go on. *Correct when*: recovery
always moves forward, one error makes no run of further ones, scopes and nodes
end up with the right owner, and a text is read for what it says.

### Lexer (`lexer.cpp`)
*State*: a position and a line. *Operations*: `nextToken` and its variants for
file names and foreign blocks. *Correct when*: tokens are all of the text but
blanks and comments, in order; a literal has the value written; a name with a
path has each of its parts.

### Validator: names, types and overloads (`validator.cpp`, `data_types.cpp`)
*State*: an index per large scope, the current function and scope, casts
inserted, `state` of nodes. *Operations*: pre-validation, resolution of names
along a path or outwards, linking; typing of each expression, implicit casts,
scoring and choosing an overload. *Correct when*: a name means the innermost
definition it may see, with an index or without; the best function is linked and
a level choice refused; a validated tree has a type for every expression.

### Evaluator (`interpreter_eval.cpp`)
Folds constant expressions and asks for the definitions they use; its result must
be the one the machine computes.

### Type table (`data_types.cpp`)
*State*: interned pointer, array and slice types, found by a number made of an
address and a length, one flag per set. *Hard*: shared by all workers. *Correct
when*: a type is made once, and everyone gets the type that was asked for.

### Containers (`dynamic_arena.cpp`, `set.cpp`, `ordered_dict.cpp`, `array_list.cpp`)
*State*: an arena of blocks with markers to roll back to, a hash set with
deleted slots, a dictionary kept in order. *Correct when* each is the block, the
set or the function it stands for under any sequence of calls.

### Foreign code (`foreign_code.cpp`, `ffi_win64.cpp`, parts of the interpreter)
*State*: layouts of types, the arguments of a call in progress; the set of
libraries with their handles and levels, and per function its library, address
and call context. *Operations*: `marshal`, `unmarshal`, `transcode`, the classes of
the calling convention; `loadLibrary`, `resolveFunction`, `compile`, `invoke`.
*Hard*: a library is mapped to be inspected first and loaded as code later, by
whichever thread comes first, and the system counts loads per file. *Correct
when*: caller and function agree on where every byte of an argument and of a
result is; a file is one library; what is called is still loaded.

### Language server (`lsp/src`)
*State*: per file the text with its line offsets and semantic tokens, two units
and two arenas with the index of the committed pair, counters of the queries that
read each; a stack of files to compile and a flag. *Operations*: opening,
changing and closing a file and queries, by the message loop; compilation, by the
loop itself or, when the number of threads is given as 0 (the debug build), by a
master thread. *Hard*: with a master thread queries run while a tree is rebuilt
in an arena that is cleared, loop and master open groups of the one task system,
closing a file waits for neither; an edit is placed by offsets brought up to date
for the lines of the last edit only. *Correct when*: no tree is cleared or freed
while a query that checked in reads it, an opened file has a tree to query, a
queued file is compiled, one parse of a file runs at a time; the text stays the
client's.

### The rest
Registry and syntax tree: lists of nodes per unit. Driver, files, imports
(`compiler.cpp`, `file_system.cpp`): a list of loaded files, the phases. Emitters
and back ends: text of C and of bytecode, processes started on it. Interpreter
shell, diagnostics, logger, strings, built-in functions, runtime.

### What is hard to test
`PROJECT.json` lists the hazards by line, with the properties that answer them
or why none does. The kinds that dominate are orders of steps of two threads
(pool, locks, builds, type table, language server), errors in the middle of
nested work, and long legal sequences (nested loops, nested lists, edits after
edits). Points met on the way that no run is about:

- *Pool and driver*: with 64 workers the shift of the mask is undefined
  (`task_system_core.cpp:90`); `release` frees the workers' stacks before it stops
  the threads (`task_system.cpp:47`). `load` never enters a file into the set it
  looks files up in (`file_system.cpp:377`), so circular imports do not end; the
  array of file data grows while parser threads hold pointers into it;
  `errorCount <= maxErrorCount` admits one more than there is room for
  (`diagnostic.cpp:261`); `compile` returns without `release` after a validation
  (`compiler.cpp:192`), and drops what `runFrontend` returned.
- *Validator*: `checkUniqueNames` compares an element with itself
  (`validator.cpp:103`), the result of pre-validation is dropped; a labelled
  `break` gets the innermost loop (`:1832`); a single candidate is linked without
  a look at its arity (against `doc.md:1206`); `ValidationContext.workerId` is
  assigned nowhere (`:2102`), so that with two validations at a time a thread
  would take another's work for its own; the error of a variable's type is
  overwritten (`:974`, `:1010`).
- *Checking of a unit*: an error of a statement is reported and dropped
  (`validator.cpp:2089`, a finding), and so is the result of the last walk over the
  file (`:2217`); the compiler stops because something was reported; a function that is
  validated because a call in a loop needs it keeps the caller's `currentLoop`
  (`:171-205`), so its `break` outside a loop is taken until that walk; an
  undefined name in a condition or in a `return` of a function without a result
  follows a null pointer (`:1598`, `:1861`), so does a structure that contains
  itself by value (`:2517`); unions and empty structures are always refused; a
  function stays `currentFunction` after an error in its signature or library.
- *Structure literals*: `doc.md` 5.5.3 promises names in any order and a value for
  the rest; the code stores the values by position, never stores the one for the
  rest, and checks it against members that have a value. A lone variable in a
  literal by position becomes the name of a member, or follows a null pointer; the
  value of a structure variable in a literal stays on the operand stack.
- *Parser*: the result of `parseRangeExpression` is dropped (`parser.cpp:2673`);
  `a.f(x)` calls `f` (`:2693`); a slice with a step is rejected (`:1627` against
  `doc.md:1129`); `case x: … else b;` expects a brace; the loop over the cases
  in braces goes round behind the end of the text; `import m as N` is not accepted
  (`:2302` against `doc.md:2032`); a member of an enumeration that is no name is
  followed as one (`:2070`); a list of the unit that misses a node leaves it to no
  later pass (`:556`), which the run compares with the tree.
- *Lexer*: a number with `__` has no length; newlines in literals are not counted;
  a path of more than two segments is misread (`doc.md:526`); `nextToken` behind
  the end reads behind the text; characters of a literal are packed the first
  lowest (against `doc.md:1063`).
- *Bytecode*: `goto` reads an address not known yet (`interpreter_build.cpp:2773`);
  a call as a statement leaves its value (`:2789`), a condition loop its index
  (`:2526`); the boolean cast of a short circuit looks at the wrong operand
  (`:1307`); a case of four or more sparse values compiles to nothing (`:2363`);
  an implied return is left out when the last opcode is one (`:2870`).
- *Arithmetic*: OR and XOR compute an AND (`interpreter_exec.cpp:1155-1195`);
  `binaryDiv` works on a copy of the stack pointer (`:156`); `~` compiles to
  nothing; comparisons, shifts and logical operators fold to 0; results of narrow
  kinds are cut only when they are stored; a remainder by zero is not checked.
- *Vectors*: the result of one operation is the operand of another in the same
  scratch memory (`interpreter_build.cpp:985`), a negated vector at the root
  (`:1769`), the length of a slice of a slice (`:1869`); lengths are never compared
  (`interpreter_exec.cpp:1838`).
- *Listing*: two opcodes for global blobs are written in another order than they
  are fetched in (`interpreter_build.cpp:636` and `interpreter_exec.cpp:723`);
  `getOpcodeSize` is wrong for some opcodes and 0 for `SWAP`, where
  `collectFunctions` stays for ever.
- *Foreign calls*: arguments are put by bytes and looked for by words
  (`interpreter_exec.cpp:507`, `interpreter_build.cpp:234`); a native call from the
  machine is handed no arguments; results of more than 16 bytes overwrite the
  place of their kind; an empty structure inside another resets the offsets.
- *Libraries*: `compile` frees the inspected handle without the lock
  (`foreign_code.cpp:476`), so two threads that upgrade one library at once, or one
  whose load fails, leave a handle to nothing, against `foreign_code.h:188-190`; its
  errors are dropped (`interpreter_eval.cpp:821`, `interpreter_exec.cpp:1710`), and
  `invoke` then finds no context.
- *Containers*: a rollback over two or more blocks with `freeMemory` writes to
  what it freed; a rollback by size or to a marker takes a logical position for one
  in the block (`dynamic_arena.cpp:175`); `flatCopy` copies blocks behind the tail
  too (`:216`, against `test_arena.cpp:68`), so a short string literal after one of
  more than 64 characters is copied with what lies behind it (`lexer.cpp:544-571`); `combineHash` keeps 16 bits of a length
  (`data_types.cpp:188`).
- *Language server*: queries mix new offsets with an old tree (`lsp.cpp:585`); the
  number of deleted values counts as the size of an edit (`:784`); a file that is
  closed and opened again has no tree yet (`lsp/src/file_system.cpp:98`); a hover
  renders its node after it has checked out (`:683-690`), which a third parse of the
  document could clear and two cannot;
  positions are bytes, the client's are UTF-16.

## 2. Modules

| Module | Part | Built on |
| --- | --- | --- |
| `TaskSystem` | the worker pool, step by step | implements `TaskGroup`, what `task_system.h` promises |
| `NodeLock` | definition locks and on-demand validation | |
| `CompileTasks` | builds of functions on demand | |
| `SourceMeaning`, `BytecodeBuild`, `BytecodeMachine` | what a tree means; the one-pass compiler, as operators; the machine, one action per opcode | each on the one before; implements `MeantRun`, what running a program promises |
| `ExpressionParser`, `ExpressionMeaning` | the expression parser; what it must read | the second on the first |
| `StatementParser`, `StatementMeaning`, `StatementTexts` | statements, definitions, recovery from errors; what they must read; the texts | the second on the first |
| `Lexer` | from text to tokens | |
| `Names` | scores of candidates; indexes and resolution of names | |
| `TypedValues` | kinds of integers in validator, evaluator and machine | |
| `UnitChecks` | one unit on its way through the validator: statements, functions, types, formats | |
| `StructLiterals` | structure literals in parser, validator, builder and machine | |
| `VectorCode`, `VectorMeaning` | code of statements about arrays and slices; the vector opcodes, and what they mean | the second on the first |
| `Listing` | the bytes of the bytecode: builder, machine, disassembler | |
| `Foreign` | values on their way into functions and back | |
| `Libraries` | the set of foreign libraries, binding and compiling of foreign functions by several threads | |
| `LanguageServer` | message loop, master thread, parses, documents | |
| `Document` | the text of a document, its edits and offsets | |
| `TypeTable` | the shared table of derived types | |
| `DynamicArena` | the arena | implements `OneBlock` |
| `Tables` | the hash set, the dictionary | both implement `KeySet`, what `set.h` promises |
| `Containers` | what is asked of the arena and the two tables together | the two above |
| `MC…` | instances for TLC | the module they check |
| `MCTexts` | both parsers and their texts, a text at a time | the parsers |
| `MCParts` | all parts that stand by themselves, in one state | the parts, and what they are run on |
| `…Proofs` | theorems and proofs | the module they are about |

Operators marked "Mutant" in a comment are plausible bugs. Nothing uses them: put
in place of the definition they vary, each makes TLC report one of the
properties violated, so every property is known to be able to fail
(`PROJECT.json`, `mutants`).

### TaskSystem

| Variable | Code |
| --- | --- |
| `checkList` | `gCheckList`, as the set of workers whose bit is 1 |
| `taskCount` | `gTaskCount` |
| `hasWork`, `size`, `buffer` | `Worker.hasWork`, `.stack.size`, `.stack.buffer`; slots above `size` keep what was there |
| `status` | `FileInfo.status` of the file a parse task is about |
| `copy`, `target`, `arg`, `load`, `source`, `current`, `next`, `pc` | locals of a thread in `secureWorker`, `enqueue`, `push`, `pop`, `runWorker` |

Every atomic operation and every access to a stack is a step. `DArray::push` is
two steps, the write behind the last element and the store of the size that was
loaded plus one; `DArray::pop` is a load and a store. So two threads in one stack
do to it what they do in the program. A parse task dispatches the files `Imports`
names, each guarded by the compare-exchange of the file's status (which never
fails in the present code, as `load` finds no file a second time). The main
thread runs `Groups` one after another. `overflowed` records that main has found
all workers busy and pushed to worker 0 without having secured it. `TaskGroup` is
the interface: a group is opened, tasks are dispatched and processed once each,
and it closes when none is pending.

### NodeLock

`lock`, `owner`, `state` and `hasValue` are the fields of a definition; `stack`
is the nesting of `ensureValidated`, `eval` and `ensureTypeInfoReady` in a
thread; `ret` is the error code on its way out. A request is checked
(`AlreadyReady`, `NotReady`), claimed (`Claim`, then `RecordOwner` by an ordinary
store), done (`CallUse` for each definition it needs, `SignatureReady`, `Finish`)
and released; a claim that fails compares the recorded owner (`Circular`,
`SomebodyElses`) and waits until the lock is free, whatever became of the
definition. What a definition's text says is the sequence of definitions it uses;
both that and the errors the definitions have of their own are chosen at the start.

Where an error goes is the subject. An error of a prototype ends the function
before `NS_TYPE_READY`, one of a type, of a variable, of an evaluation or of a
function's library ends that work (`OwnError`), and the work that asked for it
(`ReturnError`). An error in a statement of a function, its own or that of a
definition it uses, ends the statement: `validate(SyntaxNode)` returns OK whatever
its cases returned (`validator.cpp:2089`). `StatementFails` goes on with some later
use, since a statement is given up with all that stands in it, and `Finish` sets
`NS_VALIDATED` as if nothing had been (`:203-204`). Two more errors are dropped by
who asked (`ErrorDropped`): that of a variable's type is overwritten
(`applyTypeSpecifier`, `:974`), `Extern::compile` ignores the one of a layout.

A unit (`Roots`) is what `validate(ctx)` asks for: the types, variables and
functions of its lists, then the walk over the root (`Walk`, `:2217`), then the
evaluations. The walk enters a definition without `acquireNode`, begins a function
anew from its prototype, does not go into a variable that is validated, and its
result is ignored (`Leave`). `faulty` records in which definitions an error was
met, reported or not: what is claimed of a unit that says OK is relative to it.

### CompileTasks

A function's body is the sequence of the functions it calls (`calls`); a job is
what a task of the pool asks of the builds: `todo`, its synchronous requests, then
the calls in the root of a unit. `compilationStatus`, `exe`, `stack`, `localStack`
are the fields of functions and workers; `fcn`, `pos`, `startSize`, `back` locals of
`runCompileTimeBuild` and `dispatchCompileTimeBuild`. Claim, compile, dispatch of
each call, store of the bytecode and release are actions of their own; the loop at
`task_system_core.cpp:207` is modelled as it is written.

### SourceMeaning, BytecodeBuild, BytecodeMachine, MeantRun

`SourceMeaning` evaluates a syntax tree: variables, what has been printed, and how
the last statement ended. It knows no jump or stack. `BytecodeBuild` is the
compiler, an operator from `CompilerState` to `CompilerState` for each kind of
node: placeholders patched by `patchJumpToHere`, lists of pending jumps whose
operands hold the previous list head, the words a loop keeps on the operand stack,
jump tables, strategies for cases, locals by offset or through their definition. A
cell of code is an opcode or an operand; a value is one word. `kept` and `marks`
record how many words the loops around each statement keep. `BytecodeMachine` runs
the result; its refinement `Meant` maps what was printed to `MeantRun!shown`.

### The parsers

`ExpressionParser`: `frames` and `held` are the C++ call stack, one entry per
activation of `parseExpression`; in an entry, `ops` and `lefts` are what its
activations of `parseExpressionRecursive` wait with. `nodes` is `ctx->nodeStack`.
An action is one step between two calls: `Hug` (an operator that binds tighter
takes the operand), `BeHugged` (the operand goes to the waiting operator and the
token back), the ways in which a list, group, range, subscript or loop header
ends. `ExpressionMeaning` writes a tree down with the parentheses the ranks of
`doc.md` section 7 ask for; parsing what it writes must give the tree back.

`StatementParser`: `c` is the `ParseContext`, `frames` the C++ call stack of the
functions that reach `parseScope`, with one entry also for each loop over parts.
An expression is one operand. `StatementTexts` writes trees of statements down, and
has the texts with errors in them; `StatementMeaning` says what is to come of both.
`MCTexts` gives each of the two parsers its texts: a behaviour is one text, read by
the parser that `reading` names.

The texts of `test/end_to_end/to_fail/test_sync.qvi`, a file of texts with the errors
a test wants for each, are among them. 1.1, 1.3, 1.4, 2.1, 2.2, 3.1, 3.2, 4.1, 5.2 and
6.1 get the number of errors the file says (`Tested`), as far as these are the
parser's: E69 in 1.3 and 6.1 and E11 in 5.2 are the validator's, so a name stands for
the call and a number for the array there. The two errors of 4.1, a function that is
not closed, are those of a text with nothing behind its end. For 1.2, 5.1 and 5.5 the
code reports other numbers than the file says; these are in the run with the numbers
of the code (`Untrue`) and are a finding. 5.3 and 5.4 have no error of the parser's and
are in no run; of them, too, the compiler reports something else (nothing for 5.3,
E11 for 5.4). All these numbers were also got from the compiler itself, built and
run on the texts.

`Lexer`: `position` and `line` are the ends of the last span, `lexed` what was read
so far. A text is a sequence of characters, one character of each class the code
tells apart.

### Names, UnitChecks, StructLiterals, TypedValues, vectors

A behaviour of `Names` is one scene: scopes with their definitions in the order of
the text, and the uses to resolve. `index` is `Scope::index`, `wanted`, `segment`,
`scope`, `late`, `entry` the locals of the search; the scores are operators.
`UnitChecks` takes a unit through `validate(ctx)`: `unit` is the tree, `turn` the
phase and the place in it, `checking` what the thread has in its context
(`currentFunction`, `currentLoop`), the states of the nodes, the targets of jumps,
the sorted cases, the values of enumerators and what was reported. A call may lead
into a function that has not been validated, which is then validated inside the
loop and the function of the caller, as the code does. `fell` stands for following
a null pointer. The sorting of cases (`insertionSort`, `quickSort`), the choice of
a strategy and the two passes over a format string are in it.
`StructLiterals` takes one literal from its pieces to the cells of its variable:
the parser's decision whether pieces are named, the binding of pieces to members,
the code, an operand stack with the word the caller left there, and the machine.
`LiteralsAsWritten` says which literals come out as written: `Plainly` names them.
`TypedValues` takes one definition `x : target = e` from the validator (kinds and
casts) to the evaluator's value and to the machine's; the kinds have smaller
widths in the same order. `VectorCode` has an operator per expression and
statement about arrays, `VectorMeaning` the machine with the locals' cells and the
scratch memory; it evaluates the same program without addresses, and names the
conditions under which the code is not what is meant (`LeavesPlace`,
`KeepsScratch` and others): outside them every program must run as meant.

### Listing, Foreign

A byte is `<<the field it belongs to, its place in it>>`, so that taking an operand
out at another offset or in another order than it was put in shows. `Listing` has the builder
(`build`), the machine's fetches, `collectFunctions` (`frames`, `collected`) and
the printing of a block. What a piece of a program can be is `ProgramFits`: a line
span is not empty, a jump goes back to a piece compiled before or ahead to one to
come, as the patch lists and jump tables of the builder have it; a block also
remembers, for the properties only, what was pushed where and below which statement
(`emitted`). `Foreign` follows one call (`stage`): the layouts, the
arguments as expressions, in the machine's frame or in the context of the foreign
call, and the result.

### Libraries

`libs` is `gLibSet`, `setLock` its flag; `os` stands for the system, which counts the
loads of a file, unloads it with the last and may put it elsewhere when it is loaded
again. A thread has a list of jobs: `bind` is `bindFromExternalLibrary`, `run` is
`compile` and `invoke`; every call of the system, every look into the set and every
store that another thread can see is a step. An address stands for all the symbols of
a library that lies there. `spoilt` is a history variable: some thread has used or
upgraded a library while another was loading it for calls, or such a load failed.

### LanguageServer, Document

A text is its version; a tree is the version it was parsed from, the arena its
nodes lie in and how often that arena had been cleared. `files` are the documents
with both units and arenas and the counters of queries, `stack` and `hasWork` the
master's queue. The pool is a bag of tasks and the group counter. A parse reads the
text where it lies, so a tree read while the text was edited is of no version
(`Mixed`). The list of semantic tokens is there once: `updateSemanticTokens` is three
steps, emptying, collecting and sorting, and a query asks for the tree or for that
list (`asks`). `apart` is a history variable: no group was begun while tasks of
another were counted.

`Document` has the characters: `clientText` is the client's, `text` and `offsets` the
server's, `tokens` the semantic tokens as differences.

### Containers, TypeTable

`DynamicArena`: an address is a block and an offset; `live` is a history of what
was pushed and not given back. `Deep` says whether rollbacks by size go beyond the
first block, `Uses` for what the arena is used (`flat`: only pushes and a copy).
`Tables`: the hash is a constant function, so any collision occurs that the
instance has; the dictionary's keys are numbers, their difference is kept modulo
`IntSpace`. `TypeTable`: threads make types as `Requests` says; addresses are
numbers, `AddressSpace` and `KeySpace` the powers of two that separate address and
length in a key.

`MCParts` composes these parts: `part` chooses which one a behaviour is about, the
others stay at rest, and each is run for all its inputs. So one run answers for
all parts that do not share state.

## 3. Runs

| Run | Configuration, module | Checks | Instance |
| --- | --- | --- | --- |
| `pool` | `TaskSystem_groups`, `MCTaskSystem` | types, exclusive stacks, listing of idle workers, every task accounted for; `wait` returns; implements `TaskGroup`, liveness included | 3 workers, 5 files, two of them reached twice, one group; 80 000 states |
| `pool_wait` | `TaskSystem_wait`, `MCTaskSystem` | finding | 2 workers, one group of three back ends |
| `nodes_unit` | `NodeLock_unit`, `MCNodeLock` | success is real, what is locked is held, what is relied on is validated, a circle reported is one | 1 thread; every program of a function, a type, two variables and a library's function, with every choice of at most one error |
| `nodes_pair` | `NodeLock_pair`, `MCNodeLock` | one worker per definition; both units end | 2 threads with numbers of their own, two units using each other |
| `nodes_whole` | `NodeLock_whole`, `MCNodeLock` | finding | that of `nodes_unit` |
| `compile_tasks` | `CompileTasks_shared`, `MCCompileTasks` | what runs is there, one compiler, built once; every job ends | 2 workers, every program of f, g calling any of f, g, h; g may fail; 615 000 states |
| `compile_imported` | `CompileTasks_imported`, `MCCompileTasks` | finding | 1 worker, a unit's root that calls an imported function |
| `bytecode_programs` | `Bytecode_programs`, `MCBytecode` | jumps, balance, meaning | nine kinds of loop in every kind, eight leaves |
| `texts` | `Texts_all`, `MCTexts` | ranks, shared stacks, everything in its place, read back, read for what it says, termination | 2835 expressions; nested programs, the texts of `test_sync.qvi`, texts cut off and disturbed; 71 000 states |
| `language_server` | `LanguageServer_docs`, `MCLanguageServer` | queries are safe, there is something to query, nobody waits for ever | 2 workers; with a master thread: one document that is edited, two that are not; without: two documents that are edited and closed; 243 000 states |
| `tokens` | `LanguageServer_tokens`, `MCLanguageServer` | finding | that of `language_server` |
| `parts` | `Parts_all`, `MCParts` | the parts that stand by themselves, below | 417 000 states |

Several properties have named parts, each in its module with a comment:
`AllAccountedFor` = `RunsOnce`, `CountExact`, `BacklogCleared`, `IdleIsListed`;
`SuccessIsReal` = types, `OkMeansReady`, `ListsDeliver`, `CleanMeansComplete`; `RunsWhatIsThere` =
types, `SyncDone`, `TreeInHands`, `NothingLeft`; `Sound` = types, `JumpsLand`,
`Balanced`; `ReadBack` = types, `OperandsInOrder`, `ReadAsWritten`, `NoComplaint`;
`InItsPlace` = types, `MarksNest`, `OwnScope`, `RegistryMatchesTree`;
`ReadForWhatItSays` = `ReadAsWritten`, `ErrorsAsTested`; `QueriesAreSafe` = types,
`BufferHeld`, `TreeWhole`, `TokensWhole`, `OneParse`; `NobodyWaitsForEver` = `OpenedIsCompiled`,
`LoopComesBack`. Of `parts`: `ContainersInOrder` (places apart, the flat copy,
searches that come to every key, sorted pairs, whole rounds),
`ImplementsContainers` (three refinements), `TypesAreOne` (`Interned`, `AsAsked`),
`DocumentIsClients` (`SameText`, `OffsetsMatch`, `TokensMarkLetters`),
`TokensAreText` (`NothingLost`, `InItsLine`, `LiteralAsWritten`, `NameAsWritten`),
`NamesMeanTheirs` (`SameWithIndex`, `MeansInnermost`, `StaysOnPath`,
`BestIsLinked`, `RefusedForCause`, and for the rest of the validator
`UnitsAreChecked`, `LiteralsAsWritten`), `ComputesAsMeant`, `VectorsAsMeant`,
`ListingIsCode` (`LinesAreWhole`, `ListedAsPushed`, `FetchedAsPushed`,
`JumpsToCode`, `CallsAreListed`), `ForeignAsMeant` (`LayoutsAgree`,
`ArgumentsAsReturned`, `OwnFindsArguments`, `ForeignFindsArguments`,
`NativeReturns`, `EndsForCause`), `LibrariesStay` (types, `OneLibrary`,
`StaysLoaded`), and for liveness `PartsGoOn` (`EveryTypeIsMade`, `SetIsFreed`,
`MovesOn`).

**Pool.** Three workers are the fewest with which a thread can lose a race for a
worker while another goes idle; the graph leaves a backlog of two on one worker,
which the hand-off needs. Main dispatches one task into a fresh pool, as
`compiler.cpp:85` does, so it never takes its fallback: what is shown is that the
protocol by itself is right, the progress of `wait` included. `pool_wait` shows what
the fallback does to it; the wake-up it may erase, and the task it may strand, are
in none of the other properties.

**Locks.** The compiler dispatches one validation task, so one thread is the
pipeline as it is; with bodies of at most two uses, chains and cycles of every kind
occur. `SuccessIsReal` is what an OK is worth in this code: the request delivers
what its caller relies on (of a function its prototype); the unit's lists are
validated, with no error in them but those of statements; and if no error was met,
everything the requests reach is validated to its last statement.
`RestsOnValidated` bounds what the dropped errors leave behind: a validated
definition rests on usable ones, but for types an error was met in and for what a
function's failed statements use. That a function with such errors is validated is
`nodes_whole`.

`nodes_pair` is what the locks are for, on a program without a cycle of values: a
cycle taken from two sides, as two threads that each claim one of two variables
that need each other, leaves both waiting, and the code does not claim otherwise.
What holds of results with one thread (`SuccessIsReal`, `RestsOnValidated`,
`CircularIsReal`) does not hold of two: the recorded owner of a definition may be
that of an earlier work, and a waiter is told the definition is ready when its work
has failed. `CircularIsReal` therefore says nothing about stale owners, which one
thread cannot have.

**Builds.** Two workers are enough to ask for one function at a time and to wait
for each other. With a dispatch that does not wait the local loop goes wrong
(`compile_imported`), so `compile_tasks` has no such call.

**Bytecode.** `Fuel` ends the meaning of a loop after eight rounds; programs that
use it up are left out. Condition loops have no index and calls are no statements
here: `Balanced` does not hold for them (section 1).

**Parsers.** Every tree of two binary operators, of three over six operators of
different ranks, the chain of twelve ranks; a precedence parser that compares two
neighbours is decided by pairs and triples. Statements: every statement in every
other, the texts of the recovery tests, definitions broken off at every token, a
loop with a stray token at every place, enumerations with members that are no
names; `MaxErrors` ends the reading of a text as the code's limit does. What lies
behind the terminating zero of a text is not modelled.

**Language server.** Versions stop at 2 (`MaxVersion`). The groups of the loop and
the master share one counter. One document beside a master never has two groups at
a time; two documents have, when one is opened while the master compiles the other,
and the run reaches the states where a reset makes the other group's `wait` return
early. `QueriesAreSafe` and `SomethingToQuery` are claimed up to there (`apart`), which
two documents also go through apart, with queries of one beside the parse of the
other. What happens beyond is a finding. `OpenedIsCompiled` is claimed where the
master has one document: with two it may clear `hasWork` over the one that was just
queued (`compiler_worker.cpp:57`). Clients open a document once: the second time
the table still has the closed file.

**Parts.** The arena has blocks of 8 bytes, pushes of 1 and 4 bytes at alignments 1
and 4, the last at logical position 6 (`Bound`), which is in the second block or
goes there; the hash set starts with one slot and four keys, two
with one hash, so it grows three times and wraps around; the dictionary has five
keys in half the range of its int; three threads ask for types that collide without
the bits of the length; every short text of the lexer's classes; scenes around the
threshold of the index, and calls of two or three candidates; units with callers
and callees whose jumps stand in and behind loops, chains of three functions, every
statement with every expression, switches of up to five cases (`InsertionMost` is 3
instead of 16, so that quicksort runs), format strings and blocks of up to four
characters, graphs of two and three structure types, scopes and definitions out of
place, lists of enumerators; every structure literal of up to three pieces for
two and three scalars and of up to two for a structure in another; 7356 typed programs, of which the
machine's value is compared for 4209 and the folded one for 2976 (448 overflow a
signed kind, which has no meaning; the others use an operator of section 1); 2559
vector programs, of which 1315 meet none of the named exceptions and run as
meant; two threads bind and call functions of one library under two names, and ask
for one that is not in it.

**Fairness.** Weak fairness of each thread in `TaskSystem`, `NodeLock`,
`CompileTasks` and of the threads of `TypeTable` and `Libraries`: the operating system schedules
runnable threads, and each store that a thread blocks on is followed by a notify.
`RetrySecure` is a loop, but each round means that another thread succeeded. The
machine, the parsers, the lexer and the rest are loops of one thread that does not
block: weak fairness of their next step. In the language server the loop's
reading, the master and the workers are fair; the client, whose edits and queries
are its own affair, is not, but it opens what it means to open.

## 4. Proofs

The theorems assume the named assumptions on the constants of their modules and
the hypotheses named here, no more. Every module is proved for all values of the
constants: any number of threads, any program, any text, any keys.

**TaskSystemProofs.** `TypeCorrect`: besides the types, no size exceeds what has
been written to its buffer; a thread in `push` must hold a task, and sizes it has
loaded stay within the buffer even while another thread uses the stack, so the
fallback's races are included. `StacksAreExclusive` and `ListedWorkersAreIdle`
follow from `OwnInv`: a worker is in the list, held by exactly one thread that
cleared its bit, or awake, and these exclude each other.

For tasks, `GroupInv` says, while main has not used its fallback, where
every task is: `Hands` (what each thread holds, by its program counter), `Ledger`
(every dispatched task is in exactly one stack below its size, in one hand, or has
run), `Once`, and `Counted` (`gTaskCount` is the number of those that have not run,
and of a dispatch under way). None is inductive without the others: a pop takes
the task to the hand that runs it, and only the ledger knows that it is nowhere
else. `NothingSlips` is `AllAccountedFor`; `WaitCovers` that `wait` returns only
when all has run; `FirstGroupIsSafe` that a first group with one task, as
`compiler.cpp:85-87` opens it, never takes the fallback, so that there all this
holds without a condition; `PoolIsAGroup` that the pool implements `TaskGroup`,
step by step. Hypotheses: a task is dispatched in one place (`DispatchedOnce`), fewer
workers than bits.

**NodeLockProofs.** `NodesAreExclusive`, `LocksAreReleased`, `NodesTypeCorrect` for
any threads and numbers, from `LockInv`: a claim is exclusive because a held
definition is locked, and a release leaves the definition to nobody because only
one held it. The rest is for one thread (`OneThread`), any programs and any errors.

`CircularAlwaysReal` and `OkAlwaysReady` come from `AnswerInv`: each frame of the stack
answers the request the frame below it is at, so what is locked is on the stack and
a number that is found is that of work in progress, and what can be said of a frame
that is popped can be said of the request that returns.
`AlwaysRestsOnValidated` comes from `RestInv`: of a definition in work, the uses it
has gone past are usable, or types an error was met in, or uses of statements that
failed (`FrameRests`), which is what is left of it when it is validated (`Complete`);
and an error on its way up has left its trace in each definition it went through
(`ErrorsTold`), which is why a use that was dropped is always told of.

`SuccessIsAlwaysReal` (`SuccessIsReal`) is about what the OK of a unit means. The walk
over the root makes this hard: it sets each function back to `NS_TYPE_READY` and
validates it anew, and nobody looks at its result. `CleanInv` says that what the
lists are through with is validated, or is the function the walk is in (`ListsHold`,
`Redone`), and that it has none of the errors a validation returns (`Sound`), so that
the walk cannot fail on it; that work which ends has brought its definition about
(`Brings`); and that while no error was met a definition that was started is ready or
in work (`StartedIsSettled`). Then, when the unit is done, the set of started
definitions is closed under uses, and what the requests reach is inside every such
set; no induction over what is reached is needed. Hypotheses: finitely many
definitions, and `RequestsInOrder`, the order in which `validate(ctx)` makes its
requests: layouts come after all validations, so no validation hides behind one,
and what is walked over or evaluated was in a list. Nothing is supposed of the
errors or of what types use. The versions of these results for two threads are
false, as section 3 says.

**CompileTasksProofs.** `BuiltByOne`, `JobsRunWhatIsThere`, `BuildsAreTriedOnce` from
`BuildInv`: a function being compiled is held by one worker in a stage of its
build; the calls met so far are built, being built, or on that worker's local
stack; the requests of the job are answered; nothing is left when a root is done.

**ExpressionParserProofs.** For any text, well-formed or not:
`RanksAlwaysDescend`, `RecursionIsShallow` (at most twelve operators wait in one
expression, so the recursion does not grow with its length),
`NodesAlwaysBelong`, from `ParserInv`, which says of the whole stack of
activations what the actions change at its end.

**LanguageServerProofs.** For clients that open a document once, and one document
only where there is a master (`OneDocument`); without one there may be many.
`GroupsStayApart`: whoever begins a group finds the count at zero, so `apart`, the
condition of the properties, always holds. With it `QueriesAlwaysSafe` and
`AlwaysSomethingToQuery`, from `ServerInv`: a document is opened once, the master has at
most one group, the stages of loop, master and parse exclude each other where they
must, and a query that checked in is counted. A tree is parsed twice at most then, so
the counters of readers never decide; with more documents groups overlap, and what
the run checks of them is not proved.

**ContainersProofs.** `ArenaIsOneBlock`: the arena implements `OneBlock` step by step,
from `ArenaInv`: the blocks are chained, each begins where the one before it ended,
with a padding that puts its data at the alignment the logical position has; what
is live lies in its block. `ArenaPlacesApart`: live allocations share no byte and
are aligned. Both under `~ Deep`, since a rollback by size beyond the first block
is wrong in the code. `FlatCopyIsTheOneBlock`: for an arena that only grew, as the
name says; after a clear it is false (section 1). `TypesAreMadeOnce` (`TypesAreOne`)
and `NoTypeTwice`, for any threads and requests: a thread between `lockSet` and
`unlockSet` is alone, so a type that is not found is made by the one that looked.
That everyone gets the type that was asked for needs keys that tell types apart:
lengths of at most 16 bits (`LengthsFit`, the bits `combineHash` leaves) and
addresses below them (`AddressesFit`).

Of the two tables, `HashSetIsASet`: whatever the keys, their hashes, the initial size
and the calls, the hash set answers as a set, and `KeysAreReached` is what that
rests on: each key lies where a search comes to before any slot that is empty, and
a table before an insertion has a slot that is not occupied. The table built by
`Rehash` is a recursive function over the slots; that it exists and what it gives
is proved by a least counterexample, as is what the halving search of the
dictionary finds. `DictIsASet`, `RoundsAreWhole`: for keys whose differences an
int holds (`KeysFit`); for others the sign of the difference misleads the search.
With `ArenaIsOneBlock` these make
`ContainersAreWhatTheyStandFor` (`ImplementsContainers`), and with the invariants
`ContainersStayInOrder` (`ContainersInOrder`), the properties of the run `parts`; the
former needs `~ Deep` and `KeysFit`, the latter also an arena that only grew, for
the flat copy. `DocumentStaysTheClients` is `DocumentIsClients`, for texts
and insertions of any length, from `DocumentInv`: the copy is the client's text, the
offsets are those of the whole text, the tokens those of the text that was opened.
What is proved of an edit is that the offsets before it, those of the inserted text
and those behind it, moved by the difference in length, list the line starts of the
edited text in order, and that a set has one such list; of a change's range, that
every position the client makes of an offset is that offset to the server; of the
tokens, that adding the differences up gives them back.

**LibrariesProofs.** `LibrariesAreOne`, without a condition, from `LibInv`: who is
between `lockLibSet` and `unlockLibSet` is alone, and what it found, or did not find,
in the set is still so; libraries are added and their levels raised, nothing
else. `LibrariesStayLoaded` (`LibrariesStay`) adds `StayInv`, which holds until
`spoilt`: the count of a file is at least the number of threads that hold a load
of it and will free it, and one more if its library is not being loaded anew
(`Backed`), all of them at the place the system has it; one thread at a time
upgrades a library, and finds it inspected until it has loaded it. That the
count covers the holders is what lets every `FreeLibrary` be a spare one; the
condition is needed, since behind it the code does undo another's load (section 1).

**ListingProofs.** `ListingAlwaysWhole` (the parts of `ListingIsCode` up to
`JumpsToCode`), for any program whose pieces fit (`ListingAssumption`), of any
length. `BuildInv` has the block being compiled (`Lies`) and those committed
(`BlockLies`). `CodeLies`: each instruction lies where it was pushed, as what it
was pushed, one behind the other from the first byte to the last, and a byte of an
opcode is one that was pushed; so the disassembler, which goes from one
instruction to the next by the operands it shows, can leave no instruction out. That
the operands shown are those pushed, for every opcode, is `InstructionIs`.
`Settled` is what jumps need: an operand that is a target is still on a list to
patch, or gives with its opcode's offset a place that was reached; when the last
piece is reached no list is left, and every place is the start of an
instruction or the end. A patch changes only values of targets (`PatchedLies`),
since what is on the lists are targets (`IsOneOf`) and fields do not overlap.
`SpansCover` says of lines that the ones committed tile the bytes up to
`offsetStart`, and what was pushed since then stands below a line of the present
span, whose growth by `updateSourceLocation` only adds to it. With `Tiled` the halving
search of `findLineForOffset`, a recursive function, finds the one line an
offset lies in (`LineIsFound`, by a least part of the lines where it would not),
and the printing loop, which looks for the next line without a look at how many
there are, never goes beyond the last (`LineGoesOn`).

`ListingAlwaysCode` (`ListingIsCode`) adds `CallsAreListed` from `WalkInv`, for the
depth of 1 that `print` gives to `collectFunctions`: what is called from the part of
a block the walk has passed is collected, and what is called from there too, but for
the block it is in. A walk by sizes stays on instructions because `getOpcodeSize` is right for
all opcodes but those of `Missized`, the premise of `CallsAreListed`. The blob
opcodes of other blocks are left out by name (`MisreadBlob`), since there the code
does not hold the order (section 1).

**Checked only.** Liveness and fairness are beyond the prover; the refinements are
proved without them. Modules that reach a recursive operator (`SourceMeaning` and
all of the bytecode, `ExpressionMeaning`, `StatementMeaning`, `Names`,
`UnitChecks`, `StructLiterals`, `TypedValues`, the vectors, `Lexer`, `Foreign`,
`StatementParser`) are checked by TLC alone, and so are the language server with two
documents beside a master and the two threads of `nodes_pair` as far as progress
goes.

## 5. Findings

- **`wait` returns early** (`pool_wait`, `task_system_core.cpp:258`).
  `task_system.h:46` says that `wait` blocks until all dispatched tasks of the
  group are processed. When no worker is idle main pushes to the stack of worker
  0, which may be popping: an already popped task is on the stack again, runs
  twice and is counted down twice, and `wait` returns while another task has not
  run. The first group of the compiler is safe (`FirstGroupIsSafe`); one with a
  dispatch per back end need not be.
- **A local task that stays** (`compile_imported`, `task_system_core.cpp:209`). The
  comment above the loop says that all local tasks are completed before the worker
  moves on. The loop reads from `localStack` and pops `stack`: the local task runs
  again and again, and a task queued for the worker is lost.
- **Validated is not whole** (`nodes_whole`, `validator.cpp:2089`). `syntax.h:233` says of
  `NS_VALIDATED` that the node is completely checked. `validate(SyntaxNode)` returns OK
  whatever its cases returned, and a function is validated over statements that
  failed. The compiler stops where an error was reported (`Diag::hasErrors`); one that
  was only returned is lost.
- **Tokens change under a query** (`tokens`, `lsp.cpp:199`). `runParse` says that it waits
  for the queries that read what it modifies. It waits for those of one arena; the
  list of semantic tokens, of which there is one, is emptied, filled and sorted
  beside a query that copies it.
- **Nothing to query** (`language_server`, `lsp.cpp:526`). A document is parsed when it is
  opened, "to have at least something to query". A document opened while the master
  compiles another shares the group counter with it, and `DidOpen` may return, or the
  master go on, before the parse: the property is claimed only while groups are
  apart.
- **Dependencies are not processed** (`compile_tasks`, `task_system_core.cpp:398-400`). The
  comment says that a synchronous request returns when the function and its
  dependencies are fully processed. A dependency another worker is compiling at that
  time is skipped, and the caller's code runs before it is built.
  `RunsWhatIsThere` promises what is true: what runs is built, or is in the hands of
  another worker.
- **Ranges include their end** (`bytecode_programs`, `interpreter_build.cpp:2571`).
  `doc.md:1150`, `:1170` and `:1585` say that the end of a range is excluded. The loop
  compares with "less or equal", and `test_loops.qvi` counts on it; `SourceMeaning`
  follows code and test.
- **Slices include their end** (`parts`, `interpreter_build.cpp:1426`). The same of `a[i:j]`
  and `doc.md:1150`, `:1158`; `test_arrays_slices.qvi` is with the code.
- **Any number is an argument for any other** (`parts`, `validator.cpp:665`). By `doc.md` 9.2.1
  (`:1208`, `:1237`) one argument that has no implicit conversion disqualifies a variant,
  and `i64` has none to `i32`; 5.10.4 (`:980`) has the list. The scores give narrowing,
  changes of sign and casts between integers and floats a rank of their own, and link
  the call. `Names!MatchOf` follows the code.
- **An ambiguous call is linked** (`parts`, `validator.cpp:761`).
  `doc.md:1221` says that variants level at the top are an error. The count of the
  level ones is reset by any later function that scores less; the scenes of
  `BestIsLinked` have such functions, and it says what is linked then.
- **Recovery reports more than its test wants** (`texts`, two entries). In `test_sync.qvi`
  a stray `)` at global scope makes one error (1.2, 5.5). The code takes it for an
  assignment without its `=` and looks for the next one: a statement behind it is
  lost, and where there is none a further error is reported, four for the two of 1.2,
  three for the one of 5.5. In 5.1 the parser reports two errors, and the test
  gives it one.

Other disagreements are listed in section 1; where one of them would break a
property, the run leaves the case out and the module says so.

## 6. Not modelled, and why

- Of the pool: shutdown and `clearTaskState`. Of the builds: the branch for a thread
  that is no worker, which no caller takes.
- In the validator, the typing of strings and of array initialisations, of structure
  literals as arguments, of unions and of defaults of members; in the on-demand validation a set of broken definitions stands for what makes one
  valid. In the evaluator floating point, members and calls.
- In the bytecode: structures as values outside literals, allocation, external calls, `goto`,
  floating point arithmetic.
- In the parsers: brace initialisers and `catch` inside expressions, function
  pointer types, definitions nothing calls the parser of.
- Of foreign calls: the trampolines in machine code, and the System V convention,
  whose `invoke` does nothing.
- Of the language server: JSON, framing, generated protocol types, and the text of
  answers.
- Emitters and back ends, diagnostics and logging are output; the interpreter's
  shell starts what is modelled; strings, built-in functions and the runtime are
  sequential functions without control state; plugins, examples and tests are no
  part of the compiler. `load` finds no file it has loaded before, so there is no
  table of files to keep in order yet.

## 7. Plan

Done: every component of section 1 whose state more than one operation or thread
changes has a module, a run and, where the provers reach it, theorems. Next:

1. `StatementParser`, once `parseTypeDecorators` is a recursive function:
   `MarksNest` and `OwnScope` from an invariant of the stack of calls, as in
   `ExpressionParserProofs`.
2. `BytecodeBuild`: its lists of pending jumps as recursive functions, to carry
   what `ListingProofs` says of patching over to them.
3. More of the validator (array initialisations, strings) and of the bytecode
   (structures as values, allocation), with `TypedValues` and `StructLiterals` as the
   pattern.
