------------------------------- MODULE NodeLock -------------------------------
(***************************************************************************)
(* The on-demand validation of top-level definitions: Validator::          *)
(* ensureValidated, Interpreter::eval and Abi::ensureTypeInfoReady, over    *)
(* acquireNode and releaseNode of src/src/syntax.cpp.  A thread that meets  *)
(* a definition it needs claims it and does the work on the spot, inside    *)
(* the work it was doing; if the definition is being worked on it waits,    *)
(* unless the recorded owner is the thread itself, which is reported as a   *)
(* circular dependency.                                                     *)
(*                                                                          *)
(* A definition is a function, a type or a variable; what its body says is  *)
(* kept as the sequence of definitions it uses.  validate(SyntaxNode)       *)
(* returns OK whatever was wrong: an error in a statement of a function     *)
(* ends that statement, and the function is validated all the same.         *)
(* TS_READY and NS_ERROR are stored by no code, so neither has a value here.*)
(***************************************************************************)
EXTENDS Integers, Sequences, FiniteSets, SequencesExt

CONSTANTS
    Worker,         \* the threads
    Id,             \* Id[w]: the number acquireNode is given by thread w
    Node,           \* top-level definitions
    Fcn, Type,      \* the functions and the types among them
    Foreign,        \* the functions without a body
    Signature,      \* Signature[f]: what the prototype of function f uses
    Bodies,         \* what the definitions may use otherwise, a set of functions
    Evals,          \* Evals[v]: the requests evaluating variable v makes
    Faults,         \* the errors of their own the definitions may have, a set of sets
    Roots           \* Roots[w]: the requests of w's unit, in order

(* A walk is the validation of a child of the file's root scope, which      *)
(* claims nothing.                                                          *)
Jobs == {"validate", "eval", "abi", "walk"}
Request == [job : Jobs, node : Node]
Validate(n) == [job |-> "validate", node |-> n]
Eval(n)     == [job |-> "eval", node |-> n]
Abi(n)      == [job |-> "abi", node |-> n]
Walk(n)     == [job |-> "walk", node |-> n]

(* An error is one of the prototype, of the rest of a definition, or of the *)
(* evaluation of a variable; a variable may also have no initial value.     *)
Fault == [node : Node, part : {"signature", "body", "value", "initial"}]

ASSUME NodeAssumption ==
    /\ Id \in [Worker -> 0..255]
    /\ Fcn \subseteq Node /\ Type \subseteq Node /\ Fcn \cap Type = {}
    /\ Foreign \subseteq Fcn
    /\ Signature \in [Node -> Seq(Node)]
    /\ \A n \in Node \ Fcn : Signature[n] = <<>>
    /\ Bodies \subseteq [Node -> Seq(Node)]
    /\ \A h \in Bodies : \A n \in Foreign : h[n] = <<>>
    /\ Evals \in [Node -> Seq(Request)]
    /\ \A n \in Node : \A r \in ToSet(Evals[n]) : r.job # "walk"
    /\ Faults \subseteq SUBSET Fault
    /\ \A faults \in Faults : \A e \in faults : e.part = "signature" => e.node \in Fcn
    /\ Roots \in [Worker -> Seq(Request)]

(* The order validate(ctx) goes through a unit in: types, variables and     *)
(* functions are validated before the root is walked and the first          *)
(* evaluation, and only an evaluation asks for layouts, of types that have  *)
(* been validated.                                                          *)
Laid == {n \in Node : \/ \E v \in Node : Abi(n) \in ToSet(Evals[v])
                      \/ \E w \in Worker : Abi(n) \in ToSet(Roots[w])}
RequestsInOrder ==
    /\ Laid \subseteq Type
    /\ \A w \in Worker : \A k \in 1..Len(Roots[w]) :
            LET r == Roots[w][k]
                Before(n) == \E j \in 1..k - 1 : Roots[w][j] = Validate(n)
            IN  r.job # "validate" => Before(r.node) /\ \A n \in Laid : Before(n)

VARIABLES
    body,       \* the program: body[n] is what the rest of definition n uses
    broken,     \* the errors the definitions have of their own
    lock,       \* SyntaxNode.lock
    owner,      \* SyntaxNode.workerId
    state,      \* SyntaxNode.state
    hasValue,   \* Value.hasValue of a variable definition's value
    pc,         \* what each thread does next
    call,       \* the request it is making
    ret,        \* the error code of the call that returns
    stack,      \* the definitions it is working on, the innermost last
    root,       \* position in Roots
    circular,   \* history: the circular dependencies reported
    faulty      \* history: the definitions an error was met in, reported or not

nodeVars    == <<lock, owner, state, hasValue>>
threadVars  == <<pc, call, ret, stack, root>>
program     == <<body, broken>>
history     == <<circular, faulty>>
vars == <<program, nodeVars, threadVars, history>>

(* NodeState *)
UNRESOLVED == 0
TYPE_READY == 2
ABI_READY  == 3
VALIDATED  == 4

NoCall == [job |-> "none", node |-> "none"]

Init ==
    /\ body \in Bodies
    /\ broken \in Faults
    /\ lock = [n \in Node |-> "PENDING"]
    /\ owner = [n \in Node |-> 0]
    /\ state = [n \in Node |-> UNRESOLVED]
    /\ hasValue = [n \in Node |-> FALSE]
    /\ pc = [w \in Worker |-> "next"]
    /\ call = [w \in Worker |-> NoCall]
    /\ ret = [w \in Worker |-> "OK"]
    /\ stack = [w \in Worker |-> <<>>]
    /\ root = [w \in Worker |-> 1]
    /\ circular = {}
    /\ faulty = {}

At(w, label) == pc[w] = label
Goto(w, label) == pc' = [pc EXCEPT ![w] = label]
Top(w) == Last(stack[w])
Working(w) == stack[w] # <<>>

Has(n, part) == [node |-> n, part |-> part] \in broken

(* The requests of one piece of work, in the order the code meets them.  A  *)
(* variable without an initial value is the definition of its own variable, *)
(* and so eval comes back to it.                                            *)
Validates(frame) == frame.job \in {"validate", "walk"}
Uses(frame) ==
    LET n == frame.node
        Needs(seq) == [i \in DOMAIN seq |-> Validate(seq[i])]
    IN  CASE frame.part = "signature" -> Needs(Signature[n])
          [] frame.part = "body" /\ Validates(frame) -> Needs(body[n])
          [] frame.part = "body" /\ frame.job = "eval" ->
               IF Has(n, "initial") THEN <<Eval(n)>> ELSE Evals[n]
          [] OTHER -> <<>>

Pending(w) == Top(w).next <= Len(Uses(Top(w)))

(* The statements of a function, each of which may fail for itself. *)
InStatements(w) ==
    Validates(Top(w)) /\ Top(w).part = "body" /\ Top(w).node \in Fcn \ Foreign

(* The work on top has an error of its own. *)
Broken(w) ==
    \/ Validates(Top(w)) /\ Top(w).part # "nothing" /\ Has(Top(w).node, Top(w).part)
    \/ Top(w).job = "eval" /\ Top(w).part = "body" /\ Has(Top(w).node, "value")

-----------------------------------------------------------------------------
(* The walk over a unit and over a definition. *)

CallRoot(w) ==
    /\ At(w, "next") /\ ~Working(w)
    /\ root[w] <= Len(Roots[w])
    /\ call' = [call EXCEPT ![w] = Roots[w][root[w]]]
    /\ Goto(w, "check")
    /\ UNCHANGED <<nodeVars, ret, stack, root, program, history>>

UnitDone(w) ==
    /\ At(w, "next") /\ ~Working(w)
    /\ root[w] > Len(Roots[w])
    /\ Goto(w, "done")
    /\ UNCHANGED <<nodeVars, call, ret, stack, root, program, history>>

CallUse(w) ==
    /\ At(w, "next") /\ Working(w) /\ Pending(w)
    /\ call' = [call EXCEPT ![w] = Uses(Top(w))[Top(w).next]]
    /\ Goto(w, "check")
    /\ UNCHANGED <<nodeVars, ret, stack, root, program, history>>

(* validate(Function): the prototype is checked, callers may go on. *)
SignatureReady(w) ==
    /\ At(w, "next") /\ Working(w) /\ ~Pending(w)
    /\ Top(w).part = "signature" /\ ~Broken(w)
    /\ state' = [state EXCEPT ![Top(w).node] = TYPE_READY]
    /\ stack' = [stack EXCEPT ![w][Len(stack[w])] =
                   [@ EXCEPT !.part = "body", !.next = 1]]
    /\ UNCHANGED <<lock, owner, hasValue, pc, call, ret, root, program, history>>

(* Mutant: the error of a definition is met but not returned.               *)
OwnErrorLost(w) ==
    /\ At(w, "next") /\ Working(w)
    /\ Broken(w) /\ ~InStatements(w)
    /\ ret' = [ret EXCEPT ![w] = "OK"]
    /\ faulty' = faulty \cup {Top(w).node}
    /\ Goto(w, "release")
    /\ UNCHANGED <<nodeVars, call, stack, root, program, circular>>

(* An error of the definition's own ends the work on it: in the prototype   *)
(* before NS_TYPE_READY, in the library of a function without a body behind *)
(* it, in a type or a variable, or in its evaluation, which may not report  *)
(* it.  It is met before, between or after the definitions that are used.   *)
OwnError(w) ==
    /\ At(w, "next") /\ Working(w)
    /\ Broken(w) /\ ~InStatements(w)
    /\ ret' = [ret EXCEPT ![w] = "ERROR"]
    /\ faulty' = faulty \cup {Top(w).node}
    /\ Goto(w, "release")
    /\ UNCHANGED <<nodeVars, call, stack, root, program, circular>>

(* The work ends with its result; a function's with NS_VALIDATED, whatever  *)
(* became of its statements.                                                *)
Finish(w) ==
    LET work == Top(w)
        result == IF work.job = "abi" THEN ABI_READY ELSE VALIDATED
    IN /\ At(w, "next") /\ Working(w) /\ ~Pending(w)
       /\ work.part # "signature"
       /\ Broken(w) => InStatements(w)
       /\ ret' = [ret EXCEPT ![w] = "OK"]
       /\ state' = IF work.job = "eval" THEN state
                   ELSE [state EXCEPT ![work.node] = result]
       /\ hasValue' = [hasValue EXCEPT ![work.node] = @ \/ work.job = "eval"]
       /\ faulty' = IF Broken(w) THEN faulty \cup {work.node} ELSE faulty
       /\ Goto(w, "release")
       /\ UNCHANGED <<lock, owner, call, stack, root, program, circular>>

-----------------------------------------------------------------------------
(* ensureValidated, eval, ensureTypeInfoReady: the test before acquireNode. *)
(* A call needs the signature only, so call sites skip a function that has  *)
(* one; eval has no test, its caller has just ensured the validation, and   *)
(* neither has the walk.                                                    *)
ReadyFor(w) ==
    LET n == call[w].node IN
    \/ /\ call[w].job = "validate"
       /\ \/ state[n] = VALIDATED
          \/ n \in Fcn /\ Working(w) /\ state[n] >= TYPE_READY
    \/ call[w].job = "abi" /\ state[n] = ABI_READY

AlreadyReady(w) ==
    /\ At(w, "check") /\ ReadyFor(w)
    /\ ret' = [ret EXCEPT ![w] = "OK"]
    /\ Goto(w, "return")
    /\ UNCHANGED <<nodeVars, call, stack, root, program, history>>

NotReady(w) ==
    /\ At(w, "check") /\ ~ReadyFor(w) /\ call[w].job # "walk"
    /\ Goto(w, "claim")
    /\ UNCHANGED <<nodeVars, call, ret, stack, root, program, history>>

(* Mutant: a load and a store instead of the compare-exchange. *)
ClaimUnchecked(w) ==
    /\ At(w, "claim")
    /\ lock' = [lock EXCEPT ![call[w].node] = "RUNNING"]
    /\ Goto(w, "own")
    /\ UNCHANGED <<owner, state, hasValue, call, ret, stack, root, program, history>>

(* acquireNode: TS_PENDING becomes TS_RUNNING. *)
Claim(w) ==
    /\ At(w, "claim")
    /\ lock[call[w].node] = "PENDING"
    /\ lock' = [lock EXCEPT ![call[w].node] = "RUNNING"]
    /\ Goto(w, "own")
    /\ UNCHANGED <<owner, state, hasValue, call, ret, stack, root, program, history>>

ClaimFails(w) ==
    /\ At(w, "claim")
    /\ lock[call[w].node] = "RUNNING"
    /\ Goto(w, "owner")
    /\ UNCHANGED <<nodeVars, call, ret, stack, root, program, history>>

(* What the work starts with: a validated variable and an evaluated one     *)
(* return at once.                                                          *)
FirstPart(job, n) ==
    CASE job \in {"validate", "walk"} /\ n \in Fcn -> "signature"
      [] job \in {"validate", "walk"} /\ n \notin Fcn \cup Type /\ state[n] = VALIDATED -> "nothing"
      [] job = "eval" /\ hasValue[n] -> "nothing"
      [] OTHER -> "body"

Begun(request) ==
    [job |-> request.job, node |-> request.node,
     part |-> FirstPart(request.job, request.node), next |-> 1]

(* The owner is recorded after the exchange, by an ordinary store. *)
RecordOwner(w) ==
    /\ At(w, "own")
    /\ owner' = [owner EXCEPT ![call[w].node] = Id[w]]
    /\ stack' = [stack EXCEPT ![w] = Append(@, Begun(call[w]))]
    /\ Goto(w, "next")
    /\ UNCHANGED <<lock, state, hasValue, call, ret, root, program, history>>

(* validate(root) goes into a definition without acquireNode. *)
EnterWalk(w) ==
    /\ At(w, "check") /\ call[w].job = "walk"
    /\ stack' = [stack EXCEPT ![w] = Append(@, Begun(call[w]))]
    /\ Goto(w, "next")
    /\ UNCHANGED <<nodeVars, call, ret, root, program, history>>

(* ANR_ALREADY_ACQUIRED_BY_CALLER *)
Circular(w) ==
    /\ At(w, "owner")
    /\ owner[call[w].node] = Id[w]
    /\ circular' = circular \cup {<<w, call[w].node>>}
    /\ faulty' = faulty \cup {call[w].node}
    /\ ret' = [ret EXCEPT ![w] = "ERROR"]
    /\ Goto(w, "return")
    /\ UNCHANGED <<nodeVars, call, stack, root, program>>

SomebodyElses(w) ==
    /\ At(w, "owner")
    /\ owner[call[w].node] # Id[w]
    /\ Goto(w, "wait")
    /\ UNCHANGED <<nodeVars, call, ret, stack, root, program, history>>

(* The lock is no longer TS_RUNNING: ANR_ALREADY_READY, whatever happened. *)
WaitEnds(w) ==
    /\ At(w, "wait")
    /\ lock[call[w].node] # "RUNNING"
    /\ ret' = [ret EXCEPT ![w] = "OK"]
    /\ Goto(w, "return")
    /\ UNCHANGED <<nodeVars, call, stack, root, program, history>>

-----------------------------------------------------------------------------
(* Mutant: an error path that returns without releaseNode. *)
ReleaseOnSuccess(w) ==
    /\ At(w, "release") /\ Top(w).job # "walk"
    /\ lock' = IF ret[w] = "OK" THEN [lock EXCEPT ![Top(w).node] = "PENDING"]
               ELSE lock
    /\ stack' = [stack EXCEPT ![w] = Front(@)]
    /\ Goto(w, "return")
    /\ UNCHANGED <<owner, state, hasValue, call, ret, root, program, history>>

(* Mutant: a validated variable stays claimed for the evaluation to come.   *)
ReleaseUnlessEvaluated(w) ==
    /\ At(w, "release") /\ Top(w).job # "walk"
    /\ lock' = IF Top(w).job = "validate" /\ Top(w).node \notin Fcn \cup Type
               THEN lock ELSE [lock EXCEPT ![Top(w).node] = "PENDING"]
    /\ stack' = [stack EXCEPT ![w] = Front(@)]
    /\ Goto(w, "return")
    /\ UNCHANGED <<owner, state, hasValue, call, ret, root, program, history>>

(* releaseNode stores TS_PENDING, and not what its parameter says. *)
Release(w) ==
    /\ At(w, "release") /\ Top(w).job # "walk"
    /\ lock' = [lock EXCEPT ![Top(w).node] = "PENDING"]
    /\ stack' = [stack EXCEPT ![w] = Front(@)]
    /\ Goto(w, "return")
    /\ UNCHANGED <<owner, state, hasValue, call, ret, root, program, history>>

(* validate(SyntaxNode) ends with return OK. *)
Leave(w) ==
    /\ At(w, "release") /\ Top(w).job = "walk"
    /\ stack' = [stack EXCEPT ![w] = Front(@)]
    /\ ret' = [ret EXCEPT ![w] = "OK"]
    /\ Goto(w, "return")
    /\ UNCHANGED <<nodeVars, call, root, program, history>>

(* The request that returns: an inner call has overwritten call[w]. *)
Answered(w) == IF Working(w) THEN Uses(Top(w))[Top(w).next]
               ELSE Roots[w][root[w]]

(* Mutant: every error is dropped. *)
DropEveryError(w) == TRUE

(* validate(VariableDefinition) overwrites the error of its type, and       *)
(* Extern::compile ignores what ensureTypeInfoReady returns.                *)
ErrorDropped(w) == Answered(w).node \in Type

Return(w) ==
    /\ At(w, "return") /\ Working(w)
    /\ ret[w] = "OK" \/ ErrorDropped(w)
    /\ stack' = [stack EXCEPT ![w][Len(stack[w])].next = @ + 1]
    /\ Goto(w, "next")
    /\ UNCHANGED <<nodeVars, call, ret, root, program, history>>

(* An error, of its own or of what it uses, is dropped with the rest of the *)
(* statement, and of those it stands in, and the next one is validated.     *)
StatementFails(w) ==
    /\ Working(w) /\ InStatements(w) /\ Pending(w)
    /\ \/ At(w, "next") /\ Broken(w)
       \/ At(w, "return") /\ ret[w] = "ERROR" /\ ~ErrorDropped(w)
    /\ \E k \in Top(w).next + 1 .. Len(Uses(Top(w))) + 1 :
         stack' = [stack EXCEPT ![w][Len(stack[w])].next = k]
    /\ faulty' = faulty \cup {Top(w).node}
    /\ Goto(w, "next")
    /\ UNCHANGED <<nodeVars, call, ret, root, program, circular>>

ReturnError(w) ==
    /\ At(w, "return") /\ Working(w)
    /\ ret[w] = "ERROR" /\ ~ErrorDropped(w) /\ ~InStatements(w)
    /\ faulty' = faulty \cup {Top(w).node}
    /\ Goto(w, "release")
    /\ UNCHANGED <<nodeVars, call, ret, stack, root, program, circular>>

ReturnToUnit(w) ==
    /\ At(w, "return") /\ ~Working(w)
    /\ IF ret[w] = "OK"
         THEN Goto(w, "next") /\ root' = [root EXCEPT ![w] = @ + 1]
         ELSE Goto(w, "failed") /\ root' = root
    /\ UNCHANGED <<nodeVars, call, ret, stack, program, history>>

Step(w) ==
    \/ CallRoot(w) \/ UnitDone(w) \/ CallUse(w) \/ SignatureReady(w)
    \/ OwnError(w) \/ Finish(w) \/ AlreadyReady(w) \/ NotReady(w) \/ Claim(w)
    \/ ClaimFails(w) \/ RecordOwner(w) \/ EnterWalk(w) \/ Circular(w)
    \/ SomebodyElses(w) \/ WaitEnds(w) \/ Release(w) \/ Leave(w) \/ Return(w)
    \/ StatementFails(w) \/ ReturnError(w) \/ ReturnToUnit(w)

Next == \E w \in Worker : Step(w)
Spec == Init /\ [][Next]_vars
Stopped == \A w \in Worker : pc[w] \in {"done", "failed"}

(* The threads are scheduled fairly. *)
FairSpec == Spec /\ \A w \in Worker : WF_vars(Step(w))

-----------------------------------------------------------------------------
Frame == [job : Jobs, node : Node, part : {"signature", "body", "nothing"},
          next : Nat \ {0}]

TypeOK ==
    /\ body \in Bodies
    /\ broken \in Faults
    /\ lock \in [Node -> {"PENDING", "RUNNING"}]
    /\ owner \in [Node -> 0..255]
    /\ state \in [Node -> {UNRESOLVED, TYPE_READY, ABI_READY, VALIDATED}]
    /\ hasValue \in [Node -> BOOLEAN]
    /\ pc \in [Worker -> {"next", "check", "claim", "own", "owner", "wait",
                          "release", "return", "done", "failed"}]
    /\ call \in [Worker -> Request \cup {NoCall}]
    /\ ret \in [Worker -> {"OK", "ERROR"}]
    /\ stack \in [Worker -> Seq(Frame)]
    /\ root \in [Worker -> Nat \ {0}]
    /\ faulty \subseteq Node

(* Thread w works on n, which it claimed, or has claimed it and not yet     *)
(* recorded so.  A walk claims nothing.                                     *)
Claimed(frame, n) == frame.node = n /\ frame.job # "walk"
OnStack(w, n) == \E i \in DOMAIN stack[w] : Claimed(stack[w][i], n)
Holds(w, n) == OnStack(w, n) \/ (At(w, "own") /\ call[w].node = n)

(* A definition is worked on by one thread at a time, and never again       *)
(* inside its own work: acquireNode is a lock, on every path out of the     *)
(* nested validations, evaluations and layouts.                             *)
OneWorker ==
    /\ \A n \in Node : \A w, v \in Worker :
         Holds(w, n) /\ Holds(v, n) => w = v
    /\ \A w \in Worker : \A n \in Node : \A i, j \in DOMAIN stack[w] :
         Claimed(stack[w][i], n) /\ Claimed(stack[w][j], n) => i = j
    /\ \A w \in Worker : At(w, "own") => ~OnStack(w, call[w].node)

(* The lock says whether somebody works on the definition: no error path    *)
(* leaves a definition locked for the rest of the compilation.              *)
LockedIsHeld ==
    \A n \in Node : lock[n] = "RUNNING" <=> \E w \in Worker : Holds(w, n)

(* "If its true, we basicly have no other choice then to be in recursion":  *)
(* a circular dependency is only reported by a thread that is working on    *)
(* that definition.                                                         *)
CircularIsReal ==
    [][\A w \in Worker : \A n \in Node :
         <<w, n>> \in circular' \ circular => OnStack(w, n)]_vars

(* What a user of a definition needs of it: the prototype of a function, a  *)
(* type or a variable as it was validated.                                  *)
Usable(n) == state[n] >= (IF n \in Fcn THEN TYPE_READY ELSE ABI_READY)

(* An error that is dropped is dropped with a trace: a validated definition *)
(* rests on usable ones, but for a type in which an error was met, whose    *)
(* error applyTypeSpecifier overwrites, and for what a function's failed    *)
(* statements use (validate(VariableDefinition), validate(Function)).       *)
RestsOnValidated ==
    \A n \in Node : state[n] = VALIDATED =>
        /\ \A m \in ToSet(Signature[n]) : Usable(m) \/ m \in Type \cap faulty
        /\ \A m \in ToSet(body[n]) :
              Usable(m) \/ m \in Type \cap faulty \/ n \in Fcn \cap faulty


(* The definitions the requests of the units reach. *)
Reached == LET Grow(S) == S \cup UNION {ToSet(Signature[n] \o body[n]) : n \in S}
               Start == {r.node : r \in UNION {ToSet(Roots[w]) : w \in Worker}}
               grown[i \in 0..Cardinality(Node)] ==
                   IF i = 0 THEN Start ELSE Grow(grown[i - 1])
           IN  grown[Cardinality(Node)]

(* An error that validate(ctx) is given back: any, but one of a statement.  *)
Returned(n) == Has(n, "signature") \/ (Has(n, "body") /\ n \notin Fcn \ Foreign)

(* What the OK of validate(ctx) stands for: the definitions of the lists    *)
(* are validated, and what errors they have are errors of statements.       *)
ListsDeliver ==
    \A w \in Worker : pc[w] = "done" =>
        \A r \in ToSet(Roots[w]) : r.job = "validate" =>
            state[r.node] >= ABI_READY /\ ~Returned(r.node)

(* When no error was met either, every definition the requests reach is     *)
(* validated, to the last statement: none was passed over, taken for done   *)
(* or left half done, whatever the order in which they need each other.     *)
CleanMeansComplete ==
    (faulty = {} /\ \A w \in Worker : pc[w] = "done") =>
        \A n \in Reached : /\ state[n] >= ABI_READY
                           /\ ~Has(n, "signature") /\ ~Has(n, "body")

(* What the caller of a successful request may rely on. *)
Delivered(request) ==
    LET n == request.node IN
    CASE request.job = "validate" -> Usable(n)
      [] request.job = "abi" -> state[n] >= ABI_READY
      [] request.job = "eval" -> hasValue[n]
      [] OTHER -> TRUE

(* A successful request delivers: a call returns OK only for a definition  *)
(* that is ready for the use its caller makes of it.                        *)
OkMeansReady ==
    \A w \in Worker : At(w, "return") /\ ret[w] = "OK" => Delivered(Answered(w))

(* Success is what it says, for the caller of one request, for a unit and   *)
(* for the validation of everything.                                        *)
SuccessIsReal == TypeOK /\ OkMeansReady /\ ListsDeliver /\ CleanMeansComplete

(* Every thread comes to the end of its unit, or to an error in it: nobody  *)
(* waits for ever for a definition that is being validated.                 *)
UnitsEnd == <>Stopped
=============================================================================
