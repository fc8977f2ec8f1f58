----------------------------- MODULE TypedValues -----------------------------
(***************************************************************************)
(* Integers of eight kinds, and the three places that compute with them:   *)
(* the validator, which gives every expression a kind and inserts casts    *)
(* (src/src/validator.cpp), the evaluator, which folds an expression into  *)
(* a value of its kind (interpreter_eval.cpp), and the virtual machine,    *)
(* which has operations for the two larger widths only and keeps every     *)
(* value in a word of 64 bits (interpreter_build.cpp selects its opcodes,  *)
(* interpreter_exec.cpp runs them).  A program is                          *)
(*     x : target = expression;   x                                        *)
(* whose value the machine leaves on its stack.  Width gives the kinds      *)
(* widths that are smaller than 8, 16, 32 and 64 and in the same order.    *)
(* Floating point kinds and pointers are left out.                         *)
(***************************************************************************)
EXTENDS Integers, Sequences
LOCAL INSTANCE Bitwise

CONSTANTS Width,        \* Width[k]: the width of kind k
          Definitions,  \* Definitions[x]: kind and value of the variable x
          Expressions,  \* what may stand behind the equals sign
          New,          \* the new variable
          Targets       \* the kinds it may have

VARIABLES expression,   \* as validated: every node has its kind
          code,
          ip,
          stack,
          cells,        \* the bytes of every variable, as a number
          halted        \* "no", "end", or "error" where the machine gives up

typedVars == <<expression, code, ip, stack, cells, halted>>

Signed   == {"I8", "I16", "I32", "I64"}
Unsigned == {"U8", "U16", "U32", "U64"}
IntKind  == Signed \cup Unsigned
DT_BOOL  == "U64"
rank(k)  == CASE k \in {"I8", "U8"} -> 1   [] k \in {"I16", "U16"} -> 2
              [] k \in {"I32", "U32"} -> 3 [] k \in {"I64", "U64"} -> 4
Narrow(k) == rank(k) < 3

(* A C++ conversion to kind k, and to the word of the machine's stack.     *)
As(k, n) ==
    LET size == 2 ^ Width[k]
        low  == n % size
    IN  IF k \in Signed /\ 2 * low >= size THEN low - size ELSE low
Wide(n) == As("U64", n)

Value(k, n)      == [form |-> "value", kind |-> k, n |-> n]
Variable(x)      == [form |-> "variable", kind |-> Definitions[x].kind, name |-> x]
Unary(o, e)      == [form |-> "unary", op |-> o, arg |-> e]
Binary(o, l, r)  == [form |-> "binary", op |-> o, left |-> l, right |-> r]
Arrow(e, k)      == [form |-> "arrow", arg |-> e, kind |-> k]
Cast(e, k)       == [form |-> "cast", arg |-> e, kind |-> k]

Relations  == {"==", "#", "<", ">", "<=", ">="}
Shifts     == {"<<", ">>"}
Arithmetic == {"+", "-", "*", "/", "%", "&", "|", "^"}

-----------------------------------------------------------------------------
(* The validator *)

(* castLiteral: a value that is known is converted where it stands.        *)
castLiteral(v, k) == Value(k, As(k, v.n))

(* Between integers there is a cast from every kind to every other.        *)
applyImplicitCast(e, k) ==
    CASE e.kind = k -> e
      [] e.kind # k /\ e.form = "value" -> castLiteral(e, k)
      [] OTHER -> Cast(e, k)

(* Mutant: the operand on the right is taken as it is. *)
LeftCastOnly(o, l, r) ==
    IF o \in Relations
    THEN [form |-> "binary", op |-> o, left |-> l, right |-> r, kind |-> DT_BOOL]
    ELSE LET k == IF rank(l.kind) < rank(r.kind) THEN r.kind ELSE l.kind
         IN  [form |-> "binary", op |-> o, left |-> applyImplicitCast(l, k),
              right |-> r, kind |-> k]

(* The operand of the lower rank is cast; of one rank, the one on the      *)
(* right.  The operands of a relation are not.                             *)
resolveResultType(o, l, r) ==
    IF o \in Relations
    THEN [form |-> "binary", op |-> o, left |-> l, right |-> r, kind |-> DT_BOOL]
    ELSE LET k == IF rank(l.kind) < rank(r.kind) THEN r.kind ELSE l.kind
         IN  [form |-> "binary", op |-> o, left |-> applyImplicitCast(l, k),
              right |-> applyImplicitCast(r, k), kind |-> k]

RECURSIVE validateExpression(_)
validateExpression(e) ==
    CASE e.form \in {"value", "variable"} -> e
      [] e.form = "arrow"  -> [e EXCEPT !.arg = validateExpression(@)]
      [] e.form = "binary" -> resolveResultType(e.op, validateExpression(e.left),
                                                validateExpression(e.right))
      [] e.form = "unary"  ->
            LET a == validateExpression(e.arg)
            IN  [form |-> "unary", op |-> e.op, arg |-> a,
                 kind |-> IF e.op = "!" THEN DT_BOOL ELSE a.kind]

(* A definition's expression stands in a unary one without an operator, so *)
(* that even a literal is cast to the variable's type by a node.           *)
validateDefinition(e, k) == applyImplicitCast(validateExpression(Unary("none", e)), k)

-----------------------------------------------------------------------------
(* The evaluator *)

Abs(n) == IF n < 0 THEN -n ELSE n
(* Towards zero; by zero, the value it is folded to.                       *)
Quotient(l, r) == IF r = 0 THEN 0
                  ELSE (IF (l < 0) = (r < 0) THEN 1 ELSE -1) * (Abs(l) \div Abs(r))

(* Before it is written to the field of the result's kind.  What it does   *)
(* not know (relations, shifts, an explicit cast) becomes 0.               *)
applyArithmetic(o, l, r) ==
    CASE o = "+" -> l + r
      [] o = "-" -> l - r
      [] o = "*" -> l * r
      [] o = "/" -> Quotient(l, r)
      [] o = "%" -> IF r = 0 THEN 0 ELSE l - r * Quotient(l, r)
      [] o = "&" -> Wide(l) & Wide(r)
      [] o = "|" -> Wide(l) | Wide(r)
      [] o = "^" -> Wide(l) ^^ Wide(r)
      [] OTHER   -> 0

applyUnary(o, n) ==
    CASE o \in {"none", "+"} -> n
      [] o = "-" -> -n
      [] o = "!" -> IF n = 0 THEN 1 ELSE 0
      [] o = "~" -> -n - 1

RECURSIVE eval(_)
eval(e) ==
    CASE e.form = "value"    -> e.n
      [] e.form = "variable" -> Definitions[e.name].n
      [] e.form = "cast"     -> As(e.kind, eval(e.arg))
      [] e.form = "arrow"    -> 0
      [] e.form = "unary"    -> As(e.arg.kind, applyUnary(e.op, eval(e.arg)))
      [] e.form = "binary"   ->
            As(e.left.kind, applyArithmetic(e.op, eval(e.left), eval(e.right)))

-----------------------------------------------------------------------------
(* The bytecode compiler *)

Op(o)      == [op |-> o]
On(o, k)   == [op |-> o, kind |-> k]
Push(w)    == [op |-> "PUSH", word |-> w]
Local(o, k, x) == [op |-> o, kind |-> k, name |-> x]

(* The kind whose operations a kind is computed with.                      *)
getDtypeOffsetNoCast(k) ==
    CASE k \in {"I8", "I16"} -> "I32" [] k \in {"U8", "U16"} -> "U32" [] OTHER -> k

(* Equality of the narrow kinds is the one of 64 bits.                     *)
getDtypeOffsetSizeBased(k) == IF k \in {"I32", "U32"} THEN "I32" ELSE "I64"

(* The operand is read as the signed kind for U16, and extended by the     *)
(* push; all others by their own sign.                                     *)
pushPushInstruction(e) ==
    Push(IF e.kind = "U16" THEN As("U32", As("I16", e.n)) ELSE Wide(e.n))

(* Only the signed kinds up to 32 bits have one, for a test of the two     *)
(* kinds of 64 bits is never true.                                         *)
pushBoolCast(k) == IF k \in Signed \ {"I64"} THEN <<Op("BOOL_I32")>> ELSE <<>>

(* Mutant: extends by the sign of the kind it goes to. *)
SignOfTarget(src, dest) ==
    LET to == IF Narrow(dest) THEN getDtypeOffsetNoCast(dest) ELSE dest IN
    CASE rank(src) < 4 /\ to = "I64" -> <<Op("SEXT_32_TO_64")>>
      [] rank(src) < 4 /\ to = "U64" -> <<Op("ZEXT_32_TO_64")>>
      [] rank(src) < 4 /\ src \in Signed /\ to = "U32" -> <<Op("CAST_I32_TO_U32")>>
      [] rank(src) < 4 /\ src \in Unsigned /\ to = "I32" -> <<Op("CAST_U32_TO_I32")>>
      [] rank(src) = 4 /\ rank(to) = 3 -> <<Op("TRUNC_64_TO_32")>>
      [] OTHER -> <<>>

selectCastOpcode(src, dest) ==
    LET to == getDtypeOffsetNoCast(dest) IN
    CASE rank(src) < 4 /\ src \in Signed   /\ rank(to) = 4 -> <<Op("SEXT_32_TO_64")>>
      [] rank(src) < 4 /\ src \in Unsigned /\ rank(to) = 4 -> <<Op("ZEXT_32_TO_64")>>
      [] rank(src) < 4 /\ src \in Signed   /\ to = "U32"   -> <<Op("CAST_I32_TO_U32")>>
      [] rank(src) < 4 /\ src \in Unsigned /\ to = "I32"   -> <<Op("CAST_U32_TO_I32")>>
      [] rank(src) = 4 /\ rank(to) = 3                     -> <<Op("TRUNC_64_TO_32")>>
      [] src = "I64" /\ to = "U64"                         -> <<Op("CAST_I64_TO_U64")>>
      [] src = "U64" /\ to = "I64"                         -> <<Op("CAST_U64_TO_I64")>>
      [] OTHER -> <<>>

(* By the left operand alone. *)
selectOperatorOpcode(o, k) ==
    On(o, IF o \in {"==", "#"} THEN getDtypeOffsetSizeBased(k) ELSE getDtypeOffsetNoCast(k))

(* Nothing is emitted for ~, and + needs nothing. *)
pushOperator(o, k) ==
    CASE o = "-"  -> <<On("NEG", getDtypeOffsetNoCast(k))>>
      [] o = "!"  -> Append(pushBoolCast(k), Op("NOT_BOOL"))
      [] OTHER    -> <<>>

RECURSIVE compile(_)
compile(e) ==
    CASE e.form = "value"    -> <<pushPushInstruction(e)>>
      [] e.form = "variable" -> <<Local("GET", e.kind, e.name)>>
      [] e.form \in {"cast", "arrow"} ->
            compile(e.arg) \o selectCastOpcode(e.arg.kind, e.kind)
      [] e.form = "unary"    -> compile(e.arg) \o pushOperator(e.op, e.arg.kind)
      [] e.form = "binary"   ->
            compile(e.left) \o compile(e.right)
                \o <<selectOperatorOpcode(e.op, e.left.kind)>>

(* The definition, and an expression that asks for the variable.           *)
compileProgram(e) ==
    compile(e) \o <<Local("SET", e.kind, New), Local("GET", e.kind, New)>>

-----------------------------------------------------------------------------
(* The virtual machine.  Words are 0 .. 2^64 - 1.                          *)

Oc == code[ip]
Top == stack[Len(stack)]
Below == stack[Len(stack) - 1]
Dropped(n) == SubSeq(stack, 1, Len(stack) - n)
OcIs(o) == halted = "no" /\ ip <= Len(code) /\ Oc.op \in o

Leaves(words) == /\ stack' = words
                 /\ ip' = ip + 1
                 /\ UNCHANGED <<expression, code, halted>>

ExecPush == OcIs({"PUSH"}) /\ Leaves(Append(stack, Oc.word)) /\ UNCHANGED cells

(* A signed kind is extended by its sign.                                  *)
ExecGet == /\ OcIs({"GET"})
           /\ Leaves(Append(stack, Wide(As(Oc.kind, cells[Oc.name]))))
           /\ UNCHANGED cells

(* The low bytes of the word are stored, as many as the kind has.          *)
ExecSet == /\ OcIs({"SET"})
           /\ cells' = [cells EXCEPT ![Oc.name] = Top % (2 ^ Width[Oc.kind])]
           /\ Leaves(Dropped(1))

(* The part of the word the kind has is negated, the part above stays.     *)
ExecNegate ==
    /\ OcIs({"NEG"})
    /\ LET size == 2 ^ Width[Oc.kind]
       IN  Leaves(Append(Dropped(1), (Top - (Top % size)) + ((size - (Top % size)) % size)))
    /\ UNCHANGED cells

ExecBool ==
    /\ OcIs({"BOOL_I32", "NOT_BOOL"})
    /\ LET seen == IF Oc.op = "BOOL_I32" THEN As("U32", Top) # 0 ELSE Top = 0
       IN  Leaves(Append(Dropped(1), IF seen THEN 1 ELSE 0))
    /\ UNCHANGED cells

ExecCast ==
    /\ OcIs({"SEXT_32_TO_64", "ZEXT_32_TO_64", "TRUNC_64_TO_32", "CAST_I32_TO_U32",
           "CAST_U32_TO_I32", "CAST_I64_TO_U64", "CAST_U64_TO_I64"})
    /\ Leaves(Append(Dropped(1),
          CASE Oc.op \in {"SEXT_32_TO_64", "CAST_U32_TO_I32"} -> Wide(As("I32", Top))
            [] Oc.op \in {"ZEXT_32_TO_64", "TRUNC_64_TO_32", "CAST_I32_TO_U32"} -> As("U32", Top)
            [] OTHER -> Top))
    /\ UNCHANGED cells

Holds(o, l, r) ==
    CASE o = "==" -> l = r [] o = "#"  -> l # r  [] o = "<" -> l < r
      [] o = ">"  -> l > r [] o = "<=" -> l <= r [] o = ">=" -> l >= r

(* BINARY_EXP of each opcode; OR and XOR are written with &.               *)
Computed(o, l, r) ==
    CASE o \in Relations        -> IF Holds(o, l, r) THEN 1 ELSE 0
      [] o \in {"|", "^"}       -> Wide(l) & Wide(r)
      [] o = "<<"               -> l * 2 ^ r
      [] o = ">>"               -> l \div 2 ^ r
      [] OTHER                  -> applyArithmetic(o, l, r)

(* What the processor traps on, and the count of a shift that C++ leaves   *)
(* undefined.                                                              *)
Refused(o, k, l, r) ==
    \/ o \in {"/", "%"} /\ r = 0
    \/ o \in {"/", "%"} /\ k \in Signed /\ r = -1 /\ l = -(2 ^ (Width[k] - 1))
    \/ o \in Shifts /\ r \notin 0 .. Width[k] - 1

BinaryOps == (Arithmetic \ {"/"}) \cup Relations \cup Shifts

(* Both operands are read in the opcode's kind, its answer is extended by  *)
(* that kind's sign.                                                       *)
ExecBinary ==
    /\ OcIs(BinaryOps)
    /\ LET l == As(Oc.kind, Below)
           r == As(Oc.kind, Top)
       IN  /\ ~Refused(Oc.op, Oc.kind, l, r)
           /\ Leaves(Append(Dropped(2), Wide(As(Oc.kind, Computed(Oc.op, l, r)))))
    /\ UNCHANGED cells

(* binaryDiv has the stack pointer by value: the quotient goes where the   *)
(* dividend was, and the divisor stays on top.                             *)
ExecDivide ==
    /\ OcIs({"/"})
    /\ LET l == As(Oc.kind, Below)
           r == As(Oc.kind, Top)
       IN  /\ ~Refused("/", Oc.kind, l, r)
           /\ Leaves(Dropped(2) \o <<Wide(As(Oc.kind, Quotient(l, r))), Top>>)
    /\ UNCHANGED cells

(* The machine reports a division by zero; the rest kills the process or   *)
(* is not defined.                                                         *)
ExecRefused ==
    /\ OcIs(BinaryOps \cup {"/"})
    /\ Refused(Oc.op, Oc.kind, As(Oc.kind, Below), As(Oc.kind, Top))
    /\ halted' = "error"
    /\ UNCHANGED <<expression, code, ip, stack, cells>>

ExecHalt ==
    /\ halted = "no" /\ ip > Len(code)
    /\ halted' = "end"
    /\ UNCHANGED <<expression, code, ip, stack, cells>>

Programs == {validateDefinition(e, k) : e \in Expressions, k \in Targets}

TypedStart ==
    /\ code = compileProgram(expression)
    /\ ip = 1
    /\ stack = <<>>
    /\ cells = [x \in DOMAIN Definitions \cup {New} |->
                IF x = New THEN 0 ELSE Definitions[x].n % 2 ^ Width[Definitions[x].kind]]
    /\ halted = "no"

TypedNext == \/ ExecPush \/ ExecGet \/ ExecSet \/ ExecNegate \/ ExecBool \/ ExecCast
             \/ ExecBinary \/ ExecDivide \/ ExecRefused \/ ExecHalt

-----------------------------------------------------------------------------
(* What an expression means: every operation in the kind of its operands,  *)
(* every value in the range of its kind.                                   *)

(* In the integers: the quotient leaves less than the divisor, of the sign *)
(* of the dividend.                                                        *)
Exact(o, l, r) ==
    CASE o = "<<" -> l * 2 ^ r
      [] o = ">>" -> l \div 2 ^ r
      [] o \in {"/", "%"} /\ r # 0 ->
            LET Left(q) == l - r * q
                quotient == CHOOSE q \in -Abs(l) .. Abs(l) :
                                Abs(Left(q)) < Abs(r) /\ Left(q) * l >= 0
            IN  IF o = "/" THEN quotient ELSE Left(quotient)
      [] OTHER -> applyArithmetic(o, l, r)

RECURSIVE Means(_)
Means(e) ==
    CASE e.form = "value"    -> e.n
      [] e.form = "variable" -> Definitions[e.name].n
      [] e.form \in {"cast", "arrow"} -> As(e.kind, Means(e.arg))
      [] e.form = "unary"    -> As(e.kind, applyUnary(e.op, Means(e.arg)))
      [] e.form = "binary"   ->
            LET l == Means(e.left)
                r == Means(e.right)
            IN  CASE e.op \in Relations  -> IF Holds(e.op, l, r) THEN 1 ELSE 0
                  [] e.op \in Shifts /\ r \notin 0 .. Width[e.kind] - 1 -> 0
                  [] OTHER -> As(e.kind, Exact(e.op, l, r))

OperandsOf(e) == CASE e.form \in {"value", "variable"} -> {}
              [] e.form = "binary" -> {e.left, e.right}
              [] OTHER -> {e.arg}

RECURSIVE Nodes(_)
Nodes(e) == {e} \cup UNION {Nodes(a) : a \in OperandsOf(e)}

InKind(k, n) == As(k, n) = n

(* C++ leaves the overflow of the signed kinds of 32 and 64 bits open.     *)
Overflows(e) ==
    /\ e.kind \in {"I32", "I64"}
    /\ \/ e.form = "unary" /\ e.op = "-" /\ ~InKind(e.kind, -Means(e.arg))
       \/ /\ e.form = "binary" /\ e.op \in {"+", "-", "*"}
          /\ ~InKind(e.kind, Exact(e.op, Means(e.left), Means(e.right)))

(* The evaluator knows neither relations nor shifts nor explicit casts.    *)
Foldable(e) ==
    \A a \in Nodes(e) :
        /\ a.form # "arrow"
        /\ a.form = "binary" => a.op \in Arithmetic

(* Left out: the operations the machine does not have (~) or does not do   *)
(* as said (|, ^ and the quotient that leaves its divisor on the stack);   *)
(* shifts by more than the kind has; relations whose operands, which       *)
(* nothing casts to one kind, are not numbers of the kind of the opcode;   *)
(* and values that do not fit a narrow kind where more of the word is      *)
(* looked at than the kind has, for they are not cut to it before they     *)
(* are stored.  wide says that whoever takes e looks at more of it: a cast *)
(* to a wider kind, a relation, a remainder, a shift, a negation.          *)
RECURSIVE Runnable(_, _)
Runnable(e, wide) ==
    /\ CASE e.form \in {"value", "variable"} -> TRUE
         [] e.form \in {"cast", "arrow"} ->
                Runnable(e.arg, wide \/ Width[e.kind] > Width[e.arg.kind])
         [] e.form = "unary" -> e.op # "~" /\ Runnable(e.arg, wide \/ e.op = "!")
         [] e.form = "binary" /\ e.op \in Relations ->
                LET k == selectOperatorOpcode(e.op, e.left.kind).kind
                IN  \A a \in {e.left, e.right} :
                        /\ Runnable(a, TRUE)
                        /\ e.left.kind = e.right.kind \/ InKind(k, Means(a))
                        /\ rank(a.kind) < rank(k) => a.form \in {"value", "variable"}
         [] OTHER ->
                /\ e.op \notin {"|", "^", "/"}
                /\ e.op \in Shifts => Means(e.right) \in 0 .. Width[e.kind] - 1
                /\ Runnable(e.left, wide \/ e.op \in {"%", ">>"})
                /\ Runnable(e.right, wide \/ e.op \in {"%", "<<", ">>"})
    /\ wide /\ Narrow(e.kind) =>
         CASE e.form = "unary" /\ e.op # "!" -> InKind(e.kind, applyUnary(e.op, Means(e.arg)))
           [] e.form \in {"cast", "arrow"} -> InKind(e.kind, Means(e.arg))
           [] e.form = "binary" /\ e.op \in Arithmetic \cup {"<<"} ->
                  InKind(e.kind, Exact(e.op, Means(e.left), Means(e.right)))
           [] OTHER -> e.form # "value" \/ e.kind # "U16" \/ InKind("I16", e.n)

Result == As(expression.kind, Top)

(* What the machine leaves in the variable is what the expression means,   *)
(* and so is what the evaluator makes of it, with the exceptions Runnable  *)
(* and Foldable name.                                                      *)
ComputesAsMeant ==
    halted = "end" /\ ~(\E a \in Nodes(expression) : Overflows(a)) =>
        /\ Runnable(expression, FALSE) => Result = Means(expression) /\ Len(stack) = 1
        /\ Foldable(expression) => eval(expression) = Means(expression)
=============================================================================
