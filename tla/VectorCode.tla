------------------------------ MODULE VectorCode ------------------------------
(***************************************************************************)
(* The code of statements about arrays and slices: the types and casts     *)
(* src/src/validator.cpp gives their expressions, and the opcodes          *)
(* src/src/interpreter_build.cpp makes of them.  An array lies in its      *)
(* cells, a slice is a pointer and a length; an operation on them is one   *)
(* opcode with a descriptor, and takes its result's place from the stack   *)
(* or from the machine's scratch memory.                                   *)
(*                                                                         *)
(* Every element takes one cell, whatever its kind.  The kinds are N and I *)
(* (integers of the small width: no opcode casts one to the other), L (the *)
(* integer a literal is) and F, of which the cell holds the halves: the    *)
(* number 3 is the cell 3 as an I and the cell 6 as an F.                  *)
(***************************************************************************)
EXTENDS Integers, Sequences, FiniteSets, TLC

ElementKind == {"N", "I", "L", "F"}
KindRank == [N |-> 2, I |-> 3, L |-> 4, F |-> 6]

makeArray(k, n) == [kind |-> "array", elem |-> k, n |-> n]
makeSlice(k)    == [kind |-> "slice", elem |-> k, n |-> 0]
Scalar(k)       == [kind |-> "scalar", elem |-> k, n |-> 0]
Untyped          == [kind |-> "none", elem |-> "none", n |-> 0]
ArrayLike(t)  == t.kind \in {"array", "slice"}
areElementsTheSame(t, u) == ArrayLike(t) /\ ArrayLike(u) /\ t.elem = u.elem
Rank(t) == CASE t.kind = "array" -> 11 [] t.kind = "slice" -> 10
             [] t.kind = "scalar" -> KindRank[t.elem] [] OTHER -> 0
CellsOf(t) == CASE t.kind = "array" -> t.n [] t.kind = "slice" -> 2 [] OTHER -> 1

Halved(r) == IF r < 0 THEN -((-r) \div 2) ELSE r \div 2
(* A value of kind k as one of kind to.                                     *)
CastCell(k, to, r) == CASE k = "F" /\ to # "F" -> Halved(r)
                        [] k # "F" /\ to = "F" -> 2 * r
                        [] OTHER -> r
Apply(o, k, x, y) == CASE o = "+" -> x + y
                       [] o = "-" -> x - y
                       [] o = "*" -> IF k = "F" THEN (x * y) \div 2 ELSE x * y

(* The forms of an expression. *)
Lit(k, r)    == [form |-> "value", kind |-> k, raw |-> r]
Named(x)         == [form |-> "variable", name |-> x]
Wrapped(e)         == [form |-> "plain", arg |-> e]
Minus(e)         == [form |-> "minus", arg |-> e]
Combined(o, l, r)      == [form |-> "op", op |-> o, left |-> l, right |-> r]
ListOf(items)    == [form |-> "list", items |-> items]
ItemOf(e, i)         == [form |-> "at", left |-> e, right |-> i]
Absent           == [form |-> "absent"]
Ranged(e, lo, hi) == [form |-> "range", left |-> e, lo |-> lo, hi |-> hi]
LengthOf(e)      == [form |-> "length", arg |-> e]

-----------------------------------------------------------------------------
(* The validator *)

WithType(e, t) == e @@ [type |-> t]
CastNode(e, t) == [form |-> "cast", arg |-> e, type |-> t]
Retyped(e, t)  == [e EXCEPT !.type = t]

(* What becomes of a value of type s where one of type t is expected.      *)
castKindOf(s, t) ==
    CASE s = Untyped \/ t = Untyped -> "invalid"
      [] s = t -> "exact"
      [] s.kind = "scalar" /\ t.kind = "scalar" -> "exact"
      [] s.kind = "array" /\ t.kind = "array" -> IF s.n = t.n THEN "exact" ELSE "invalid"
      [] ArrayLike(s) /\ ArrayLike(t) -> "exact"
      [] ArrayLike(t) -> IF s.elem = t.elem THEN "lower_equal" ELSE "lower"
      [] OTHER -> "invalid"

(* A scalar in an array's place is cast to the element, or left alone.     *)
wrapInCast(e, t, castKind) ==
    CASE castKind = "lower_equal" -> e
      [] castKind = "lower" -> CastNode(e, Scalar(t.elem))
      [] OTHER -> CastNode(e, t)

castTo(e, t) ==
    LET castKind == castKindOf(e.type, t)
    IN  CASE e.type = Untyped \/ t = Untyped \/ castKind = "invalid" -> Retyped(e, Untyped)
          [] e.type = t -> e
          [] e.form = "value" /\ t.kind = "scalar" /\ e.type # t ->
                [e EXCEPT !.raw = CastCell(e.type.elem, t.elem, @), !.kind = t.elem, !.type = t]
          [] OTHER -> wrapInCast(e, t, castKind)

canConcat(l, r) == ArrayLike(l) /\ ArrayLike(r) /\ ~ (l.elem # "N" /\ r.elem = "N")

(* Mutant: the operand of the lower rank gives the type. *)
LowerRank(o, l, r) ==
    IF o = ".."
    THEN WithType(Combined(o, l, CastNode(r, l.type)),
           CASE ~ canConcat(l.type, r.type) -> Untyped
             [] l.type.kind = "array" /\ r.type.kind = "array" ->
                    makeArray(l.type.elem, l.type.n + r.type.n)
             [] OTHER -> makeSlice(l.type.elem))
    ELSE IF Rank(l.type) > Rank(r.type)
         THEN LET a == castTo(l, r.type) IN WithType(Combined(o, a, r), r.type)
         ELSE LET b == castTo(r, l.type) IN WithType(Combined(o, l, b), l.type)

(* The operand of the lower rank is cast to the other's type, which is the *)
(* result's; what is appended is always cast to the type of what it is     *)
(* appended to, its length left out of account.                            *)
resolveVectorType(o, l, r) ==
    IF o = ".."
    THEN WithType(Combined(o, l, CastNode(r, l.type)),
           CASE ~ canConcat(l.type, r.type) -> Untyped
             [] l.type.kind = "array" /\ r.type.kind = "array" ->
                    makeArray(l.type.elem, l.type.n + r.type.n)
             [] OTHER -> makeSlice(l.type.elem))
    ELSE IF Rank(l.type) < Rank(r.type)
         THEN LET a == castTo(l, r.type) IN
              WithType(Combined(o, a, r), IF a.type = Untyped THEN Untyped ELSE r.type)
         ELSE LET b == castTo(r, l.type) IN
              WithType(Combined(o, l, b), IF b.type = Untyped THEN Untyped ELSE l.type)

(* A range whose bounds are known is an array, whatever it is a range of.  *)
rangeType(t, lo, hi) ==
    LET known == lo.form \in {"absent", "value"}
                    /\ (hi.form = "value" \/ (hi.form = "absent" /\ t.kind = "array"))
        from  == IF lo.form = "absent" THEN 0 ELSE lo.raw
        to    == IF hi.form = "absent" THEN t.n - 1 ELSE hi.raw
    IN  CASE ~ ArrayLike(t) -> Untyped
          [] ~ known -> makeSlice(t.elem)
          [] to < from \/ from < 0 -> Untyped
          [] OTHER -> makeArray(t.elem, to - from + 1)

(* The type most items can be cast to: the first of the highest rank.      *)
dominantType(items) ==
    items[CHOOSE i \in DOMAIN items :
            /\ \A j \in DOMAIN items : Rank(items[j].type) <= Rank(items[i].type)
            /\ \A j \in 1..(i - 1) : Rank(items[j].type) < Rank(items[i].type)].type

listTyped(items, wanted, target) ==
    LET cast == [i \in DOMAIN items |-> castTo(items[i], wanted)]
    IN  WithType(ListOf(cast),
            IF \/ target.kind = "array" /\ target.n # Len(items)
               \/ \E i \in DOMAIN cast : cast[i].type = Untyped
            THEN Untyped ELSE makeArray(wanted.elem, Len(items)))
itemTyped(e) == WithType(e, IF ArrayLike(e.left.type) THEN Scalar(e.left.type.elem) ELSE Untyped)
rangeTyped(e) == WithType(e, rangeType(e.left.type, e.lo, e.hi))

(* An expression with the types and the casts, where target is expected;   *)
(* env gives the variables their types.                                    *)
RECURSIVE validateVector(_, _, _)
validateVector(e, target, env) ==
    CASE e.form = "value" -> WithType(e, Scalar(e.kind))
      [] e.form = "variable" -> WithType(e, env[e.name].type)
      [] e.form = "absent" -> WithType(e, Untyped)
      [] e.form \in {"plain", "minus"} ->
            LET a == validateVector(e.arg, target, env)
            IN  [form |-> e.form, arg |-> a, type |-> a.type]
      [] e.form = "op" -> resolveVectorType(e.op, validateVector(e.left, Untyped, env),
                                                  validateVector(e.right, Untyped, env))
      [] e.form = "at" ->
            itemTyped(ItemOf(validateVector(e.left, Untyped, env), validateVector(e.right, Untyped, env)))
      [] e.form = "range" ->
            rangeTyped(Ranged(validateVector(e.left, Untyped, env), validateVector(e.lo, Untyped, env),
                              validateVector(e.hi, Untyped, env)))
      [] e.form = "length" ->
            LET a == validateVector(e.arg, Untyped, env)
            IN  WithType(LengthOf(a), IF ArrayLike(a.type) THEN Scalar("L") ELSE Untyped)
      [] e.form = "list" ->
            LET items  == [i \in DOMAIN e.items |-> validateVector(e.items[i], Untyped, env)]
            IN  listTyped(items, IF ArrayLike(target) THEN Scalar(target.elem) ELSE dominantType(items),
                          target)

(* The type a definition asks for: T[n], T[const], T, or T[], which takes  *)
(* its kind and its length from the expression of type t.                  *)
resolveAmbagiousType(k, t) == CASE t.kind = "array" -> makeArray(k, t.n)
                                [] t.kind = "slice" -> makeSlice(k)
                                [] OTHER -> Untyped
AskedType(d) == CASE d.form = "array"  -> makeArray(d.elem, d.n)
                  [] d.form = "const"  -> makeSlice(d.elem)
                  [] d.form = "scalar" -> Scalar(d.elem)
                  [] d.form = "open"   -> Untyped

(* The expression of a definition, its type is the variable's.             *)
Fitting(c, t) == IF c.form = "cast" /\ c.type # t /\ c.type # Untyped
                 THEN [form |-> "plain", arg |-> c, type |-> t] ELSE c
CastFitting(v, t) == Fitting(castTo(v, t), t)
Defined(d, v) ==
    CastFitting(v, IF d.form = "open" THEN resolveAmbagiousType(d.elem, v.type) ELSE AskedType(d))
validateVectorDefinition(d, env) == Defined(d, validateVector(Wrapped(d.e), AskedType(d), env))

(* Of an assignment: the place first, then the value cast to its type.     *)
validatePlace(a, env) ==
    validateVector(IF a.is = "assign_range" THEN Ranged(Named(a.name), a.lo, a.hi)
                       ELSE ItemOf(Named(a.name), a.lo), Untyped, env)
validateAs(e, t, env) == castTo(validateVector(e, t, env), t)
validateAssigned(a, env) == validateAs(Wrapped(a.e), validatePlace(a, env).type, env)

(* A statement that has types throughout is compiled.                      *)
isTyped(s, env) ==
    CASE s.is = "define" -> validateVectorDefinition(s, env).type # Untyped
      [] s.is \in {"assign_range", "assign_at"} ->
            validatePlace(s, env).type # Untyped /\ validateAssigned(s, env).type # Untyped
      [] s.is = "call" -> \A i \in DOMAIN s.args :
            castTo(validateVector(s.args[i], Untyped, env), s.types[i]).type # Untyped
      [] s.is = "show" -> \A i \in DOMAIN s.args :
            validateVector(s.args[i], Untyped, env).type # Untyped
RECURSIVE validateScope(_, _, _)
validateScope(children, i, env) ==
    \/ i > Len(children)
    \/ /\ isTyped(children[i], env)
       /\ validateScope(children, i + 1,
             IF children[i].is # "define" THEN env
             ELSE (children[i].name :> [type |-> validateVectorDefinition(children[i], env).type]) @@ env)

(* What brackets and casts are around.  At any other unary operator the    *)
(* loop in the code goes round for ever.                                   *)
RECURSIVE unwrapWithCasts(_)
unwrapWithCasts(e) == IF e.form \in {"plain", "cast"} THEN unwrapWithCasts(e.arg) ELSE e

-----------------------------------------------------------------------------
(* The opcodes *)

Bare(o)      == [op |-> o]
OcN(o, n)  == [op |-> o, n |-> n]
OcCast(k, to) == [op |-> "CAST", src |-> k, kind |-> to]
OcOp(o, k) == [op |-> "OP", oper |-> o, kind |-> k]
(* dest: whether the result's place is taken from the scratch memory.      *)
Vec(o, d)  == [op |-> o, desc |-> d]
Desc(k, o, dest) == [kind |-> k, src |-> k, oper |-> o, dest |-> dest]

(* The state of the compiler: the code, what is known of the vector last   *)
(* compiled, whether scratch memory is used, the variables and the room    *)
(* for locals.                                                             *)
Emit(st, ops) == [st EXCEPT !.code = @ \o ops]
pushLocal(st, t) == [st EXCEPT !.top = @ + CellsOf(t)]

selectElementCast(k, to) == IF k = to \/ {k, to} = {"N", "I"} THEN <<>> ELSE <<OcCast(k, to)>>

compileVariable(st, e, target, flags) ==
    LET def     == st.env[e.name]
        lengths == "length" \in flags \/ target.kind = "slice"
    IN  CASE def.type.kind = "array" ->
               [Emit(st, <<OcN("LEA", def.at)>> \o
                         (IF "stack_value" \in flags THEN <<OcN("LOAD_BLOB", def.type.n)>>
                          ELSE IF lengths THEN <<OcN("PUSH", def.type.n)>> ELSE <<>>))
                    EXCEPT !.isTmp = TRUE]
          [] def.type.kind = "slice" ->
               [Emit(st, <<OcN("GET", def.at)>> \o
                         (IF lengths THEN <<OcN("GET", def.at + 1)>> ELSE <<>>))
                    EXCEPT !.isTmp = TRUE]
          [] OTHER -> Emit(st, <<OcN(IF "lvalue" \in flags THEN "LEA" ELSE "GET", def.at)>>)

(* Mutant: the result of a step in between is written to the place of the whole. *)
DestinationForAll(st, desc, isRoot) ==
    IF isRoot THEN [st EXCEPT !.isTmp = FALSE]
    ELSE [st EXCEPT !.isTmp = TRUE, !.vecTmpMemUsed = TRUE]

(* The root of an expression writes to the place on the stack, what is     *)
(* below it to the scratch memory.                                         *)
pushVecOperands(st, desc, isRoot) ==
    IF isRoot
    THEN [st EXCEPT !.isTmp = FALSE, !.code[Len(st.code)] = Vec(@.op, desc)]
    ELSE [st EXCEPT !.isTmp = TRUE, !.vecTmpMemUsed = TRUE,
                    !.code[Len(st.code)] = Vec(@.op, [desc EXCEPT !.dest = TRUE])]
pushVec(st, o, desc, isRoot) == pushVecOperands(Emit(st, <<Vec(o, desc)>>), desc, isRoot)

tryVectorization(st, e, isRoot) ==
    LET left  == ArrayLike(e.left.type)
        right == ArrayLike(e.right.type)
        main  == IF left THEN e.left.type ELSE e.right.type
        o     == CASE left /\ right /\ e.op = ".." -> "VEC_CAT"
                   [] left /\ right /\ e.op # ".." -> "VEC_VV"
                   [] left /\ ~ right -> "VEC_VS"
                   [] OTHER -> "VEC_SV"
    IN  pushVec(st, o, Desc(main.elem, e.op, FALSE), isRoot)

RECURSIVE compileNode(_, _, _, _)

(* The length of an array-like value that is on no stack yet.              *)
compileLength(st, e) ==
    LET tmp == unwrapWithCasts(e)
    IN  CASE e.type.kind = "array" -> Emit(st, <<OcN("PUSH", e.type.n)>>)
          [] e.type.kind = "slice" /\ tmp.form = "variable" ->
                Emit(st, <<OcN("GET", st.env[tmp.name].at + 1)>>)
          [] OTHER -> Emit(compileNode(st, e, Untyped, {"length"}), <<Bare("SWAP"), Bare("POP")>>)

compileBound(st, bound) == IF bound.form = "absent" THEN Emit(st, <<OcN("PUSH", 0)>>)
                           ELSE compileNode(st, bound, Untyped, {})

(* Mutant: the end of a range is not part of it. *)
EndExcluded(st, e, flags) ==
    LET ahead == "length" \in flags /\ e.type.kind # "array"
        begun == Emit(compileBound(st, e.lo), <<Bare("DUP")>>)
        ended == IF e.hi.form = "absent" THEN compileLength(begun, e.left)
                 ELSE compileNode(begun, e.hi, Untyped, {})
        long  == Emit(ended, <<Bare("SWAP"), OcOp("-", "I"), Bare("SWAP")>>)
        based == IF ahead THEN Emit(compileNode(long, e.left, Untyped, {}), <<Bare("SWAP")>>)
                 ELSE compileBound(compileNode(st, e.left, Untyped, flags \cap {"lvalue"}), e.lo)
        there == Emit(based, <<Bare("PTR_IDX")>>)
    IN  CASE "length" \notin flags -> there
          [] "length" \in flags /\ ahead -> Emit(there, <<Bare("SWAP")>>)
          [] OTHER -> Emit(there, <<OcN("PUSH", e.type.n)>>)

(* A range by steps of one: the pointer moved to its begin, and where the  *)
(* length is wanted, below it the length it has, known or computed before. *)
compileRangeSlicing(st, e, flags) ==
    LET ahead == "length" \in flags /\ e.type.kind # "array"
        begun == Emit(compileBound(st, e.lo), <<Bare("DUP")>>)
        ended == IF e.hi.form = "absent" THEN compileLength(begun, e.left)
                 ELSE compileNode(begun, e.hi, Untyped, {})
        long  == Emit(ended, <<Bare("SWAP"), OcOp("-", "I")>> \o
                     (IF e.hi.form = "absent" THEN <<>> ELSE <<OcN("PUSH", 1), OcOp("+", "I")>>)
                     \o <<Bare("SWAP")>>)
        based == IF ahead THEN Emit(compileNode(long, e.left, Untyped, {}), <<Bare("SWAP")>>)
                 ELSE compileBound(compileNode(st, e.left, Untyped, flags \cap {"lvalue"}), e.lo)
        there == Emit(based, <<Bare("PTR_IDX")>>)
    IN  CASE "length" \notin flags -> there
          [] "length" \in flags /\ ahead -> Emit(there, <<Bare("SWAP")>>)
          [] OTHER -> Emit(there, <<OcN("PUSH", e.type.n)>>)

RECURSIVE compileItems(_, _, _)
compileItems(st, items, i) ==
    IF i > Len(items) THEN st
    ELSE compileItems(
            Emit(compileNode(Emit(st, <<Bare("DUP"), OcN("PUSH", i - 1), Bare("PTR_IDX")>>),
                         items[i], Untyped, {}),
                 <<Bare("STORE")>>), items, i + 1)

(* A list is written item by item to the place on the stack, or to one in  *)
(* the scratch memory.  Of a list that is a definition's or an assignment's *)
(* whole value nothing stays on the stack, unless a slice is expected.     *)
compileList(st, e, target, isRoot) ==
    LET n     == Len(e.items)
        begun == IF isRoot THEN st
                 ELSE [Emit(st, <<OcN("PUSH", n), Bare("VEC_ALLOC")>>) EXCEPT !.isTmp = TRUE]
    IN  Emit(compileItems(begun, e.items, 1),
             IF isRoot /\ target.kind = "array" THEN <<Bare("POP")>> ELSE <<OcN("PUSH", n)>>)

(* A cast between like elements is none; one of arrays is an operation on  *)
(* them, one of scalars an opcode or nothing.                              *)
compileCast(st, e, target, flags, isRoot) ==
    LET s   == e.arg.type
        ops == selectElementCast(s.elem, e.type.elem)
        arg == compileNode(st, e.arg, target, flags)
    IN  CASE areElementsTheSame(s, e.type) ->
               compileNode(st, e.arg, target, flags \cup (IF isRoot THEN {"root"} ELSE {}))
          [] ~ areElementsTheSame(s, e.type) /\ ArrayLike(e.type) ->
               pushVec(arg, "VEC_CAST",
                       [kind |-> e.type.elem, src |-> s.elem, oper |-> "none", dest |-> FALSE], isRoot)
          [] OTHER -> IF ops = <<>> THEN arg
                      ELSE [Emit(arg, ops) EXCEPT !.isScalar = @ \/ isRoot]

(* Arrays added or subtracted as addresses, by the size of one of them.    *)
tryAsPointerArithmetic(e) ==
    LET array == IF e.left.type.kind = "array" THEN e.left.type ELSE e.right.type
    IN  CASE array.kind = "array" /\ e.op \in {"+", "-"} ->
               <<OcN("PUSH", array.n), OcOp("*", "I"), OcOp(e.op, "I")>>
          [] e.op = ".." -> <<>>
          [] OTHER -> <<OcOp(e.op, "I")>>

(* Both operands, then the one opcode: of arrays only where vectors are    *)
(* asked for, else of addresses, or of scalars.                            *)
compileBinary(st, e, target, flags, isRoot) ==
    LET both == compileNode(compileNode(st, e.left, target, flags), e.right, target, flags)
    IN  CASE "vec" \in flags /\ (ArrayLike(e.left.type) \/ ArrayLike(e.right.type)) ->
               tryVectorization(both, e, isRoot)
          [] "vec" \notin flags /\ (ArrayLike(e.left.type) \/ ArrayLike(e.right.type)) ->
               Emit(both, tryAsPointerArithmetic(e))
          [] OTHER -> Emit(both, <<OcOp(e.op, e.left.type.elem)>>)

compileSubscript(st, e, target, flags, isLval) ==
    LET base  == compileNode(st, e.left, target, flags)
        bare  == IF "length" \in flags /\ e.left.type.kind = "array"
                 THEN Emit(base, <<Bare("POP")>>) ELSE base
        index == compileNode(bare, e.right, target, flags)
    IN  Emit(index, <<Bare("PTR_IDX")>> \o (IF isLval THEN <<>> ELSE <<Bare("LOAD")>>))

compileExpression(st0, e, target, flags0) ==
    LET isRoot == "root" \in flags0
        isLval == "lvalue" \in flags0
        flags  == flags0 \ {"root", "lvalue"}
        st     == [st0 EXCEPT !.isTmp = FALSE, !.isScalar = FALSE]
        arg    == compileNode(st, e.arg, target, flags)
    IN  CASE e.form = "plain" -> compileNode(st, e.arg, target, flags0)
          [] e.form = "minus" /\ "vec" \in flags /\ ArrayLike(e.arg.type) ->
               pushVec(arg, "VEC_UNARY", Desc(e.arg.type.elem, "-", arg.isTmp), isRoot)
          [] e.form = "minus" /\ ~ ("vec" \in flags /\ ArrayLike(e.arg.type)) ->
               Emit(arg, <<Bare("NEG")>>)
          [] e.form = "op"    -> compileBinary(st, e, target, flags, isRoot)
          [] e.form = "at"    -> compileSubscript(st, e, target, flags, isLval)
          [] e.form = "range" -> compileRangeSlicing(st, e, flags0)
          [] e.form = "cast"  -> compileCast(st, e, target, flags, isRoot)
          [] e.form = "list"  -> compileList(st, e, target, isRoot)
          [] e.form = "length" ->
               Emit(st, IF e.arg.type.kind = "array" THEN <<OcN("PUSH", e.arg.type.n)>>
                        ELSE <<OcN("GET", st.env[e.arg.name].at + 1)>>)

(* A scalar that is known is pushed, and nothing is said of it; everything *)
(* else leaves what it is in isTmp and isScalar.                           *)
compileNode(st, e, target, flags) ==
    CASE e.form = "value"    -> Emit(st, <<OcN("PUSH", e.raw)>>)
      [] e.form = "variable" -> compileVariable(st, e, target, flags)
      [] OTHER               -> compileExpression(st, e, target, flags)

-----------------------------------------------------------------------------
(* The statements *)

Rooted == {"length", "vec", "root"}

(* The scratch memory is given back where it was used.                     *)
ScratchBack(st, reset) ==
    IF st.vecTmpMemUsed THEN [Emit(st, <<Bare(reset)>>) EXCEPT !.vecTmpMemUsed = FALSE] ELSE st

(* Mutant: what the scratch memory holds is not copied to its place. *)
CopyLeftOut(st, k, lengthOfPlace) ==
    LET done == IF st.isTmp THEN Emit(st, <<Bare("VEC_RESET")>>) ELSE st
    IN  ScratchBack(done, "VEC_RESET")

(* After the value of an array's place: what is not yet there is copied, a *)
(* scalar fills it, and where scratch memory was used it is given back     *)
(* with the result on the stack.                                           *)
finishAssigned(st, k, lengthOfPlace) ==
    LET done == CASE st.isTmp ->
                       Emit(st, <<Vec("VEC_COPY", Desc(k, "none", FALSE)), Bare("VEC_RESET")>>)
                  [] ~ st.isTmp /\ st.isScalar ->
                       Emit(compileLength(st, lengthOfPlace),
                            <<Vec("VEC_FILL", Desc(k, "none", FALSE))>>)
                  [] OTHER -> st
    IN  ScratchBack(done, "VEC_RESET")

(* A slice stores the pointer and the length its value leaves.  A value    *)
(* that is no variable and no range gets room among the locals, as much as *)
(* its own type takes.                                                     *)
initializeSlice(st, v, at) ==
    LET source == unwrapWithCasts(v)
        room   == IF source.form \in {"variable", "range"} THEN st
                  ELSE Emit(pushLocal(st, source.type), <<OcN("LEA", st.top)>>)
        known  == [room EXCEPT !.endless = @ \/ source.form = "minus"]
        done   == Emit(compileNode(known, v, v.type, Rooted), <<OcN("SET", at + 1), OcN("SET", at)>>)
    IN  ScratchBack(done, "VEC_MEM_RESET")

compileInitialization(st, v, name) ==
    LET def == st.env[name]
    IN  CASE def.type.kind = "array" ->
               finishAssigned(compileNode(Emit(st, <<OcN("LEA", def.at)>>), v, def.type, Rooted),
                              def.type.elem, WithType(Named(name), def.type))
          [] def.type.kind = "slice" -> initializeSlice(st, v, def.at)
          [] OTHER -> Emit(compileNode(st, v, Untyped, {}), <<OcN("SET", def.at)>>)

compileDefined(st, v, name) ==
    compileInitialization([pushLocal(st, v.type) EXCEPT
                               !.env = (name :> [type |-> v.type, at |-> st.top]) @@ @], v, name)
compileDefinition(st, d) == compileDefined(st, validateVectorDefinition(d, st.env), d.name)

compileAssigned(st, place, v) ==
    LET there == compileNode(st, place, Untyped, {"lvalue"})
    IN  IF ArrayLike(place.type)
        THEN finishAssigned(compileNode(there, v, place.type, Rooted), place.type.elem, place)
        ELSE Emit(compileNode(there, v, place.type, {}), <<Bare("STORE")>>)
compileAssignment(st, a) ==
    compileAssigned(st, validatePlace(a, st.env), validateAssigned(a, st.env))

(* The arguments of a call lie behind three words for the callee: an array *)
(* as its cells, a slice as its pointer and its length.                    *)
compileArgument(st, v, t) ==
    compileNode(st, v, t, (IF t.kind = "array" THEN {"stack_value"} ELSE {})
                             \cup (IF "slice" \in {t.kind, v.type.kind} THEN {"length"} ELSE {}))
RECURSIVE compileArguments(_, _, _, _)
compileArguments(st, args, types, i) ==
    IF i > Len(args) THEN st
    ELSE LET v == castTo(validateVector(args[i], Untyped, st.env), types[i])
         IN  compileArguments(compileArgument(st, v, types[i]), args, types, i + 1)

compileCall(st, c) ==
    Emit(compileArguments(Emit(st, <<OcN("GROW", 3)>>), c.args, c.types, 1),
         <<[op |-> "CALL", types |-> c.types]>>)

(* A value of any type: the type, then where the value lies; a slice that  *)
(* is no variable gets a cell pair in the scratch memory.                  *)
compileTypedAny(st, v) ==
    LET typed == Emit(st, <<OcN("PUSH", 0)>>)
    IN  CASE v.type.kind = "scalar" -> compileNode(typed, v, Untyped, {})
          [] v.type.kind # "scalar" /\ v.form = "variable" ->
                Emit(typed, <<OcN("LEA", st.env[v.name].at)>>)
          [] v.type.kind = "array" /\ v.form # "variable" -> compileNode(typed, v, Untyped, {})
          [] OTHER -> Emit(compileNode(typed, v, Untyped, {"length", "vec"}), <<Bare("VEC_TO_REF")>>)
compileAsAny(st, e) == compileTypedAny(st, validateVector(e, Untyped, st.env))

RECURSIVE compileAnys(_, _, _)
compileAnys(st, args, i) ==
    IF i > Len(args) THEN st ELSE compileAnys(compileAsAny(st, args[i]), args, i + 1)
compileShow(st, c) ==
    LET types == [i \in DOMAIN c.args |-> validateVector(c.args[i], Untyped, st.env).type]
    IN  Emit(compileAnys(Emit(st, <<OcN("GROW", 3)>> \o [j \in 1..3 |-> OcN("PUSH", 0)]), c.args, 1),
             <<OcN("PUSH", Len(c.args)), [op |-> "SHOW", types |-> types]>> \o
             (IF types[Len(types)].kind = "array" THEN <<Bare("VEC_MEM_RESET")>> ELSE <<>>))

compileStatement(st, s) ==
    CASE s.is = "define" -> compileDefinition(st, s)
      [] s.is \in {"assign_range", "assign_at"} -> compileAssignment(st, s)
      [] s.is = "call" -> compileCall(st, s)
      [] s.is = "show" -> compileShow(st, s)

(* Statement by statement, marking where each begins; scratch memory a     *)
(* statement has not given back is given back between them.                *)
RECURSIVE compileScope(_, _, _)
compileScope(st, children, i) ==
    IF i > Len(children) THEN Emit(st, <<Bare("HALT")>>)
    ELSE LET marked == [st EXCEPT !.starts = @ \cup {Len(st.code) + 1}]
         IN  compileScope(ScratchBack(compileStatement(marked, children[i]), "VEC_MEM_RESET"),
                          children, i + 1)
===============================================================================
