---------------------------- MODULE MCParts ----------------------------------
(***************************************************************************)
(* The parts that stand by themselves, for TLC: the data structures, the   *)
(* lexer, the resolution of names, the values of typed expressions, the    *)
(* code of vectors, the bytes of the bytecode and the foreign calls.       *)
(* One run goes through all of them, part says which one the behaviour is  *)
(* about, the others stand still.                                          *)
(***************************************************************************)
EXTENDS Containers, TypeTable, Document, Lexer, Names, TypedValues, VectorMeaning,
        Listing, Foreign, Libraries, UnitChecks, StructLiterals, TLC

CONSTANTS Parts,            \* the parts a run is about
          k1, k2, k3, k4,   \* keys of the hash set
          t1, t2, t3        \* threads that make types

VARIABLE part

boxVars == <<arenaVars, setVars, dictVars>>
vars == <<part, boxVars, typeVars, documentVars, lexerVars, nameVars, typedVars, vectorVars, listingVars, foreignVars,
          libraryVars, unitVars, literalVars>>

(* Two keys with one hash, and one that the first two push aside. *)
MCHash == k1 :> 0 @@ k2 :> 0 @@ k3 :> 1 @@ k4 :> 3

(* The threads ask for some of the same types, and for arrays whose address *)
(* and length add up to the same number; the lengths and flags stay below  *)
(* the bits the length has in a key.                                       *)
BasicType(n) == [basic |-> TRUE, at |-> n]
Earlier(n)   == [basic |-> FALSE, at |-> n]
MCRequests ==
    t1 :> << [kind |-> "pointer", element |-> BasicType(0), len |-> 0],
             [kind |-> "array",   element |-> Earlier(1),   len |-> 2],
             [kind |-> "array",   element |-> BasicType(1), len |-> 1] >>
 @@ t2 :> << [kind |-> "pointer", element |-> BasicType(0), len |-> 0],
             [kind |-> "array",   element |-> BasicType(0), len |-> 2],
             [kind |-> "slice",   element |-> BasicType(0), len |-> 1] >>
 @@ t3 :> << [kind |-> "array",   element |-> BasicType(1), len |-> 1],
             [kind |-> "slice",   element |-> BasicType(0), len |-> 1] >>

-----------------------------------------------------------------------------
(* The texts the lexer reads, for TLC: every short text of the characters  *)
(* of one kind of token.                                                   *)

UpTo(S, n) == UNION {[1..k -> S] : k \in 0..n}
MCSources ==
    UpTo({"/", "{", "}", "LF", "a"}, 4)
    \cup {<<"/", "{">> \o s : s \in UpTo({"/", "{", "}", "a"}, 6)}
    \cup UpTo({"0", "x", "b", "1", "_", ".", "f"}, 4)
    \cup {<<"\"">> \o s : s \in UpTo({"\"", "\\", "n", "x", "8", "Wide", "LF"}, 4)}
    \cup {<<"'">> \o s : s \in UpTo({"'", "\\", "0", "3", "LF"}, 5)}
    \cup UpTo({"i", "f", ":", "_"}, 5) \cup {<<"a", ":", ":">> \o s : s \in UpTo({"i", "f", ":", "1"}, 5)}
    \cup {<<"i", "f">> \o s : s \in UpTo({" ", "/", "a"}, 3)}
    \cup UpTo({"+", "-", ">", "=", "!", "'"}, 3)
MCKeywords == {<<"i", "f">>}

-----------------------------------------------------------------------------
(* The scenes names are resolved in, for TLC.                              *)

D(name, kind, place) == [name |-> name, kind |-> kind, at |-> place, inner |-> 0, sig |-> <<>>]
Space(name, place, inner) == [D(name, "namespace", place) EXCEPT !.inner = inner]
F(name, place, sig) == [D(name, "function", place) EXCEPT !.sig = sig]

(* A text of a file's scope 1 with a namespace 2 and in it a namespace 3,  *)
(* and a function's body 4 with a block 5.  The places 1..20 run through   *)
(* the text: 1, 2, 18 and 19 are the file's, 3..7 the namespace's, 8..17   *)
(* the body's and 10..14 the block's.                                      *)
Parents == <<0, 1, 2, 1, 4>>
Perhaps(ds) == {<<>>} \cup {<<d>> : d \in ds}
FileDefs == {a \o <<Space("n", 3, 2)>> \o b \o c :
               a \in Perhaps({D("x", k, 1) : k \in {"variable", "function", "type"}} \cup {D("n", "variable", 1)}),
               b \in Perhaps({D("x", k, 18) : k \in {"variable", "function"}}),
               c \in Perhaps({D("x", "function", 19), D("", "namespace", 19)})}
SpaceDefs == {a \o b : a \in Perhaps({D("x", "variable", 4), Space("m", 4, 3)}),
                       b \in Perhaps({D("x", k, 7) : k \in {"variable", "type"}})}
InnerDefs == Perhaps({D("x", "variable", 6)})
BodyDefs == {a \o b : a \in Perhaps({D("x", k, 9) : k \in {"variable", "type"}}),
                      b \in Perhaps({D("x", "variable", 16)})}
BlockDefs == Perhaps({D("x", "variable", 11), D("x", "variable", 13), D("x", "type", 13)})

Use(s, path, name, place, call) ==
    [scope |-> s, path |-> path, name |-> name, at |-> place, call |-> call, args |-> <<>>]
NameUses == {Use(5, <<>>, "x", 12, call) : call \in BOOLEAN}
       \cup {Use(5, <<"n">>, "x", 12, FALSE), Use(5, <<"n", "::m">>, "x", 12, FALSE),
             Use(4, <<>>, "x", 17, FALSE), Use(3, <<"m">>, "x", 5, FALSE), Use(2, <<>>, "true", 5, FALSE)}
NameScenes ==
    {[parent |-> Parents, defs |-> <<a, b, c, <<>>, <<>> >>, uses |-> NameUses] :
        a \in FileDefs, b \in SpaceDefs, c \in InnerDefs}
    \cup
    {[parent |-> Parents, defs |-> <<a, <<Space("m", 4, 3)>>, <<>>, d, e>>, uses |-> NameUses] :
        a \in FileDefs, d \in BodyDefs, e \in BlockDefs}

(* Functions of one name, in every order, and calls of them. *)
NoType == [kind |-> "none"]
I(n)   == [kind |-> "int", size |-> n, of |-> NoType, len |-> 0]
U(n)  == [kind |-> "uint", size |-> n, of |-> NoType, len |-> 0]
Fl(n) == [kind |-> "float", size |-> n, of |-> NoType, len |-> 0]
Ptr(t)   == [kind |-> "pointer", size |-> 8, of |-> t, len |-> 0]
Arr(t, n) == [kind |-> "array", size |-> 0, of |-> t, len |-> n]
Slc(t)   == [kind |-> "slice", size |-> 16, of |-> t, len |-> 0]
Enum     == [kind |-> "enum", size |-> 4, of |-> NoType, len |-> 0]
Rest      == [kind |-> "any", size |-> 0, of |-> NoType, len |-> 0]

Signatures == {<<I(4)>>, <<Fl(4)>>, <<U(4)>>, <<Slc(I(4))>>,
               <<I(4), I(2)>>, <<I(2), I(4)>>, <<Fl(4), Rest>>, <<Rest>>}
(* One argument exact against three promoted. *)
Three == << <<I(2), U(2), U(2)>>, <<I(4), I(4), I(4)>> >>
Calls == {<<I(2), I(2), I(2)>>,
          <<I(4)>>, <<I(1)>>, <<Fl(8)>>, <<Enum>>, <<Arr(I(4), 3)>>, <<Ptr(I(2))>>,
          <<I(2), I(2)>>, <<I(1), Fl(4)>>, <<I(8), U(1), I(4)>>}
OverloadScenes ==
    {[parent |-> <<0>>, defs |-> <<[i \in 1..3 |-> F("f", i, sigs[i])]>>,
      uses |-> {[Use(1, <<>>, "f", 9, TRUE) EXCEPT !.args = args] : args \in Calls}] :
        sigs \in {s \in [1..3 -> Signatures] : Cardinality({s[i] : i \in 1..3}) = 3}}
    \cup
    {[parent |-> <<0>>, defs |-> <<[i \in 1..2 |-> F("f", i, sigs[i])]>>,
      uses |-> {[Use(1, <<>>, "f", 9, TRUE) EXCEPT !.args = args] : args \in Calls}] :
        sigs \in {s \in [1..2 -> Signatures] : s[1] # s[2]}
                  \cup {Three, <<Three[2], Three[1]>>}}
MCScenes == NameScenes \cup OverloadScenes

-----------------------------------------------------------------------------
(* The programs of typed expressions, for TLC: variables of every kind     *)
(* with the largest value and, where there is a sign, the least; literals; *)
(* one operation of them, or two.                                          *)

MCWidth == [k \in IntKind |-> CASE rank(k) = 1 -> 2 [] rank(k) = 2 -> 3
                                [] rank(k) = 3 -> 4 [] rank(k) = 4 -> 6]
Most(k)  == 2 ^ (MCWidth[k] - (IF k \in Signed THEN 1 ELSE 0)) - 1
Least(k) == -(2 ^ (MCWidth[k] - 1))
MCDefinitions ==
    [x \in ({"most"} \X IntKind) \cup ({"least"} \X Signed) |->
        [kind |-> x[2], n |-> IF x[1] = "most" THEN Most(x[2]) ELSE Least(x[2])]]
MCNew == <<"new">>

(* An integer literal is an i64. *)
OfVariable == {Variable(x) : x \in DOMAIN MCDefinitions}
Literal    == {Value("I64", n) : n \in {1, 6}}
Simple     == OfVariable \cup Literal
Operation  == Arithmetic \cup Relations \cup Shifts
OneStep ==
    {Binary(o, l, r) : o \in Operation, l \in OfVariable, r \in Simple}
        \cup {Binary(o, l, r) : o \in Operation, l \in Literal, r \in OfVariable}
        \cup {Unary(o, e) : o \in {"-", "!", "~", "+"}, e \in Simple}
        \cup {Arrow(e, k) : e \in Simple, k \in {"I8", "U16", "U32", "I64"}}
TwoSteps ==
    {Binary(o, Unary("-", a), n) : o \in {"%", "=="}, a \in OfVariable, n \in Literal}
        \cup {Binary(o, Binary("*", a, n), n) : o \in {"%", "<"}, a \in OfVariable, n \in Literal}
        \cup {Arrow(Binary(o, a, b), k) : o \in {"+", "&"}, a \in OfVariable,
                b \in {Variable(<<"most", k>>) : k \in IntKind}, k \in {"I64", "I8"}}
MCExpressions == Simple \cup OneStep \cup TwoSteps

-----------------------------------------------------------------------------
(* The programs whose code is listed, for TLC: a statement for each family *)
(* of instructions, on one line, on two, or in the lines of the one before;*)
(* a branch, a loop and a table; functions that call each other.           *)

Line(a, z)       == [do |-> "line", span |-> [first |-> a, last |-> z]]
PushOf(kind)       == [do |-> "push", kind |-> kind, val |-> 5]
Get(way, local, blob) == [do |-> "access", way |-> way, local |-> local, blob |-> blob, val |-> 16]
Lea(local)       == [do |-> "lea", local |-> local, val |-> 16]
PlainOp(op)        == [do |-> "plain", op |-> op, vals |-> <<7, 7, 7>>]
CallOf(f)        == [do |-> "plain", op |-> "CALL", vals |-> <<f, 0>>]
Back(n)          == [do |-> "back", to |-> n]
Ahead(op, n)     == [do |-> "ahead", op |-> op, to |-> n]
Table(lo, hi, t) == [do |-> "table", lo |-> lo, hi |-> hi, to |-> t]

Fcn(pieces)    == [unit |-> FALSE, pieces |-> pieces]
TheUnit(pieces) == [unit |-> TRUE, pieces |-> pieces]

Pieces == {PushOf(k) : k \in {"I8", "U16", "F32", "F64"}}
              \cup {Get(w, l, b) : w \in {"SET", "GET"}, l \in BOOLEAN, b \in BOOLEAN}
              \cup {Lea(l) : l \in BOOLEAN} \cup {PlainOp(op) : op \in DOMAIN Pushed \ {"CALL"}}
Spans  == {<<1, 1>>, <<1, 3>>, <<2, 2>>, <<3, 4>>}

\* One statement, then another; what the first pushes stands before the second's line.
Straight == {<<Fcn(<<Line(s[1], s[2]), p, Line(t[1], t[2]), PushOf("I8"), PlainOp("POP")>>)>> :
                s \in Spans, t \in Spans, p \in Pieces}

\* if a { b } else { c }, while (a) b, and a switch of two cases with a gap.
Branching ==
    {<<Fcn(<<Line(1, 1), PushOf("I32"), Ahead("JUMP_IF_FALSE", 7), Line(s[1], s[2]), p, Ahead("JUMP", 9),
             Line(t[1], t[2]), PlainOp("RET"), PushOf("U8")>>)>> : s \in {<<2, 2>>}, t \in Spans, p \in Pieces}
    \cup {<<Fcn(<<Line(1, 2), PushOf("I32"), Ahead("JUMP_IF_FALSE", 7), Line(3, 3), p, Back(2)>>)>> : p \in Pieces}
    \cup {<<Fcn(<<Line(1, 2), p, Table(4, 6, <<4, 8, 6, 8>>), PushOf("I32"), Ahead("JUMP", 8), Line(5, 6),
                  PushOf("I64"), PlainOp("POP")>>)>> : p \in Pieces}

\* A unit, and functions with spans before and behind its own.
Calling ==
    {<<TheUnit(<<Line(5, 6), CallOf(a), p, CallOf(b)>>), Fcn(<<Line(1, 2), CallOf(c), PlainOp("RET")>>),
       Fcn(<<CallOf(d)>>)>> :
        a \in 0..3, b \in {0, 3}, c \in {0, 1, 3}, d \in {0, 2}, p \in {PushOf("U16"), Get("GET", TRUE, FALSE), PlainOp("SWAP"), PlainOp("POP")}}

MCListings == Straight \cup Branching \cup Calling

-----------------------------------------------------------------------------
(* The calls, for TLC: functions of one to three parameters, of numbers of *)
(* each width, structs of each class of the convention (a register's, one  *)
(* byte, no power of two, a word and more, more than two words), nested,   *)
(* with arrays, empty, and slices.                                         *)

OfKind(k)         == [kind |-> k]
Struct(members) == [kind |-> "STRUCT", members |-> members]
ArrayOf(e, n)   == [kind |-> "ARRAY", element |-> e, count |-> n]

Numbers   == {OfKind(k) : k \in {"U8", "I16", "U32", "F32", "I64"}}
Byte      == Struct(<<OfKind("U8")>>)
Odd       == Struct(<<OfKind("U8"), OfKind("U8"), OfKind("U8")>>)
Six       == Struct(<<OfKind("U16"), OfKind("U8"), OfKind("U16")>>)
OneWord   == Struct(<<OfKind("U8"), OfKind("F32")>>)
Mixed     == Struct(<<OfKind("U8"), OfKind("U32"), OfKind("U8")>>)
TwoWords  == Struct(<<OfKind("U16"), OfKind("I64")>>)
Nested    == Struct(<<OfKind("U8"), TwoWords, OfKind("U16")>>)
WithArray == Struct(<<OfKind("U8"), ArrayOf(OfKind("U16"), 3)>>)
Empty     == Struct(<< >>)
OfEmpty   == Struct(<<OfKind("U32"), Empty, OfKind("U8")>>)
Shorts    == ArrayOf(OfKind("I16"), 3)
Slice     == [kind |-> "SLICE"]
Structs   == {Byte, Odd, Six, OneWord, Mixed, TwoWords, Nested, WithArray, OfEmpty}
ParamTypes     == Numbers \cup Structs \cup {Shorts, Slice}
SecondTypes    == {OfKind("U8"), OfKind("I64"), Odd, OneWord, TwoWords, Nested, Shorts}
Lists     == {<<t>> : t \in ParamTypes} \cup {<<t, u>> : t \in ParamTypes, u \in SecondTypes}

CallBy(way, params, result, ret, from) == [way |-> way, params |-> params, result |-> result, ret |-> ret, from |-> from]
OwnCalls == UNION {{CallBy("own", ps, ps[i], i, from) : i \in DOMAIN ps} :
                     ps \in Lists, from \in {"result", "source"}}
            \cup {CallBy("own", <<s, n, t>>, n, 2, "result") : s \in Structs, n \in Numbers, t \in {TwoWords}}
ForeignCalls == {CallBy("foreign", ps, OfKind("I64"), 0, from) :
                     ps \in Lists \cup {<< >>}, from \in {"result", "source"}}
                \cup {CallBy("foreign", <<s, n, t>>, n, 0, "result") : s \in Structs, n \in Numbers, t \in {OneWord, TwoWords}}
NativeCalls == {CallBy("native", ps, r, 0, "result") : ps \in {<< >>, <<OfKind("U32")>>, <<Mixed, OfKind("I64")>>}, r \in ParamTypes}
MCCalls == OwnCalls \cup ForeignCalls \cup NativeCalls

-----------------------------------------------------------------------------
(* The statements about arrays and slices that TLC compiles and runs.      *)
(* Before them there are arrays of three of every kind, a slice that views *)
(* an array with no name a statement uses, an index and a number.          *)

MCVectorVariables ==
    [a |-> [type |-> makeArray("I", 3), at |-> 0],
     c |-> [type |-> makeArray("F", 3), at |-> 3],
     n |-> [type |-> makeArray("N", 3), at |-> 6],
     h |-> [type |-> makeArray("I", 3), at |-> 9],
     s |-> [type |-> makeSlice("I"),    at |-> 12],
     i |-> [type |-> Scalar("I"),       at |-> 14],
     f |-> [type |-> Scalar("F"),       at |-> 15]]
MCVectorCells == <<1, 2, 4,  3, 8, 6,  5, 7, 6,  -3, 2, 9,  9, 3,  1,  5>>

LOCAL Nothing == Absent
LOCAL L(r) == Lit("L", r)
LOCAL Ivar == Named("i")
LOCAL Fvar == Named("f")
LOCAL A == Named("a")
LOCAL C == Named("c")
LOCAL S == Named("s")

(* Ranges with known bounds, open ones, and one whose begin is computed.   *)
LOCAL RangedParts == {Ranged(A, L(1), L(2)), Ranged(A, Nothing, L(1)), Ranged(A, L(1), Nothing),
                 Ranged(C, L(1), L(2)), Ranged(S, L(1), L(2)), Ranged(S, L(1), Nothing),
                 Ranged(S, Nothing, Nothing), Ranged(S, Ivar, L(2)), Ranged(A, Ivar, L(2))}
LOCAL Wholes  == {A, C, Named("n"), S}
LOCAL ListValues   == {ListOf(<<L(4), L(6), L(8)>>), ListOf(<<Ivar, L(2), Fvar>>), ListOf(<<L(3), ItemOf(S, Ivar)>>),
                  ListOf(<<ItemOf(A, L(2)), Ivar>>)}
LOCAL NumberValues == {L(3), Ivar, Fvar, ItemOf(A, L(1)), ItemOf(S, L(0)), LengthOf(S), Minus(L(2)), Minus(Ivar)}

(* One operation, and one below another.                                   *)
LOCAL Twos ==
    {Combined(o, x, y) : o \in {"+", ".."}, x \in Wholes, y \in Wholes}
    \cup {Combined("-", x, y) : x \in {A, S, C}, y \in {L(3), Ivar, Fvar, ItemOf(A, L(0))}}
    \cup {Combined("-", y, x) : x \in {A, S, C}, y \in {L(3), Ivar, Fvar, Minus(Ivar)}}
    \cup {Combined("*", x, y) : x \in {Ranged(A, L(1), L(2)), Ranged(S, Ivar, L(2))},
                          y \in {Ranged(C, L(1), L(2)), Ranged(S, L(1), Nothing), L(3)}}
    \cup {Minus(x) : x \in {A, S, Ranged(A, L(1), L(2))}}
    \cup {Combined("-", x, y) : x \in {A, S}, y \in ListValues} \cup {Combined("-", y, x) : x \in {A, C}, y \in ListValues}
LOCAL Threes ==
    {Combined(o, t, x) : o \in {"+", "-"}, x \in {A, C, S, L(3)},
                   t \in {Combined("*", A, S), Combined("-", C, A), Combined("*", S, Fvar), Minus(A), Minus(S)}}
    \cup {Combined("-", x, t) : x \in {A, C, S, Ivar},
                          t \in {Combined("*", A, S), Combined("-", C, A), Combined("*", S, Ivar), Minus(A), Combined("+", Ivar, L(1))}}
    \cup {Combined("..", t, x) : x \in {A, S}, t \in {Combined("+", A, S), Combined("..", S, A), Minus(A)}}
    \cup {Combined("..", x, t) : x \in {A, S}, t \in {Combined("+", A, S), Combined("..", S, A), Combined("-", C, A)}}
LOCAL VectorSources == Wholes \cup RangedParts \cup ListValues \cup NumberValues \cup Twos \cup Threes

LOCAL Define(x, form, k, n, e) ==
    [is |-> "define", name |-> x, form |-> form, elem |-> k, n |-> n, e |-> e]
LOCAL AssignRange(x, lo, hi, e) == [is |-> "assign_range", name |-> x, lo |-> lo, hi |-> hi, e |-> e]
LOCAL AssignAt(x, place, e)     == [is |-> "assign_at", name |-> x, lo |-> place, e |-> e]
LOCAL Call(args, types)         == [is |-> "call", args |-> args, types |-> types]
LOCAL Show(args)                == [is |-> "show", args |-> args]

LOCAL VectorDefinitions ==
    {Define("x", "array", k, m, e) : k \in {"I", "F"}, m \in {2, 3}, e \in VectorSources}
    \cup {Define("x", form, k, 0, e) : form \in {"open", "const"}, k \in {"I", "F"}, e \in VectorSources}
    \cup {Define("x", "scalar", k, 0, e) : k \in {"I", "F"}, e \in NumberValues}
LOCAL Assignments ==
    {AssignRange("a", lo, L(2), e) : lo \in {Nothing, L(1)}, e \in VectorSources}
    \cup {AssignRange("s", lo, Nothing, e) : lo \in {L(0), Ivar}, e \in VectorSources}
    \cup {AssignRange("c", L(1), L(2), e) : e \in RangedParts \cup NumberValues \cup ListValues}
    \cup {AssignAt(x, j, e) : x \in {"a", "c", "s"}, j \in {L(2), Ivar}, e \in NumberValues}
LOCAL SliceOfI == makeSlice("I")
LOCAL CallStatements ==
    {Call(<<x>>, <<SliceOfI>>) : x \in Wholes \cup RangedParts \cup ListValues}
    \cup {Call(<<x>>, <<makeArray("I", 3)>>) : x \in {A, S}}
    \cup {Call(<<Ivar, x, Fvar>>, <<Scalar("I"), SliceOfI, Scalar("F")>>) : x \in {A, S} \cup RangedParts}
    \cup {Show(<<x>>) : x \in Wholes \cup RangedParts \cup NumberValues \cup Twos}
    \cup {Show(<<L(7), x, y>>) : x \in {A, S}, y \in {Ivar, S, Ranged(S, Ivar, L(2))}}

(* What one statement leaves, another finds.                               *)
LOCAL Firsts == {Define("x", form, "I", 3, e) :
                    form \in {"array", "const"},
                    e \in {A, S, Combined("+", A, S), Combined("-", A, Combined("*", S, Ivar)), Ranged(S, L(1), Nothing)}}
LOCAL Seconds == {Define("y", "const", "I", 0, Named("x")),
                  Define("y", "open", "I", 0, Combined("..", Named("x"), S)),
                  Define("y", "open", "F", 0, Combined("-", Named("x"), L(1))),
                  AssignRange("a", Nothing, L(1), Ranged(Named("x"), L(0), L(1))),
                  AssignRange("x", L(0), L(1), Minus(Ivar)),
                  AssignRange("x", L(0), L(1), Combined("-", Ranged(S, L(1), L(2)), L(4))),
                  AssignAt("x", Ivar, Fvar),
                  AssignAt("s", L(1), Ivar),
                  Call(<<Named("x"), Ivar>>, <<SliceOfI, Scalar("I")>>),
                  Show(<<Named("x"), S>>)}

MCVectorPrograms ==
    {<<s>> : s \in VectorDefinitions \cup Assignments \cup CallStatements}
    \cup {<<s, u>> : s \in Firsts, u \in Seconds}
    \cup {<<s, u, Show(<<Named("x"), A, S>>)>> : s \in Firsts, u \in Seconds}

-----------------------------------------------------------------------------
(* What the threads do with libraries: two functions that are found and one *)
(* that is not, in two imports of one file; both threads validate and call *)
(* the first function.                                                     *)
LibraryJob(do, f) == [do |-> do, fcn |-> f]
MCWork == t1 :> <<LibraryJob("bind", "f"), LibraryJob("run", "f"), LibraryJob("bind", "missing")>>
       @@ t2 :> <<LibraryJob("bind", "g"), LibraryJob("bind", "f"), LibraryJob("run", "f")>>
MCImportOf == [f \in LibFunction |-> IF f = "g" THEN "j" ELSE "i"]
MCFileOf == [i \in LibImport |-> "x"]

-----------------------------------------------------------------------------
(* The units that are validated, for TLC.                                  *)
LOCAL Typed(kind)  == [form |-> "value", kind |-> kind]
LOCAL Unnamed        == [form |-> "unknown"]
LOCAL ACall(f)     == [form |-> "call", function |-> f]
LOCAL APrint(str, given) == [form |-> "print", string |-> str, given |-> given]
LOCAL Nil            == [form |-> "none"]
LOCAL Used           == {Typed("int"), Typed("array"), Typed("struct"), Unnamed, ACall(1)}

LOCAL Jump              == [do |-> "break"]
LOCAL Evaluation(e)      == [do |-> "evaluate", e |-> e]
LOCAL DefinedAs(kind, e)  == [do |-> "define", kind |-> kind, e |-> e]
LOCAL AReturn(e, fails) == [do |-> "return", e |-> e, failing |-> fails]
LOCAL Block(body)       == [do |-> "scope", body |-> body]
LOCAL Looped(arg, e, from, to, item, counter, body) ==
    [do |-> "loop", arg |-> arg, e |-> e, from |-> from, to |-> to, item |-> item, index |-> counter, body |-> body]
LOCAL LoopOf(body)      == Looped("none", Nil, Nil, Nil, "none", Nil, body)
LOCAL Branched(conditions, scopes) == [do |-> "branch", conditions |-> conditions, scopes |-> scopes]
LOCAL Switched(on, cases, scopes, other) ==
    [do |-> "switch", on |-> on, cases |-> cases, scopes |-> scopes, other |-> other]

LOCAL Coded(out, body)     == [out |-> out, library |-> "none", body |-> body]
LOCAL Imported(out, lib) == [out |-> out, library |-> lib, body |-> <<>>]
LOCAL Code(fs) == [placed |-> <<>>, types |-> <<>>, enums |-> <<>>, functions |-> fs]
LOCAL Lone(n)  == Code(<<Coded("none", <<n>>), Coded("none", <<>>)>>)

(* Jumps, and what makes another function be validated first, in and       *)
(* behind loops.                                                           *)
LOCAL Placements(n, f) ==
    {<<n>>, <<LoopOf(<<n>>)>>, <<LoopOf(<<Block(<<n>>)>>)>>, <<LoopOf(<<LoopOf(<<n>>), Jump>>)>>, <<LoopOf(<<n>>), Jump>>,
     <<Branched(<<Typed("int")>>, << <<n>>, <<LoopOf(<<Jump>>)>> >>)>>,
     <<Looped("when", ACall(f), Nil, Nil, "none", Nil, <<n, Jump>>)>>,
     <<Switched(Typed("int"), <<>>, <<>>, <<LoopOf(<<Jump>>), n>>)>>}
LOCAL Acts(f) == {Jump, Evaluation(ACall(f)), DefinedAs("int", ACall(f)), AReturn(Nil, FALSE)}
LOCAL Bodies(f) == UNION {Placements(n, f) : n \in Acts(f)}
LOCAL Others == {Coded("unknown", <<AReturn(Typed("int"), FALSE)>>)}
          \cup {Imported(out, lib) : out \in {"int", "unknown"}, lib \in {"found", "no symbol", "no library"}}
LOCAL Callers == {Code(<<Coded("none", body), needed>>) :
                    body \in Bodies(2), needed \in Others \cup {Coded(out, said) : out \in {"none", "int"}, said \in Bodies(1)}}
(* Who is reached from two, and a third behind the second.                 *)
LOCAL Chains == {Code(<<Coded("none", a), Coded("int", b), c>>) :
                    a \in {<<LoopOf(<<Evaluation(ACall(2))>>)>>, <<Evaluation(ACall(3)), Evaluation(ACall(2))>>},
                    b \in Placements(Evaluation(ACall(3)), 3) \cup Placements(AReturn(ACall(3), FALSE), 3),
                    c \in Others \cup {Coded("none", last) : last \in Placements(Jump, 1)}}

(* Every statement with every expression.                                  *)
LOCAL Singles ==
    {Evaluation(e) : e \in Used} \cup {[do |-> "continue"], LoopOf(<<[do |-> "continue"]>>)}
    \cup {DefinedAs(kind, e) : kind \in {"int", "float", "array", "struct"}, e \in Used \cup {Nil}}
    \cup {[do |-> "assign", kind |-> kind, e |-> e] : kind \in {"int", "array", "struct"}, e \in Used}
    \cup {Branched(<<a>>, << <<Jump>> >>) : a \in Used} \cup {Branched(<<a, b>>, << <<>>, <<Block(<<>>)>> >>) : a, b \in Used}
    \cup {Looped("when", e, Nil, Nil, item, counter, <<Jump>>) :
             e \in Used, item \in {"none", "copy", "reference"}, counter \in {Nil, Typed("int"), Unnamed}}
    \cup {Looped("range", Nil, a, b, item, Nil, <<Jump>>) : a, b \in Used \cup {Nil}, item \in {"copy", "reference"}}
LOCAL Returning == {Code(<<Coded(out, <<AReturn(e, fails)>>), Coded("none", <<>>)>>) :
                      out \in {"none", "int", "array", "struct"}, e \in Used \cup {Nil, ACall(2)}, fails \in BOOLEAN}
LOCAL Cased(on, values) ==
    Switched(on, [i \in DOMAIN values |-> [form |-> "value", kind |-> "int", val |-> values[i]]],
             [i \in DOMAIN values |-> <<Jump>>], <<AReturn(Nil, FALSE)>>)
LOCAL Switches == {LoopOf(<<Cased(Typed("int"), values)>>) : values \in UpTo({0, 1, 3, 12}, 5)}
            \cup {Cased(on, values) : on \in Used, values \in UpTo({0, 1}, 2)}
LOCAL Prints == {Evaluation(APrint(str, given)) : str \in UpTo({"%", "v", "{", "}", ":", "1", "a"}, 4), given \in 0..1}
LOCAL Blocks == {Evaluation(APrint(<<"%", "{">> \o str, given)) : str \in UpTo({"v", "}", ":", "1", "%"}, 4), given \in 0..2}

LOCAL Member(by, n)    == [by |-> by, type |-> n]
LOCAL Declared(union, members) == [union |-> union, members |-> members]
LOCAL MembersUpTo(n)   == {Member("kind", 0)} \cup {Member(by, i) : by \in {"value", "pointer"}, i \in 1..n}
LOCAL Records == {Declared(FALSE, m) : m \in UpTo(MembersUpTo(3), 1)} \cup {Declared(TRUE, <<Member("kind", 0)>>)}
LOCAL ThreeTypes == [1..3 -> Records]
LOCAL TwoTypes == [1..2 -> {Declared(FALSE, m) : m \in UpTo(MembersUpTo(2), 2)}]
LOCAL Place(kind, scopes) == [kind |-> kind, scopes |-> scopes]
LOCAL Places == UpTo({Place(kind, scopes) : kind \in {"function", "namespace", "import"}, scopes \in UpTo({"scope", "namespace"}, 2)}, 2)
LOCAL Hollow == Code(<<Coded("none", <<>>)>>)
MCUnitTexts ==
    {Callers, Chains, Returning, {Lone(n) : n \in Singles}, {Lone(n) : n \in Switches}, {Lone(n) : n \in Prints}, {Lone(n) : n \in Blocks},
     {[Hollow EXCEPT !.types = ts] : ts \in ThreeTypes}, {[Hollow EXCEPT !.types = ts] : ts \in TwoTypes},
     {[Hollow EXCEPT !.placed = p] : p \in Places},
     {[Hollow EXCEPT !.enums = <<e>>] : e \in UpTo({<<>>, <<0>>, <<7>>, <<-1>>}, 4)}}

-----------------------------------------------------------------------------
(* The struct literals, for TLC: every short one for two scalars and three, *)
(* and for a struct before, behind and alone in another.                   *)

LOCAL ScalarOf(kind)   == [kind |-> kind]
LOCAL MemberOf(name, type) == [name |-> name, type |-> type]
LOCAL StructOf(members) == [kind |-> "STRUCT", members |-> members]
LOCAL Pair  == StructOf(<<MemberOf("x", ScalarOf("I32")), MemberOf("y", ScalarOf("I32"))>>)
LOCAL Triple  == StructOf(<<MemberOf("a", ScalarOf("I32")), MemberOf("b", ScalarOf("I64")), MemberOf("c", ScalarOf("I32"))>>)
LOCAL Nests == {StructOf(<<MemberOf("id", ScalarOf("I32")), MemberOf("pos", Pair)>>),
                StructOf(<<MemberOf("pos", Pair), MemberOf("id", ScalarOf("I32"))>>), StructOf(<<MemberOf("pos", Pair)>>)}
LOCAL NamedAs(n) == <<n>>
LOCAL Piece(name, value) == [name |-> name, rest |-> FALSE, value |-> value]
LOCAL Figure(i)   == [form |-> "number", name |-> <<"n1", "n2", "n3">>[i], type |-> ScalarOf("I64")]
LOCAL LoneVariable(name, type) == [form |-> "variable", name |-> name, type |-> type]
LOCAL Inner(pieces) == [form |-> "literal", pieces |-> pieces]
LOCAL RestPiece(i) == [Piece(<<>>, Figure(i)) EXCEPT !.rest = TRUE]
LOCAL FlatPieces(names, i) ==
    {Piece(n, Figure(i)) : n \in {NamedAs(m) : m \in names} \cup {<<>>}} \cup {RestPiece(i)}
    \cup {Piece(n, LoneVariable("a", ScalarOf("I32"))) : n \in {<<>>, NamedAs("b")}} \cup {Piece(<<>>, LoneVariable("v", ScalarOf("I32")))}
LOCAL Inners == {<<Piece(NamedAs("x"), Figure(2)), Piece(NamedAs("y"), Figure(3))>>, <<Piece(NamedAs("y"), Figure(2)), Piece(NamedAs("x"), Figure(3))>>,
                 <<Piece(<<>>, Figure(2)), Piece(<<>>, Figure(3))>>, <<Piece(NamedAs("x"), Figure(2))>>,
                 <<Piece(NamedAs("x"), Figure(2)), RestPiece(3)>>}
LOCAL NestedPieces(i) ==
    {Piece(n, Figure(1)) : n \in {<<>>, NamedAs("id")}} \cup {RestPiece(1)}
    \cup {Piece(n, Inner(l)) : n \in {<<>>, NamedAs("pos")}, l \in Inners}
    \cup {Piece(n, LoneVariable("s", Pair)) : n \in {<<>>, NamedAs("pos")}}
LOCAL Literals(types, P(_), n) ==
    {[pieces |-> l, type |-> t] : l \in UNION {{f \in [1..k -> UNION {P(i) : i \in 1..k}] : \A i \in 1..k : f[i] \in P(i)} : k \in 1..n}, t \in types}
LOCAL FlatABCZ(i) == FlatPieces({"a", "b", "c", "z"}, i)
LOCAL FlatXY(i)   == FlatPieces({"x", "y"}, i)
MCLiteralTexts == Literals({Triple}, FlatABCZ, 3) \cup Literals({Pair}, FlatXY, 3) \cup Literals(Nests, NestedPieces, 2)

NoLiteral == [pieces |-> <<Piece(<<>>, Figure(1))>>, type |-> Pair]
NoUnit   == Hollow
OneUse   == CHOOSE u \in Uses : TRUE
NoScene  == [parent |-> <<0>>, defs |-> << <<>> >>, uses |-> {}]
NoExpression == Value("I64", 0)
NoVectors ==
    /\ vectorProgram = <<>> /\ vectorCode = <<>> /\ vectorPc = 0 /\ words = <<>>
    /\ cellAt = <<>> /\ scratchUsed = 0 /\ floor = 0 /\ shown = <<>> /\ stopped = "refused"
\* The parts at rest come first, the choices of the one that moves last.
Init == /\ ArenaInit /\ SetInit /\ DictInit /\ TypesInit /\ DocumentInit /\ LibrariesStart
        /\ part \in Parts
        /\ part # "arena"   => use = OneUse
        /\ part # "lexer"   => input = <<>> /\ LexerStart
        /\ part # "names"   => scene = NoScene /\ NamesStart
        /\ part # "typed"   => expression = NoExpression /\ TypedStart
        /\ part # "vector"  => NoVectors
        /\ part # "listing" => functions = <<>> /\ ListingStart
        /\ part # "foreign" => callee = <<>> /\ ForeignStart
        /\ part # "units"   => unit = NoUnit /\ UnitStart
        /\ part # "literals" => literal = NoLiteral /\ LiteralStart
        /\ part = "lexer"   => input \in Sources /\ LexerStart
        /\ part = "names"   => scene \in Scenes /\ NamesStart
        /\ part = "typed"   => expression \in Programs /\ TypedStart
        /\ part = "vector"  => VectorInit
        /\ part = "listing" => functions \in Listings /\ ListingStart
        /\ part = "foreign" => callee \in CallsMade /\ ForeignStart
        /\ part = "units"   => UnitInit
        /\ part = "literals" => LiteralInit

Box == /\ \/ part = "arena" /\ ArenaNext /\ UNCHANGED <<setVars, dictVars>>
          \/ part = "set" /\ SetNext /\ UNCHANGED <<arenaVars, dictVars>>
          \/ part = "dict" /\ DictNext /\ UNCHANGED <<arenaVars, setVars>>
       /\ UNCHANGED <<part, typeVars, documentVars, lexerVars, nameVars, typedVars, vectorVars, listingVars, foreignVars, libraryVars, unitVars, literalVars>>
Types == /\ part = "types" /\ TypesNext
         /\ UNCHANGED <<part, boxVars, documentVars, lexerVars, nameVars, typedVars, vectorVars, listingVars, foreignVars, libraryVars, unitVars, literalVars>>
Documents == /\ part = "document" /\ DocumentNext
             /\ UNCHANGED <<part, boxVars, typeVars, lexerVars, nameVars, typedVars, vectorVars, listingVars, foreignVars, libraryVars, unitVars, literalVars>>
Lexing == /\ part = "lexer" /\ LexerNext
          /\ UNCHANGED <<part, boxVars, typeVars, documentVars, nameVars, typedVars, vectorVars, listingVars, foreignVars, libraryVars, unitVars, literalVars>>
Naming == /\ part = "names" /\ NamesNext
          /\ UNCHANGED <<part, boxVars, typeVars, documentVars, lexerVars, typedVars, vectorVars, listingVars, foreignVars, libraryVars, unitVars, literalVars>>
Computing == /\ part = "typed" /\ TypedNext
             /\ UNCHANGED <<part, boxVars, typeVars, documentVars, lexerVars, nameVars, vectorVars, listingVars, foreignVars, libraryVars, unitVars, literalVars>>
Vectors == /\ part = "vector" /\ VectorNext
           /\ UNCHANGED <<part, boxVars, typeVars, documentVars, lexerVars, nameVars, typedVars, listingVars, foreignVars, libraryVars, unitVars, literalVars>>

Disassembling == /\ part = "listing" /\ ListingNext
                 /\ UNCHANGED <<part, boxVars, typeVars, documentVars, lexerVars, nameVars, typedVars, vectorVars, foreignVars, libraryVars, unitVars, literalVars>>
CallingOut == /\ part = "foreign" /\ ForeignNext
              /\ UNCHANGED <<part, boxVars, typeVars, documentVars, lexerVars, nameVars, typedVars, vectorVars, listingVars, libraryVars, unitVars, literalVars>>
LoadingLibraries ==
    /\ part = "libraries" /\ LibrariesNext
    /\ UNCHANGED <<part, boxVars, typeVars, documentVars, lexerVars, nameVars, typedVars, vectorVars, listingVars, foreignVars, unitVars, literalVars>>

CheckingUnits ==
    /\ part = "units" /\ UnitNext
    /\ UNCHANGED <<part, boxVars, typeVars, documentVars, lexerVars, nameVars, typedVars, vectorVars, listingVars, foreignVars, libraryVars, literalVars>>

StoringLiterals ==
    /\ part = "literals" /\ LiteralNext
    /\ UNCHANGED <<part, boxVars, typeVars, documentVars, lexerVars, nameVars, typedVars, vectorVars, listingVars, foreignVars, libraryVars, unitVars>>

Next == Box \/ Types \/ Documents \/ Lexing \/ Naming \/ Computing \/ Vectors \/ Disassembling \/ CallingOut
        \/ LoadingLibraries \/ CheckingUnits \/ StoringLiterals

Spec == Init /\ [][Next]_vars

(* A thread that can take a step of the type table takes one some day, and *)
(* so does one that loads libraries.                                       *)
FairSpec ==
    /\ Spec
    /\ \A t \in TypeThread :
          WF_vars(/\ part = "types" /\ TypeStep(t)
                  /\ UNCHANGED <<part, boxVars, documentVars, lexerVars, nameVars, typedVars, vectorVars, listingVars, foreignVars, libraryVars, unitVars, literalVars>>)
    /\ \A t \in LibThread :
          WF_vars(/\ part = "libraries" /\ LibraryStep(t)
                  /\ UNCHANGED <<part, boxVars, typeVars, documentVars, lexerVars, nameVars, typedVars, vectorVars, listingVars, foreignVars, unitVars, literalVars>>)

(* The tokens are the whole text, each in its line, with the value it has.  *)
TokensAreText == part = "lexer" => LexerTypeOK /\ NothingLost /\ InItsLine /\ LiteralAsWritten /\ NameAsWritten

(* A name means what the scopes say, an index or none, and a call is linked *)
(* to the best function of its name, or refused for a reason; a unit that   *)
(* passes is right, in whatever order its functions were needed.            *)
NamesMeanTheirs ==
    /\ part = "names" =>
        /\ NamesTypeOK /\ SameWithIndex /\ MeansInnermost /\ StaysOnPath
        /\ BestIsLinked /\ RefusedForCause
    /\ part = "units" => UnitsAreChecked
    /\ part = "literals" => LiteralsAsWritten

(* Nobody waits for ever: no thread sleeps at a lock of the types that is  *)
(* never given to it, no way out of loadLibrary leaves the libraries' set   *)
(* locked, and the lexer comes to the end of every text.                   *)
PartsGoOn ==
    /\ part = "types" => EveryTypeIsMade
    /\ part = "libraries" => SetIsFreed
    /\ MovesOn
=============================================================================
