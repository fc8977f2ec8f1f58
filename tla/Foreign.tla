------------------------------- MODULE Foreign -------------------------------
(***************************************************************************)
(* How values get into a function that runs at compile time, and out of it *)
(* again.  A type is laid out in memory twice, by the validator and for C  *)
(* (validator.cpp, foreign_code.cpp); a value is an expression, bytes in   *)
(* the machine's frame, or an argument in the form C takes it, and is      *)
(* turned from one into another by marshal, unmarshal and transcode.  The  *)
(* function is the language's own, which the machine runs                  *)
(* (interpreter_exec.cpp), or a foreign one, called by the evaluator or by *)
(* the machine.                                                            *)
(*                                                                         *)
(* A byte is <<the leaf it belongs to, its place in it>>: what a number's  *)
(* bits are is of no concern here.  A leaf is a path, the parameter first. *)
(* The library is one for Windows, the only one there is a driver for.     *)
(***************************************************************************)
EXTENDS Integers, Sequences, SequencesExt, FiniteSets, TLC

CONSTANTS CallsMade \* [way, params, result, ret, from]: how it is called, the types of its parameters
                    \* and of its result, the parameter the language's own function
                    \* returns, and whether the arguments are results of earlier
                    \* calls or written in the source

VARIABLES callee,     \* the call
          stage,      \* "make", "place", "put", "run", and how it ended
          nextArg,    \* the parameter in hand
          arguments,  \* the arguments as the evaluator has them
          places,     \* offsets of the parameters in the frame
          frame,      \* the machine's stack from the frame on
          stackTop,   \* what of it is used for arguments
          context,    \* CallContext: args and retArg
          readyKinds, \* basic types whose abi is set
          outcome     \* the result as the evaluator or as the machine has it
foreignVars == <<callee, stage, nextArg, arguments, places, frame, stackTop, context, readyKinds, outcome>>

PrimitiveSize == [I8 |-> 1, U8 |-> 1, I16 |-> 2, U16 |-> 2, I32 |-> 4, U32 |-> 4, F32 |-> 4,
                  I64 |-> 8, U64 |-> 8, F64 |-> 8, POINTER |-> 8]
isPrimitiveKind(kind) == kind \in DOMAIN PrimitiveSize

\* (ptr + (align - 1)) & ~(align - 1), for a power of two and for 0.
AlignForward(ptr, align) == IF align = 0 THEN 0 ELSE ((ptr + align - 1) \div align) * align
PaddingTo(ptr, align) == AlignForward(ptr, align) - ptr

---------------------------------------------------------------------------
(* The layouts. *)

basicInfo(kind) == [kind |-> kind, size |-> PrimitiveSize[kind], align |-> PrimitiveSize[kind]]
makeArrayInfo(element, count) ==
    [kind |-> "ARRAY", size |-> element.size * count, align |-> element.align, element |-> element, count |-> count]
SliceInfo == [kind |-> "SLICE", size |-> 16, align |-> 8]

(* Mutant: a member begins where the one before it ends. *)
Packed(infos) ==
    LET end == FoldLeft(LAMBDA s, m :
                [offset |-> s.offset + m.size, align |-> IF m.align > s.align THEN m.align ELSE s.align,
                 members |-> Append(s.members, [type |-> m, offset |-> s.offset])],
            [offset |-> 0, align |-> 0, members |-> <<>>], infos)
    IN [kind |-> "STRUCT", size |-> end.offset + PaddingTo(end.offset, end.align), align |-> end.align,
        members |-> end.members]
\* The validator's: padding behind a member is that of its own alignment.
computeStructInfo(infos) ==
    LET end == FoldLeft(LAMBDA s, m :
                [offset |-> s.offset + m.size + PaddingTo(s.offset + m.size, m.align),
                 align |-> IF m.align > s.align THEN m.align ELSE s.align,
                 members |-> Append(s.members, [type |-> m, offset |-> s.offset + PaddingTo(s.offset, m.align)])],
            [offset |-> 0, align |-> 0, members |-> <<>>], infos)
    IN [kind |-> "STRUCT", size |-> end.offset + PaddingTo(end.offset, end.align), align |-> end.align,
        members |-> end.members]

RECURSIVE InfoOf(_)
InfoOf(t) ==
    CASE t.kind = "STRUCT" -> computeStructInfo([i \in DOMAIN t.members |-> InfoOf(t.members[i])])
      [] t.kind = "ARRAY"  -> makeArrayInfo(InfoOf(t.element), t.count)
      [] t.kind = "SLICE"  -> SliceInfo
      [] OTHER             -> basicInfo(t.kind)

\* The one for C, computed from the validator's.
WordSize == 8
MinAlign == 1
LayoutStruct(members) ==
    LET end == FoldLeft(LAMBDA s, m : LET at == AlignForward(s.offset, m.align) IN
                [offset |-> at + m.size, align |-> IF m.align > s.align THEN m.align ELSE s.align,
                 members |-> Append(s.members, [type |-> m, offset |-> at])],
            [offset |-> 0, align |-> MinAlign, members |-> <<>>], members)
    IN [kind |-> "STRUCT", size |-> AlignForward(end.offset, end.align), align |-> end.align, members |-> end.members]
RECURSIVE computeTypeInfo(_)
computeTypeInfo(info) ==
    CASE isPrimitiveKind(info.kind) -> info
      [] info.kind = "STRUCT" -> LayoutStruct([i \in DOMAIN info.members |-> computeTypeInfo(info.members[i].type)])
      [] info.kind = "ARRAY"  -> makeArrayInfo(computeTypeInfo(info.element), info.count)
      [] OTHER -> [info EXCEPT !.align = WordSize, !.size = 2 * WordSize]

---------------------------------------------------------------------------
(* Values: an expression is a leaf or an initialisation, bytes are a       *)
(* function of offsets.                                                    *)

\* Paths that are no parameter's.
ZeroPath   == <<0>>
StalePath  == <<-1>>
TornPath   == <<-2>>
AddressPath == <<-3>>
ResultPath == <<-4>>
Leaf(path)   == [tag |-> "leaf", of |-> path]
Inits(attrs) == [tag |-> "init", attrs |-> attrs]
\* A value of the source: it has an expression, but value.exp is not set.
SourceValue      == [tag |-> "written"]
RefusedValue == [tag |-> "refused"]
IsRefused(v) == v.tag = "refused"

Shift(bytes, by) == [k \in {j + by : j \in DOMAIN bytes} |-> bytes[k - by]]
LeafBytes(path, n) == [k \in 0..(n - 1) |-> <<path, k>>]
Bytes(memory, from, n) == [k \in 0..(n - 1) |-> memory[from + k]]

\* The bytes marshal writes, none when it returns an error.  The machine's
\* slots are whole words: an integer is extended to one.
RECURSIVE marshal(_, _, _)
marshal(type, v, mode) ==
    IF isPrimitiveKind(type.kind)
    THEN LeafBytes(v.of, IF mode = "SLOT_SE8" THEN WordSize ELSE type.size)
    ELSE IF v.tag # "init" \/ type.kind = "SLICE" THEN <<>>
    ELSE FoldLeft(LAMBDA s, i :
            IF type.kind = "STRUCT"
            THEN Shift(marshal(type.members[i].type, v.attrs[i], "TYPE_DEFAULT"), type.members[i].offset) @@ s
            ELSE Shift(marshal(type.element, v.attrs[i], "TYPE_DEFAULT"), (i - 1) * type.element.size) @@ s,
         <<>>, [i \in DOMAIN v.attrs |-> i])
marshalFails(type, v) == ~isPrimitiveKind(type.kind) /\ (v.tag # "init" \/ type.kind = "SLICE")

(* Mutant: the members of a struct are read one behind the other. *)
ReadPacked(type, i) == FoldLeft(LAMBDA n, m : n + m.type.size, 0, SubSeq(type.members, 1, i - 1))
MemberOffset(type, i) == type.members[i].offset

\* A whole word is read for an unsigned number in a slot: what is above it counts.
LeafRead(type, bytes, mode) ==
    LET of == bytes[0][1] IN
    IF /\ \A k \in 0..(type.size - 1) : bytes[k] = <<of, k>>
       /\ mode = "SLOT_SE8" /\ type.kind \in {"U8", "U16", "U32"} =>
            \A k \in type.size..(WordSize - 1) : bytes[k][1] \in {ZeroPath, of}
    THEN Leaf(of) ELSE Leaf(TornPath)
RECURSIVE unmarshal(_, _, _)
unmarshal(type, bytes, mode) ==
    IF isPrimitiveKind(type.kind) THEN LeafRead(type, bytes, mode)
    ELSE IF type.kind = "SLICE" THEN RefusedValue
    ELSE LET attrs == IF type.kind = "STRUCT"
                      THEN [i \in DOMAIN type.members |->
                                unmarshal(type.members[i].type, Shift(bytes, 0 - MemberOffset(type, i)), "TYPE_DEFAULT")]
                      ELSE [i \in 1..type.count |->
                                unmarshal(type.element, Shift(bytes, 0 - (i - 1) * type.element.size), "TYPE_DEFAULT")]
         IN IF \E i \in DOMAIN attrs : IsRefused(attrs[i]) THEN RefusedValue ELSE Inits(attrs)

\* The bytes transcode copies, from one place to another.
RECURSIVE Transcoded(_, _, _)
Transcoded(source, target, bytes) ==
    IF isPrimitiveKind(source.kind)
    THEN IF source.kind = "POINTER" THEN <<>> ELSE [k \in 0..(source.size - 1) |-> bytes[k]]
    ELSE IF source.kind = "SLICE" THEN <<>>
    ELSE IF source.kind = "STRUCT"
    THEN FoldLeft(LAMBDA s, i : Shift(Transcoded(source.members[i].type, target.members[i].type,
                                         Shift(bytes, 0 - source.members[i].offset)), target.members[i].offset) @@ s,
             <<>>, [i \in DOMAIN source.members |-> i])
    ELSE FoldLeft(LAMBDA s, i : Shift(Transcoded(source.element, target.element,
                                         Shift(bytes, 0 - (i - 1) * source.element.size)), (i - 1) * target.element.size) @@ s,
             <<>>, [i \in 1..source.count |-> i])

---------------------------------------------------------------------------
(* What a value is: its leaves, each at its offset; it is what the bytes   *)
(* are compared with.                                                      *)

RECURSIVE LeavesOf(_, _, _)
LeavesOf(type, path, offset) ==
    CASE type.kind = "STRUCT" ->
            UNION {LeavesOf(type.members[i].type, Append(path, i), offset + type.members[i].offset) :
                        i \in DOMAIN type.members}
      [] type.kind = "ARRAY" ->
            UNION {LeavesOf(type.element, Append(path, i), offset + (i - 1) * type.element.size) : i \in 1..type.count}
      [] OTHER -> {[path |-> path, at |-> offset, size |-> type.size]}
RECURSIVE ValueOf(_, _)
ValueOf(type, path) ==
    CASE type.kind = "STRUCT" -> Inits([i \in DOMAIN type.members |-> ValueOf(type.members[i].type, Append(path, i))])
      [] type.kind = "ARRAY"  -> Inits([i \in 1..type.count |-> ValueOf(type.element, Append(path, i))])
      [] OTHER -> Leaf(path)

\* The value's bytes stand at offset from, whatever is between its leaves.
StandsAt(memory, from, type, path) ==
    \A l \in LeavesOf(type, path, from) : \A k \in 0..(l.size - 1) :
        l.at + k \in DOMAIN memory /\ memory[l.at + k] = <<l.path, k>>

ImageOf(type, path) ==
    [k \in 0..(AlignForward(type.size, WordSize) + WordSize - 1) |->
        LET here == {l \in LeavesOf(type, path, 0) : k \in l.at..(l.at + l.size - 1)} IN
        IF here = {} THEN <<ZeroPath, 0>> ELSE LET l == CHOOSE l \in here : TRUE IN <<l.path, k - l.at>>]

---------------------------------------------------------------------------
(* The function and its arguments. *)

None    == [tag |-> "none"]
ForeignStart ==
    /\ stage = "make" /\ nextArg = 1 /\ arguments = <<>> /\ places = <<0>>
    /\ frame = <<>> /\ stackTop = 0 /\ outcome = None
    /\ context = [args |-> <<>>, retArg |-> None]
    \* An earlier call may have made a type ready.
    /\ readyKinds \in IF callee # <<>> /\ callee.way # "own" THEN {{}, {"U32"}} ELSE {{}}

ParamCount     == Len(callee.params)
Params(i) == InfoOf(callee.params[i])
ResultInfo    == InfoOf(callee.result)
After(s, then) == IF nextArg = ParamCount THEN stage' = then /\ nextArg' = 1 ELSE stage' = s /\ nextArg' = nextArg + 1
ByteAt(memory, k) == IF k \in DOMAIN memory THEN memory[k] ELSE <<StalePath, 0>>
Taken(memory, from, n) == [k \in 0..(n - 1) |-> ByteAt(memory, from + k)]

\* The arguments: a result has been unmarshalled, a struct or an array of the
\* source is an expression the value does not know of.
ArgumentOf(i) ==
    IF callee.from = "result" THEN unmarshal(Params(i), ImageOf(Params(i), <<i>>), "SLOT_SE8")
    ELSE IF isPrimitiveKind(Params(i).kind) THEN Leaf(<<i>>) ELSE SourceValue
FirstStage == IF callee.way = "own" THEN "place" ELSE "compile"
MakeArgument ==
    /\ stage = "make" /\ nextArg <= ParamCount /\ callee.way # "native"
    /\ arguments' = Append(arguments, ArgumentOf(nextArg))
    /\ IF IsRefused(ArgumentOf(nextArg)) THEN stage' = "refused" /\ UNCHANGED nextArg ELSE After("make", FirstStage)
    /\ UNCHANGED <<callee, places, frame, stackTop, context, readyKinds, outcome>>
NothingToMake ==
    /\ stage = "make" /\ (ParamCount = 0 \/ callee.way = "native") /\ stage' = FirstStage
    /\ UNCHANGED <<callee, nextArg, arguments, places, frame, stackTop, context, readyKinds, outcome>>

---------------------------------------------------------------------------
(* The language's own. *)

(* Mutant: a parameter takes the bytes of its type. *)
PlaceBytes(at, type) == at + type.size
\* A parameter takes whole words.
pushParameter(at, type) == at + AlignForward(type.size, WordSize)
PlaceParameter ==
    /\ stage = "place"
    /\ places' = Append(places, pushParameter(Last(places), Params(nextArg)))
    /\ After("place", "put")
    /\ UNCHANGED <<callee, arguments, frame, stackTop, context, readyKinds, outcome>>
FixedSize == Last(places)

\* The machine puts the arguments one behind the other, by their bytes.
PutArgument ==
    /\ stage = "put"
    /\ LET type == Params(nextArg) v == arguments[nextArg] IN
       IF stackTop + type.size > FixedSize \/ marshalFails(type, v)
       THEN stage' = "refused" /\ UNCHANGED <<nextArg, frame, stackTop>>
       ELSE /\ frame' = Shift(marshal(type, v, "SLOT_SE8"), stackTop) @@ frame
            /\ stackTop' = stackTop + type.size
            /\ After("put", "run")
    /\ UNCHANGED <<callee, arguments, places, context, readyKinds, outcome>>

(* Mutant: a whole word is loaded. *)
LoadedWord(type, at) == Taken(frame, at, IF isPrimitiveKind(type.kind) THEN WordSize ELSE type.size)
\* What the function's load pushes: a number is extended, all else is copied.
Loaded(type, at) ==
    IF isPrimitiveKind(type.kind)
    THEN Taken(frame, at, type.size) @@ [k \in 0..(WordSize - 1) |-> <<ZeroPath, 0>>]
    ELSE Taken(frame, at, type.size)
ReturnParameter ==
    /\ stage = "run"
    /\ outcome' = unmarshal(ResultInfo, Loaded(ResultInfo, places[callee.ret]), "SLOT_SE8")
    /\ stage' = "returned"
    /\ UNCHANGED <<callee, nextArg, arguments, places, frame, stackTop, context, readyKinds>>

---------------------------------------------------------------------------
(* A foreign one: how its arguments are passed is worked out once, then    *)
(* they are filled in.                                                     *)

(* The type's node is read behind a TypeInfo, which for a basic type is    *)
(* the abi of the third basic type after it.                               *)
Basics == <<"VOID", "I8", "I16", "I32", "I64", "U8", "U16", "U32", "U64", "F32", "F64">>
ReadAsNode(kind) == LET n == CHOOSE n \in DOMAIN Basics : Basics[n] = kind
                    IN IF n + 3 \in DOMAIN Basics THEN Basics[n + 3] ELSE "VOID"
IsBasic(kind) == kind \in ToSet(Basics)
MisreadsNode(kind) == IsBasic(kind) /\ ReadAsNode(kind) \in readyKinds
ensureTypeInfoReady(kind) == readyKinds' = readyKinds \cup (IF IsBasic(kind) THEN {kind} ELSE {})

(* Mutant: no struct fits a register. *)
NeverInRegister(type) ==
    CASE type.kind \in {"F32", "F64"} -> {[kind |-> "FLOAT", pass |-> "REG_FLOAT"]}
      [] isPrimitiveKind(type.kind)      -> {[kind |-> "INT", pass |-> "REG_INT"]}
      [] type.kind = "STRUCT"        -> {[kind |-> "AGGREGATE", pass |-> "REG_STRUCT_REFERENCE"]}
      [] OTHER -> [kind : {"NONE"}, pass : {"REG_INT"}]
\* pass is left as the memory was for what is neither number nor struct.
win64Classify(type) ==
    CASE type.kind \in {"F32", "F64"} -> {[kind |-> "FLOAT", pass |-> "REG_FLOAT"]}
      [] isPrimitiveKind(type.kind)      -> {[kind |-> "INT", pass |-> "REG_INT"]}
      [] type.kind = "STRUCT" ->
            {IF type.size % 2 = 0 /\ type.size <= WordSize
             THEN [kind |-> "INT", pass |-> "REG_STRUCT"] ELSE [kind |-> "AGGREGATE", pass |-> "REG_STRUCT_REFERENCE"]}
      [] OTHER -> [kind : {"NONE"}, pass : {"REG_INT", "REG_STRUCT", "REG_STRUCT_REFERENCE", "MEM_STRUCT", "other"}]

CompileArgument ==
    /\ stage = "compile" /\ Len(context.args) < ParamCount
    /\ LET type == computeTypeInfo(Params(nextArg)) IN
       IF MisreadsNode(type.kind) THEN stage' = "wild" /\ UNCHANGED <<nextArg, context, readyKinds>>
       ELSE /\ ensureTypeInfoReady(type.kind)
            /\ \E c \in win64Classify(type) :
                    context' = [context EXCEPT !.args = Append(@, [kind |-> c.kind, pass |-> c.pass, data |-> None])]
            /\ After("compile", "compile")
    /\ UNCHANGED <<callee, arguments, places, frame, stackTop, outcome>>
CompileResult ==
    /\ stage = "compile" /\ Len(context.args) = ParamCount
    /\ LET type == computeTypeInfo(ResultInfo) IN
       IF MisreadsNode(type.kind) THEN stage' = "wild" /\ UNCHANGED <<context, readyKinds>>
       ELSE /\ ensureTypeInfoReady(type.kind)
            /\ \E c \in win64Classify(type) :
                    context' = [context EXCEPT !.retArg = [kind |-> c.kind, pass |-> c.pass, data |-> None]]
            /\ stage' = IF callee.way = "native" THEN "invoke" ELSE IF ParamCount = 0 THEN "filled" ELSE "fill"
    /\ UNCHANGED <<callee, nextArg, arguments, places, frame, stackTop, outcome>>

InRegister(bytes)  == [tag |-> "word", bytes |-> bytes]
PointTo(at)  == [tag |-> "pointer", at |-> at]
(* Mutant: what is behind a pointer is not aligned. *)
UnalignedReference(top) == top
ReferenceAt(top) == AlignForward(top, 16)

\* What fillArgs leaves of one argument: data, where its bytes go, the next place.
Filled(pass, type, v) ==
    CASE pass \in {"REG_INT", "REG_FLOAT"} ->
            [data |-> IF v.tag = "leaf" THEN InRegister(LeafBytes(v.of, WordSize)) ELSE None, bytes |-> <<>>, top |-> stackTop]
      [] pass = "REG_STRUCT_REFERENCE" ->
            [data |-> PointTo(ReferenceAt(stackTop)), bytes |-> Shift(marshal(type, v, "TYPE_DEFAULT"), ReferenceAt(stackTop)),
             top |-> ReferenceAt(stackTop) + WordSize]
      [] pass = "REG_STRUCT" ->
            LET at == AlignForward(stackTop, WordSize)
                offset == WordSize - type.size
                put == Shift(marshal(type, v, "TYPE_DEFAULT"), at + offset) @@ frame
            IN [data |-> InRegister([k \in 0..(WordSize - 1) |-> IF k < offset THEN <<ZeroPath, 0>> ELSE ByteAt(put, at + k)]),
                bytes |-> [k \in at..(at + offset - 1) |-> <<ZeroPath, 0>>] @@ put, top |-> at + WordSize]
      [] pass = "MEM_STRUCT" ->
            LET at == AlignForward(stackTop, type.align)
                put == Shift(marshal(type, v, "TYPE_DEFAULT"), at)
            IN [data |-> InRegister(Taken(put @@ frame, at, WordSize)), bytes |-> put, top |-> at + type.size]
      [] OTHER -> [data |-> None, bytes |-> <<>>, top |-> stackTop]
FillArgument ==
    /\ stage = "fill"
    /\ LET type == computeTypeInfo(Params(nextArg)) pass == context.args[nextArg].pass
       IN IF pass = "REG_STRUCT" /\ type.size > WordSize
          THEN stage' = "wild" /\ UNCHANGED <<nextArg, context, frame, stackTop>>
          ELSE LET f == Filled(pass, type, arguments[nextArg]) IN
               /\ context' = [context EXCEPT !.args[nextArg].data = f.data]
               /\ frame' = f.bytes @@ frame /\ stackTop' = f.top
               /\ After("fill", "filled")
    /\ UNCHANGED <<callee, arguments, places, readyKinds, outcome>>

---------------------------------------------------------------------------
(* A foreign one the machine calls.  The three words it drops are those of *)
(* its call, if there are no arguments on them.  A function of C returns a *)
(* struct of one, two, four or eight bytes in a register, any other where  *)
(* the pointer says, which here is the retArg itself.                      *)

InWord(type) == type.kind # "STRUCT" \/ type.size \in {1, 2, 4, 8}
KindByte == 16
asm_win64Invoke(type, kind) ==
    LET value == [k \in 0..(type.size - 1) |-> ImageOf(type, ResultPath)[k]]
    IN IF InWord(type) THEN IF kind = "AGGREGATE" THEN {<<>>} ELSE {value}
       ELSE IF kind # "AGGREGATE" THEN {}
       ELSE {value} \cup (IF type.size > KindByte THEN {[k \in 0..(WordSize - 1) |-> <<AddressPath, k>>] @@ value} ELSE {})

InvokeNative ==
    /\ stage = "invoke"
    /\ LET type == computeTypeInfo(ResultInfo)
           argumentWords == FoldLeft(LAMBDA n, t : n + AlignForward(InfoOf(t).size, WordSize), 0, callee.params)
           returned == asm_win64Invoke(type, context.retArg.kind)
       IN IF returned = {} THEN stage' = "wild" /\ UNCHANGED <<outcome, stackTop>>
          ELSE \E r \in returned :
               /\ outcome' = [tag |-> "bytes", bytes |-> Transcoded(ResultInfo, ResultInfo, Taken(r, 0, ResultInfo.size))]
               /\ stackTop' = argumentWords + AlignForward(ResultInfo.size, WordSize)
               /\ stage' = "returned"
    /\ UNCHANGED <<callee, nextArg, arguments, places, frame, context, readyKinds>>

ForeignNext == \/ MakeArgument \/ NothingToMake \/ PlaceParameter \/ PutArgument \/ ReturnParameter
               \/ CompileArgument \/ CompileResult \/ FillArgument \/ InvokeNative

---------------------------------------------------------------------------
(* What is meant. *)

ForeignTypeOK ==
    /\ callee \in CallsMade
    /\ stage \in {"make", "place", "put", "run", "compile", "fill", "filled", "invoke", "returned", "refused", "wild"}
    /\ readyKinds \subseteq ToSet(Basics) /\ stackTop \in Nat /\ nextArg \in 1..(ParamCount + 1)

RECURSIVE HasEmpty(_)
HasEmpty(t) == CASE t.kind = "STRUCT" -> t.members = <<>> \/ \E i \in DOMAIN t.members : HasEmpty(t.members[i])
                 [] t.kind = "ARRAY"  -> HasEmpty(t.element)
                 [] OTHER -> FALSE
RECURSIVE HasSlice(_)
HasSlice(t) == CASE t.kind = "STRUCT" -> \E i \in DOMAIN t.members : HasSlice(t.members[i])
                 [] t.kind = "ARRAY"  -> HasSlice(t.element)
                 [] OTHER -> t.kind = "SLICE"

(* A type has one layout, the validator's and the one for C                *)
(* (validator.cpp:2509, foreign_code.cpp:1162), if none of its members is  *)
(* an empty struct, whose alignment is none.                               *)
LayoutsAgree == \A i \in 1..ParamCount : HasEmpty(callee.params[i]) \/ computeTypeInfo(Params(i)) = Params(i)

(* A result becomes an expression and is the value it was                  *)
(* (foreign_code.cpp:775), if its members lie apart.                       *)
ArgumentsAsReturned ==
    callee.from = "result" => \A i \in DOMAIN arguments :
        HasEmpty(callee.params[i]) \/ arguments[i] \in {ValueOf(Params(i), <<i>>), RefusedValue}

(* The machine's function finds each argument in its place, and what it    *)
(* returns is the argument, if every argument before takes whole words     *)
(* (interpreter_exec.cpp:507 goes on by bytes, interpreter_build.cpp:234   *)
(* by words).  A whole word is written for a number, and only the bytes of *)
(* its type are asked for: it stays in the function's frame all the same.  *)
Shifted(i) == HasEmpty(callee.params[i]) \/ \E j \in 1..(i - 1) : Params(j).size % WordSize # 0
OwnFindsArguments ==
    /\ stage = "run" => DOMAIN frame \subseteq 0..(FixedSize - 1)
    /\ stage = "run" => \A i \in 1..ParamCount : Shifted(i) \/ StandsAt(frame, places[i], Params(i), <<i>>)
    /\ stage = "returned" /\ callee.way = "own" =>
            Shifted(callee.ret) \/ outcome = ValueOf(ResultInfo, <<callee.ret>>)

(* C finds each argument where its convention has it (the comment at       *)
(* ffi_win64.cpp:36), but for a struct of the source, one of 1, 2, 4 or 6  *)
(* bytes, one of more than a word with a struct behind it, and an array.   *)
Arrives(i) ==
    LET type == computeTypeInfo(Params(i)) data == context.args[i].data
    IN IF InWord(type) THEN data.tag = "word" /\ StandsAt(data.bytes, 0, type, <<i>>)
       ELSE data.tag = "pointer" /\ data.at % 16 = 0 /\ StandsAt(frame, data.at, type, <<i>>)
NotForC(i) ==
    LET type == Params(i) IN
    \/ type.kind \in {"ARRAY", "SLICE"}
    \/ /\ type.kind = "STRUCT"
       /\ \/ callee.from = "source"
          \/ type.size \in {1, 2, 4, 6}
          \/ (type.size > WordSize /\ \E j \in (i + 1)..ParamCount : ~isPrimitiveKind(Params(j).kind))
          \/ HasEmpty(callee.params[i])
ForeignFindsArguments == stage = "filled" => \A i \in 1..ParamCount : NotForC(i) \/ Arrives(i)

(* The machine has the foreign function's result on its stack, and nothing *)
(* else of the call (interpreter_exec.cpp:1703), but for the words of the  *)
(* arguments, a struct of one byte or of more than 16, a slice.            *)
NativeReturns ==
    stage = "returned" /\ callee.way = "native" =>
        /\ \/ (ResultInfo.kind = "STRUCT" /\ (ResultInfo.size = 1 \/ ResultInfo.size > KindByte \/ HasEmpty(callee.result)))
           \/ ResultInfo.kind \in {"ARRAY", "SLICE", "POINTER"} \/ HasSlice(callee.result)
           \/ StandsAt(outcome.bytes, 0, ResultInfo, ResultPath)
        /\ ParamCount = 0 => stackTop = AlignForward(ResultInfo.size, WordSize)

(* A call that comes to no end has an argument or a result of a kind that  *)
(* is not converted: a slice, an array for C, a value of the source; or a  *)
(* basic type whose readiness is looked up in another's                    *)
(* (foreign_code.cpp:1318).                                                *)
EndsForCause ==
    /\ stage = "refused" =>
        \/ \E i \in 1..ParamCount : HasSlice(callee.params[i])
        \/ (callee.way = "own" /\ callee.from = "source" /\ ~isPrimitiveKind(Params(nextArg).kind))
    /\ stage = "wild" =>
        \/ \E i \in 1..ParamCount : Params(i).kind \in {"ARRAY", "SLICE"} \/ MisreadsNode(Params(i).kind)
        \/ MisreadsNode(ResultInfo.kind) \/ (~InWord(ResultInfo) /\ ResultInfo.size <= WordSize)

ForeignAsMeant ==
    callee # <<>> =>
        /\ ForeignTypeOK /\ LayoutsAgree /\ ArgumentsAsReturned /\ OwnFindsArguments /\ ForeignFindsArguments
                        /\ NativeReturns /\ EndsForCause
=============================================================================
