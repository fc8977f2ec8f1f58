------------------------------- MODULE Listing -------------------------------
(***************************************************************************)
(* The bytes of the bytecode: how the builder lays instructions and their  *)
(* operands out and keeps the table of source lines beside them            *)
(* (interpreter_build.cpp), how the machine takes the operands out again   *)
(* (interpreter_exec.cpp), and how the disassembler finds the instructions,*)
(* their lines and the functions they call (interpreter_debug.cpp).        *)
(*                                                                         *)
(* A program is a sequence of blocks, compiled one after the other by one  *)
(* CompilerState.  A block is a sequence of pieces, one for each call of a *)
(* pushing function; [do |-> "line"] stands for updateSourceLocation.  A   *)
(* byte is <<the field it belongs to, its place in it>>; what is in a field*)
(* is its name and one number.  The bytes of a field have the width they   *)
(* have in the code.                                                       *)
(***************************************************************************)
EXTENDS Integers, Sequences, SequencesExt, FiniteSets

CONSTANTS Listings,     \* the programs
          MaxDepth      \* maxDepth of collectFunctions

(* The pieces of a program: statements begin in a line, a jump back goes to *)
(* a piece compiled before, one ahead and the cells of a table to a piece   *)
(* that is still to come or to the end, a call names a function or none.    *)
Immediates == {"I8", "I16", "I32", "U8", "U16", "U32", "F32", "I64", "U64", "F64", "PTR"}
Jumps      == {"JUMP", "JUMP_IF_TRUE", "JUMP_IF_FALSE"}
\* Opcodes pushed in one place each, with the operands pushed behind them.
Pushed == [LOAD |-> <<>>, STORE |-> <<>>, DUP |-> <<>>, POP |-> <<>>, SWAP |-> <<>>,
           ADD |-> <<>>, NOT |-> <<>>, CAST |-> <<>>, VEC_TO_REF |-> <<>>, VEC_RESET |-> <<>>,
           VEC_MEM_RESET |-> <<>>,
           LOAD_BLOB |-> <<"size">>, STORE_BLOB |-> <<"size">>, PTR_IDX |-> <<"size">>,
           DUP_N |-> <<"n">>, GROW |-> <<"size">>, RET |-> <<"size">>, LEA_CONST |-> <<"offset">>,
           CROP |-> <<"blobSize", "memberOffset", "memberSize">>, CALL |-> <<"fcn", "varargSize">>,
           VEC_VV |-> <<"descriptor">>, VEC_FILL |-> <<"descriptor">>, VEC_CAST |-> <<"descriptor">>,
           VEC_ALLOC |-> <<"size">>]

PieceFits(program, pieces, n) ==
    LET p == pieces[n] IN
    \/ p.do = "line" /\ p.span \in [first : Nat \ {0}, last : Nat] /\ p.span.first <= p.span.last
    \/ p.do = "push" /\ p.kind \in Immediates /\ p.val \in Int
    \/ p.do = "access" /\ p.way \in {"SET", "GET"} /\ p.local \in BOOLEAN /\ p.blob \in BOOLEAN /\ p.val \in Int
    \/ p.do = "lea" /\ p.local \in BOOLEAN /\ p.val \in Int
    \/ /\ p.do = "plain" /\ p.op \in DOMAIN Pushed
       /\ p.vals \in Seq(Int) /\ Len(p.vals) >= Len(Pushed[p.op])
       /\ p.op = "CALL" => p.vals[1] \in 0..Len(program)
    \/ p.do = "back" /\ p.to \in 1..n
    \/ p.do = "ahead" /\ p.op \in Jumps /\ p.to \in (n + 1)..(Len(pieces) + 1)
    \/ /\ p.do = "table" /\ p.lo \in Int /\ p.hi \in Int /\ p.lo <= p.hi
       /\ p.to \in [1..(p.hi - p.lo + 2) -> (n + 1)..(Len(pieces) + 1)]

ProgramFits(program) ==
    /\ program # <<>> /\ program \in Seq(ToSet(program))
    /\ \A f \in DOMAIN program :
           /\ program[f].unit \in BOOLEAN
           /\ program[f].pieces \in Seq(ToSet(program[f].pieces))
           /\ \A n \in DOMAIN program[f].pieces : PieceFits(program, program[f].pieces, n)

ASSUME ListingAssumption ==
    /\ MaxDepth \in Nat
    /\ \A program \in Listings : ProgramFits(program)

VARIABLES functions,    \* the program
          build,        \* CompilerState: bytes, lines, span, offsetStart, last, and what is to patch
          exes,         \* the ExeBlocks committed
          frames,       \* the calls of collectFunctions under way
          collected,    \* functionsArray
          listing,      \* what was printed of the block that is being printed
          printing      \* [block, ptr, lineIdx, lineEnd], and how it goes on
listingVars == <<functions, build, exes, frames, collected, listing, printing>>

Torn == [name |-> "torn", val |-> 0, width |-> 0]
Field(name, val, width) == [k \in 1..width |-> <<[name |-> name, val |-> val, width |-> width], k>>]

\* The field of width bytes that starts at offset p, or bytes of no one field.
Read(bytes, p, width) ==
    IF /\ p \in 0..(Len(bytes) - width)
       /\ \A k \in 1..width : bytes[p + k][2] = k /\ bytes[p + k][1].width = width
    THEN bytes[p + 1][1] ELSE Torn

---------------------------------------------------------------------------
(* The builder.  A piece becomes an opcode and operands <<name, value, width>>. *)

WordOf(name, val) == <<name, val, 8>>

\* Small integers are pushed as 32-bit ones.
pushImmediate(kind, val) ==
    CASE kind \in {"I8", "I16", "I32"} -> <<"PUSH_I32", << <<"value", val, 4>> >> >>
      [] kind \in {"U8", "U16", "U32"} -> <<"PUSH_U32", << <<"value", val, 4>> >> >>
      [] kind = "F32" -> <<"PUSH_F32", << <<"value", val, 4>> >> >>
      [] kind \in {"I64", "U64", "F64", "PTR"} -> <<"PUSH_64", << WordOf("value", val) >> >>

\* pushSetOpcode and pushGetOpcode are alike: way says which of them it is.
AccessOp(way, local, blob) ==
    CASE way = "SET" -> IF local THEN (IF blob THEN "SET_BLOB" ELSE "SET")
                                 ELSE (IF blob THEN "SET_GLOBAL_BLOB" ELSE "SET_GLOBAL")
      [] way = "GET" -> IF local THEN (IF blob THEN "GET_BLOB" ELSE "GET")
                                 ELSE (IF blob THEN "GET_GLOBAL_BLOB" ELSE "GET_GLOBAL")
(* Mutant: the size of a blob goes behind its offset. *)
SizeLast(way, local, blob, val) ==
    <<AccessOp(way, local, blob), (IF local THEN <<>> ELSE << WordOf("def", 1) >>)
        \o << WordOf("offset", val) >> \o (IF blob THEN << WordOf("size", 24) >> ELSE <<>>)>>
pushAccess(way, local, blob, val) ==
    <<AccessOp(way, local, blob), (IF local THEN <<>> ELSE << WordOf("def", 1) >>)
        \o (IF blob THEN << WordOf("size", 24) >> ELSE <<>>) \o << WordOf("offset", val) >> >>

pushLea(local, val) ==
    IF local THEN <<"LEA", << WordOf("offset", val) >> >>
             ELSE <<"LEA_GLOBAL", << WordOf("def", 1), WordOf("offset", val) >> >>

pushPlain(op, vals) == <<op, [k \in DOMAIN Pushed[op] |-> WordOf(Pushed[op][k], vals[k])]>>

\* A jump back knows where it goes; one ahead is patched when it is known.
pushJumpBack(b, to) == <<"JUMP", << WordOf("target", b.places[to] - Len(b.bytes)) >> >>
pushJumpPlaceholder(op) == <<op, << WordOf("target", 0) >> >>
pushTable(lo, hi) ==
    <<"JUMP_TABLE", << WordOf("min", lo), WordOf("max", hi) >> \o [k \in 1..(hi - lo + 2) |-> WordOf("cell", 0)]>>

InstructionOf(b, p) ==
    CASE p.do = "push"   -> pushImmediate(p.kind, p.val)
      [] p.do = "access" -> pushAccess(p.way, p.local, p.blob, p.val)
      [] p.do = "lea"    -> pushLea(p.local, p.val)
      [] p.do = "plain"  -> pushPlain(p.op, p.vals)
      [] p.do = "back"   -> pushJumpBack(b, p.to)
      [] p.do = "ahead"  -> pushJumpPlaceholder(p.op)
      [] p.do = "table"  -> pushTable(p.lo, p.hi)

\* The operands a piece leaves to be patched, each with the piece its jump goes to.
ToPatch(b, p) ==
    CASE p.do = "ahead" -> {[at |-> Len(b.bytes) + 1, base |-> Len(b.bytes), to |-> p.to]}
      [] p.do = "table" -> {[at |-> Len(b.bytes) + 17 + 8 * (k - 1), base |-> Len(b.bytes), to |-> p.to[k]] :
                                k \in DOMAIN p.to}
      [] OTHER -> {}

\* The byte of a hit operand keeps its field's name and its place in the field.
Hit(hits, i) == {h \in hits : i - h.at \in 1..8}
(* Mutant: the distance is taken from the operand, not from the opcode. *)
PatchedFromOperand(bytes, hits) ==
    [i \in DOMAIN bytes |->
        IF Hit(hits, i) = {} THEN bytes[i]
        ELSE <<[bytes[i][1] EXCEPT !.val = Len(bytes) - (CHOOSE h \in Hit(hits, i) : TRUE).at], bytes[i][2]>>]
patchJumpToHere(bytes, hits) ==
    [i \in DOMAIN bytes |->
        IF Hit(hits, i) = {} THEN bytes[i]
        ELSE <<[bytes[i][1] EXCEPT !.val = Len(bytes) - (CHOOSE h \in Hit(hits, i) : TRUE).base], bytes[i][2]>>]

pushOperands(bytes, operands) ==
    LET pushed[n \in 0..Len(operands)] ==
            IF n = 0 THEN bytes
            ELSE pushed[n - 1] \o Field(operands[n][1], operands[n][2], operands[n][3])
    IN pushed[Len(operands)]
\* b.emitted remembers what was pushed where and under which statement; the
\* program itself has nothing of the kind.
pushInstruction(b, instruction) ==
    [b EXCEPT !.bytes = pushOperands(@ \o Field(instruction[1], 0, 1), instruction[2]),
              !.last = instruction[1],
              !.emitted = Append(@, [at |-> Len(b.bytes), op |-> instruction[1],
                                     operands |-> [k \in DOMAIN instruction[2] |->
                                         <<instruction[2][k][1], instruction[2][k][3]>>],
                                     line |-> b.source])]

commitLineInfo(b) ==
    Append(b.lines, [first |-> b.span.first, last |-> b.span.last,
                     start |-> b.offsetStart, end |-> Len(b.bytes)])

isLineInSpan(span, line) == span.first <= line /\ line <= span.last

updateSourceLocation(b, span) ==
    IF b.span.first = 0 THEN [b EXCEPT !.span = span, !.offsetStart = 0]
    ELSE IF ~isLineInSpan(b.span, span.first)
    THEN [b EXCEPT !.lines = commitLineInfo(b), !.span = span, !.offsetStart = Len(b.bytes)]
    ELSE IF span.last > b.span.last THEN [b EXCEPT !.span.last = span.last]
    ELSE b

clear(b) == [b EXCEPT !.bytes = <<>>, !.lines = <<>>, !.span = [first |-> 0, last |-> 0], !.offsetStart = 0,
                      !.last = "NOP", !.emitted = <<>>, !.places = <<>>, !.pending = {}, !.source = 0]
Fresh == [bytes |-> <<>>, lines |-> <<>>, span |-> [first |-> 0, last |-> 0], offsetStart |-> 0,
          last |-> "NOP", emitted |-> <<>>, places |-> <<>>, pending |-> {}, source |-> 0]

Reached(b) == {h \in b.pending : h.to = Len(b.places) + 1}
Arrive(b) == [b EXCEPT !.bytes = patchJumpToHere(@, Reached(b)), !.pending = @ \ Reached(b),
                       !.places = Append(@, Len(b.bytes))]

compilePiece(b, p) ==
    IF p.do = "line" THEN [updateSourceLocation(b, p.span) EXCEPT !.source = p.span.first]
    ELSE [pushInstruction(b, InstructionOf(b, p)) EXCEPT !.pending = @ \cup ToPatch(b, p)]

Current == functions[Len(exes) + 1]
BuildPiece ==
    /\ Len(exes) < Len(functions) /\ Len(build.places) < Len(Current.pieces)
    /\ build' = LET b == Arrive(build) IN compilePiece(b, Current.pieces[Len(b.places)])
    /\ UNCHANGED <<functions, exes, frames, collected, listing, printing>>

\* The end of compile(Function) or compile(Unit), and the next task's clear.
Finish(b) == IF Current.unit \/ b.last # "RET" THEN pushInstruction(b, pushPlain("RET", <<0>>)) ELSE b
Commit ==
    /\ Len(exes) < Len(functions) /\ Len(build.places) = Len(Current.pieces)
    /\ LET b == Finish(Arrive(build)) IN
       exes' = Append(exes, [bytes |-> b.bytes, lines |-> commitLineInfo(b), emitted |-> b.emitted])
    /\ build' = clear(build)
    /\ UNCHANGED <<functions, frames, collected, listing, printing>>

---------------------------------------------------------------------------
(* The machine: the operands an opcode takes, in the order it fetches them. *)

FetchedMoves(op) ==
    CASE op \in {"PUSH_I32", "PUSH_U32", "PUSH_F32"} -> << <<"value", 4>> >>
      [] op = "PUSH_64" -> << <<"value", 8>> >>
      [] op \in {"SET", "GET"} -> << <<"offset", 8>> >>
      [] op \in {"SET_BLOB", "GET_BLOB"} -> << <<"size", 8>>, <<"offset", 8>> >>
      [] OTHER -> <<>>
FetchedAddresses(op) ==
    CASE op \in {"LEA", "LEA_CONST"} -> << <<"offset", 8>> >>
      [] op \in {"SET_GLOBAL", "GET_GLOBAL", "LEA_GLOBAL"} -> << <<"def", 8>>, <<"offset", 8>> >>
      [] op \in {"SET_GLOBAL_BLOB", "GET_GLOBAL_BLOB"} -> << <<"def", 8>>, <<"offset", 8>>, <<"size", 8>> >>
      [] op = "PTR_IDX" -> << <<"size", 8>> >>
      [] OTHER -> <<>>
FetchedLoads(op) == IF op \in {"LOAD_BLOB", "STORE_BLOB"} THEN << <<"size", 8>> >> ELSE <<>>
FetchedStack(op) ==
    CASE op = "DUP_N" -> << <<"n", 8>> >>
      [] op = "CROP" -> << <<"blobSize", 8>>, <<"memberOffset", 8>>, <<"memberSize", 8>> >>
      [] OTHER -> <<>>
FetchedJumps(op) ==
    CASE op \in {"JUMP", "JUMP_IF_TRUE", "JUMP_IF_FALSE"} -> << <<"target", 8>> >>
      [] op = "JUMP_TABLE" -> << <<"min", 8>>, <<"max", 8>> >>
      [] OTHER -> <<>>
FetchedCalls(op) ==
    CASE op = "CALL" -> << <<"fcn", 8>>, <<"varargSize", 8>> >>
      [] op \in {"RET", "GROW"} -> << <<"size", 8>> >>
      [] OTHER -> <<>>
FetchedVectors(op) ==
    CASE op \in {"VEC_VV", "VEC_FILL", "VEC_CAST"} -> << <<"descriptor", 8>> >>
      [] op = "VEC_ALLOC" -> << <<"size", 8>> >>
      [] OTHER -> <<>>
Fetched(op) == FetchedMoves(op) \o FetchedAddresses(op) \o FetchedLoads(op) \o FetchedStack(op)
               \o FetchedJumps(op) \o FetchedCalls(op) \o FetchedVectors(op)

---------------------------------------------------------------------------
(* The disassembler. *)

ShownPushes(op) ==
    CASE op \in {"PUSH_I32", "PUSH_U32", "PUSH_F32"} -> << <<"value", 4>> >>
      [] op = "PUSH_64" -> << <<"value", 8>> >>
      [] OTHER -> <<>>
ShownAccesses(op) ==
    CASE op \in {"SET", "GET"} -> << <<"offset", 8>> >>
      [] op \in {"SET_GLOBAL", "GET_GLOBAL"} -> << <<"def", 8>>, <<"offset", 8>> >>
      [] op \in {"SET_BLOB", "GET_BLOB"} -> << <<"size", 8>>, <<"offset", 8>> >>
      [] op \in {"SET_GLOBAL_BLOB", "GET_GLOBAL_BLOB"} -> << <<"def", 8>>, <<"size", 8>>, <<"offset", 8>> >>
      [] op \in {"LOAD_BLOB", "STORE_BLOB"} -> << <<"size", 8>> >>
      [] OTHER -> <<>>
ShownJumps(op) ==
    CASE op \in {"JUMP", "JUMP_IF_TRUE", "JUMP_IF_FALSE"} -> << <<"target", 8>> >>
      [] op = "JUMP_TABLE" -> << <<"min", 8>>, <<"max", 8>> >>
      [] OTHER -> <<>>
ShownCalls(op) ==
    CASE op = "CALL" -> << <<"fcn", 8>>, <<"varargSize", 8>> >>
      [] op \in {"LEA", "LEA_CONST"} -> << <<"offset", 8>> >>
      [] op = "LEA_GLOBAL" -> << <<"def", 8>>, <<"offset", 8>> >>
      [] op \in {"PTR_IDX", "RET"} -> << <<"size", 8>> >>
      [] op = "DUP_N" -> << <<"n", 8>> >>
      [] op = "CROP" -> << <<"blobSize", 8>>, <<"memberOffset", 8>>, <<"memberSize", 8>> >>
      [] OTHER -> <<>>
(* Mutant: the size behind GROW and VEC_ALLOC is not passed over. *)
NoSizeShown(op) == IF op \in {"VEC_VV", "VEC_FILL", "VEC_CAST"} THEN << <<"descriptor", 8>> >> ELSE <<>>
ShownVectors(op) ==
    CASE op \in {"VEC_VV", "VEC_FILL", "VEC_CAST"} -> << <<"descriptor", 8>> >>
      [] op \in {"VEC_ALLOC", "GROW"} -> << <<"size", 8>> >>
      [] OTHER -> <<>>
Shown(op) == ShownPushes(op) \o ShownAccesses(op) \o ShownJumps(op) \o ShownCalls(op) \o ShownVectors(op)

\* The offsets behind the first n operands wanted, and the fields read at p.
Offsets(wanted) ==
    LET offset[n \in 0..Len(wanted)] == IF n = 0 THEN 0 ELSE offset[n - 1] + wanted[n][2] IN offset
Fields(bytes, p, wanted) == [k \in DOMAIN wanted |-> Read(bytes, p + Offsets(wanted)[k - 1], wanted[k][2])]
WidthOf(wanted) == Offsets(wanted)[Len(wanted)]

\* A table is printed cell by cell.
TableCells(lo, hi) == [k \in 1..(hi - lo + 2) |-> <<"cell", 8>>]
ShownAt(bytes, p, op) ==
    IF op # "JUMP_TABLE" THEN Shown(op)
    ELSE Shown(op) \o TableCells(Read(bytes, p + 1, 8).val, Read(bytes, p + 9, 8).val)

\* The binary search; the index is unsigned, so that 0 - 1 is beyond every line.
NoLine == 0
Wild   == -1
(* Mutant: the end of a line counts as in it. *)
EndIncluded(lines, target) ==
    LET From(mid) == IF mid = 0 THEN 0 ELSE lines[mid].end
        f[part \in (0..Len(lines)) \X (-1..(Len(lines) - 1))] ==
            LET left  == part[1]
                right == part[2]
                mid   == left + (right - left) \div 2
            IN IF right = -1 THEN Wild
               ELSE IF left > right THEN NoLine
               ELSE IF From(mid) <= target /\ target <= lines[mid + 1].end THEN mid + 1
               ELSE IF target > lines[mid + 1].end THEN f[<<mid + 1, right>>]
               ELSE f[<<left, mid - 1>>]
    IN IF lines = <<>> THEN NoLine ELSE f[<<0, Len(lines) - 1>>]
findLineForOffset(lines, target) ==
    LET From(mid) == IF mid = 0 THEN 0 ELSE lines[mid].end
        f[part \in (0..Len(lines)) \X (-1..(Len(lines) - 1))] ==
            LET left  == part[1]
                right == part[2]
                mid   == left + (right - left) \div 2
            IN IF right = -1 THEN Wild
               ELSE IF left > right THEN NoLine
               ELSE IF From(mid) <= target /\ target < lines[mid + 1].end THEN mid + 1
               ELSE IF target >= lines[mid + 1].end THEN f[<<mid + 1, right>>]
               ELSE f[<<left, mid - 1>>]
    IN IF lines = <<>> THEN NoLine ELSE f[<<0, Len(lines) - 1>>]

\* getOpcodeSize: what collectFunctions goes on by.
SizeOfMove(op) ==
    CASE op \in {"PUSH_I32", "PUSH_U32", "PUSH_F32"} -> 5
      [] op \in {"PUSH_64", "SET"} -> 9
      [] op \in {"SET_BLOB", "GET", "GET_BLOB"} -> 17
      [] op \in {"SET_GLOBAL", "SET_GLOBAL_BLOB", "GET_GLOBAL", "GET_GLOBAL_BLOB"} -> 17
      [] op \in {"LOAD", "STORE"} -> 1
      [] op \in {"LOAD_BLOB", "STORE_BLOB", "LEA", "LEA_CONST", "PTR_IDX"} -> 9
      [] op = "LEA_GLOBAL" -> 17
      [] OTHER -> 0
SizeOfCalculation(op) == IF op \in {"ADD", "NOT", "CAST", "POP", "DUP"} THEN 1 ELSE 0
SizeOfStep(op) ==
    CASE op \in {"DUP_N", "JUMP", "JUMP_IF_TRUE", "JUMP_IF_FALSE", "GROW", "RET"} -> 9
      [] op = "CROP" -> 25
      [] op \in {"JUMP_TABLE", "CALL"} -> 17
      [] op \in {"VEC_VV", "VEC_FILL", "VEC_CAST", "VEC_ALLOC"} -> 9
      [] op \in {"VEC_TO_REF", "VEC_RESET", "VEC_MEM_RESET"} -> 1
      [] OTHER -> 0
getOpcodeSize(op) == SizeOfMove(op) + SizeOfCalculation(op) + SizeOfStep(op)

Built == Len(exes) = Len(functions)
Frame(block, depth) == [block |-> block, ip |-> 0, depth |-> depth]
TopFrame == frames[Len(frames)]

\* One turn of collectFunctions' loop.  A block's functions are the blocks
\* whose number the call names; the number 0 is a function without code.
(* Mutant: what a function calls is looked for whatever the depth. *)
AnyDepth(fcn, depth) == fcn # 0
EntersBlock(fcn, depth) == fcn # 0 /\ depth <= MaxDepth
\* A size of 0 keeps the loop where it is for ever, a table is passed over by
\* a length that was never set: the walk is given up at both.
Collect ==
    /\ Built /\ frames # <<>>
    /\ LET bytes == exes[TopFrame.block].bytes
           op    == Read(bytes, TopFrame.ip, 1).name
           next  == [frames EXCEPT ![Len(frames)].ip = @ + getOpcodeSize(op)]
           fcn   == Read(bytes, TopFrame.ip + 1, 8).val
       IN IF TopFrame.ip >= Len(bytes) THEN /\ frames' = Front(frames) /\ UNCHANGED <<collected, printing>>
          ELSE IF getOpcodeSize(op) = 0 \/ op = "JUMP_TABLE"
          THEN /\ frames' = <<>> /\ printing' = [printing EXCEPT !.walk = "lost"] /\ UNCHANGED collected
          ELSE /\ UNCHANGED printing
               /\ collected' = IF op = "CALL" /\ fcn # 0 /\ ~Contains(collected, fcn)
                               THEN Append(collected, fcn) ELSE collected
               /\ frames' = IF op = "CALL" /\ EntersBlock(fcn, TopFrame.depth + 1)
                            THEN Append(next, Frame(fcn, TopFrame.depth + 1)) ELSE next
    /\ UNCHANGED <<functions, build, exes, listing>>

\* print(Function) begins with its calls, and lists it and then them.
PrintFunction ==
    /\ Built /\ printing.block = 0 /\ printing.walk = "no"
    /\ frames' = <<Frame(1, 0)>>
    /\ printing' = [printing EXCEPT !.walk = "walked", !.order = <<1>>]
    /\ UNCHANGED <<functions, build, exes, collected, listing>>

\* print(Unit): the unit's own block and then every function of its.
PrintUnit ==
    /\ Built /\ printing.block = 0 /\ printing.walk = "no"
    /\ printing' = [printing EXCEPT !.walk = "all", !.order = [k \in DOMAIN functions |-> k]]
    /\ UNCHANGED <<functions, build, exes, frames, collected, listing>>

Order == IF printing.walk = "walked" THEN printing.order \o collected ELSE printing.order
PrintBlock ==
    /\ Built /\ frames = <<>> /\ printing.walk \in {"walked", "all"} /\ printing.ptr = -1
    /\ printing.done < Len(Order)
    /\ printing' = [printing EXCEPT !.block = Order[printing.done + 1], !.ptr = 0, !.lineIdx = 0, !.lineEnd = 0]
    /\ listing' = <<>>
    /\ UNCHANGED <<functions, build, exes, frames, collected>>

Printed == exes[printing.block]
\* while (offset >= lineEnd): the next line is looked for without a look at how many there are.
PrintLine ==
    /\ printing.ptr >= 0 /\ printing.ptr < Len(Printed.bytes) /\ printing.ptr >= printing.lineEnd
    /\ printing' = IF printing.lineIdx >= Len(Printed.lines)
                   THEN [printing EXCEPT !.ptr = -1, !.walk = "beyond"]
                   ELSE [printing EXCEPT !.lineIdx = @ + 1, !.lineEnd = Printed.lines[printing.lineIdx + 1].end]
    /\ UNCHANGED <<functions, build, exes, frames, collected, listing>>

PrintInstruction ==
    /\ printing.ptr >= 0 /\ printing.ptr < Len(Printed.bytes) /\ printing.ptr < printing.lineEnd
    /\ LET op   == Read(Printed.bytes, printing.ptr, 1).name
           want == ShownAt(Printed.bytes, printing.ptr, op)
           read == Fields(Printed.bytes, printing.ptr + 1, want)
       IN /\ printing' = [printing EXCEPT !.ptr = @ + 1 + WidthOf(want)]
          /\ listing' = Append(listing,
                 [at |-> printing.ptr, op |-> op, line |-> printing.lineIdx,
                  operands |-> [k \in DOMAIN read |-> <<read[k].name, read[k].width>>],
                  asked |-> want,
                  target |-> IF ShownJumps(op) # <<>> /\ op # "JUMP_TABLE" THEN printing.ptr + read[1].val ELSE -1,
                  targetLine |-> IF ShownJumps(op) # <<>> /\ op # "JUMP_TABLE"
                                 THEN findLineForOffset(Printed.lines, printing.ptr + read[1].val) ELSE NoLine])
    /\ UNCHANGED <<functions, build, exes, frames, collected>>

BlockPrinted ==
    /\ printing.ptr >= 0 /\ printing.ptr >= Len(Printed.bytes)
    /\ printing' = [printing EXCEPT !.ptr = -1, !.done = @ + 1]
    /\ UNCHANGED <<functions, build, exes, frames, collected, listing>>

NotPrinting == [block |-> 0, ptr |-> -1, lineIdx |-> 0, lineEnd |-> 0, walk |-> "no", order |-> <<>>, done |-> 0]
ListingStart == /\ build = Fresh /\ exes = <<>> /\ frames = <<>> /\ collected = <<>>
                /\ listing = <<>> /\ printing = NotPrinting
ListingNext == \/ BuildPiece \/ Commit \/ Collect \/ PrintFunction \/ PrintUnit
               \/ PrintBlock \/ PrintLine \/ PrintInstruction \/ BlockPrinted
ListingSpec == functions \in Listings /\ ListingStart /\ [][ListingNext]_listingVars

---------------------------------------------------------------------------
ListingTypeOK ==
    /\ Len(exes) <= Len(functions) /\ Len(frames) <= MaxDepth + 1
    /\ \A k \in DOMAIN frames : frames[k].depth = k - 1
    /\ printing.walk \in {"no", "walked", "all", "lost", "beyond"}
    /\ \A k \in DOMAIN collected : collected[k] \in 1..Len(functions)

(* The lines of a block are its bytes cut into pieces, in order: no line is *)
(* looked for beyond the last, whatever a statement's span is.             *)
LinesAreWhole ==
    /\ printing.walk # "beyond"
    /\ \A b \in DOMAIN exes : LET lines == exes[b].lines IN
        /\ lines[1].start = 0 /\ lines[Len(lines)].end = Len(exes[b].bytes)
        /\ \A k \in 2..Len(lines) : lines[k].start = lines[k - 1].end /\ lines[k].start <= lines[k].end

(* A line covers the statement the code was pushed for. *)
Covers(lines, k, line) == line # 0 => k \in DOMAIN lines /\ lines[k].first <= line /\ line <= lines[k].last

(* What is listed is what was pushed, instruction by instruction, with the  *)
(* operands under their names and below a line of its statement; a jump's  *)
(* line is the line of the instruction it goes to.                         *)
ListedAsPushed ==
    \A n \in DOMAIN listing : LET e == Printed.emitted[n] IN
        /\ n <= Len(Printed.emitted)
        /\ listing[n].at = e.at /\ listing[n].op = e.op
        /\ listing[n].operands = e.operands /\ listing[n].asked = e.operands
        /\ Covers(Printed.lines, listing[n].line, e.line)
        /\ listing[n].target # -1 => \A t \in DOMAIN Printed.emitted :
               Printed.emitted[t].at = listing[n].target =>
                   Covers(Printed.lines, listing[n].targetLine, Printed.emitted[t].line)

(* The machine takes out what was put in, in that order.  Left out: a blob  *)
(* of another block, whose size and offset it takes in the wrong order.    *)
MisreadBlob == {"SET_GLOBAL_BLOB", "GET_GLOBAL_BLOB"}
FetchedAsPushed ==
    \A b \in DOMAIN exes : \A n \in DOMAIN exes[b].emitted : LET e == exes[b].emitted[n] IN
        e.op \notin MisreadBlob =>
            /\ Fetched(e.op) = (IF e.op = "JUMP_TABLE" THEN SubSeq(e.operands, 1, 2) ELSE e.operands)
            /\ \A k \in DOMAIN Fetched(e.op) :
                   Fields(exes[b].bytes, e.at + 1, Fetched(e.op))[k].name = e.operands[k][1]

(* A jump goes to an instruction of its block, or to the end of the code    *)
(* when its RET was left out for a RET that stands in a branch.            *)
JumpsToCode ==
    \A b \in DOMAIN exes : \A n \in DOMAIN exes[b].emitted : LET e == exes[b].emitted[n] IN
        ShownJumps(e.op) # <<>> =>
            \A k \in (IF e.op = "JUMP_TABLE" THEN 3..Len(e.operands) ELSE {1}) :
                e.at + Read(exes[b].bytes, e.at + 1 + 8 * (k - 1), 8).val
                    \in {f.at : f \in ToSet(exes[b].emitted)} \cup
                        (IF exes[b].emitted[Len(exes[b].emitted)].op = "RET" THEN {Len(exes[b].bytes)} ELSE {})

(* The functions listed with one are those it calls and those they call,    *)
(* each once.  Left out are blocks with an instruction whose size is wrong. *)
Missized == {"GET", "SET_GLOBAL_BLOB", "GET_GLOBAL_BLOB", "SWAP", "JUMP_TABLE"}
Sized(b) == \A e \in ToSet(exes[b].emitted) : e.op \notin Missized
CalledBy(b) == {Read(exes[b].bytes, e.at + 1, 8).val : e \in {f \in ToSet(exes[b].emitted) : f.op = "CALL"}} \ {0}
CallsAreListed ==
    (Built /\ frames = <<>> /\ printing.walk \in {"walked", "lost"}) =>
        LET called == CalledBy(1)
            below  == UNION {CalledBy(f) : f \in called} IN
        (\A b \in {1} \cup called : Sized(b)) =>
            printing.walk = "walked" /\ ToSet(collected) = called \cup below /\ IsInjective(collected)

ListingIsCode ==
    functions # <<>> => ListingTypeOK /\ LinesAreWhole /\ ListedAsPushed /\ FetchedAsPushed /\ JumpsToCode /\ CallsAreListed
=============================================================================
