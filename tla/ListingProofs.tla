----------------------------- MODULE ListingProofs -----------------------------
(***************************************************************************)
(* Proofs about the bytes of the bytecode, for any program whose pieces     *)
(* fit: what the builder lays out is what the machine fetches and what the  *)
(* disassembler shows, and jumps go to instructions.                        *)
(***************************************************************************)
EXTENDS Listing, FiniteSetTheorems, SequenceTheorems, WellFoundedInduction, TLAPS

Plain == DOMAIN Pushed
Ops == Plain \cup {"PUSH_I32", "PUSH_U32", "PUSH_F32", "PUSH_64", "SET", "GET", "SET_BLOB", "GET_BLOB",
                   "SET_GLOBAL", "GET_GLOBAL", "SET_GLOBAL_BLOB", "GET_GLOBAL_BLOB", "LEA", "LEA_GLOBAL",
                   "JUMP", "JUMP_IF_TRUE", "JUMP_IF_FALSE", "JUMP_TABLE"}

OperandNames == {"value", "offset", "def", "size", "n", "blobSize", "memberOffset", "memberSize", "fcn", "varargSize",
                 "descriptor", "target", "min", "max", "cell"}

(* Operands are words, or there is one of four bytes: so the k-th one lies  *)
(* at the same place behind its opcode in every instruction.                *)
Words(wanted) == \A k \in DOMAIN wanted : wanted[k][2] = 8
Regular(wanted) ==
    /\ wanted \in Seq(OperandNames \X {4, 8})
    /\ Words(wanted) \/ (Len(wanted) = 1 /\ wanted[1][2] = 4)
SizeOf(wanted) == IF Len(wanted) = 1 THEN wanted[1][2] ELSE 8 * Len(wanted)
Place(e, k) == e.at + 1 + 8 * (k - 1)
End(e) == e.at + 1 + SizeOf(e.operands)

(* The bytes behind offset p are one field. *)
FieldType == [name : Ops \cup OperandNames, val : Int, width : {1, 4, 8}]
Whole(bytes, p, name, width) ==
    /\ p + width <= Len(bytes)
    /\ bytes[p + 1][1] \in FieldType
    /\ bytes[p + 1][1].name = name /\ bytes[p + 1][1].width = width
    /\ \A i \in 1..width : bytes[p + i] = <<bytes[p + 1][1], i>>

(* An instruction lies where it was pushed, as what it was pushed.          *)
Laid(bytes, e) ==
    /\ Whole(bytes, e.at, e.op, 1)
    /\ \A k \in DOMAIN e.operands : Whole(bytes, Place(e, k), e.operands[k][1], e.operands[k][2])
InstructionLies(bytes, e) ==
    /\ e.at \in Nat /\ e.op \in Ops /\ e.line \in Nat
    /\ Regular(e.operands)
    /\ e.operands = ShownAt(bytes, e.at, e.op)
    /\ End(e) <= Len(bytes)
    /\ e.op = "JUMP_TABLE" => Len(e.operands) >= 2
    /\ Laid(bytes, e)

ByteType == FieldType \X (1..8)
CodeLies(bytes, emitted) ==
    /\ bytes \in Seq(ByteType) /\ emitted \in Seq(ToSet(emitted))
    /\ \A n \in DOMAIN emitted : InstructionLies(bytes, emitted[n])
    /\ emitted = <<>> => bytes = <<>>
    /\ emitted # <<>> => emitted[1].at = 0 /\ End(emitted[Len(emitted)]) = Len(bytes)
    /\ \A n \in 1..(Len(emitted) - 1) : emitted[n + 1].at = End(emitted[n])
    /\ \A m, n \in DOMAIN emitted : m < n => End(emitted[m]) <= emitted[n].at
    /\ \A i \in DOMAIN bytes : bytes[i][1].width = 1 => \E n \in DOMAIN emitted : emitted[n].at = i - 1

(* The operands a jump goes by, and the places one may go to.               *)
Targets(e) == IF e.op \in Jumps THEN {1} ELSE IF e.op = "JUMP_TABLE" THEN 3..Len(e.operands) ELSE {}
Val(bytes, e, k) == bytes[Place(e, k) + 1][1].val
Starts(emitted) == {emitted[n].at : n \in DOMAIN emitted}
NamesFunction(bytes, emitted) ==
    \A n \in DOMAIN emitted : emitted[n].op = "CALL" => Val(bytes, emitted[n], 1) \in 0..Len(functions)

(* Lines. *)
LineType == [first : Nat, last : Nat, start : Nat, end : Nat]
Tiled(lines, upTo) ==
    /\ lines \in Seq(LineType)
    /\ lines = <<>> => upTo = 0
    /\ lines # <<>> => lines[1].start = 0 /\ lines[Len(lines)].end = upTo
    /\ \A k \in DOMAIN lines : lines[k].start <= lines[k].end
    /\ \A k \in 1..(Len(lines) - 1) : lines[k + 1].start = lines[k].end
    /\ \A j, k \in DOMAIN lines : j <= k => lines[j].end <= lines[k].end
CoveredBy(span, line) == line # 0 => span.first <= line /\ line <= span.last
LinesCover(lines, emitted) ==
    \A n \in DOMAIN emitted, k \in DOMAIN lines :
        lines[k].start <= emitted[n].at /\ emitted[n].at < lines[k].end => CoveredBy(lines[k], emitted[n].line)

(* The block being compiled. *)
Building == Len(exes) < Len(functions)
PlacesAreStarts(b) == \A t \in DOMAIN b.places : b.places[t] \in Starts(b.emitted) \cup {Len(b.bytes)}
IsOneOf(emitted, h) ==
    \E n \in DOMAIN emitted : \E k \in Targets(emitted[n]) :
        h.at = Place(emitted[n], k) /\ h.base = emitted[n].at
Settled(b) ==
    \A n \in DOMAIN b.emitted : \A k \in Targets(b.emitted[n]) :
        \/ \E h \in b.pending : h.at = Place(b.emitted[n], k)
        \/ b.emitted[n].at + Val(b.bytes, b.emitted[n], k) \in ToSet(b.places)
BuildType(b) ==
    /\ b \in [bytes : Seq(ByteType), lines : Seq(LineType), span : [first : Nat, last : Nat], offsetStart : Nat,
              last : Ops \cup {"NOP"}, emitted : Seq(ToSet(b.emitted)), places : Seq(Nat),
              pending : SUBSET [at : Nat, base : Nat, to : Nat], source : Nat]
    /\ b.last = IF b.emitted = <<>> THEN "NOP" ELSE b.emitted[Len(b.emitted)].op
SpansCover(b) ==
    /\ Tiled(b.lines, b.offsetStart) /\ b.offsetStart <= Len(b.bytes)
    /\ LinesCover(b.lines, b.emitted)
    /\ \A n \in DOMAIN b.emitted : b.offsetStart <= b.emitted[n].at => CoveredBy(b.span, b.emitted[n].line)
    /\ CoveredBy(b.span, b.source)
    /\ b.span.first = 0 => /\ b.lines = <<>> /\ b.source = 0
                           /\ \A n \in DOMAIN b.emitted : b.emitted[n].line = 0
Lies(b, end) ==
    /\ BuildType(b) /\ CodeLies(b.bytes, b.emitted) /\ NamesFunction(b.bytes, b.emitted)
    /\ SpansCover(b)
    /\ PlacesAreStarts(b) /\ Settled(b)
    /\ \A h \in b.pending : IsOneOf(b.emitted, h) /\ h.to \in (Len(b.places) + 1)..end
BuildLies(b, pieces) == Lies(b, Len(pieces) + 1) /\ Len(b.places) <= Len(pieces)

(* A block that is done. *)
LandsIn(b) ==
    \A n \in DOMAIN b.emitted : \A k \in Targets(b.emitted[n]) :
        b.emitted[n].at + Val(b.bytes, b.emitted[n], k) \in Starts(b.emitted) \cup
            (IF b.emitted[Len(b.emitted)].op = "RET" THEN {Len(b.bytes)} ELSE {})
BlockLies(b) ==
    /\ b \in [bytes : Seq(ByteType), lines : Seq(LineType), emitted : Seq(ToSet(b.emitted))]
    /\ CodeLies(b.bytes, b.emitted) /\ NamesFunction(b.bytes, b.emitted)
    /\ b.lines # <<>> /\ Tiled(b.lines, Len(b.bytes)) /\ LinesCover(b.lines, b.emitted)
    /\ LandsIn(b)

BuildInv ==
    /\ ProgramFits(functions)
    /\ exes \in Seq(ToSet(exes)) /\ Len(exes) <= Len(functions)
    /\ \A b \in DOMAIN exes : BlockLies(exes[b])
    /\ Building => BuildLies(build, Current.pieces)

(* Printing.                                                                *)
NextAt(x, n) == IF n < Len(x.emitted) THEN x.emitted[n + 1].at ELSE Len(x.bytes)
EntryIs(x, entry, n) ==
    LET e == x.emitted[n] IN
        /\ entry.at = e.at /\ entry.op = e.op
        /\ entry.operands = e.operands /\ entry.asked = e.operands
        /\ Covers(x.lines, entry.line, e.line)
        /\ entry.target # -1 => \A t \in DOMAIN x.emitted :
               x.emitted[t].at = entry.target => Covers(x.lines, entry.targetLine, x.emitted[t].line)
GoesOn(x, p, n) ==
    /\ p.ptr = NextAt(x, n)
    /\ p.lineIdx <= Len(x.lines)
    /\ p.lineEnd = IF p.lineIdx = 0 THEN 0 ELSE x.lines[p.lineIdx].end
    /\ p.lineIdx # 0 => x.lines[p.lineIdx].start <= p.ptr
PrintType ==
    /\ printing \in [block : Nat, ptr : Int, lineIdx : Nat, lineEnd : Nat,
                     walk : {"no", "walked", "all", "lost"}, order : Seq(1..Len(functions)), done : Nat]
    /\ printing.ptr >= -1
    /\ collected \in Seq(1..Len(functions))
    /\ listing \in Seq(ToSet(listing))
    /\ printing.block <= Len(exes)
    /\ IF printing.walk = "no" THEN printing.block = 0 ELSE Built
    /\ printing.block = 0 => printing.ptr = -1 /\ listing = <<>>
    /\ Len(listing) <= IF printing.block = 0 THEN 0 ELSE Len(Printed.emitted)
PrintInv ==
    /\ PrintType
    /\ \A n \in DOMAIN listing : EntryIs(Printed, listing[n], n)
    /\ printing.ptr >= 0 => printing.block # 0 /\ GoesOn(Printed, printing, Len(listing))

(* The walk through the calls. *)
FramesInv ==
    /\ frames \in Seq([block : 1..Len(functions), ip : Nat, depth : Nat])
    /\ Len(frames) <= MaxDepth + 1
    /\ \A k \in DOMAIN frames : frames[k].depth = k - 1
    /\ frames # <<>> => printing.walk = "walked" /\ printing.ptr = -1
    /\ printing.walk = "no" => collected = <<>>
(* The walk when it may enter the blocks called by the first, and no        *)
(* instruction there has a wrong size: what was called before the place the *)
(* walk has come to is collected, and what is called from there.            *)
Calls(x) == {Read(x.bytes, e.at + 1, 8).val : e \in {f \in ToSet(x.emitted) : f.op = "CALL"}} \ {0}
AllSized(blocks) == \A b \in {1} \cup Calls(blocks[1]) : \A e \in ToSet(blocks[b].emitted) : e.op \notin Missized
Explored(blocks, stack, found) ==
    {f \in ToSet(found) : Calls(blocks[f]) \subseteq ToSet(found) \/ (Len(stack) = 2 /\ stack[2].block = f)}
Passes(x, ip, done) ==
    \E m \in 0..Len(x.emitted) :
        /\ ip = NextAt(x, m)
        /\ \A n \in 1..m : x.emitted[n].op = "CALL" =>
               Read(x.bytes, x.emitted[n].at + 1, 8).val \in done \cup {0}
Walks(blocks, stack, found) ==
    /\ IsInjective(found)
    /\ ToSet(found) \subseteq Calls(blocks[1]) \cup UNION {Calls(blocks[f]) : f \in Calls(blocks[1])}
    /\ stack = <<>> => \A f \in Calls(blocks[1]) : f \in ToSet(found) /\ Calls(blocks[f]) \subseteq ToSet(found)
    /\ stack # <<>> => stack[1].block = 1 /\ Passes(blocks[1], stack[1].ip, Explored(blocks, stack, found))
    /\ Len(stack) = 2 => /\ stack[2].block \in Calls(blocks[1])
                         /\ Passes(blocks[stack[2].block], stack[2].ip, ToSet(found))
WalkInv ==
    Built /\ printing.walk \in {"walked", "lost"} /\ AllSized(exes) =>
        printing.walk = "walked" /\ Walks(exes, frames, collected)

ListingInv == BuildInv /\ PrintInv /\ FramesInv

-----------------------------------------------------------------------------
(* What the opcodes take: Shown and Fetched, family by family.             *)

Bare  == {"LOAD", "STORE", "DUP", "POP", "SWAP", "ADD", "NOT", "CAST", "VEC_TO_REF", "VEC_RESET", "VEC_MEM_RESET"}
Small == {"PUSH_I32", "PUSH_U32", "PUSH_F32"}
Local == {"SET", "GET", "LEA", "LEA_CONST"}
Global == {"SET_GLOBAL", "GET_GLOBAL", "LEA_GLOBAL"}
Blobs == {"SET_BLOB", "GET_BLOB"}
Sizes8 == {"LOAD_BLOB", "STORE_BLOB", "PTR_IDX", "RET", "VEC_ALLOC", "GROW"}
Vectors == {"VEC_VV", "VEC_FILL", "VEC_CAST"}

LEMMA PlainIs ==
    /\ Plain = {"LOAD", "STORE", "DUP", "POP", "SWAP", "ADD", "NOT", "CAST", "VEC_TO_REF", "VEC_RESET",
                "VEC_MEM_RESET", "LOAD_BLOB", "STORE_BLOB", "PTR_IDX", "DUP_N", "GROW", "RET", "LEA_CONST",
                "CROP", "CALL", "VEC_VV", "VEC_FILL", "VEC_CAST", "VEC_ALLOC"}
    /\ \A op \in Bare : Pushed[op] = <<>>
    /\ \A op \in Sizes8 : Pushed[op] = <<"size">>
    /\ \A op \in Vectors : Pushed[op] = <<"descriptor">>
    /\ Pushed["DUP_N"] = <<"n">> /\ Pushed["LEA_CONST"] = <<"offset">>
    /\ Pushed["CROP"] = <<"blobSize", "memberOffset", "memberSize">>
    /\ Pushed["CALL"] = <<"fcn", "varargSize">>
  BY DEF Plain, Pushed, Bare, Sizes8, Vectors

LEMMA ShownIs ==
    /\ \A op \in Bare : Shown(op) = <<>>
    /\ \A op \in Small : Shown(op) = << <<"value", 4>> >>
    /\ Shown("PUSH_64") = << <<"value", 8>> >>
    /\ \A op \in Local : Shown(op) = << <<"offset", 8>> >>
    /\ \A op \in Global : Shown(op) = << <<"def", 8>>, <<"offset", 8>> >>
    /\ \A op \in Blobs : Shown(op) = << <<"size", 8>>, <<"offset", 8>> >>
    /\ \A op \in MisreadBlob : Shown(op) = << <<"def", 8>>, <<"size", 8>>, <<"offset", 8>> >>
    /\ \A op \in Sizes8 : Shown(op) = << <<"size", 8>> >>
    /\ \A op \in Vectors : Shown(op) = << <<"descriptor", 8>> >>
    /\ \A op \in Jumps : Shown(op) = << <<"target", 8>> >>
    /\ Shown("DUP_N") = << <<"n", 8>> >>
    /\ Shown("CROP") = << <<"blobSize", 8>>, <<"memberOffset", 8>>, <<"memberSize", 8>> >>
    /\ Shown("CALL") = << <<"fcn", 8>>, <<"varargSize", 8>> >>
    /\ Shown("JUMP_TABLE") = << <<"min", 8>>, <<"max", 8>> >>
<1>0. \A s \in Seq(OperandNames \X {4, 8}) : s \o <<>> = s /\ <<>> \o s = s
  BY ConcatEmptySeq
<1>1. \A op \in Bare : Shown(op) = <<>>
  <2> TAKE op \in Bare
  <2>1. ShownPushes(op) = <<>> /\ ShownAccesses(op) = <<>> /\ ShownJumps(op) = <<>> /\ ShownCalls(op) = <<>> /\ ShownVectors(op) = <<>>
    BY DEF Bare, ShownPushes, ShownAccesses, ShownJumps, ShownCalls, ShownVectors
  <2>2. <<>> \in Seq(OperandNames \X {4, 8})
    BY DEF OperandNames
  <2> QED
    BY <1>0, <2>1, <2>2 DEF Shown
<1>2. \A op \in Small : Shown(op) = << <<"value", 4>> >>
  <2> TAKE op \in Small
  <2>1. ShownPushes(op) = << <<"value", 4>> >> /\ ShownAccesses(op) = <<>> /\ ShownJumps(op) = <<>> /\ ShownCalls(op) = <<>> /\ ShownVectors(op) = <<>>
    BY DEF Small, ShownPushes, ShownAccesses, ShownJumps, ShownCalls, ShownVectors
  <2>2. << <<"value", 4>> >> \in Seq(OperandNames \X {4, 8})
    BY DEF OperandNames
  <2> QED
    BY <1>0, <2>1, <2>2 DEF Shown
<1>3. \A op \in {"PUSH_64"} : Shown(op) = << <<"value", 8>> >>
  <2> TAKE op \in {"PUSH_64"}
  <2>1. ShownPushes(op) = << <<"value", 8>> >> /\ ShownAccesses(op) = <<>> /\ ShownJumps(op) = <<>> /\ ShownCalls(op) = <<>> /\ ShownVectors(op) = <<>>
    BY DEF ShownPushes, ShownAccesses, ShownJumps, ShownCalls, ShownVectors
  <2>2. << <<"value", 8>> >> \in Seq(OperandNames \X {4, 8})
    BY DEF OperandNames
  <2> QED
    BY <1>0, <2>1, <2>2 DEF Shown
<1>4. \A op \in {"SET", "GET"} : Shown(op) = << <<"offset", 8>> >>
  <2> TAKE op \in {"SET", "GET"}
  <2>1. ShownPushes(op) = <<>> /\ ShownAccesses(op) = << <<"offset", 8>> >> /\ ShownJumps(op) = <<>> /\ ShownCalls(op) = <<>> /\ ShownVectors(op) = <<>>
    BY DEF ShownPushes, ShownAccesses, ShownJumps, ShownCalls, ShownVectors
  <2>2. << <<"offset", 8>> >> \in Seq(OperandNames \X {4, 8})
    BY DEF OperandNames
  <2> QED
    BY <1>0, <2>1, <2>2 DEF Shown
<1>5. \A op \in {"LEA", "LEA_CONST"} : Shown(op) = << <<"offset", 8>> >>
  <2> TAKE op \in {"LEA", "LEA_CONST"}
  <2>1. ShownPushes(op) = <<>> /\ ShownAccesses(op) = <<>> /\ ShownJumps(op) = <<>> /\ ShownCalls(op) = << <<"offset", 8>> >> /\ ShownVectors(op) = <<>>
    BY DEF ShownPushes, ShownAccesses, ShownJumps, ShownCalls, ShownVectors
  <2>2. << <<"offset", 8>> >> \in Seq(OperandNames \X {4, 8})
    BY DEF OperandNames
  <2> QED
    BY <1>0, <2>1, <2>2 DEF Shown
<1>6. \A op \in {"SET_GLOBAL", "GET_GLOBAL"} : Shown(op) = << <<"def", 8>>, <<"offset", 8>> >>
  <2> TAKE op \in {"SET_GLOBAL", "GET_GLOBAL"}
  <2>1. ShownPushes(op) = <<>> /\ ShownAccesses(op) = << <<"def", 8>>, <<"offset", 8>> >> /\ ShownJumps(op) = <<>> /\ ShownCalls(op) = <<>> /\ ShownVectors(op) = <<>>
    BY DEF ShownPushes, ShownAccesses, ShownJumps, ShownCalls, ShownVectors
  <2>2. << <<"def", 8>>, <<"offset", 8>> >> \in Seq(OperandNames \X {4, 8})
    BY DEF OperandNames
  <2> QED
    BY <1>0, <2>1, <2>2 DEF Shown
<1>7. \A op \in {"LEA_GLOBAL"} : Shown(op) = << <<"def", 8>>, <<"offset", 8>> >>
  <2> TAKE op \in {"LEA_GLOBAL"}
  <2>1. ShownPushes(op) = <<>> /\ ShownAccesses(op) = <<>> /\ ShownJumps(op) = <<>> /\ ShownCalls(op) = << <<"def", 8>>, <<"offset", 8>> >> /\ ShownVectors(op) = <<>>
    BY DEF ShownPushes, ShownAccesses, ShownJumps, ShownCalls, ShownVectors
  <2>2. << <<"def", 8>>, <<"offset", 8>> >> \in Seq(OperandNames \X {4, 8})
    BY DEF OperandNames
  <2> QED
    BY <1>0, <2>1, <2>2 DEF Shown
<1>8. \A op \in Blobs : Shown(op) = << <<"size", 8>>, <<"offset", 8>> >>
  <2> TAKE op \in Blobs
  <2>1. ShownPushes(op) = <<>> /\ ShownAccesses(op) = << <<"size", 8>>, <<"offset", 8>> >> /\ ShownJumps(op) = <<>> /\ ShownCalls(op) = <<>> /\ ShownVectors(op) = <<>>
    BY DEF Blobs, ShownPushes, ShownAccesses, ShownJumps, ShownCalls, ShownVectors
  <2>2. << <<"size", 8>>, <<"offset", 8>> >> \in Seq(OperandNames \X {4, 8})
    BY DEF OperandNames
  <2> QED
    BY <1>0, <2>1, <2>2 DEF Shown
<1>9. \A op \in MisreadBlob : Shown(op) = << <<"def", 8>>, <<"size", 8>>, <<"offset", 8>> >>
  <2> TAKE op \in MisreadBlob
  <2>1. ShownPushes(op) = <<>> /\ ShownAccesses(op) = << <<"def", 8>>, <<"size", 8>>, <<"offset", 8>> >> /\ ShownJumps(op) = <<>> /\ ShownCalls(op) = <<>> /\ ShownVectors(op) = <<>>
    BY DEF MisreadBlob, ShownPushes, ShownAccesses, ShownJumps, ShownCalls, ShownVectors
  <2>2. << <<"def", 8>>, <<"size", 8>>, <<"offset", 8>> >> \in Seq(OperandNames \X {4, 8})
    BY DEF OperandNames
  <2> QED
    BY <1>0, <2>1, <2>2 DEF Shown
<1>10. \A op \in {"LOAD_BLOB", "STORE_BLOB"} : Shown(op) = << <<"size", 8>> >>
  <2> TAKE op \in {"LOAD_BLOB", "STORE_BLOB"}
  <2>1. ShownPushes(op) = <<>> /\ ShownAccesses(op) = << <<"size", 8>> >> /\ ShownJumps(op) = <<>> /\ ShownCalls(op) = <<>> /\ ShownVectors(op) = <<>>
    BY DEF ShownPushes, ShownAccesses, ShownJumps, ShownCalls, ShownVectors
  <2>2. << <<"size", 8>> >> \in Seq(OperandNames \X {4, 8})
    BY DEF OperandNames
  <2> QED
    BY <1>0, <2>1, <2>2 DEF Shown
<1>11. \A op \in {"PTR_IDX", "RET"} : Shown(op) = << <<"size", 8>> >>
  <2> TAKE op \in {"PTR_IDX", "RET"}
  <2>1. ShownPushes(op) = <<>> /\ ShownAccesses(op) = <<>> /\ ShownJumps(op) = <<>> /\ ShownCalls(op) = << <<"size", 8>> >> /\ ShownVectors(op) = <<>>
    BY DEF ShownPushes, ShownAccesses, ShownJumps, ShownCalls, ShownVectors
  <2>2. << <<"size", 8>> >> \in Seq(OperandNames \X {4, 8})
    BY DEF OperandNames
  <2> QED
    BY <1>0, <2>1, <2>2 DEF Shown
<1>12. \A op \in {"VEC_ALLOC", "GROW"} : Shown(op) = << <<"size", 8>> >>
  <2> TAKE op \in {"VEC_ALLOC", "GROW"}
  <2>1. ShownPushes(op) = <<>> /\ ShownAccesses(op) = <<>> /\ ShownJumps(op) = <<>> /\ ShownCalls(op) = <<>> /\ ShownVectors(op) = << <<"size", 8>> >>
    BY DEF ShownPushes, ShownAccesses, ShownJumps, ShownCalls, ShownVectors
  <2>2. << <<"size", 8>> >> \in Seq(OperandNames \X {4, 8})
    BY DEF OperandNames
  <2> QED
    BY <1>0, <2>1, <2>2 DEF Shown
<1>13. \A op \in Vectors : Shown(op) = << <<"descriptor", 8>> >>
  <2> TAKE op \in Vectors
  <2>1. ShownPushes(op) = <<>> /\ ShownAccesses(op) = <<>> /\ ShownJumps(op) = <<>> /\ ShownCalls(op) = <<>> /\ ShownVectors(op) = << <<"descriptor", 8>> >>
    BY DEF Vectors, ShownPushes, ShownAccesses, ShownJumps, ShownCalls, ShownVectors
  <2>2. << <<"descriptor", 8>> >> \in Seq(OperandNames \X {4, 8})
    BY DEF OperandNames
  <2> QED
    BY <1>0, <2>1, <2>2 DEF Shown
<1>14. \A op \in Jumps : Shown(op) = << <<"target", 8>> >>
  <2> TAKE op \in Jumps
  <2>1. ShownPushes(op) = <<>> /\ ShownAccesses(op) = <<>> /\ ShownJumps(op) = << <<"target", 8>> >> /\ ShownCalls(op) = <<>> /\ ShownVectors(op) = <<>>
    BY DEF Jumps, ShownPushes, ShownAccesses, ShownJumps, ShownCalls, ShownVectors
  <2>2. << <<"target", 8>> >> \in Seq(OperandNames \X {4, 8})
    BY DEF OperandNames
  <2> QED
    BY <1>0, <2>1, <2>2 DEF Shown
<1>15. \A op \in {"DUP_N"} : Shown(op) = << <<"n", 8>> >>
  <2> TAKE op \in {"DUP_N"}
  <2>1. ShownPushes(op) = <<>> /\ ShownAccesses(op) = <<>> /\ ShownJumps(op) = <<>> /\ ShownCalls(op) = << <<"n", 8>> >> /\ ShownVectors(op) = <<>>
    BY DEF ShownPushes, ShownAccesses, ShownJumps, ShownCalls, ShownVectors
  <2>2. << <<"n", 8>> >> \in Seq(OperandNames \X {4, 8})
    BY DEF OperandNames
  <2> QED
    BY <1>0, <2>1, <2>2 DEF Shown
<1>16. \A op \in {"CROP"} : Shown(op) = << <<"blobSize", 8>>, <<"memberOffset", 8>>, <<"memberSize", 8>> >>
  <2> TAKE op \in {"CROP"}
  <2>1. ShownPushes(op) = <<>> /\ ShownAccesses(op) = <<>> /\ ShownJumps(op) = <<>> /\ ShownCalls(op) = << <<"blobSize", 8>>, <<"memberOffset", 8>>, <<"memberSize", 8>> >> /\ ShownVectors(op) = <<>>
    BY DEF ShownPushes, ShownAccesses, ShownJumps, ShownCalls, ShownVectors
  <2>2. << <<"blobSize", 8>>, <<"memberOffset", 8>>, <<"memberSize", 8>> >> \in Seq(OperandNames \X {4, 8})
    BY DEF OperandNames
  <2> QED
    BY <1>0, <2>1, <2>2 DEF Shown
<1>17. \A op \in {"CALL"} : Shown(op) = << <<"fcn", 8>>, <<"varargSize", 8>> >>
  <2> TAKE op \in {"CALL"}
  <2>1. ShownPushes(op) = <<>> /\ ShownAccesses(op) = <<>> /\ ShownJumps(op) = <<>> /\ ShownCalls(op) = << <<"fcn", 8>>, <<"varargSize", 8>> >> /\ ShownVectors(op) = <<>>
    BY DEF ShownPushes, ShownAccesses, ShownJumps, ShownCalls, ShownVectors
  <2>2. << <<"fcn", 8>>, <<"varargSize", 8>> >> \in Seq(OperandNames \X {4, 8})
    BY DEF OperandNames
  <2> QED
    BY <1>0, <2>1, <2>2 DEF Shown
<1>18. \A op \in {"JUMP_TABLE"} : Shown(op) = << <<"min", 8>>, <<"max", 8>> >>
  <2> TAKE op \in {"JUMP_TABLE"}
  <2>1. ShownPushes(op) = <<>> /\ ShownAccesses(op) = <<>> /\ ShownJumps(op) = << <<"min", 8>>, <<"max", 8>> >> /\ ShownCalls(op) = <<>> /\ ShownVectors(op) = <<>>
    BY DEF ShownPushes, ShownAccesses, ShownJumps, ShownCalls, ShownVectors
  <2>2. << <<"min", 8>>, <<"max", 8>> >> \in Seq(OperandNames \X {4, 8})
    BY DEF OperandNames
  <2> QED
    BY <1>0, <2>1, <2>2 DEF Shown
<1> QED
  BY <1>1, <1>2, <1>3, <1>4, <1>5, <1>6, <1>7, <1>8, <1>9, <1>10, <1>11, <1>12, <1>13, <1>14, <1>15, <1>16, <1>17, <1>18 DEF Local, Global, Sizes8

LEMMA OpsAre ==
    Ops = Bare \cup Small \cup {"PUSH_64"} \cup Local \cup Global \cup Blobs \cup MisreadBlob \cup Sizes8
          \cup Vectors \cup Jumps \cup {"DUP_N", "CROP", "CALL", "JUMP_TABLE"}
  BY PlainIs DEF Ops, Bare, Small, Local, Global, Blobs, MisreadBlob, Sizes8, Vectors, Jumps

(* The machine takes the operands the disassembler shows.                  *)
LEMMA FetchedIs ==
    \A op \in Ops \ MisreadBlob : Fetched(op) = Shown(op)
<1>0. \A s \in Seq(OperandNames \X {4, 8}) : s \o <<>> = s /\ <<>> \o s = s
  BY ConcatEmptySeq
<1>1. \A op \in Bare : Fetched(op) = <<>>
  <2> TAKE op \in Bare
  <2>1. /\ FetchedMoves(op) = <<>> /\ FetchedAddresses(op) = <<>> /\ FetchedLoads(op) = <<>>
       /\ FetchedStack(op) = <<>> /\ FetchedJumps(op) = <<>> /\ FetchedCalls(op) = <<>>
       /\ FetchedVectors(op) = <<>>
    BY DEF Bare, FetchedMoves, FetchedAddresses, FetchedLoads, FetchedStack, FetchedJumps, FetchedCalls, FetchedVectors
  <2>2. <<>> \in Seq(OperandNames \X {4, 8})
    BY DEF OperandNames
  <2> QED
    BY <1>0, <2>1, <2>2 DEF Fetched
<1>2. \A op \in Small : Fetched(op) = << <<"value", 4>> >>
  <2> TAKE op \in Small
  <2>1. /\ FetchedMoves(op) = << <<"value", 4>> >> /\ FetchedAddresses(op) = <<>> /\ FetchedLoads(op) = <<>>
       /\ FetchedStack(op) = <<>> /\ FetchedJumps(op) = <<>> /\ FetchedCalls(op) = <<>>
       /\ FetchedVectors(op) = <<>>
    BY DEF Small, FetchedMoves, FetchedAddresses, FetchedLoads, FetchedStack, FetchedJumps, FetchedCalls, FetchedVectors
  <2>2. << <<"value", 4>> >> \in Seq(OperandNames \X {4, 8})
    BY DEF OperandNames
  <2> QED
    BY <1>0, <2>1, <2>2 DEF Fetched
<1>3. \A op \in {"PUSH_64"} : Fetched(op) = << <<"value", 8>> >>
  <2> TAKE op \in {"PUSH_64"}
  <2>1. /\ FetchedMoves(op) = << <<"value", 8>> >> /\ FetchedAddresses(op) = <<>> /\ FetchedLoads(op) = <<>>
       /\ FetchedStack(op) = <<>> /\ FetchedJumps(op) = <<>> /\ FetchedCalls(op) = <<>>
       /\ FetchedVectors(op) = <<>>
    BY DEF FetchedMoves, FetchedAddresses, FetchedLoads, FetchedStack, FetchedJumps, FetchedCalls, FetchedVectors
  <2>2. << <<"value", 8>> >> \in Seq(OperandNames \X {4, 8})
    BY DEF OperandNames
  <2> QED
    BY <1>0, <2>1, <2>2 DEF Fetched
<1>4. \A op \in {"SET", "GET"} : Fetched(op) = << <<"offset", 8>> >>
  <2> TAKE op \in {"SET", "GET"}
  <2>1. /\ FetchedMoves(op) = << <<"offset", 8>> >> /\ FetchedAddresses(op) = <<>> /\ FetchedLoads(op) = <<>>
       /\ FetchedStack(op) = <<>> /\ FetchedJumps(op) = <<>> /\ FetchedCalls(op) = <<>>
       /\ FetchedVectors(op) = <<>>
    BY DEF FetchedMoves, FetchedAddresses, FetchedLoads, FetchedStack, FetchedJumps, FetchedCalls, FetchedVectors
  <2>2. << <<"offset", 8>> >> \in Seq(OperandNames \X {4, 8})
    BY DEF OperandNames
  <2> QED
    BY <1>0, <2>1, <2>2 DEF Fetched
<1>5. \A op \in {"LEA", "LEA_CONST"} : Fetched(op) = << <<"offset", 8>> >>
  <2> TAKE op \in {"LEA", "LEA_CONST"}
  <2>1. /\ FetchedMoves(op) = <<>> /\ FetchedAddresses(op) = << <<"offset", 8>> >> /\ FetchedLoads(op) = <<>>
       /\ FetchedStack(op) = <<>> /\ FetchedJumps(op) = <<>> /\ FetchedCalls(op) = <<>>
       /\ FetchedVectors(op) = <<>>
    BY DEF FetchedMoves, FetchedAddresses, FetchedLoads, FetchedStack, FetchedJumps, FetchedCalls, FetchedVectors
  <2>2. << <<"offset", 8>> >> \in Seq(OperandNames \X {4, 8})
    BY DEF OperandNames
  <2> QED
    BY <1>0, <2>1, <2>2 DEF Fetched
<1>6. \A op \in Global : Fetched(op) = << <<"def", 8>>, <<"offset", 8>> >>
  <2> TAKE op \in Global
  <2>1. /\ FetchedMoves(op) = <<>> /\ FetchedAddresses(op) = << <<"def", 8>>, <<"offset", 8>> >> /\ FetchedLoads(op) = <<>>
       /\ FetchedStack(op) = <<>> /\ FetchedJumps(op) = <<>> /\ FetchedCalls(op) = <<>>
       /\ FetchedVectors(op) = <<>>
    BY DEF Global, FetchedMoves, FetchedAddresses, FetchedLoads, FetchedStack, FetchedJumps, FetchedCalls, FetchedVectors
  <2>2. << <<"def", 8>>, <<"offset", 8>> >> \in Seq(OperandNames \X {4, 8})
    BY DEF OperandNames
  <2> QED
    BY <1>0, <2>1, <2>2 DEF Fetched
<1>7. \A op \in Blobs : Fetched(op) = << <<"size", 8>>, <<"offset", 8>> >>
  <2> TAKE op \in Blobs
  <2>1. /\ FetchedMoves(op) = << <<"size", 8>>, <<"offset", 8>> >> /\ FetchedAddresses(op) = <<>> /\ FetchedLoads(op) = <<>>
       /\ FetchedStack(op) = <<>> /\ FetchedJumps(op) = <<>> /\ FetchedCalls(op) = <<>>
       /\ FetchedVectors(op) = <<>>
    BY DEF Blobs, FetchedMoves, FetchedAddresses, FetchedLoads, FetchedStack, FetchedJumps, FetchedCalls, FetchedVectors
  <2>2. << <<"size", 8>>, <<"offset", 8>> >> \in Seq(OperandNames \X {4, 8})
    BY DEF OperandNames
  <2> QED
    BY <1>0, <2>1, <2>2 DEF Fetched
<1>8. \A op \in {"LOAD_BLOB", "STORE_BLOB"} : Fetched(op) = << <<"size", 8>> >>
  <2> TAKE op \in {"LOAD_BLOB", "STORE_BLOB"}
  <2>1. /\ FetchedMoves(op) = <<>> /\ FetchedAddresses(op) = <<>> /\ FetchedLoads(op) = << <<"size", 8>> >>
       /\ FetchedStack(op) = <<>> /\ FetchedJumps(op) = <<>> /\ FetchedCalls(op) = <<>>
       /\ FetchedVectors(op) = <<>>
    BY DEF FetchedMoves, FetchedAddresses, FetchedLoads, FetchedStack, FetchedJumps, FetchedCalls, FetchedVectors
  <2>2. << <<"size", 8>> >> \in Seq(OperandNames \X {4, 8})
    BY DEF OperandNames
  <2> QED
    BY <1>0, <2>1, <2>2 DEF Fetched
<1>9. \A op \in {"PTR_IDX"} : Fetched(op) = << <<"size", 8>> >>
  <2> TAKE op \in {"PTR_IDX"}
  <2>1. /\ FetchedMoves(op) = <<>> /\ FetchedAddresses(op) = << <<"size", 8>> >> /\ FetchedLoads(op) = <<>>
       /\ FetchedStack(op) = <<>> /\ FetchedJumps(op) = <<>> /\ FetchedCalls(op) = <<>>
       /\ FetchedVectors(op) = <<>>
    BY DEF FetchedMoves, FetchedAddresses, FetchedLoads, FetchedStack, FetchedJumps, FetchedCalls, FetchedVectors
  <2>2. << <<"size", 8>> >> \in Seq(OperandNames \X {4, 8})
    BY DEF OperandNames
  <2> QED
    BY <1>0, <2>1, <2>2 DEF Fetched
<1>10. \A op \in {"RET", "GROW"} : Fetched(op) = << <<"size", 8>> >>
  <2> TAKE op \in {"RET", "GROW"}
  <2>1. /\ FetchedMoves(op) = <<>> /\ FetchedAddresses(op) = <<>> /\ FetchedLoads(op) = <<>>
       /\ FetchedStack(op) = <<>> /\ FetchedJumps(op) = <<>> /\ FetchedCalls(op) = << <<"size", 8>> >>
       /\ FetchedVectors(op) = <<>>
    BY DEF FetchedMoves, FetchedAddresses, FetchedLoads, FetchedStack, FetchedJumps, FetchedCalls, FetchedVectors
  <2>2. << <<"size", 8>> >> \in Seq(OperandNames \X {4, 8})
    BY DEF OperandNames
  <2> QED
    BY <1>0, <2>1, <2>2 DEF Fetched
<1>11. \A op \in {"VEC_ALLOC"} : Fetched(op) = << <<"size", 8>> >>
  <2> TAKE op \in {"VEC_ALLOC"}
  <2>1. /\ FetchedMoves(op) = <<>> /\ FetchedAddresses(op) = <<>> /\ FetchedLoads(op) = <<>>
       /\ FetchedStack(op) = <<>> /\ FetchedJumps(op) = <<>> /\ FetchedCalls(op) = <<>>
       /\ FetchedVectors(op) = << <<"size", 8>> >>
    BY DEF FetchedMoves, FetchedAddresses, FetchedLoads, FetchedStack, FetchedJumps, FetchedCalls, FetchedVectors
  <2>2. << <<"size", 8>> >> \in Seq(OperandNames \X {4, 8})
    BY DEF OperandNames
  <2> QED
    BY <1>0, <2>1, <2>2 DEF Fetched
<1>12. \A op \in Vectors : Fetched(op) = << <<"descriptor", 8>> >>
  <2> TAKE op \in Vectors
  <2>1. /\ FetchedMoves(op) = <<>> /\ FetchedAddresses(op) = <<>> /\ FetchedLoads(op) = <<>>
       /\ FetchedStack(op) = <<>> /\ FetchedJumps(op) = <<>> /\ FetchedCalls(op) = <<>>
       /\ FetchedVectors(op) = << <<"descriptor", 8>> >>
    BY DEF Vectors, FetchedMoves, FetchedAddresses, FetchedLoads, FetchedStack, FetchedJumps, FetchedCalls, FetchedVectors
  <2>2. << <<"descriptor", 8>> >> \in Seq(OperandNames \X {4, 8})
    BY DEF OperandNames
  <2> QED
    BY <1>0, <2>1, <2>2 DEF Fetched
<1>13. \A op \in Jumps : Fetched(op) = << <<"target", 8>> >>
  <2> TAKE op \in Jumps
  <2>1. /\ FetchedMoves(op) = <<>> /\ FetchedAddresses(op) = <<>> /\ FetchedLoads(op) = <<>>
       /\ FetchedStack(op) = <<>> /\ FetchedJumps(op) = << <<"target", 8>> >> /\ FetchedCalls(op) = <<>>
       /\ FetchedVectors(op) = <<>>
    BY DEF Jumps, FetchedMoves, FetchedAddresses, FetchedLoads, FetchedStack, FetchedJumps, FetchedCalls, FetchedVectors
  <2>2. << <<"target", 8>> >> \in Seq(OperandNames \X {4, 8})
    BY DEF OperandNames
  <2> QED
    BY <1>0, <2>1, <2>2 DEF Fetched
<1>14. \A op \in {"DUP_N"} : Fetched(op) = << <<"n", 8>> >>
  <2> TAKE op \in {"DUP_N"}
  <2>1. /\ FetchedMoves(op) = <<>> /\ FetchedAddresses(op) = <<>> /\ FetchedLoads(op) = <<>>
       /\ FetchedStack(op) = << <<"n", 8>> >> /\ FetchedJumps(op) = <<>> /\ FetchedCalls(op) = <<>>
       /\ FetchedVectors(op) = <<>>
    BY DEF FetchedMoves, FetchedAddresses, FetchedLoads, FetchedStack, FetchedJumps, FetchedCalls, FetchedVectors
  <2>2. << <<"n", 8>> >> \in Seq(OperandNames \X {4, 8})
    BY DEF OperandNames
  <2> QED
    BY <1>0, <2>1, <2>2 DEF Fetched
<1>15. \A op \in {"CROP"} : Fetched(op) = << <<"blobSize", 8>>, <<"memberOffset", 8>>, <<"memberSize", 8>> >>
  <2> TAKE op \in {"CROP"}
  <2>1. /\ FetchedMoves(op) = <<>> /\ FetchedAddresses(op) = <<>> /\ FetchedLoads(op) = <<>>
       /\ FetchedStack(op) = << <<"blobSize", 8>>, <<"memberOffset", 8>>, <<"memberSize", 8>> >> /\ FetchedJumps(op) = <<>> /\ FetchedCalls(op) = <<>>
       /\ FetchedVectors(op) = <<>>
    BY DEF FetchedMoves, FetchedAddresses, FetchedLoads, FetchedStack, FetchedJumps, FetchedCalls, FetchedVectors
  <2>2. << <<"blobSize", 8>>, <<"memberOffset", 8>>, <<"memberSize", 8>> >> \in Seq(OperandNames \X {4, 8})
    BY DEF OperandNames
  <2> QED
    BY <1>0, <2>1, <2>2 DEF Fetched
<1>16. \A op \in {"CALL"} : Fetched(op) = << <<"fcn", 8>>, <<"varargSize", 8>> >>
  <2> TAKE op \in {"CALL"}
  <2>1. /\ FetchedMoves(op) = <<>> /\ FetchedAddresses(op) = <<>> /\ FetchedLoads(op) = <<>>
       /\ FetchedStack(op) = <<>> /\ FetchedJumps(op) = <<>> /\ FetchedCalls(op) = << <<"fcn", 8>>, <<"varargSize", 8>> >>
       /\ FetchedVectors(op) = <<>>
    BY DEF FetchedMoves, FetchedAddresses, FetchedLoads, FetchedStack, FetchedJumps, FetchedCalls, FetchedVectors
  <2>2. << <<"fcn", 8>>, <<"varargSize", 8>> >> \in Seq(OperandNames \X {4, 8})
    BY DEF OperandNames
  <2> QED
    BY <1>0, <2>1, <2>2 DEF Fetched
<1>17. \A op \in {"JUMP_TABLE"} : Fetched(op) = << <<"min", 8>>, <<"max", 8>> >>
  <2> TAKE op \in {"JUMP_TABLE"}
  <2>1. /\ FetchedMoves(op) = <<>> /\ FetchedAddresses(op) = <<>> /\ FetchedLoads(op) = <<>>
       /\ FetchedStack(op) = <<>> /\ FetchedJumps(op) = << <<"min", 8>>, <<"max", 8>> >> /\ FetchedCalls(op) = <<>>
       /\ FetchedVectors(op) = <<>>
    BY DEF FetchedMoves, FetchedAddresses, FetchedLoads, FetchedStack, FetchedJumps, FetchedCalls, FetchedVectors
  <2>2. << <<"min", 8>>, <<"max", 8>> >> \in Seq(OperandNames \X {4, 8})
    BY DEF OperandNames
  <2> QED
    BY <1>0, <2>1, <2>2 DEF Fetched
<1>18. \A op \in Local : Fetched(op) = << <<"offset", 8>> >>
  BY <1>4, <1>5 DEF Local
<1>19. \A op \in Sizes8 : Fetched(op) = << <<"size", 8>> >>
  BY <1>8, <1>9, <1>10, <1>11 DEF Sizes8
<1> SUFFICES ASSUME NEW op \in Ops, op \notin MisreadBlob PROVE Fetched(op) = Shown(op)
  OBVIOUS
<1>20. CASE op \in Bare \cup Small \cup {"PUSH_64"}
  BY <1>1, <1>2, <1>3, <1>20, ShownIs
<1>21. CASE op \in Local \cup Global \cup Blobs
  BY <1>6, <1>7, <1>18, <1>21, ShownIs
<1>22. CASE op \in Sizes8 \cup Vectors \cup Jumps
  BY <1>12, <1>13, <1>19, <1>22, ShownIs
<1>23. CASE op \in {"DUP_N", "CROP"}
  BY <1>14, <1>15, <1>23, ShownIs
<1>24. CASE op \in {"CALL", "JUMP_TABLE"}
  BY <1>16, <1>17, <1>24, ShownIs
<1> QED
  BY <1>20, <1>21, <1>22, <1>23, <1>24, OpsAre

LEMMA RegularAre ==
    /\ Regular(<<>>) /\ SizeOf(<<>>) = 0
    /\ \A a \in OperandNames : Regular(<< <<a, 4>> >>) /\ SizeOf(<< <<a, 4>> >>) = 4
    /\ \A a \in OperandNames : Regular(<< <<a, 8>> >>) /\ SizeOf(<< <<a, 8>> >>) = 8
    /\ \A a, b \in OperandNames :
           Regular(<< <<a, 8>>, <<b, 8>> >>) /\ SizeOf(<< <<a, 8>>, <<b, 8>> >>) = 16
    /\ \A a, b, c \in OperandNames :
           Regular(<< <<a, 8>>, <<b, 8>>, <<c, 8>> >>) /\ SizeOf(<< <<a, 8>>, <<b, 8>>, <<c, 8>> >>) = 24
<1> DEFINE S == OperandNames \X {4, 8}
<1>1. /\ <<>> \in Seq(S)
      /\ \A x \in S : <<x>> \in Seq(S)
      /\ \A x, y \in S : <<x, y>> \in Seq(S)
      /\ \A x, y, z \in S : <<x, y, z>> \in Seq(S)
  <2> HIDE DEF S
  <2> QED
    OBVIOUS
<1>2. \A a \in OperandNames : <<a, 4>> \in S /\ <<a, 8>> \in S
  OBVIOUS
<1>3. Regular(<<>>) /\ SizeOf(<<>>) = 0
  BY <1>1 DEF Regular, Words, SizeOf
<1>4. \A a \in OperandNames : Regular(<< <<a, 4>> >>) /\ SizeOf(<< <<a, 4>> >>) = 4
  BY <1>1, <1>2 DEF Regular, Words, SizeOf
<1>5. \A a \in OperandNames : Regular(<< <<a, 8>> >>) /\ SizeOf(<< <<a, 8>> >>) = 8
  <2> TAKE a \in OperandNames
  <2> DEFINE s == << <<a, 8>> >>
  <2>1. s \in Seq(S)
    BY <1>1, <1>2
  <2>2. Len(s) = 1 /\ DOMAIN s = {1} /\ s[1][2] = 8
    OBVIOUS
  <2> HIDE DEF s
  <2>3. Words(s)
    BY <2>2 DEF Words
  <2> QED
    BY <2>1, <2>2, <2>3 DEF Regular, SizeOf, s
<1>6. \A a, b \in OperandNames :
           Regular(<< <<a, 8>>, <<b, 8>> >>) /\ SizeOf(<< <<a, 8>>, <<b, 8>> >>) = 16
  <2> TAKE a, b \in OperandNames
  <2> DEFINE s == << <<a, 8>>, <<b, 8>> >>
  <2>1. s \in Seq(S)
    BY <1>1, <1>2
  <2>2. Len(s) = 2 /\ DOMAIN s = {1, 2} /\ s[1][2] = 8 /\ s[2][2] = 8
    OBVIOUS
  <2> HIDE DEF s
  <2>3. Words(s)
    BY <2>2 DEF Words
  <2> QED
    BY <2>1, <2>2, <2>3 DEF Regular, SizeOf, s
<1>7. \A a, b, c \in OperandNames :
           Regular(<< <<a, 8>>, <<b, 8>>, <<c, 8>> >>) /\ SizeOf(<< <<a, 8>>, <<b, 8>>, <<c, 8>> >>) = 24
  <2> TAKE a, b, c \in OperandNames
  <2> DEFINE s == << <<a, 8>>, <<b, 8>>, <<c, 8>> >>
  <2>1. s \in Seq(S)
    BY <1>1, <1>2
  <2>2. Len(s) = 3 /\ DOMAIN s = {1, 2, 3} /\ s[1][2] = 8 /\ s[2][2] = 8 /\ s[3][2] = 8
    OBVIOUS
  <2> HIDE DEF s
  <2>3. Words(s)
    BY <2>2 DEF Words
  <2> QED
    BY <2>1, <2>2, <2>3 DEF Regular, SizeOf, s
<1> QED
  BY <1>3, <1>4, <1>5, <1>6, <1>7


LEMMA ShownRegular ==
    ASSUME NEW op \in Ops
    PROVE  Regular(Shown(op)) /\ (op \notin Missized => getOpcodeSize(op) = 1 + SizeOf(Shown(op)))
<1>0. /\ "value" \in OperandNames /\ "offset" \in OperandNames /\ "def" \in OperandNames /\ "size" \in OperandNames
      /\ "descriptor" \in OperandNames /\ "target" \in OperandNames /\ "n" \in OperandNames
      /\ "blobSize" \in OperandNames /\ "memberOffset" \in OperandNames /\ "memberSize" \in OperandNames
      /\ "fcn" \in OperandNames /\ "varargSize" \in OperandNames /\ "min" \in OperandNames /\ "max" \in OperandNames
  BY DEF OperandNames
<1>1. CASE op \in Bare
  <2>1. op \notin Missized => getOpcodeSize(op) = 1
    BY <1>1 DEF Bare, Missized, getOpcodeSize, SizeOfMove, SizeOfCalculation, SizeOfStep
  <2> QED
    BY <1>1, <2>1, ShownIs, RegularAre
<1>2. CASE op \in Small
  <2>1. op \notin Missized => getOpcodeSize(op) = 5
    BY <1>2 DEF Small, Missized, getOpcodeSize, SizeOfMove, SizeOfCalculation, SizeOfStep
  <2>2. Shown(op) = << <<"value", 4>> >>
    BY <1>2, ShownIs
  <2>3. Regular(<< <<"value", 4>> >>) /\ SizeOf(<< <<"value", 4>> >>) = 4
    BY <1>0, RegularAre
  <2> QED
    BY <2>1, <2>2, <2>3
<1>3. CASE op = "PUSH_64"
  <2>1. op \notin Missized => getOpcodeSize(op) = 9
    BY <1>3 DEF Missized, getOpcodeSize, SizeOfMove, SizeOfCalculation, SizeOfStep
  <2>2. Shown(op) = << <<"value", 8>> >>
    BY <1>3, ShownIs
  <2>3. Regular(<< <<"value", 8>> >>) /\ SizeOf(<< <<"value", 8>> >>) = 8
    BY <1>0, RegularAre
  <2> QED
    BY <2>1, <2>2, <2>3
<1>4. CASE op \in Local
  <2>1. op \notin Missized => getOpcodeSize(op) = 9
    BY <1>4 DEF Local, Missized, getOpcodeSize, SizeOfMove, SizeOfCalculation, SizeOfStep
  <2>2. Shown(op) = << <<"offset", 8>> >>
    BY <1>4, ShownIs
  <2>3. Regular(<< <<"offset", 8>> >>) /\ SizeOf(<< <<"offset", 8>> >>) = 8
    BY <1>0, RegularAre
  <2> QED
    BY <2>1, <2>2, <2>3
<1>5. CASE op \in Global
  <2>1. op \notin Missized => getOpcodeSize(op) = 17
    BY <1>5 DEF Global, Missized, getOpcodeSize, SizeOfMove, SizeOfCalculation, SizeOfStep
  <2>2. Shown(op) = << <<"def", 8>>, <<"offset", 8>> >>
    BY <1>5, ShownIs
  <2>3. Regular(<< <<"def", 8>>, <<"offset", 8>> >>) /\ SizeOf(<< <<"def", 8>>, <<"offset", 8>> >>) = 16
    BY <1>0, RegularAre
  <2> QED
    BY <2>1, <2>2, <2>3
<1>6. CASE op \in Blobs
  <2>1. op \notin Missized => getOpcodeSize(op) = 17
    BY <1>6 DEF Blobs, Missized, getOpcodeSize, SizeOfMove, SizeOfCalculation, SizeOfStep
  <2>2. Shown(op) = << <<"size", 8>>, <<"offset", 8>> >>
    BY <1>6, ShownIs
  <2>3. Regular(<< <<"size", 8>>, <<"offset", 8>> >>) /\ SizeOf(<< <<"size", 8>>, <<"offset", 8>> >>) = 16
    BY <1>0, RegularAre
  <2> QED
    BY <2>1, <2>2, <2>3
<1>7. CASE op \in MisreadBlob
  <2>1. op \in Missized
    BY <1>7 DEF MisreadBlob, Missized, getOpcodeSize, SizeOfMove, SizeOfCalculation, SizeOfStep
  <2>2. Shown(op) = << <<"def", 8>>, <<"size", 8>>, <<"offset", 8>> >>
    BY <1>7, ShownIs
  <2>3. Regular(<< <<"def", 8>>, <<"size", 8>>, <<"offset", 8>> >>) /\ SizeOf(<< <<"def", 8>>, <<"size", 8>>, <<"offset", 8>> >>) = 24
    BY <1>0, RegularAre
  <2> QED
    BY <2>1, <2>2, <2>3
<1>8. CASE op \in Sizes8
  <2>1. op \notin Missized => getOpcodeSize(op) = 9
    BY <1>8 DEF Sizes8, Missized, getOpcodeSize, SizeOfMove, SizeOfCalculation, SizeOfStep
  <2>2. Shown(op) = << <<"size", 8>> >>
    BY <1>8, ShownIs
  <2>3. Regular(<< <<"size", 8>> >>) /\ SizeOf(<< <<"size", 8>> >>) = 8
    BY <1>0, RegularAre
  <2> QED
    BY <2>1, <2>2, <2>3
<1>9. CASE op \in Vectors
  <2>1. op \notin Missized => getOpcodeSize(op) = 9
    BY <1>9 DEF Vectors, Missized, getOpcodeSize, SizeOfMove, SizeOfCalculation, SizeOfStep
  <2>2. Shown(op) = << <<"descriptor", 8>> >>
    BY <1>9, ShownIs
  <2>3. Regular(<< <<"descriptor", 8>> >>) /\ SizeOf(<< <<"descriptor", 8>> >>) = 8
    BY <1>0, RegularAre
  <2> QED
    BY <2>1, <2>2, <2>3
<1>10. CASE op \in Jumps
  <2>1. op \notin Missized => getOpcodeSize(op) = 9
    BY <1>10 DEF Jumps, Missized, getOpcodeSize, SizeOfMove, SizeOfCalculation, SizeOfStep
  <2>2. Shown(op) = << <<"target", 8>> >>
    BY <1>10, ShownIs
  <2>3. Regular(<< <<"target", 8>> >>) /\ SizeOf(<< <<"target", 8>> >>) = 8
    BY <1>0, RegularAre
  <2> QED
    BY <2>1, <2>2, <2>3
<1>11. CASE op = "DUP_N"
  <2>1. op \notin Missized => getOpcodeSize(op) = 9
    BY <1>11 DEF Missized, getOpcodeSize, SizeOfMove, SizeOfCalculation, SizeOfStep
  <2>2. Shown(op) = << <<"n", 8>> >>
    BY <1>11, ShownIs
  <2>3. Regular(<< <<"n", 8>> >>) /\ SizeOf(<< <<"n", 8>> >>) = 8
    BY <1>0, RegularAre
  <2> QED
    BY <2>1, <2>2, <2>3
<1>12. CASE op = "CROP"
  <2>1. op \notin Missized => getOpcodeSize(op) = 25
    BY <1>12 DEF Missized, getOpcodeSize, SizeOfMove, SizeOfCalculation, SizeOfStep
  <2>2. Shown(op) = << <<"blobSize", 8>>, <<"memberOffset", 8>>, <<"memberSize", 8>> >>
    BY <1>12, ShownIs
  <2>3. Regular(<< <<"blobSize", 8>>, <<"memberOffset", 8>>, <<"memberSize", 8>> >>) /\ SizeOf(<< <<"blobSize", 8>>, <<"memberOffset", 8>>, <<"memberSize", 8>> >>) = 24
    BY <1>0, RegularAre
  <2> QED
    BY <2>1, <2>2, <2>3
<1>13. CASE op = "CALL"
  <2>1. op \notin Missized => getOpcodeSize(op) = 17
    BY <1>13 DEF Missized, getOpcodeSize, SizeOfMove, SizeOfCalculation, SizeOfStep
  <2>2. Shown(op) = << <<"fcn", 8>>, <<"varargSize", 8>> >>
    BY <1>13, ShownIs
  <2>3. Regular(<< <<"fcn", 8>>, <<"varargSize", 8>> >>) /\ SizeOf(<< <<"fcn", 8>>, <<"varargSize", 8>> >>) = 16
    BY <1>0, RegularAre
  <2> QED
    BY <2>1, <2>2, <2>3
<1>14. CASE op = "JUMP_TABLE"
  <2>1. op \in Missized
    BY <1>14 DEF Missized, getOpcodeSize, SizeOfMove, SizeOfCalculation, SizeOfStep
  <2>2. Shown(op) = << <<"min", 8>>, <<"max", 8>> >>
    BY <1>14, ShownIs
  <2>3. Regular(<< <<"min", 8>>, <<"max", 8>> >>) /\ SizeOf(<< <<"min", 8>>, <<"max", 8>> >>) = 16
    BY <1>0, RegularAre
  <2> QED
    BY <2>1, <2>2, <2>3
<1> QED
  BY <1>1, <1>2, <1>3, <1>4, <1>5, <1>6, <1>7, <1>8, <1>9, <1>10, <1>11, <1>12, <1>13, <1>14, OpsAre

(* An instruction as it is pushed: the operands with their values, and the  *)
(* names and widths that are remembered of them.                           *)
OperandType == OperandNames \X Int \X {4, 8}
Remembered(operands) == [k \in DOMAIN operands |-> <<operands[k][1], operands[k][3]>>]
InstructionFits(op, operands) ==
    /\ op \in Ops /\ operands \in Seq(OperandType)
    /\ Regular(Remembered(operands))
    /\ op # "JUMP_TABLE" => Remembered(operands) = Shown(op)
    /\ op = "JUMP_TABLE" =>
           Len(operands) >= 2 /\ Remembered(operands) = Shown(op) \o TableCells(operands[1][2], operands[2][2])
    /\ op = "CALL" => operands[1][2] \in 0..Len(functions)

LEMMA NamesAre ==
    /\ "value" \in OperandNames /\ "offset" \in OperandNames /\ "def" \in OperandNames /\ "size" \in OperandNames
    /\ "descriptor" \in OperandNames /\ "target" \in OperandNames /\ "n" \in OperandNames
    /\ "blobSize" \in OperandNames /\ "memberOffset" \in OperandNames /\ "memberSize" \in OperandNames
    /\ "fcn" \in OperandNames /\ "varargSize" \in OperandNames /\ "min" \in OperandNames /\ "max" \in OperandNames
    /\ "cell" \in OperandNames
  BY DEF OperandNames

LEMMA RememberedAre ==
    /\ <<>> \in Seq(OperandType) /\ Remembered(<<>>) = <<>>
    /\ \A a \in OperandNames, u \in Int :
           /\ << <<a, u, 4>> >> \in Seq(OperandType) /\ Remembered(<< <<a, u, 4>> >>) = << <<a, 4>> >>
           /\ << <<a, u, 8>> >> \in Seq(OperandType) /\ Remembered(<< <<a, u, 8>> >>) = << <<a, 8>> >>
    /\ \A a, b \in OperandNames, u, v \in Int :
           /\ << <<a, u, 8>>, <<b, v, 8>> >> \in Seq(OperandType)
           /\ Remembered(<< <<a, u, 8>>, <<b, v, 8>> >>) = << <<a, 8>>, <<b, 8>> >>
    /\ \A a, b, c \in OperandNames, u, v, w \in Int :
           /\ << <<a, u, 8>>, <<b, v, 8>>, <<c, w, 8>> >> \in Seq(OperandType)
           /\ Remembered(<< <<a, u, 8>>, <<b, v, 8>>, <<c, w, 8>> >>) = << <<a, 8>>, <<b, 8>>, <<c, 8>> >>
<1>2. <<>> \in Seq(OperandType) /\ Remembered(<<>>) = <<>>
  BY DEF Remembered
<1>3. \A a \in OperandNames, u \in Int :
           /\ << <<a, u, 4>> >> \in Seq(OperandType) /\ Remembered(<< <<a, u, 4>> >>) = << <<a, 4>> >>
           /\ << <<a, u, 8>> >> \in Seq(OperandType) /\ Remembered(<< <<a, u, 8>> >>) = << <<a, 8>> >>
  <2> TAKE a \in OperandNames, u \in Int
  <2>1. <<a, u, 4>> \in OperandType /\ <<a, u, 8>> \in OperandType
    BY DEF OperandType
  <2>2. Remembered(<< <<a, u, 4>> >>) = << <<a, 4>> >> /\ Remembered(<< <<a, u, 8>> >>) = << <<a, 8>> >>
    BY DEF Remembered
  <2> QED
    BY <2>1, <2>2
<1>4. \A a, b \in OperandNames, u, v \in Int :
           /\ << <<a, u, 8>>, <<b, v, 8>> >> \in Seq(OperandType)
           /\ Remembered(<< <<a, u, 8>>, <<b, v, 8>> >>) = << <<a, 8>>, <<b, 8>> >>
  <2> TAKE a, b \in OperandNames, u, v \in Int
  <2>1. <<a, u, 8>> \in OperandType /\ <<b, v, 8>> \in OperandType
    BY DEF OperandType
  <2>2. Remembered(<< <<a, u, 8>>, <<b, v, 8>> >>) = << <<a, 8>>, <<b, 8>> >>
    BY DEF Remembered
  <2> QED
    BY <2>1, <2>2
<1>5. \A a, b, c \in OperandNames, u, v, w \in Int :
           /\ << <<a, u, 8>>, <<b, v, 8>>, <<c, w, 8>> >> \in Seq(OperandType)
           /\ Remembered(<< <<a, u, 8>>, <<b, v, 8>>, <<c, w, 8>> >>) = << <<a, 8>>, <<b, 8>>, <<c, 8>> >>
  <2> TAKE a, b, c \in OperandNames, u, v, w \in Int
  <2>1. <<a, u, 8>> \in OperandType /\ <<b, v, 8>> \in OperandType /\ <<c, w, 8>> \in OperandType
    BY DEF OperandType
  <2>2. Remembered(<< <<a, u, 8>>, <<b, v, 8>>, <<c, w, 8>> >>) = << <<a, 8>>, <<b, 8>>, <<c, 8>> >>
    BY DEF Remembered
  <2> QED
    BY <2>1, <2>2
<1> QED
  BY <1>2, <1>3, <1>4, <1>5

(* Whoever pushes an opcode without values pushes what it takes. *)
LEMMA PlainFits ==
    ASSUME NEW op \in Plain, NEW vals \in Seq(Int), Len(vals) >= Len(Pushed[op]),
           op = "CALL" => vals[1] \in 0..Len(functions)
    PROVE  pushPlain(op, vals)[1] = op /\ InstructionFits(op, pushPlain(op, vals)[2])
<1> DEFINE O == pushPlain(op, vals)[2]
<1>1. pushPlain(op, vals)[1] = op /\ O = [k \in DOMAIN Pushed[op] |-> <<Pushed[op][k], vals[k], 8>>]
  BY DEF pushPlain, WordOf
<1>2. op \in Ops /\ op # "JUMP_TABLE"
  BY PlainIs DEF Ops
<1>3. SUFFICES /\ O \in Seq(OperandType) /\ Remembered(O) = Shown(op)
               /\ op = "CALL" => O[1][2] \in 0..Len(functions)
  BY <1>1, <1>2, ShownRegular DEF InstructionFits
<1> HIDE DEF O
<1>4. ASSUME Pushed[op] = <<>> PROVE O = <<>>
  BY <1>1, <1>4
<1>5. ASSUME NEW x, Pushed[op] = <<x>> PROVE O = << <<x, vals[1], 8>> >> /\ vals[1] \in Int
  BY <1>1, <1>5
<1>6. CASE op \in Bare
  BY <1>4, <1>6, PlainIs, ShownIs, RememberedAre, NamesAre DEF Bare
<1>7. CASE op \in Sizes8
  <2>1. O = << <<"size", vals[1], 8>> >> /\ vals[1] \in Int
    BY <1>5, <1>7, PlainIs
  <2>2. Shown(op) = << <<"size", 8>> >> /\ op # "CALL"
    BY <1>7, ShownIs DEF Sizes8
  <2> QED
    BY <2>1, <2>2, RememberedAre, NamesAre
<1>8. CASE op \in Vectors
  <2>1. O = << <<"descriptor", vals[1], 8>> >> /\ vals[1] \in Int
    BY <1>5, <1>8, PlainIs
  <2>2. Shown(op) = << <<"descriptor", 8>> >> /\ op # "CALL"
    BY <1>8, ShownIs DEF Vectors
  <2> QED
    BY <2>1, <2>2, RememberedAre, NamesAre
<1>9. CASE op = "DUP_N"
  <2>1. O = << <<"n", vals[1], 8>> >> /\ vals[1] \in Int
    BY <1>5, <1>9, PlainIs
  <2>2. Shown(op) = << <<"n", 8>> >> /\ op # "CALL"
    BY <1>9, ShownIs
  <2> QED
    BY <2>1, <2>2, RememberedAre, NamesAre
<1>10. CASE op = "LEA_CONST"
  <2>1. O = << <<"offset", vals[1], 8>> >> /\ vals[1] \in Int
    BY <1>5, <1>10, PlainIs
  <2>2. Shown(op) = << <<"offset", 8>> >> /\ op # "CALL"
    BY <1>10, ShownIs DEF Local
  <2> QED
    BY <2>1, <2>2, RememberedAre, NamesAre
<1>11. CASE op = "CROP"
  <2>1. Pushed[op] = <<"blobSize", "memberOffset", "memberSize">>
    BY <1>11, PlainIs
  <2>2. O = << <<"blobSize", vals[1], 8>>, <<"memberOffset", vals[2], 8>>, <<"memberSize", vals[3], 8>> >>
    BY <1>1, <2>1
  <2>3. vals[1] \in Int /\ vals[2] \in Int /\ vals[3] \in Int
    BY <2>1
  <2>4. Shown(op) = << <<"blobSize", 8>>, <<"memberOffset", 8>>, <<"memberSize", 8>> >> /\ op # "CALL"
    BY <1>11, ShownIs
  <2>5. /\ <<"blobSize", vals[1], 8>> \in OperandType /\ <<"memberOffset", vals[2], 8>> \in OperandType
        /\ <<"memberSize", vals[3], 8>> \in OperandType
    BY <2>3, NamesAre DEF OperandType
  <2>6. Remembered(O) = Shown(op)
    BY <2>2, <2>4 DEF Remembered
  <2> QED
    BY <2>2, <2>4, <2>5, <2>6
<1>12. CASE op = "CALL"
  <2>1. Pushed[op] = <<"fcn", "varargSize">>
    BY <1>12, PlainIs
  <2>2. O = << <<"fcn", vals[1], 8>>, <<"varargSize", vals[2], 8>> >>
    BY <1>1, <2>1
  <2>3. vals[1] \in Int /\ vals[2] \in Int
    BY <2>1
  <2>4. Shown(op) = << <<"fcn", 8>>, <<"varargSize", 8>> >> /\ O[1][2] = vals[1]
    BY <1>12, <2>2, ShownIs
  <2>5. <<"fcn", vals[1], 8>> \in OperandType /\ <<"varargSize", vals[2], 8>> \in OperandType
    BY <2>3, NamesAre DEF OperandType
  <2>6. Remembered(O) = Shown(op)
    BY <2>2, <2>4 DEF Remembered
  <2> QED
    BY <1>12, <2>2, <2>4, <2>5, <2>6
<1>13. op \in Bare \cup Sizes8 \cup Vectors \cup {"DUP_N", "LEA_CONST", "CROP", "CALL"}
  BY PlainIs DEF Bare, Sizes8, Vectors
<1> QED
  BY <1>6, <1>7, <1>8, <1>9, <1>10, <1>11, <1>12, <1>13

(* The operands that are pushed with an address or a number. *)
LEMMA OperandsAre ==
    ASSUME NEW val \in Int
    PROVE  /\ << <<"value", val, 4>> >> \in Seq(OperandType) /\ Remembered(<< <<"value", val, 4>> >>) = << <<"value", 4>> >>
           /\ << <<"value", val, 8>> >> \in Seq(OperandType) /\ Remembered(<< <<"value", val, 8>> >>) = << <<"value", 8>> >>
           /\ << <<"target", val, 8>> >> \in Seq(OperandType) /\ Remembered(<< <<"target", val, 8>> >>) = << <<"target", 8>> >>
           /\ << <<"offset", val, 8>> >> \in Seq(OperandType) /\ Remembered(<< <<"offset", val, 8>> >>) = << <<"offset", 8>> >>
           /\ << <<"size", 24, 8>>, <<"offset", val, 8>> >> \in Seq(OperandType) /\ Remembered(<< <<"size", 24, 8>>, <<"offset", val, 8>> >>) = << <<"size", 8>>, <<"offset", 8>> >>
           /\ << <<"def", 1, 8>>, <<"offset", val, 8>> >> \in Seq(OperandType) /\ Remembered(<< <<"def", 1, 8>>, <<"offset", val, 8>> >>) = << <<"def", 8>>, <<"offset", 8>> >>
           /\ << <<"def", 1, 8>>, <<"size", 24, 8>>, <<"offset", val, 8>> >> \in Seq(OperandType) /\ Remembered(<< <<"def", 1, 8>>, <<"size", 24, 8>>, <<"offset", val, 8>> >>) = << <<"def", 8>>, <<"size", 8>>, <<"offset", 8>> >>
<1>1. /\ <<"def", 1, 8>> \in OperandType
      /\ <<"offset", val, 8>> \in OperandType
      /\ <<"size", 24, 8>> \in OperandType
      /\ <<"target", val, 8>> \in OperandType
      /\ <<"value", val, 4>> \in OperandType
      /\ <<"value", val, 8>> \in OperandType
  BY NamesAre DEF OperandType
<1>2. \A x, y, z \in OperandType :
          <<x>> \in Seq(OperandType) /\ <<x, y>> \in Seq(OperandType) /\ <<x, y, z>> \in Seq(OperandType)
  OBVIOUS
<1>3. Remembered(<< <<"value", val, 4>> >>) = << <<"value", 4>> >>
  BY DEF Remembered
<1>4. Remembered(<< <<"value", val, 8>> >>) = << <<"value", 8>> >>
  BY DEF Remembered
<1>5. Remembered(<< <<"target", val, 8>> >>) = << <<"target", 8>> >>
  BY DEF Remembered
<1>6. Remembered(<< <<"offset", val, 8>> >>) = << <<"offset", 8>> >>
  BY DEF Remembered
<1>7. Remembered(<< <<"size", 24, 8>>, <<"offset", val, 8>> >>) = << <<"size", 8>>, <<"offset", 8>> >>
  BY DEF Remembered
<1>8. Remembered(<< <<"def", 1, 8>>, <<"offset", val, 8>> >>) = << <<"def", 8>>, <<"offset", 8>> >>
  BY DEF Remembered
<1>9. Remembered(<< <<"def", 1, 8>>, <<"size", 24, 8>>, <<"offset", val, 8>> >>) = << <<"def", 8>>, <<"size", 8>>, <<"offset", 8>> >>
  BY DEF Remembered
<1> QED
  BY <1>1, <1>2, <1>3, <1>4, <1>5, <1>6, <1>7, <1>8, <1>9

LEMMA PushFits ==
    ASSUME NEW kind \in Immediates, NEW val \in Int
    PROVE  LET i == pushImmediate(kind, val)
           IN  i[1] \in Small \cup {"PUSH_64"} /\ InstructionFits(i[1], i[2])
<1> DEFINE i == pushImmediate(kind, val)
<1>1. CASE kind \notin {"I64", "U64", "F64", "PTR"}
  <2>1. i[1] \in Small /\ i[2] = << <<"value", val, 4>> >>
    BY <1>1 DEF pushImmediate, Immediates, Small
  <2>2. i[1] \in Ops /\ i[1] # "JUMP_TABLE" /\ i[1] # "CALL"
    BY <2>1, OpsAre DEF Small
  <2>3. Shown(i[1]) = << <<"value", 4>> >>
    BY <2>1, ShownIs
  <2>4. i[2] \in Seq(OperandType) /\ Remembered(i[2]) = Shown(i[1])
    BY <2>1, <2>3, OperandsAre
  <2> QED
    BY <2>1, <2>2, <2>4, ShownRegular DEF InstructionFits
<1>2. CASE kind \in {"I64", "U64", "F64", "PTR"}
  <2>1. i[1] = "PUSH_64" /\ i[2] = << <<"value", val, 8>> >>
    BY <1>2 DEF pushImmediate, WordOf
  <2>2. i[1] \in Ops /\ i[1] # "JUMP_TABLE" /\ i[1] # "CALL"
    BY <2>1, OpsAre
  <2>3. Shown(i[1]) = << <<"value", 8>> >>
    BY <2>1, ShownIs
  <2>4. i[2] \in Seq(OperandType) /\ Remembered(i[2]) = Shown(i[1])
    BY <2>1, <2>3, OperandsAre
  <2> QED
    BY <2>1, <2>2, <2>4, ShownRegular DEF InstructionFits
<1> QED
  BY <1>1, <1>2

LEMMA AccessFits ==
    ASSUME NEW way \in {"SET", "GET"}, NEW local \in BOOLEAN, NEW blob \in BOOLEAN, NEW val \in Int
    PROVE  LET i == pushAccess(way, local, blob, val)
           IN  i[1] \notin Jumps \cup {"JUMP_TABLE", "CALL"} /\ InstructionFits(i[1], i[2])
<1> DEFINE i == pushAccess(way, local, blob, val)
           op == AccessOp(way, local, blob)
           none == << >>
           def == << <<"def", 1, 8>> >>
           size == << <<"size", 24, 8>> >>
           offset == << <<"offset", val, 8>> >>
<1>1. i[1] = op
      /\ i[2] = (IF local THEN none ELSE def) \o (IF blob THEN size ELSE none) \o offset
  BY DEF pushAccess, WordOf
<1>2. op \in Ops /\ op \notin Jumps \cup {"JUMP_TABLE", "CALL"}
  BY OpsAre DEF AccessOp, Local, Global, Blobs, MisreadBlob, Jumps
<1>3. /\ none \o none \o offset = offset
      /\ none \o size \o offset = << <<"size", 24, 8>>, <<"offset", val, 8>> >>
      /\ def \o none \o offset = << <<"def", 1, 8>>, <<"offset", val, 8>> >>
      /\ def \o size \o offset = << <<"def", 1, 8>>, <<"size", 24, 8>>, <<"offset", val, 8>> >>
  <2>1. none \in Seq(OperandType) /\ def \in Seq(OperandType) /\ size \in Seq(OperandType) /\ offset \in Seq(OperandType)
    BY NamesAre DEF OperandType
  <2>2. /\ none \o none = none /\ none \o size = size /\ def \o none = def /\ none \o offset = offset
    BY <2>1, ConcatEmptySeq
  <2>3. \A x, y \in OperandType : <<x>> \o <<y>> = <<x, y>>
    <3> TAKE x, y \in OperandType
    <3>1. /\ <<x>> \in Seq(OperandType) /\ <<y>> \in Seq(OperandType) /\ <<x, y>> \in Seq(OperandType)
          /\ Len(<<x>>) = 1 /\ Len(<<y>>) = 1 /\ Len(<<x, y>>) = 2
      OBVIOUS
    <3> DEFINE c == <<x>> \o <<y>>
    <3>2. c \in Seq(OperandType) /\ Len(c) = 2 /\ c[1] = x /\ c[2] = y
      BY <3>1, ConcatProperties
    <3> HIDE DEF c
    <3>3. \A k \in 1..Len(c) : c[k] = <<x, y>>[k]
      BY <3>2
    <3>4. c = <<x, y>>
      BY <3>1, <3>2, <3>3, SeqEqual
    <3> QED
      BY <3>4 DEF c
  <2>4. \A x, y, z \in OperandType : <<x, y>> \o <<z>> = <<x, y, z>>
    <3> TAKE x, y, z \in OperandType
    <3>1. /\ <<x, y>> \in Seq(OperandType) /\ <<z>> \in Seq(OperandType) /\ <<x, y, z>> \in Seq(OperandType)
          /\ Len(<<x, y>>) = 2 /\ Len(<<z>>) = 1 /\ Len(<<x, y, z>>) = 3
      OBVIOUS
    <3> DEFINE c == <<x, y>> \o <<z>>
    <3>2. c \in Seq(OperandType) /\ Len(c) = 3 /\ c[1] = x /\ c[2] = y /\ c[3] = z
      BY <3>1, ConcatProperties
    <3> HIDE DEF c
    <3>3. \A k \in 1..Len(c) : c[k] = <<x, y, z>>[k]
      BY <3>2
    <3>4. c = <<x, y, z>>
      BY <3>1, <3>2, <3>3, SeqEqual
    <3> QED
      BY <3>4 DEF c
  <2>5. /\ <<"def", 1, 8>> \in OperandType /\ <<"size", 24, 8>> \in OperandType
        /\ <<"offset", val, 8>> \in OperandType
    BY NamesAre DEF OperandType
  <2>6. /\ size \o offset = << <<"size", 24, 8>>, <<"offset", val, 8>> >>
        /\ def \o offset = << <<"def", 1, 8>>, <<"offset", val, 8>> >>
        /\ def \o size = << <<"def", 1, 8>>, <<"size", 24, 8>> >>
    BY <2>3, <2>5
  <2>7. << <<"def", 1, 8>>, <<"size", 24, 8>> >> \o offset
            = << <<"def", 1, 8>>, <<"size", 24, 8>>, <<"offset", val, 8>> >>
    BY <2>4, <2>5
  <2> QED
    BY <2>2, <2>6, <2>7
<1> HIDE DEF i
<1>4. i[2] \in Seq(OperandType) /\ Remembered(i[2]) = Shown(op)
  <2> HIDE DEF op
  <2>0. /\ op \in {"SET", "GET"} <=> local /\ ~ blob
        /\ op \in Blobs <=> local /\ blob
        /\ op \in {"SET_GLOBAL", "GET_GLOBAL"} <=> ~ local /\ ~ blob
        /\ op \in MisreadBlob <=> ~ local /\ blob
    BY DEF op, AccessOp, Blobs, MisreadBlob
  <2>1. CASE local /\ ~ blob
    <3>1. i[2] = << <<"offset", val, 8>> >> /\ Shown(op) = << <<"offset", 8>> >>
      BY <1>1, <1>3, <2>0, <2>1, ShownIs DEF Local
    <3> QED
      BY <3>1, OperandsAre
  <2>2. CASE local /\ blob
    <3>1. i[2] = << <<"size", 24, 8>>, <<"offset", val, 8>> >> /\ Shown(op) = << <<"size", 8>>, <<"offset", 8>> >>
      BY <1>1, <1>3, <2>0, <2>2, ShownIs
    <3> QED
      BY <3>1, OperandsAre
  <2>3. CASE ~ local /\ ~ blob
    <3>1. i[2] = << <<"def", 1, 8>>, <<"offset", val, 8>> >> /\ Shown(op) = << <<"def", 8>>, <<"offset", 8>> >>
      BY <1>1, <1>3, <2>0, <2>3, ShownIs DEF Global
    <3> QED
      BY <3>1, OperandsAre
  <2>4. CASE ~ local /\ blob
    <3>1. i[2] = << <<"def", 1, 8>>, <<"size", 24, 8>>, <<"offset", val, 8>> >>
          /\ Shown(op) = << <<"def", 8>>, <<"size", 8>>, <<"offset", 8>> >>
      BY <1>1, <1>3, <2>0, <2>4, ShownIs
    <3> QED
      BY <3>1, OperandsAre
  <2> QED
    BY <2>1, <2>2, <2>3, <2>4
<1> QED
  BY <1>1, <1>2, <1>4, ShownRegular DEF InstructionFits, i

LEMMA LeaFits ==
    ASSUME NEW local \in BOOLEAN, NEW val \in Int
    PROVE  LET i == pushLea(local, val)
           IN  i[1] \in {"LEA", "LEA_GLOBAL"} /\ InstructionFits(i[1], i[2])
<1> DEFINE i == pushLea(local, val)
<1>1. CASE local
  <2>1. i[1] = "LEA" /\ i[2] = << <<"offset", val, 8>> >>
    BY <1>1 DEF pushLea, WordOf
  <2>2. i[1] \in Ops /\ i[1] # "JUMP_TABLE" /\ i[1] # "CALL" /\ Shown(i[1]) = << <<"offset", 8>> >>
    BY <2>1, OpsAre, ShownIs DEF Local
  <2>3. i[2] \in Seq(OperandType) /\ Remembered(i[2]) = Shown(i[1])
    BY <2>1, <2>2, OperandsAre
  <2> QED
    BY <2>1, <2>2, <2>3, ShownRegular DEF InstructionFits
<1>2. CASE ~ local
  <2>1. i[1] = "LEA_GLOBAL" /\ i[2] = << <<"def", 1, 8>>, <<"offset", val, 8>> >>
    BY <1>2 DEF pushLea, WordOf
  <2>2. /\ i[1] \in Ops /\ i[1] # "JUMP_TABLE" /\ i[1] # "CALL"
        /\ Shown(i[1]) = << <<"def", 8>>, <<"offset", 8>> >>
    BY <2>1, OpsAre, ShownIs DEF Global
  <2>3. i[2] \in Seq(OperandType) /\ Remembered(i[2]) = Shown(i[1])
    BY <2>1, <2>2, OperandsAre
  <2> QED
    BY <2>1, <2>2, <2>3, ShownRegular DEF InstructionFits
<1> QED
  BY <1>1, <1>2

LEMMA JumpFits ==
    ASSUME NEW op \in Jumps, NEW val \in Int
    PROVE  InstructionFits(op, << WordOf("target", val) >>)
<1>1. op \in Ops /\ op # "JUMP_TABLE" /\ op # "CALL" /\ Shown(op) = << <<"target", 8>> >>
  BY OpsAre, ShownIs DEF Jumps
<1>2. WordOf("target", val) = <<"target", val, 8>>
  BY DEF WordOf
<1> QED
  BY <1>1, <1>2, OperandsAre, ShownRegular DEF InstructionFits

LEMMA TableFits ==
    ASSUME NEW lo \in Int, NEW hi \in Int, lo <= hi
    PROVE  LET i == pushTable(lo, hi)
           IN  /\ i[1] = "JUMP_TABLE" /\ InstructionFits(i[1], i[2])
               /\ Len(i[2]) = hi - lo + 4 /\ i[2][1] = <<"min", lo, 8>> /\ i[2][2] = <<"max", hi, 8>>
<1> DEFINE i == pushTable(lo, hi)
           n == hi - lo + 2
           head == << <<"min", lo, 8>>, <<"max", hi, 8>> >>
           cells == [k \in 1..n |-> <<"cell", 0, 8>>]
           shown == << <<"min", 8>>, <<"max", 8>> >>
<1>1. i[1] = "JUMP_TABLE" /\ i[2] = head \o cells
  BY DEF pushTable, WordOf
<1>2. n \in Nat /\ n >= 2
  OBVIOUS
<1>3. head \in Seq(OperandType)
  <2>1. <<"min", lo, 8>> \in OperandType /\ <<"max", hi, 8>> \in OperandType
    BY NamesAre DEF OperandType
  <2> QED
    BY <2>1
<1>4. cells \in Seq(OperandType) /\ Len(cells) = n
  <2>1. <<"cell", 0, 8>> \in OperandType
    BY NamesAre DEF OperandType
  <2> QED
    BY <1>2, <2>1
<1> HIDE DEF n
<1>5. /\ i[2] \in Seq(OperandType) /\ Len(i[2]) = n + 2
      /\ i[2][1] = <<"min", lo, 8>> /\ i[2][2] = <<"max", hi, 8>>
      /\ \A k \in 3..(n + 2) : i[2][k] = <<"cell", 0, 8>>
  <2>1. Len(head) = 2 /\ head[1] = <<"min", lo, 8>> /\ head[2] = <<"max", hi, 8>>
    OBVIOUS
  <2>2. \A k \in 1..n : cells[k] = <<"cell", 0, 8>>
    OBVIOUS
  <2> HIDE DEF head, cells, i
  <2>5. /\ head \o cells \in Seq(OperandType) /\ Len(head \o cells) = Len(head) + Len(cells)
        /\ \A k \in 1..(Len(head) + Len(cells)) :
               (head \o cells)[k] = IF k <= Len(head) THEN head[k] ELSE cells[k - Len(head)]
    BY <1>3, <1>4, ConcatProperties
  <2>3. i[2] \in Seq(OperandType) /\ Len(i[2]) = n + 2
    BY <1>1, <1>2, <1>4, <2>1, <2>5
  <2>4. \A k \in 1..(n + 2) : i[2][k] = IF k <= 2 THEN head[k] ELSE cells[k - 2]
    BY <1>1, <1>2, <1>4, <2>1, <2>5
  <2>6. i[2][1] = head[1] /\ i[2][2] = head[2]
    <3>1. 1 \in 1..(n + 2) /\ 2 \in 1..(n + 2)
      BY <1>2
    <3> QED
      BY <2>4, <3>1
  <2>7. ASSUME NEW k \in 3..(n + 2) PROVE i[2][k] = <<"cell", 0, 8>>
    <3>1. k \in 1..(n + 2) /\ ~ (k <= 2) /\ k - 2 \in 1..n
      BY <1>2
    <3>2. i[2][k] = cells[k - 2]
      BY <2>4, <3>1
    <3> QED
      BY <2>2, <3>1, <3>2
  <2> QED
    BY <2>1, <2>3, <2>6, <2>7
<1> HIDE DEF i, head, cells
<1> DEFINE r == Remembered(i[2])
           t == TableCells(lo, hi)
<1>6. r = [k \in 1..(n + 2) |-> <<i[2][k][1], 8>>] /\ \A k \in 1..(n + 2) : i[2][k][3] = 8
  <2>1. \A k \in 1..(n + 2) : i[2][k][3] = 8
    BY <1>2, <1>5
  <2>2. DOMAIN i[2] = 1..(n + 2)
    BY <1>2, <1>5
  <2> QED
    BY <2>1, <2>2 DEF Remembered
<1>7. t = [k \in 1..n |-> <<"cell", 8>>]
  BY DEF TableCells, n
<1>8. t \in Seq(OperandNames \X {4, 8}) /\ Len(t) = n
  <2>1. <<"cell", 8>> \in OperandNames \X {4, 8}
    BY NamesAre
  <2> QED
    BY <1>2, <1>7, <2>1
<1>9. shown \in Seq(OperandNames \X {4, 8}) /\ Len(shown) = 2 /\ shown[1] = <<"min", 8>> /\ shown[2] = <<"max", 8>>
  <2>1. <<"min", 8>> \in OperandNames \X {4, 8} /\ <<"max", 8>> \in OperandNames \X {4, 8}
    BY NamesAre
  <2> QED
    BY <2>1
<1> HIDE DEF r, t, shown
<1>10. r = shown \o t /\ shown \o t \in Seq(OperandNames \X {4, 8})
  <2>1. /\ shown \o t \in Seq(OperandNames \X {4, 8}) /\ Len(shown \o t) = n + 2
        /\ \A k \in 1..(n + 2) : (shown \o t)[k] = IF k <= 2 THEN shown[k] ELSE t[k - 2]
    <3>1. /\ shown \o t \in Seq(OperandNames \X {4, 8}) /\ Len(shown \o t) = Len(shown) + Len(t)
          /\ \A k \in 1..(Len(shown) + Len(t)) :
                 (shown \o t)[k] = IF k <= Len(shown) THEN shown[k] ELSE t[k - Len(shown)]
      BY <1>8, <1>9, ConcatProperties
    <3> QED
      BY <1>2, <1>8, <1>9, <3>1
  <2>2. \A k \in 1..(n + 2) : r[k] = (shown \o t)[k]
    <3> TAKE k \in 1..(n + 2)
    <3>1. r[k] = <<i[2][k][1], 8>>
      BY <1>6
    <3>2. CASE k = 1
      <4>1. k \in 1..(n + 2) /\ k <= 2
        BY <1>2, <3>2
      <4>2. (shown \o t)[k] = shown[k]
        BY <2>1, <4>1
      <4>3. i[2][k][1] = "min"
        BY <1>5, <3>2
      <4> QED
        BY <1>9, <3>1, <3>2, <4>2, <4>3
    <3>3. CASE k = 2
      <4>1. k \in 1..(n + 2) /\ k <= 2
        BY <1>2, <3>3
      <4>2. (shown \o t)[k] = shown[k]
        BY <2>1, <4>1
      <4>3. i[2][k][1] = "max"
        BY <1>5, <3>3
      <4> QED
        BY <1>9, <3>1, <3>3, <4>2, <4>3
    <3>4. CASE k \in 3..(n + 2)
      <4>1. k - 2 \in 1..n /\ k > 2
        BY <1>2, <3>4
      <4>2. (shown \o t)[k] = t[k - 2]
        BY <2>1, <4>1
      <4>3. t[k - 2] = <<"cell", 8>>
        BY <1>7, <4>1
      <4>4. i[2][k] = <<"cell", 0, 8>>
        BY <1>5, <3>4
      <4> QED
        BY <3>1, <4>2, <4>3, <4>4
    <3>5. k = 1 \/ k = 2 \/ k \in 3..(n + 2)
      BY <1>2
    <3> QED
      BY <3>2, <3>3, <3>4, <3>5
  <2>3. r \in [1..(n + 2) -> OperandNames \X {4, 8}]
    <3>1. \A k \in 1..(n + 2) : i[2][k][1] \in OperandNames
      BY <1>2, <1>5 DEF OperandType
    <3> QED
      BY <1>6, <3>1
  <2>4. DOMAIN r = 1..(n + 2) /\ DOMAIN (shown \o t) = 1..(n + 2)
    BY <1>2, <2>1, <2>3
  <2> QED
    BY <2>1, <2>2, <2>3, <2>4
<1>11. Regular(r)
  <2>1. r \in Seq(OperandNames \X {4, 8}) /\ DOMAIN r = 1..(n + 2)
    BY <1>6, <1>10
  <2>2. Words(r)
    BY <1>6, <2>1 DEF Words
  <2> QED
    BY <2>1, <2>2 DEF Regular
<1>12. Shown("JUMP_TABLE") = shown
  BY ShownIs DEF shown
<1>13. i[1] = "JUMP_TABLE" /\ i[1] \in Ops
  BY <1>1, OpsAre DEF i
<1>14. i[2][1][2] = lo /\ i[2][2][2] = hi /\ Len(i[2]) >= 2
  BY <1>2, <1>5
<1>15. Remembered(i[2]) = Shown(i[1]) \o TableCells(i[2][1][2], i[2][2][2])
  BY <1>10, <1>12, <1>13, <1>14 DEF r, t
<1>16. InstructionFits(i[1], i[2])
  BY <1>5, <1>11, <1>13, <1>14, <1>15 DEF InstructionFits, r
<1>17. Len(i[2]) = hi - lo + 4
  BY <1>5 DEF n
<1> QED
  BY <1>5, <1>13, <1>16, <1>17 DEF i

(* Whatever a piece pushes fits; and what jumps goes by a field of its own. *)
LEMMA InstructionIs ==
    ASSUME NEW pieces, NEW n \in Nat, PieceFits(functions, pieces, n), pieces[n].do # "line",
           NEW b, Len(b.bytes) \in Nat, \A t \in 1..n : b.places[t] \in Nat
    PROVE  LET p == pieces[n]
               i == InstructionOf(b, p)
           IN  /\ InstructionFits(i[1], i[2])
               /\ i[1] \in Jumps => /\ p.do \in {"back", "ahead"}
                                    /\ p.do = "back" => i[2][1][2] = b.places[p.to] - Len(b.bytes)
               /\ i[1] = "JUMP_TABLE" => p.do = "table" /\ Len(i[2]) = p.hi - p.lo + 4
               /\ p.do \in {"back", "ahead"} => i[1] \in Jumps
               /\ p.do = "table" => i[1] = "JUMP_TABLE"
<1> DEFINE p == pieces[n]
           i == InstructionOf(b, p)
<1>0. Small \cap (Jumps \cup {"JUMP_TABLE"}) = {} /\ Plain \cap (Jumps \cup {"JUMP_TABLE"}) = {}
      /\ "JUMP_TABLE" \notin Jumps /\ "PUSH_64" \notin Jumps /\ "LEA" \notin Jumps /\ "LEA_GLOBAL" \notin Jumps
      /\ "JUMP" \in Jumps
  BY PlainIs DEF Small, Jumps
<1>1. CASE p.do = "push"
  <2>1. p.kind \in Immediates /\ p.val \in Int
    BY <1>1 DEF PieceFits
  <2>2. i = pushImmediate(p.kind, p.val)
    BY <1>1 DEF InstructionOf
  <2> HIDE DEF i, p
  <2>3. i[1] \in Small \cup {"PUSH_64"} /\ InstructionFits(i[1], i[2])
    BY <2>1, <2>2, PushFits
  <2> QED
    BY <1>0, <1>1, <2>3 DEF i, p
<1>2. CASE p.do = "access"
  <2>1. p.way \in {"SET", "GET"} /\ p.local \in BOOLEAN /\ p.blob \in BOOLEAN /\ p.val \in Int
    BY <1>2 DEF PieceFits
  <2>2. i = pushAccess(p.way, p.local, p.blob, p.val)
    BY <1>2 DEF InstructionOf
  <2> HIDE DEF i, p
  <2>3. i[1] \notin Jumps \cup {"JUMP_TABLE", "CALL"} /\ InstructionFits(i[1], i[2])
    BY <2>1, <2>2, AccessFits
  <2> QED
    BY <1>0, <1>2, <2>3 DEF i, p
<1>3. CASE p.do = "lea"
  <2>1. p.local \in BOOLEAN /\ p.val \in Int
    BY <1>3 DEF PieceFits
  <2>2. i = pushLea(p.local, p.val)
    BY <1>3 DEF InstructionOf
  <2> HIDE DEF i, p
  <2>3. i[1] \in {"LEA", "LEA_GLOBAL"} /\ InstructionFits(i[1], i[2])
    BY <2>1, <2>2, LeaFits
  <2> QED
    BY <1>0, <1>3, <2>3 DEF i, p
<1>4. CASE p.do = "plain"
  <2>1. /\ p.op \in Plain /\ p.vals \in Seq(Int) /\ Len(p.vals) >= Len(Pushed[p.op])
        /\ p.op = "CALL" => p.vals[1] \in 0..Len(functions)
    BY <1>4 DEF PieceFits, Plain
  <2>2. i = pushPlain(p.op, p.vals)
    BY <1>4 DEF InstructionOf
  <2> HIDE DEF i, p
  <2>3. i[1] = p.op /\ InstructionFits(i[1], i[2])
    BY <2>1, <2>2, PlainFits
  <2> QED
    BY <1>0, <1>4, <2>1, <2>3 DEF i, p
<1>5. CASE p.do = "back"
  <2>1. p.to \in 1..n
    BY <1>5 DEF PieceFits
  <2>2. i = <<"JUMP", << WordOf("target", b.places[p.to] - Len(b.bytes)) >> >>
    BY <1>5 DEF InstructionOf, pushJumpBack
  <2> HIDE DEF p
  <2>3. b.places[p.to] - Len(b.bytes) \in Int
    BY <2>1
  <2> DEFINE val == b.places[p.to] - Len(b.bytes)
  <2>4. i[1] = "JUMP" /\ i[2] = << WordOf("target", val) >> /\ i[2][1][2] = val
    BY <2>2 DEF WordOf
  <2> HIDE DEF i, val
  <2>5. InstructionFits(i[1], i[2])
    BY <1>0, <2>3, <2>4, JumpFits DEF val
  <2> QED
    BY <1>0, <1>5, <2>4, <2>5 DEF i, p, val
<1>6. CASE p.do = "ahead"
  <2>1. p.op \in Jumps
    BY <1>6 DEF PieceFits
  <2>2. i[1] = p.op /\ i[2] = << WordOf("target", 0) >>
    BY <1>6 DEF InstructionOf, pushJumpPlaceholder
  <2> HIDE DEF i, p
  <2>3. InstructionFits(i[1], i[2])
    BY <2>1, <2>2, JumpFits
  <2> QED
    BY <1>0, <1>6, <2>1, <2>2, <2>3 DEF i, p
<1>7. CASE p.do = "table"
  <2>1. p.lo \in Int /\ p.hi \in Int /\ p.lo <= p.hi
    BY <1>7 DEF PieceFits
  <2>2. i = pushTable(p.lo, p.hi)
    BY <1>7 DEF InstructionOf
  <2> HIDE DEF i, p
  <2>3. i[1] = "JUMP_TABLE" /\ InstructionFits(i[1], i[2]) /\ Len(i[2]) = p.hi - p.lo + 4
    BY <2>1, <2>2, TableFits
  <2> QED
    BY <1>0, <1>7, <2>3 DEF i, p
<1>8. p.do \in {"push", "access", "lea", "plain", "back", "ahead", "table"}
  BY DEF PieceFits
<1> QED
  BY <1>1, <1>2, <1>3, <1>4, <1>5, <1>6, <1>7, <1>8

-----------------------------------------------------------------------------
(* Where the operands of an instruction lie.                               *)

LEMMA Smallest ==
    ASSUME NEW T \in SUBSET Nat, T # {}
    PROVE  \E m \in T : \A l \in T : m <= l
<1>1. PICK m \in T : \A l \in T : <<l, m>> \notin OpToRel(<, Nat)
  BY NatLessThanWellFounded, WFMin
<1>2. \A l \in T : ~ (l < m)
  BY <1>1 DEF OpToRel
<1> QED
  BY <1>2

LEMMA OffsetsGoOn ==
    ASSUME NEW wanted, NEW n \in Nat, n = Len(wanted)
    PROVE  /\ Offsets(wanted)[0] = 0
           /\ \A i \in 1..n : Offsets(wanted)[i] = Offsets(wanted)[i - 1] + wanted[i][2]
<1> DEFINE Next(g, i) == g[i - 1] + wanted[i][2]
           R(m, g) == [i \in 0..m |-> IF i = 0 THEN 0 ELSE Next(g, i)]
           Bad == {m \in 0..n : \A g : g # R(m, g)}
           G == CHOOSE g : g = R(n, g)
<1>1. Offsets(wanted) = G
  BY DEF Offsets
<1>2. 0 \notin Bad
  <2> DEFINE h == [i \in 0..0 |-> 0]
  <2>1. h = R(0, h)
    OBVIOUS
  <2> QED
    BY <2>1
<1>3. ASSUME NEW m \in 0..n, m # 0, m \in Bad PROVE m - 1 \in Bad
  <2> SUFFICES ASSUME NEW g, g = R(m - 1, g) PROVE FALSE
    BY <1>3
  <2> DEFINE h == [i \in 0..m |-> IF i = 0 THEN 0 ELSE Next(g, i)]
  <2>1. \A i \in 0..(m - 1) : g[i] = IF i = 0 THEN 0 ELSE Next(g, i)
    OBVIOUS
  <2>2. \A i \in 0..(m - 1) : h[i] = g[i]
    BY <2>1
  <2>3. \A i \in 0..m : i # 0 => i - 1 \in 0..(m - 1)
    OBVIOUS
  <2>4. h = R(m, h)
    <3> HIDE DEF h
    <3>1. \A i \in 0..m : i # 0 => Next(g, i) = Next(h, i)
      BY <2>2, <2>3
    <3>2. h = [i \in 0..m |-> IF i = 0 THEN 0 ELSE Next(g, i)]
      BY DEF h
    <3> QED
      BY <3>1, <3>2
  <2> QED
    BY <1>3, <2>4
<1>4. Bad = {}
  <2> SUFFICES ASSUME Bad # {} PROVE FALSE
    OBVIOUS
  <2>1. Bad \in SUBSET Nat
    OBVIOUS
  <2>2. PICK m \in Bad : \A l \in Bad : m <= l
    BY <2>1, Smallest
  <2>3. m \in 0..n /\ m # 0
    BY <1>2
  <2>4. m - 1 \in Bad
    BY <1>3, <2>3
  <2> HIDE DEF Bad
  <2> QED
    BY <2>2, <2>3, <2>4
<1>5. \E g : g = R(n, g)
  <2>1. n \in 0..n /\ n \notin Bad
    BY <1>4
  <2> QED
    BY <2>1
<1>6. G = R(n, G)
  <2> HIDE DEF R
  <2> QED
    BY <1>5
<1> HIDE DEF G
<1>7. \A i \in 0..n : G[i] = IF i = 0 THEN 0 ELSE Next(G, i)
  BY <1>6
<1> QED
  BY <1>1, <1>7

LEMMA OffsetsAre ==
    ASSUME NEW wanted, Regular(wanted)
    PROVE  /\ \A k \in DOMAIN wanted : Offsets(wanted)[k - 1] = 8 * (k - 1)
           /\ WidthOf(wanted) = SizeOf(wanted) /\ SizeOf(wanted) \in Nat
           /\ \A k \in DOMAIN wanted : wanted[k][2] \in {4, 8} /\ 8 * (k - 1) + wanted[k][2] <= SizeOf(wanted)
<1>1. PICK n \in Nat : n = Len(wanted) /\ DOMAIN wanted = 1..n
  BY DEF Regular
<1>2. \A k \in 1..n : wanted[k][2] \in {4, 8}
  BY <1>1 DEF Regular
<1>3. /\ Offsets(wanted)[0] = 0
      /\ \A i \in 1..n : Offsets(wanted)[i] = Offsets(wanted)[i - 1] + wanted[i][2]
  BY <1>1, OffsetsGoOn
<1>4. CASE Words(wanted)
  <2>1. \A k \in 1..n : wanted[k][2] = 8
    BY <1>1, <1>4 DEF Words
  <2> DEFINE Bad == {m \in 0..n : Offsets(wanted)[m] # 8 * m}
  <2>2. Bad = {}
    <3> SUFFICES ASSUME Bad # {} PROVE FALSE
      OBVIOUS
    <3>1. Bad \in SUBSET Nat
      OBVIOUS
    <3>2. PICK m \in Bad : \A l \in Bad : m <= l
      BY <3>1, Smallest
    <3>3. m \in 1..n
      BY <1>3
    <3>4. m - 1 \in 0..n /\ m - 1 \notin Bad
      BY <3>2, <3>3
    <3> QED
      BY <1>3, <2>1, <3>3, <3>4
  <2>3. \A k \in 0..n : Offsets(wanted)[k] = 8 * k
    BY <2>2
  <2>4. SizeOf(wanted) = 8 * n
    BY <1>1, <2>1 DEF SizeOf
  <2>5. \A k \in 1..n : k - 1 \in 0..n
    OBVIOUS
  <2> QED
    BY <1>1, <2>1, <2>3, <2>4, <2>5 DEF WidthOf
<1>5. CASE Len(wanted) = 1 /\ wanted[1][2] = 4
  <2>1. n = 1 /\ SizeOf(wanted) = 4 /\ Offsets(wanted)[1] = 4
    BY <1>1, <1>3, <1>5 DEF SizeOf
  <2> QED
    BY <1>1, <1>3, <1>5, <2>1 DEF WidthOf
<1> QED
  BY <1>4, <1>5 DEF Regular

WithField(bytes, operand) == bytes \o Field(operand[1], operand[2], operand[3])

LEMMA PushedGoOn ==
    ASSUME NEW bytes, NEW operands, NEW n \in Nat, n = Len(operands)
    PROVE  \E g : /\ g[0] = bytes
                  /\ \A i \in 1..n : g[i] = WithField(g[i - 1], operands[i])
                  /\ pushOperands(bytes, operands) = g[n]
<1> DEFINE Next(g, i) == WithField(g[i - 1], operands[i])
           R(m, g) == [i \in 0..m |-> IF i = 0 THEN bytes ELSE Next(g, i)]
           Bad == {m \in 0..n : \A g : g # R(m, g)}
           G == CHOOSE g : g = R(n, g)
<1>1. pushOperands(bytes, operands) = G[n]
  BY DEF pushOperands, WithField
<1>2. 0 \notin Bad
  <2> DEFINE h == [i \in 0..0 |-> bytes]
  <2>1. h = R(0, h)
    OBVIOUS
  <2> QED
    BY <2>1
<1>3. ASSUME NEW m \in 0..n, m # 0, m \in Bad PROVE m - 1 \in Bad
  <2> SUFFICES ASSUME NEW g, g = R(m - 1, g) PROVE FALSE
    BY <1>3
  <2> DEFINE h == [i \in 0..m |-> IF i = 0 THEN bytes ELSE Next(g, i)]
  <2>1. \A i \in 0..(m - 1) : g[i] = IF i = 0 THEN bytes ELSE Next(g, i)
    OBVIOUS
  <2>2. \A i \in 0..(m - 1) : h[i] = g[i]
    BY <2>1
  <2>3. \A i \in 0..m : i # 0 => i - 1 \in 0..(m - 1)
    OBVIOUS
  <2>4. h = R(m, h)
    <3> HIDE DEF h
    <3>1. \A i \in 0..m : i # 0 => Next(g, i) = Next(h, i)
      BY <2>2, <2>3
    <3>2. h = [i \in 0..m |-> IF i = 0 THEN bytes ELSE Next(g, i)]
      BY DEF h
    <3> QED
      BY <3>1, <3>2
  <2> QED
    BY <1>3, <2>4
<1>4. Bad = {}
  <2> SUFFICES ASSUME Bad # {} PROVE FALSE
    OBVIOUS
  <2>1. Bad \in SUBSET Nat
    OBVIOUS
  <2>2. PICK m \in Bad : \A l \in Bad : m <= l
    BY <2>1, Smallest
  <2>3. m \in 0..n /\ m # 0
    BY <1>2
  <2>4. m - 1 \in Bad
    BY <1>3, <2>3
  <2> HIDE DEF Bad
  <2> QED
    BY <2>2, <2>3, <2>4
<1>5. \E g : g = R(n, g)
  <2>1. n \in 0..n /\ n \notin Bad
    BY <1>4
  <2> QED
    BY <2>1
<1>6. G = R(n, G)
  <2> HIDE DEF R
  <2> QED
    BY <1>5
<1> HIDE DEF G
<1>7. \A i \in 0..n : G[i] = IF i = 0 THEN bytes ELSE Next(G, i)
  BY <1>6
<1> QED
  BY <1>1, <1>7

LEMMA FieldIs ==
    ASSUME NEW name \in Ops \cup OperandNames, NEW val \in Int, NEW width \in {1, 4, 8}
    PROVE  /\ Field(name, val, width) \in Seq(ByteType) /\ Len(Field(name, val, width)) = width
           /\ \A i \in 1..width :
                  Field(name, val, width)[i] = <<[name |-> name, val |-> val, width |-> width], i>>
<1>1. [name |-> name, val |-> val, width |-> width] \in FieldType
  BY DEF FieldType
<1>2. \A i \in 1..width : <<[name |-> name, val |-> val, width |-> width], i>> \in ByteType
  BY <1>1 DEF ByteType
<1> QED
  BY <1>2 DEF Field

LEMMA Behind ==
    ASSUME NEW T, NEW s \in Seq(T), NEW f \in Seq(T)
    PROVE  /\ s \o f \in Seq(T) /\ Len(s \o f) = Len(s) + Len(f)
           /\ \A i \in 1..Len(s) : (s \o f)[i] = s[i]
           /\ \A i \in 1..Len(f) : (s \o f)[Len(s) + i] = f[i]
           /\ \A i \in (Len(s) + 1)..(Len(s) + Len(f)) : i - Len(s) \in 1..Len(f) /\ (s \o f)[i] = f[i - Len(s)]
<1>1. PICK l \in Nat, z \in Nat : l = Len(s) /\ z = Len(f)
  BY LenProperties
<1>2. /\ s \o f \in Seq(T) /\ Len(s \o f) = l + z
      /\ \A i \in 1..(l + z) : (s \o f)[i] = IF i <= l THEN s[i] ELSE f[i - l]
  BY <1>1, ConcatProperties
<1>3. \A i \in 1..z : l + i \in 1..(l + z) /\ ~ (l + i <= l) /\ (l + i) - l = i
  OBVIOUS
<1>4. \A i \in (l + 1)..(l + z) : i - l \in 1..z /\ i \in 1..(l + z) /\ ~ (i <= l)
  OBVIOUS
<1>5. \A i \in 1..l : i \in 1..(l + z) /\ i <= l
  OBVIOUS
<1>6. /\ \A i \in 1..l : (s \o f)[i] = s[i]
      /\ \A i \in 1..z : (s \o f)[l + i] = f[i]
      /\ \A i \in (l + 1)..(l + z) : i - l \in 1..z /\ (s \o f)[i] = f[i - l]
  BY <1>2, <1>3, <1>4, <1>5
<1> QED
  BY <1>1, <1>2, <1>6

(* The operands of an instruction behind the bytes there are.              *)
LEMMA PushedAre ==
    ASSUME NEW bytes \in Seq(ByteType), NEW operands \in Seq(OperandType), Regular(Remembered(operands))
    PROVE  LET all == pushOperands(bytes, operands)
               from == Len(bytes)
           IN  /\ all \in Seq(ByteType) /\ Len(all) = from + SizeOf(Remembered(operands))
               /\ \A i \in 1..from : all[i] = bytes[i]
               /\ \A i \in (from + 1)..Len(all) : all[i][1].width # 1
               /\ \A k \in DOMAIN operands : \A i \in 1..operands[k][3] :
                      all[from + 8 * (k - 1) + i]
                          = <<[name |-> operands[k][1], val |-> operands[k][2], width |-> operands[k][3]], i>>
<1> DEFINE w == Remembered(operands)
           from == Len(bytes)
<1>1. PICK n \in Nat : n = Len(operands) /\ DOMAIN operands = 1..n
  OBVIOUS
<1>2. /\ w \in Seq(OperandNames \X {4, 8}) /\ DOMAIN w = 1..n /\ Len(w) = n
      /\ \A k \in 1..n : w[k][2] = operands[k][3]
  BY <1>1 DEF Regular, Remembered
<1>3. PICK g : /\ g[0] = bytes
               /\ \A i \in 1..n : g[i] = WithField(g[i - 1], operands[i])
               /\ pushOperands(bytes, operands) = g[n]
  BY <1>1, PushedGoOn, SMTT(40)
<1> DEFINE off == Offsets(w)
           F(k) == [name |-> operands[k][1], val |-> operands[k][2], width |-> operands[k][3]]
           Good(m) == /\ g[m] \in Seq(ByteType) /\ Len(g[m]) = from + off[m] /\ off[m] \in Nat
                      /\ \A i \in 1..from : g[m][i] = bytes[i]
                      /\ \A i \in (from + 1)..(from + off[m]) : g[m][i][1].width # 1
                      /\ \A k \in 1..m : \A i \in 1..operands[k][3] : g[m][from + off[k - 1] + i] = <<F(k), i>>
                      /\ \A k \in 1..m : off[k - 1] \in Nat /\ off[k - 1] + operands[k][3] <= off[m]
<1> HIDE DEF w
<1>4. off[0] = 0 /\ \A i \in 1..n : off[i] = off[i - 1] + operands[i][3]
  <2>1. off[0] = 0 /\ \A i \in 1..n : off[i] = off[i - 1] + w[i][2]
    BY <1>2, OffsetsGoOn
  <2> QED
    BY <1>2, <2>1
<1>5. \A k \in 1..n : operands[k][1] \in OperandNames /\ operands[k][2] \in Int /\ operands[k][3] \in {4, 8}
  BY <1>1 DEF OperandType
<1> HIDE DEF off
<1>6. Good(0)
  BY <1>3, <1>4
<1>7. ASSUME NEW m \in 1..n, Good(m - 1) PROVE Good(m)
  <2> DEFINE s == g[m - 1]
             f == Field(operands[m][1], operands[m][2], operands[m][3])
             z == operands[m][3]
  <2>1. g[m] = s \o f
    BY <1>3 DEF WithField
  <2>2. /\ f \in Seq(ByteType) /\ Len(f) = z /\ \A i \in 1..z : f[i] = <<F(m), i>>
    <3>1. /\ operands[m][1] \in Ops \cup OperandNames /\ operands[m][2] \in Int
          /\ operands[m][3] \in {1, 4, 8}
      BY <1>5
    <3> QED
      BY <3>1, FieldIs
  <2>3. z \in {4, 8} /\ z \in Nat
    BY <1>5
  <2>4. s \in Seq(ByteType) /\ Len(s) = from + off[m - 1] /\ off[m - 1] \in Nat
    BY <1>7
  <2>5. off[m] = off[m - 1] + z
    BY <1>4
  <2>6. from \in Nat
    BY LenProperties
  <2> HIDE DEF f, z, s, F, from
  <2>7. PICK o \in Nat : o = off[m - 1]
    BY <2>4
  <2>8. PICK l \in Nat : l = from + o
    BY <2>6
  <2>9. off[m] = o + z
    BY <2>5, <2>7
  <2>10. o + z \in Nat
    BY <2>3
  <2>11. from + off[m] = l + z
    BY <2>3, <2>6, <2>8, <2>9
  <2>12. from + off[m - 1] = l
    BY <2>7, <2>8
  <2>13. /\ g[m] \in Seq(ByteType) /\ Len(g[m]) = l + z
         /\ \A i \in 1..l : g[m][i] = s[i]
         /\ \A i \in 1..z : g[m][l + i] = f[i]
         /\ \A i \in (l + 1)..(l + z) : i - l \in 1..z /\ g[m][i] = f[i - l]
    <3>1. s \in Seq(ByteType) /\ Len(s) = l
      BY <2>4, <2>7, <2>8
    <3>2. f \in Seq(ByteType) /\ Len(f) = z
      BY <2>2
    <3>3. /\ s \o f \in Seq(ByteType) /\ Len(s \o f) = Len(s) + Len(f)
          /\ \A i \in 1..Len(s) : (s \o f)[i] = s[i]
          /\ \A i \in 1..Len(f) : (s \o f)[Len(s) + i] = f[i]
          /\ \A i \in (Len(s) + 1)..(Len(s) + Len(f)) : i - Len(s) \in 1..Len(f) /\ (s \o f)[i] = f[i - Len(s)]
      BY <3>1, <3>2, Behind
    <3>4. /\ s \o f \in Seq(ByteType) /\ Len(s \o f) = l + z
          /\ \A i \in 1..l : (s \o f)[i] = s[i]
          /\ \A i \in 1..z : (s \o f)[l + i] = f[i]
          /\ \A i \in (l + 1)..(l + z) : i - l \in 1..z /\ (s \o f)[i] = f[i - l]
      BY <3>1, <3>2, <3>3
    <3> QED
      BY <2>1, <3>4
  <2>14. Len(g[m]) = from + off[m] /\ off[m] \in Nat
    BY <2>13, <2>9, <2>10, <2>11
  <2>15. /\ \A i \in 1..from : s[i] = bytes[i]
         /\ \A i \in (from + 1)..l : s[i][1].width # 1
         /\ \A k \in 1..(m - 1) : \A i \in 1..operands[k][3] : s[from + off[k - 1] + i] = <<F(k), i>>
         /\ \A k \in 1..(m - 1) : off[k - 1] \in Nat /\ off[k - 1] + operands[k][3] <= o
    BY <1>7, <2>7, <2>12 DEF s
  <2>16. \A i \in 1..from : g[m][i] = bytes[i]
    <3>1. \A i \in 1..from : i \in 1..l
      BY <2>6, <2>8
    <3> QED
      BY <2>13, <2>15, <3>1
  <2>17. \A i \in (from + 1)..(from + off[m]) : g[m][i][1].width # 1
    <3>1. SUFFICES ASSUME NEW i \in (from + 1)..(l + z) PROVE g[m][i][1].width # 1
      BY <2>11
    <3>2. CASE i <= l
      <4>1. i \in (from + 1)..l /\ i \in 1..l
        BY <2>6, <3>2
      <4> QED
        BY <2>13, <2>15, <4>1
    <3>3. CASE i > l
      <4>1. i \in (l + 1)..(l + z)
        BY <2>3, <3>3
      <4>2. i - l \in 1..z /\ g[m][i] = <<F(m), i - l>>
        <5>1. i - l \in 1..z /\ g[m][i] = f[i - l]
          BY <2>13, <4>1
        <5>2. f[i - l] = <<F(m), i - l>>
          BY <2>2, <5>1
        <5> QED
          BY <5>1, <5>2
      <4>3. F(m).width = z
        BY DEF z, F
      <4> QED
        BY <2>3, <4>2, <4>3
    <3> QED
      BY <2>6, <3>2, <3>3
  <2>18. ASSUME NEW k \in 1..m
         PROVE  /\ \A i \in 1..operands[k][3] : g[m][from + off[k - 1] + i] = <<F(k), i>>
                /\ off[k - 1] \in Nat /\ off[k - 1] + operands[k][3] <= off[m]
    <3>1. CASE k = m
      <4>1. /\ off[k - 1] = o /\ operands[k][3] = z /\ o + z = off[m] /\ from + off[k - 1] = l
        BY <2>7, <2>9, <2>12, <3>1 DEF z
      <4>2. \A i \in 1..z : g[m][l + i] = <<F(k), i>>
        <5>1. \A i \in 1..z : g[m][l + i] = f[i]
          BY <2>13
        <5> QED
          BY <2>2, <3>1, <5>1
      <4>3. o + z <= off[m]
        BY <2>3, <4>1
      <4> QED
        BY <4>1, <4>2, <4>3
    <3>2. CASE k # m
      <4>1. k \in 1..(m - 1) /\ k \in 1..n
        BY <3>2
      <4>2. PICK y \in Nat : y = operands[k][3]
        BY <1>5, <4>1
      <4>3. PICK x \in Nat : x = off[k - 1]
        BY <2>15, <4>1
      <4>4. x + y <= o
        BY <2>15, <4>1, <4>2, <4>3
      <4>5. \A i \in 1..y : from + x + i \in 1..l /\ s[from + x + i] = <<F(k), i>>
        <5>1. \A i \in 1..y : from + x + i \in 1..l
          BY <2>6, <2>8, <4>4
        <5>2. \A i \in 1..y : s[from + x + i] = <<F(k), i>>
          BY <2>15, <4>1, <4>2, <4>3
        <5> QED
          BY <5>1, <5>2
      <4>6. x + y <= off[m]
        BY <2>3, <2>9, <4>4
      <4>7. \A i \in 1..y : g[m][from + x + i] = <<F(k), i>>
        BY <2>13, <4>5
      <4> QED
        BY <4>2, <4>3, <4>6, <4>7
    <3> QED
      BY <3>1, <3>2
  <2> QED
    BY <2>13, <2>14, <2>16, <2>17, <2>18
<1> HIDE DEF Good
<1>8. Good(n)
  <2> DEFINE Bad == {m \in 0..n : ~ Good(m)}
  <2> SUFFICES ASSUME Bad # {} PROVE FALSE
    OBVIOUS
  <2>1. Bad \in SUBSET Nat
    OBVIOUS
  <2>2. PICK m \in Bad : \A l \in Bad : m <= l
    BY <2>1, Smallest
  <2>3. m \in 1..n
    BY <1>6
  <2>4. m - 1 \in 0..n /\ m - 1 \notin Bad
    BY <2>2, <2>3
  <2> QED
    BY <1>7, <2>2, <2>3, <2>4
<1>9. /\ \A k \in 1..n : off[k - 1] = 8 * (k - 1)
      /\ off[n] = SizeOf(w)
  <2>1. Regular(w)
    BY DEF w
  <2> QED
    BY <1>2, <2>1, OffsetsAre DEF off, WidthOf
<1>10. g[n] \in Seq(ByteType) /\ Len(g[n]) = from + SizeOf(w)
  BY <1>8, <1>9 DEF Good
<1>11. /\ \A i \in 1..from : g[n][i] = bytes[i]
       /\ \A i \in (from + 1)..Len(g[n]) : g[n][i][1].width # 1
  BY <1>8, <1>9, <1>10 DEF Good
<1>12. \A k \in 1..n : \A i \in 1..operands[k][3] : g[n][from + 8 * (k - 1) + i] = <<F(k), i>>
  <2>1. \A k \in 1..n : \A i \in 1..operands[k][3] : g[n][from + off[k - 1] + i] = <<F(k), i>>
    BY <1>8 DEF Good
  <2> QED
    BY <1>9, <2>1
<1> QED
  BY <1>1, <1>3, <1>10, <1>11, <1>12 DEF w

-----------------------------------------------------------------------------
(* What is whole is read as it is.                                          *)

LEMMA WholeIsRead ==
    ASSUME NEW bytes \in Seq(ByteType), NEW p \in Nat, NEW name, NEW width \in {1, 4, 8},
           Whole(bytes, p, name, width)
    PROVE  /\ Read(bytes, p, width) = bytes[p + 1][1]
           /\ bytes[p + 1][1].name = name /\ bytes[p + 1][1].width = width /\ bytes[p + 1][1].val \in Int
<1>1. Len(bytes) \in Nat /\ width \in Nat /\ p + width <= Len(bytes)
  BY DEF Whole
<1>2. p \in 0..(Len(bytes) - width)
  BY <1>1
<1>3. \A k \in 1..width : bytes[p + k][2] = k /\ bytes[p + k][1].width = width
  <2>1. bytes[p + 1][1].width = width /\ \A k \in 1..width : bytes[p + k] = <<bytes[p + 1][1], k>>
    BY DEF Whole
  <2> TAKE k \in 1..width
  <2>2. PICK r : r = bytes[p + 1][1]
    OBVIOUS
  <2>3. bytes[p + k] = <<r, k>> /\ r.width = width
    BY <2>1, <2>2
  <2> QED
    BY <2>3
<1>4. bytes[p + 1][1].name = name /\ bytes[p + 1][1].width = width /\ bytes[p + 1][1].val \in Int
  BY DEF Whole, FieldType
<1> QED
  BY <1>2, <1>3, <1>4 DEF Read

(* Where the operands of an instruction lie.                                *)
LEMMA PlacesAre ==
    ASSUME NEW e, e.at \in Nat, Regular(e.operands)
    PROVE  /\ SizeOf(e.operands) \in Nat /\ End(e) \in Nat /\ End(e) = e.at + 1 + SizeOf(e.operands)
           /\ Len(e.operands) \in Nat /\ DOMAIN e.operands = 1..Len(e.operands)
           /\ \A k \in DOMAIN e.operands :
                  /\ k \in Nat \ {0} /\ Place(e, k) \in Nat /\ Place(e, k) = e.at + 1 + 8 * (k - 1)
                  /\ e.operands[k][1] \in OperandNames /\ e.operands[k][2] \in {4, 8}
                  /\ Place(e, k) + e.operands[k][2] <= End(e)
<1>1. /\ SizeOf(e.operands) \in Nat
      /\ \A k \in DOMAIN e.operands :
             e.operands[k][2] \in {4, 8} /\ 8 * (k - 1) + e.operands[k][2] <= SizeOf(e.operands)
  BY OffsetsAre
<1>2. e.operands \in Seq(OperandNames \X {4, 8})
  BY DEF Regular
<1>3. Len(e.operands) \in Nat /\ DOMAIN e.operands = 1..Len(e.operands)
  BY <1>2
<1>4. End(e) = e.at + 1 + SizeOf(e.operands) /\ End(e) \in Nat
  BY <1>1 DEF End
<1>5. ASSUME NEW k \in DOMAIN e.operands
      PROVE  /\ k \in Nat \ {0} /\ Place(e, k) \in Nat /\ Place(e, k) = e.at + 1 + 8 * (k - 1)
             /\ e.operands[k][1] \in OperandNames /\ e.operands[k][2] \in {4, 8}
             /\ Place(e, k) + e.operands[k][2] <= End(e)
  <2>1. k \in Nat /\ k >= 1
    BY <1>3
  <2>2. e.operands[k] \in OperandNames \X {4, 8}
    BY <1>2, <1>3
  <2>3. PICK z \in Nat : z = e.operands[k][2] /\ 8 * (k - 1) + z <= SizeOf(e.operands)
    BY <1>1
  <2>4. PICK s \in Nat : s = SizeOf(e.operands)
    BY <1>1
  <2>5. Place(e, k) = e.at + 1 + 8 * (k - 1)
    BY DEF Place
  <2>6. Place(e, k) \in Nat
    BY <2>1, <2>5
  <2>7. Place(e, k) + z <= e.at + 1 + s
    BY <2>1, <2>3, <2>4, <2>5
  <2> QED
    BY <1>1, <1>4, <2>1, <2>2, <2>3, <2>4, <2>5, <2>6, <2>7
<1> QED
  BY <1>1, <1>3, <1>4, <1>5

(* An instruction that lies whole and whose table, if it is one, has the    *)
(* bounds it had, is the instruction it was.                                *)
LEMMA LiesStill ==
    ASSUME NEW bytes \in Seq(ByteType), NEW more \in Seq(ByteType), NEW e,
           InstructionLies(bytes, e), Laid(more, e), End(e) <= Len(more),
           e.op = "JUMP_TABLE" => Val(more, e, 1) = Val(bytes, e, 1) /\ Val(more, e, 2) = Val(bytes, e, 2)
    PROVE  InstructionLies(more, e)
<1>1. e.at \in Nat /\ Regular(e.operands) /\ Laid(bytes, e) /\ e.operands = ShownAt(bytes, e.at, e.op)
  BY DEF InstructionLies
<1>2. CASE e.op # "JUMP_TABLE"
  <2>1. ShownAt(more, e.at, e.op) = ShownAt(bytes, e.at, e.op)
    BY <1>2 DEF ShownAt
  <2> QED
    BY <1>1, <2>1 DEF InstructionLies
<1>3. CASE e.op = "JUMP_TABLE"
  <2>1. /\ 1 \in DOMAIN e.operands /\ 2 \in DOMAIN e.operands
        /\ e.operands[1][2] = 8 /\ e.operands[2][2] = 8
    BY <1>1, <1>3 DEF InstructionLies, Regular, Words
  <2>2. Place(e, 1) = e.at + 1 /\ Place(e, 2) = e.at + 9
    BY <1>1 DEF Place
  <2>3. /\ Whole(bytes, e.at + 1, e.operands[1][1], 8) /\ Whole(bytes, e.at + 9, e.operands[2][1], 8)
        /\ Whole(more, e.at + 1, e.operands[1][1], 8) /\ Whole(more, e.at + 9, e.operands[2][1], 8)
    BY <1>1, <2>1, <2>2 DEF Laid
  <2>4. e.at + 1 \in Nat /\ e.at + 9 \in Nat
    BY <1>1
  <2>5. /\ Read(bytes, e.at + 1, 8).val = Val(bytes, e, 1) /\ Read(bytes, e.at + 9, 8).val = Val(bytes, e, 2)
        /\ Read(more, e.at + 1, 8).val = Val(more, e, 1) /\ Read(more, e.at + 9, 8).val = Val(more, e, 2)
    <3>1. /\ Read(bytes, e.at + 1, 8) = bytes[(e.at + 1) + 1][1]
          /\ Read(bytes, e.at + 9, 8) = bytes[(e.at + 9) + 1][1]
      BY <2>3, <2>4, WholeIsRead
    <3>2. /\ Read(more, e.at + 1, 8) = more[(e.at + 1) + 1][1]
          /\ Read(more, e.at + 9, 8) = more[(e.at + 9) + 1][1]
      BY <2>3, <2>4, WholeIsRead
    <3> QED
      BY <2>2, <3>1, <3>2 DEF Val
  <2>6. ShownAt(more, e.at, e.op) = ShownAt(bytes, e.at, e.op)
    BY <1>3, <2>5 DEF ShownAt
  <2> QED
    BY <1>1, <2>6 DEF InstructionLies
<1> QED
  BY <1>2, <1>3

(* Bytes that begin as others did have the same instructions in them.       *)
LEMMA BeginsAlike ==
    ASSUME NEW bytes \in Seq(ByteType), NEW more \in Seq(ByteType), NEW e, InstructionLies(bytes, e),
           Len(bytes) <= Len(more), \A i \in 1..Len(bytes) : more[i] = bytes[i]
    PROVE  /\ InstructionLies(more, e)
           /\ \A k \in DOMAIN e.operands : Val(more, e, k) = Val(bytes, e, k)
<1>1. /\ e.at \in Nat /\ Regular(e.operands) /\ Laid(bytes, e) /\ End(e) <= Len(bytes)
      /\ e.op = "JUMP_TABLE" => Len(e.operands) >= 2
  BY DEF InstructionLies
<1>2. Len(bytes) \in Nat /\ Len(more) \in Nat
  OBVIOUS
<1>3. ASSUME NEW p \in Nat, NEW name, NEW width \in {1, 4, 8}, Whole(bytes, p, name, width)
      PROVE  Whole(more, p, name, width) /\ more[p + 1] = bytes[p + 1]
  <2>1. p + width <= Len(bytes) /\ width \in Nat
    BY <1>3 DEF Whole
  <2>2. \A i \in 1..width : p + i \in 1..Len(bytes)
    BY <1>2, <2>1
  <2>3. p + 1 \in 1..Len(bytes) /\ p + width <= Len(more)
    BY <1>2, <2>1
  <2>4. \A i \in 1..width : more[p + i] = bytes[p + i]
    BY <2>2
  <2>5. more[p + 1] = bytes[p + 1]
    BY <2>3
  <2> QED
    BY <1>3, <2>3, <2>4, <2>5 DEF Whole
<1>4. \A k \in DOMAIN e.operands : Place(e, k) \in Nat /\ e.operands[k][2] \in {1, 4, 8}
  BY <1>1, PlacesAre
<1>5. Laid(more, e)
  BY <1>1, <1>3, <1>4 DEF Laid
<1>6. \A k \in DOMAIN e.operands : Val(more, e, k) = Val(bytes, e, k)
  BY <1>1, <1>3, <1>4 DEF Laid, Val
<1>7. End(e) <= Len(more)
  BY <1>1, <1>2, PlacesAre
<1>8. e.op = "JUMP_TABLE" => 1 \in DOMAIN e.operands /\ 2 \in DOMAIN e.operands
  BY <1>1 DEF Regular
<1> QED
  BY <1>5, <1>6, <1>7, <1>8, LiesStill

(* What is pushed lies behind what was there, as what it was pushed.        *)
After(bytes, op, operands) == pushOperands(bytes \o Field(op, 0, 1), operands)
Entry(bytes, op, operands, line) ==
    [at |-> Len(bytes), op |-> op, operands |-> Remembered(operands), line |-> line]
LEMMA PushedLies ==
    ASSUME NEW bytes \in Seq(ByteType), NEW op, NEW operands, NEW line \in Nat, InstructionFits(op, operands)
    PROVE  LET all == After(bytes, op, operands)
               e   == Entry(bytes, op, operands, line)
           IN  /\ all \in Seq(ByteType) /\ Len(all) = End(e) /\ End(e) \in Nat /\ Len(bytes) < End(e)
               /\ \A i \in 1..Len(bytes) : all[i] = bytes[i]
               /\ InstructionLies(all, e)
               /\ DOMAIN operands = DOMAIN e.operands /\ DOMAIN e.operands = 1..Len(operands)
               /\ \A k \in DOMAIN e.operands : Val(all, e, k) = operands[k][2]
               /\ \A i \in DOMAIN all : i > Len(bytes) /\ all[i][1].width = 1 => i = Len(bytes) + 1
<1> DEFINE first == Field(op, 0, 1)
           start == bytes \o first
           all   == pushOperands(start, operands)
           w     == Remembered(operands)
           e     == [at |-> Len(bytes), op |-> op, operands |-> w, line |-> line]
           F(k)  == [name |-> operands[k][1], val |-> operands[k][2], width |-> operands[k][3]]
<1>1. /\ op \in Ops /\ operands \in Seq(OperandType) /\ Regular(w)
      /\ op # "JUMP_TABLE" => w = Shown(op)
      /\ op = "JUMP_TABLE" =>
             Len(operands) >= 2 /\ w = Shown(op) \o TableCells(operands[1][2], operands[2][2])
  BY DEF InstructionFits
<1>2. PICK n \in Nat : n = Len(operands) /\ DOMAIN operands = 1..n
  BY <1>1
<1>3. /\ DOMAIN w = 1..n /\ Len(w) = n
      /\ \A k \in 1..n : w[k] = <<operands[k][1], operands[k][3]>>
  BY <1>1, <1>2 DEF Remembered, Regular
<1>4. \A k \in 1..n : operands[k][1] \in OperandNames /\ operands[k][2] \in Int /\ operands[k][3] \in {4, 8}
  BY <1>1, <1>2 DEF OperandType
<1>5. PICK l \in Nat : l = Len(bytes)
  BY LenProperties
<1>6. /\ first \in Seq(ByteType) /\ Len(first) = 1
      /\ first[1] = <<[name |-> op, val |-> 0, width |-> 1], 1>>
  <2>1. op \in Ops \cup OperandNames /\ 0 \in Int /\ 1 \in {1, 4, 8} /\ 1 \in 1..1
    BY <1>1
  <2>2. /\ Field(op, 0, 1) \in Seq(ByteType) /\ Len(Field(op, 0, 1)) = 1
        /\ \A i \in 1..1 : Field(op, 0, 1)[i] = <<[name |-> op, val |-> 0, width |-> 1], i>>
    BY <2>1, FieldIs
  <2> QED
    BY <2>1, <2>2
<1> HIDE DEF first
<1>7. /\ start \in Seq(ByteType) /\ Len(start) = l + 1
      /\ \A i \in 1..l : start[i] = bytes[i]
      /\ start[l + 1] = <<[name |-> op, val |-> 0, width |-> 1], 1>>
  <2>1. /\ start \in Seq(ByteType) /\ Len(start) = Len(bytes) + Len(first)
        /\ \A i \in 1..Len(bytes) : start[i] = bytes[i]
        /\ \A i \in 1..Len(first) : start[Len(bytes) + i] = first[i]
    <3>1. first \in Seq(ByteType)
      BY <1>6
    <3> QED
      BY <3>1, Behind
  <2>2. 1 \in 1..Len(first)
    BY <1>6
  <2> QED
    BY <1>5, <1>6, <2>1, <2>2
<1> HIDE DEF start, w
<1>8. /\ all \in Seq(ByteType) /\ Len(all) = Len(start) + SizeOf(w)
      /\ \A i \in 1..Len(start) : all[i] = start[i]
      /\ \A i \in (Len(start) + 1)..Len(all) : all[i][1].width # 1
      /\ \A k \in DOMAIN operands : \A i \in 1..operands[k][3] : all[Len(start) + 8 * (k - 1) + i] = <<F(k), i>>
  BY <1>1, <1>7, PushedAre DEF w
<1> HIDE DEF all, F
<1>9. e.at = l /\ e.at \in Nat /\ e.op = op /\ e.operands = w /\ e.line = line
  BY <1>5
<1> HIDE DEF e
<1>10. /\ SizeOf(w) \in Nat /\ End(e) \in Nat /\ End(e) = l + 1 + SizeOf(w)
       /\ \A k \in 1..n : /\ Place(e, k) \in Nat /\ Place(e, k) = l + 1 + 8 * (k - 1)
                          /\ Place(e, k) + w[k][2] <= End(e)
  <2>1. /\ SizeOf(e.operands) \in Nat /\ End(e) \in Nat /\ End(e) = e.at + 1 + SizeOf(e.operands)
        /\ \A k \in DOMAIN e.operands :
               /\ Place(e, k) \in Nat /\ Place(e, k) = e.at + 1 + 8 * (k - 1)
               /\ Place(e, k) + e.operands[k][2] <= End(e)
    BY <1>1, <1>9, PlacesAre
  <2> QED
    BY <1>3, <1>9, <2>1
<1>11. PICK s \in Nat : s = SizeOf(w)
  BY <1>10
<1>12. Len(all) = l + 1 + s /\ End(e) = l + 1 + s
  BY <1>7, <1>8, <1>10, <1>11
<1>13. Len(all) = End(e) /\ Len(bytes) < End(e)
  BY <1>5, <1>12
<1>14. \A i \in 1..l : all[i] = bytes[i]
  BY <1>7, <1>8
<1>15. all[l + 1] = <<[name |-> op, val |-> 0, width |-> 1], 1>>
  <2>1. l + 1 \in 1..(l + 1)
    OBVIOUS
  <2> QED
    BY <1>7, <1>8, <2>1
<1>16. \A i \in DOMAIN all : i > l /\ all[i][1].width = 1 => i = l + 1
  <2> SUFFICES ASSUME NEW i \in DOMAIN all, i > l, i # l + 1 PROVE all[i][1].width # 1
    OBVIOUS
  <2>1. i \in 1..(l + 1 + s)
    BY <1>8, <1>12
  <2>2. i \in (l + 2)..(l + 1 + s)
    BY <2>1
  <2>3. Len(start) + 1 = l + 2
    BY <1>7
  <2> QED
    BY <1>8, <1>12, <2>2, <2>3
<1>17. ASSUME NEW k \in 1..n
       PROVE  /\ Whole(all, Place(e, k), w[k][1], w[k][2])
              /\ Val(all, e, k) = operands[k][2]
  <2>1. PICK z \in {4, 8} : z = operands[k][3] /\ z = w[k][2]
    BY <1>3, <1>4
  <2>2. PICK p \in Nat : p = Place(e, k) /\ p = l + 1 + 8 * (k - 1) /\ p + z <= l + 1 + s
    BY <1>10, <1>12, <2>1
  <2>3. \A i \in 1..z : all[p + i] = <<F(k), i>>
    <3>1. Len(start) + 8 * (k - 1) = p
      BY <1>7, <2>2
    <3> QED
      BY <1>2, <1>8, <2>1, <3>1
  <2>4. all[p + 1] = <<F(k), 1>>
    BY <2>1, <2>3
  <2>5. F(k) \in FieldType /\ F(k).name = w[k][1] /\ F(k).width = z /\ F(k).val = operands[k][2]
    BY <1>3, <1>4, <2>1 DEF F, FieldType
  <2>6. all[p + 1][1] = F(k)
    BY <2>4
  <2>7. \A i \in 1..z : all[p + i] = <<all[p + 1][1], i>>
    BY <2>3, <2>6
  <2>8. p + z <= Len(all)
    BY <1>12, <2>2
  <2> QED
    BY <2>1, <2>2, <2>5, <2>6, <2>7, <2>8 DEF Whole, Val
<1>18. Whole(all, e.at, e.op, 1)
  <2>1. PICK r : r = [name |-> op, val |-> 0, width |-> 1]
    OBVIOUS
  <2>2. r \in FieldType /\ r.name = op /\ r.width = 1
    BY <1>1, <2>1 DEF FieldType
  <2>3. all[l + 1] = <<r, 1>> /\ all[l + 1][1] = r
    BY <1>15, <2>1
  <2>4. \A i \in 1..1 : all[l + i] = <<all[l + 1][1], i>>
    BY <2>3
  <2>5. l + 1 <= Len(all)
    BY <1>12
  <2> QED
    BY <1>9, <2>2, <2>3, <2>4, <2>5 DEF Whole
<1>19. Laid(all, e)
  BY <1>3, <1>9, <1>17, <1>18 DEF Laid
<1>20. e.operands = ShownAt(all, e.at, e.op)
  <2>1. CASE op # "JUMP_TABLE"
    BY <1>1, <1>9, <2>1 DEF ShownAt
  <2>2. CASE op = "JUMP_TABLE"
    <3>1. 1 \in 1..n /\ 2 \in 1..n /\ n # 1 /\ n >= 2
      BY <1>1, <1>2, <2>2, SMTT(40)
    <3>2. w[1][2] = 8 /\ w[2][2] = 8
      BY <1>1, <1>3, <3>1 DEF Regular, Words
    <3>3. Place(e, 1) = l + 1 /\ Place(e, 2) = l + 9
      BY <1>10, <3>1
    <3>4. Whole(all, l + 1, w[1][1], 8) /\ Whole(all, l + 9, w[2][1], 8)
      BY <1>17, <3>1, <3>2, <3>3
    <3>5. Read(all, l + 1, 8) = all[(l + 1) + 1][1] /\ Read(all, l + 9, 8) = all[(l + 9) + 1][1]
      BY <1>8, <3>4, WholeIsRead
    <3>6. Read(all, l + 1, 8).val = operands[1][2] /\ Read(all, l + 9, 8).val = operands[2][2]
      BY <1>17, <3>1, <3>3, <3>5 DEF Val
    <3> QED
      BY <1>1, <1>9, <2>2, <3>6 DEF ShownAt
  <2> QED
    BY <2>1, <2>2
<1>21. InstructionLies(all, e)
  <2>1. e.op = "JUMP_TABLE" => Len(e.operands) >= 2
    BY <1>1, <1>2, <1>3, <1>9
  <2>2. End(e) <= Len(all)
    BY <1>12
  <2> QED
    BY <1>1, <1>9, <1>19, <1>20, <2>1, <2>2 DEF InstructionLies
<1>22. \A k \in DOMAIN e.operands : Val(all, e, k) = operands[k][2]
  BY <1>3, <1>9, <1>17
<1>23. DOMAIN operands = DOMAIN e.operands /\ DOMAIN e.operands = 1..Len(operands)
  BY <1>2, <1>3, <1>9
<1> QED
  BY <1>5, <1>8, <1>10, <1>13, <1>14, <1>16, <1>21, <1>22, <1>23 DEF all, start, first, e, w, After, Entry

-----------------------------------------------------------------------------
(* Patching.                                                                *)

(* What is patched is a word of its instruction.                            *)
LEMMA TargetsAreWords ==
    ASSUME NEW bytes, NEW e, InstructionLies(bytes, e), NEW k \in Targets(e)
    PROVE  /\ k \in DOMAIN e.operands /\ e.operands[k][2] = 8 /\ k \in Nat \ {0}
           /\ e.op = "JUMP_TABLE" => k # 1 /\ k # 2
           /\ e.op # "CALL"
<1>1. Regular(e.operands) /\ e.operands = ShownAt(bytes, e.at, e.op)
  BY DEF InstructionLies
<1>2. PICK n \in Nat : n = Len(e.operands) /\ DOMAIN e.operands = 1..n
  BY <1>1 DEF Regular
<1>3. CASE e.op \in Jumps
  <2>1. e.op # "JUMP_TABLE" /\ e.op # "CALL"
    BY <1>3 DEF Jumps
  <2>2. e.operands = << <<"target", 8>> >> /\ k = 1
    BY <1>1, <1>3, <2>1, ShownIs DEF ShownAt, Targets
  <2>3. n = 1
    BY <1>2, <2>2
  <2> QED
    BY <1>2, <2>1, <2>2, <2>3
<1>4. CASE e.op = "JUMP_TABLE"
  <2>1. e.op \notin Jumps
    BY <1>4 DEF Jumps
  <2>2. k \in 3..n
    BY <1>2, <1>4, <2>1 DEF Targets
  <2>3. k \in 1..n /\ n # 1 /\ k # 1 /\ k # 2 /\ k \in Nat \ {0}
    BY <2>2
  <2> QED
    BY <1>1, <1>2, <1>4, <2>3 DEF Regular, Words
<1> QED
  BY <1>3, <1>4 DEF Targets

(* A byte belongs to one operand of one instruction.                        *)
LEMMA OneOperand ==
    ASSUME NEW bytes, NEW emitted, CodeLies(bytes, emitted),
           NEW m \in DOMAIN emitted, NEW j \in DOMAIN emitted[m].operands, NEW d \in 1..emitted[m].operands[j][2],
           NEW n \in DOMAIN emitted, NEW k \in DOMAIN emitted[n].operands, NEW i \in 1..emitted[n].operands[k][2],
           Place(emitted[m], j) + d = Place(emitted[n], k) + i
    PROVE  m = n /\ j = k
<1>1. /\ InstructionLies(bytes, emitted[m]) /\ InstructionLies(bytes, emitted[n])
      /\ m < n => End(emitted[m]) <= emitted[n].at
      /\ n < m => End(emitted[n]) <= emitted[m].at
      /\ m \in Nat /\ n \in Nat
  BY DEF CodeLies
<1>2. PICK am \in Nat : am = emitted[m].at
  BY <1>1 DEF InstructionLies
<1>3. PICK an \in Nat : an = emitted[n].at
  BY <1>1 DEF InstructionLies
<1>4. PICK wm \in {4, 8} : wm = emitted[m].operands[j][2]
  BY <1>1, PlacesAre DEF InstructionLies
<1>5. PICK wn \in {4, 8} : wn = emitted[n].operands[k][2]
  BY <1>1, PlacesAre DEF InstructionLies
<1>6. PICK em \in Nat : em = End(emitted[m])
  BY <1>1, PlacesAre DEF InstructionLies
<1>7. PICK en \in Nat : en = End(emitted[n])
  BY <1>1, PlacesAre DEF InstructionLies
<1>8. j \in Nat \ {0} /\ k \in Nat \ {0}
  BY <1>1, PlacesAre DEF InstructionLies
<1>9. /\ Place(emitted[m], j) = am + 1 + 8 * (j - 1) /\ am + 1 + 8 * (j - 1) + wm <= em
  BY <1>1, <1>2, <1>4, <1>6, PlacesAre DEF InstructionLies
<1>10. /\ Place(emitted[n], k) = an + 1 + 8 * (k - 1) /\ an + 1 + 8 * (k - 1) + wn <= en
  BY <1>1, <1>3, <1>5, <1>7, PlacesAre DEF InstructionLies
<1>11. am + 1 + 8 * (j - 1) + d = an + 1 + 8 * (k - 1) + i
  BY <1>9, <1>10
<1>12. d \in 1..wm /\ i \in 1..wn
  BY <1>4, <1>5
<1>13. m = n
  <2>1. ~ (m < n)
    <3> SUFFICES ASSUME m < n PROVE FALSE
      OBVIOUS
    <3>1. em <= an
      BY <1>1, <1>3, <1>6
    <3> QED
      BY <1>8, <1>9, <1>11, <1>12, <3>1
  <2>2. ~ (n < m)
    <3> SUFFICES ASSUME n < m PROVE FALSE
      OBVIOUS
    <3>1. en <= am
      BY <1>1, <1>2, <1>7
    <3> QED
      BY <1>8, <1>10, <1>11, <1>12, <3>1
  <2> QED
    BY <1>1, <2>1, <2>2
<1>14. am = an
  BY <1>2, <1>3, <1>13
<1>15. 8 * (j - 1) + d = 8 * (k - 1) + i
  BY <1>8, <1>11, <1>12, <1>14
<1>16. d \in 1..8 /\ i \in 1..8
  BY <1>12
<1>17. j = k
  BY <1>8, <1>15, <1>16
<1> QED
  BY <1>13, <1>17

(* So a patch hits what it is to hit, and nothing else.                     *)
LEMMA HitsAre ==
    ASSUME NEW bytes, NEW emitted, CodeLies(bytes, emitted), NEW hits, \A h \in hits : IsOneOf(emitted, h),
           NEW n \in DOMAIN emitted
    PROVE  /\ Hit(hits, emitted[n].at + 1) = {}
           /\ \A k \in DOMAIN emitted[n].operands : \A i \in 1..emitted[n].operands[k][2] :
                  /\ Hit(hits, Place(emitted[n], k) + i) = {h \in hits : h.at = Place(emitted[n], k)}
                  /\ \A h \in Hit(hits, Place(emitted[n], k) + i) :
                         h.base = emitted[n].at /\ k \in Targets(emitted[n])
<1> DEFINE e == emitted[n]
<1>1. InstructionLies(bytes, e) /\ e.at \in Nat /\ Regular(e.operands)
  BY DEF CodeLies, InstructionLies
<1>2. \A h \in hits : \E m \in DOMAIN emitted : \E j \in Targets(emitted[m]) :
          /\ h.at = Place(emitted[m], j) /\ h.base = emitted[m].at
          /\ j \in DOMAIN emitted[m].operands /\ emitted[m].operands[j][2] = 8
  <2> SUFFICES ASSUME NEW h \in hits
               PROVE  \E m \in DOMAIN emitted : \E j \in Targets(emitted[m]) :
                          /\ h.at = Place(emitted[m], j) /\ h.base = emitted[m].at
                          /\ j \in DOMAIN emitted[m].operands /\ emitted[m].operands[j][2] = 8
    OBVIOUS
  <2>1. PICK m \in DOMAIN emitted : \E j \in Targets(emitted[m]) :
             h.at = Place(emitted[m], j) /\ h.base = emitted[m].at
    BY DEF IsOneOf
  <2>2. PICK j \in Targets(emitted[m]) : h.at = Place(emitted[m], j) /\ h.base = emitted[m].at
    BY <2>1
  <2>3. InstructionLies(bytes, emitted[m])
    BY DEF CodeLies
  <2> QED
    BY <2>2, <2>3, TargetsAreWords
<1>3. ASSUME NEW k \in DOMAIN e.operands, NEW i \in 1..e.operands[k][2]
      PROVE  /\ Hit(hits, Place(e, k) + i) = {h \in hits : h.at = Place(e, k)}
             /\ \A h \in Hit(hits, Place(e, k) + i) : h.base = e.at /\ k \in Targets(e)
  <2>1. PICK p \in Nat : p = Place(e, k)
    BY <1>1, PlacesAre
  <2>2. i \in 1..8
    <3>1. e.operands[k][2] \in {4, 8}
      BY <1>1, PlacesAre
    <3> QED
      BY <3>1
  <2>3. ASSUME NEW h \in hits, h.at = p PROVE h \in Hit(hits, p + i)
    <3>1. (p + i) - h.at \in 1..8
      BY <2>2, <2>3
    <3> QED
      BY <3>1 DEF Hit
  <2>4. ASSUME NEW h \in Hit(hits, p + i) PROVE h \in hits /\ h.at = p /\ h.base = e.at /\ k \in Targets(e)
    <3>1. h \in hits /\ (p + i) - h.at \in 1..8
      BY DEF Hit
    <3>0. PICK m \in DOMAIN emitted : \E j \in Targets(emitted[m]) :
               /\ h.at = Place(emitted[m], j) /\ h.base = emitted[m].at
               /\ j \in DOMAIN emitted[m].operands /\ emitted[m].operands[j][2] = 8
      BY <1>2, <3>1
    <3>2. PICK j \in Targets(emitted[m]) :
               /\ h.at = Place(emitted[m], j) /\ h.base = emitted[m].at
               /\ j \in DOMAIN emitted[m].operands /\ emitted[m].operands[j][2] = 8
      BY <3>0
    <3>3. InstructionLies(bytes, emitted[m])
      BY DEF CodeLies
    <3>4. PICK q \in Nat : q = Place(emitted[m], j)
      BY <3>2, <3>3, PlacesAre DEF InstructionLies
    <3>5. PICK d \in 1..8 : d = (p + i) - q
      BY <3>1, <3>2, <3>4
    <3>6. q + d = p + i
      BY <2>1, <2>2, <3>4, <3>5
    <3>7. d \in 1..emitted[m].operands[j][2]
      BY <3>2
    <3>8. m = n /\ j = k
      BY <2>1, <3>2, <3>4, <3>6, <3>7, OneOperand
    <3> QED
      BY <2>1, <3>1, <3>2, <3>8
  <2> QED
    BY <2>1, <2>3, <2>4 DEF Hit
<1>4. Hit(hits, e.at + 1) = {}
  <2> SUFFICES ASSUME NEW h \in hits, (e.at + 1) - h.at \in 1..8 PROVE FALSE
    BY DEF Hit
  <2>0. PICK m \in DOMAIN emitted : \E j \in Targets(emitted[m]) :
             /\ h.at = Place(emitted[m], j) /\ h.base = emitted[m].at
             /\ j \in DOMAIN emitted[m].operands /\ emitted[m].operands[j][2] = 8
    BY <1>2
  <2>1. PICK j \in Targets(emitted[m]) :
             /\ h.at = Place(emitted[m], j) /\ h.base = emitted[m].at
             /\ j \in DOMAIN emitted[m].operands /\ emitted[m].operands[j][2] = 8
    BY <2>0
  <2>2. /\ InstructionLies(bytes, emitted[m]) /\ m \in Nat /\ n \in Nat
        /\ m < n => End(emitted[m]) <= e.at
        /\ n < m => End(e) <= emitted[m].at
    BY DEF CodeLies
  <2>3. PICK am \in Nat : am = emitted[m].at
    BY <2>2 DEF InstructionLies
  <2>4. PICK q \in Nat : q = Place(emitted[m], j) /\ q + 8 <= End(emitted[m]) /\ q >= am + 1
    <3>1. /\ j \in Nat \ {0} /\ Place(emitted[m], j) \in Nat /\ End(emitted[m]) \in Nat
          /\ Place(emitted[m], j) = emitted[m].at + 1 + 8 * (j - 1)
          /\ Place(emitted[m], j) + emitted[m].operands[j][2] <= End(emitted[m])
      BY <2>1, <2>2, PlacesAre DEF InstructionLies
    <3>2. Place(emitted[m], j) = am + 1 + 8 * (j - 1) /\ Place(emitted[m], j) + 8 <= End(emitted[m])
      BY <2>1, <2>3, <3>1
    <3> QED
      BY <3>1, <3>2
  <2>5. PICK em \in Nat : em = End(emitted[m])
    BY <2>2, PlacesAre DEF InstructionLies
  <2>6. PICK en \in Nat : en = End(e) /\ en >= e.at + 1
    BY <1>1, PlacesAre
  <2>7. PICK a \in Nat : a = e.at
    BY <1>1
  <2>8. (a + 1) - q \in 1..8
    BY <2>1, <2>4, <2>7
  <2>9. CASE m = n
    <3>1. am = a
      BY <2>3, <2>7, <2>9
    <3> QED
      BY <2>4, <2>8, <3>1
  <2>10. CASE m < n
    <3>1. em <= a
      BY <2>2, <2>5, <2>7, <2>10
    <3> QED
      BY <2>4, <2>5, <2>8, <3>1
  <2>11. CASE n < m
    <3>1. en <= am
      BY <2>2, <2>3, <2>6, <2>11
    <3> QED
      BY <2>4, <2>6, <2>7, <2>8, <3>1
  <2> QED
    BY <2>2, <2>9, <2>10, <2>11
<1> QED
  BY <1>3, <1>4

(* A patch writes the distance into the words it hits and leaves the rest.  *)
LEMMA PatchedLies ==
    ASSUME NEW bytes, NEW emitted, CodeLies(bytes, emitted), NEW hits, \A h \in hits : IsOneOf(emitted, h)
    PROVE  LET more == patchJumpToHere(bytes, hits) IN
           /\ CodeLies(more, emitted) /\ Len(more) = Len(bytes)
           /\ \A n \in DOMAIN emitted : \A k \in DOMAIN emitted[n].operands :
                  /\ (\E h \in hits : h.at = Place(emitted[n], k)) => Val(more, emitted[n], k) = Len(bytes) - emitted[n].at
                  /\ ~ (\E h \in hits : h.at = Place(emitted[n], k)) => Val(more, emitted[n], k) = Val(bytes, emitted[n], k)
                  /\ k \notin Targets(emitted[n]) => Val(more, emitted[n], k) = Val(bytes, emitted[n], k)
<1> DEFINE more == patchJumpToHere(bytes, hits)
           V(i) == Len(bytes) - (CHOOSE h \in Hit(hits, i) : TRUE).base
<1>1. PICK l \in Nat : l = Len(bytes) /\ DOMAIN bytes = 1..l
  BY DEF CodeLies
<1>2. \A i \in 1..l : bytes[i][1] \in FieldType /\ bytes[i][2] \in 1..8 /\ bytes[i] = <<bytes[i][1], bytes[i][2]>>
  BY <1>1 DEF CodeLies, ByteType
<1>3. /\ DOMAIN more = 1..l
      /\ \A i \in 1..l : more[i] = IF Hit(hits, i) = {} THEN bytes[i]
                                   ELSE <<[bytes[i][1] EXCEPT !.val = V(i)], bytes[i][2]>>
  BY <1>1 DEF patchJumpToHere
<1>4. \A h \in hits : h.base \in Nat
  <2> SUFFICES ASSUME NEW h \in hits PROVE h.base \in Nat
    OBVIOUS
  <2>1. PICK m \in DOMAIN emitted : h.base = emitted[m].at
    BY DEF IsOneOf
  <2> QED
    BY <2>1 DEF CodeLies, InstructionLies
<1>5. \A i \in 1..l : Hit(hits, i) # {} => V(i) \in Int
  <2> SUFFICES ASSUME NEW i \in 1..l, Hit(hits, i) # {} PROVE V(i) \in Int
    OBVIOUS
  <2>1. (CHOOSE h \in Hit(hits, i) : TRUE) \in hits
    BY DEF Hit
  <2> QED
    BY <1>1, <1>4, <2>1
<1> HIDE DEF V, more
<1>6. \A i \in 1..l : /\ more[i] \in ByteType /\ more[i][1].width = bytes[i][1].width
                      /\ more[i][1].name = bytes[i][1].name
  <2> SUFFICES ASSUME NEW i \in 1..l
               PROVE  /\ more[i] \in ByteType /\ more[i][1].width = bytes[i][1].width
                      /\ more[i][1].name = bytes[i][1].name
    OBVIOUS
  <2>1. CASE Hit(hits, i) = {}
    <3>1. bytes[i] \in ByteType
      BY <1>1 DEF CodeLies
    <3> QED
      BY <1>3, <2>1, <3>1
  <2>2. CASE Hit(hits, i) # {}
    <3>1. PICK r : r = [bytes[i][1] EXCEPT !.val = V(i)]
      OBVIOUS
    <3>2. r \in FieldType /\ r.width = bytes[i][1].width /\ r.name = bytes[i][1].name
      BY <1>2, <1>5, <2>2, <3>1 DEF FieldType
    <3>3. more[i] = <<r, bytes[i][2]>>
      BY <1>3, <2>2, <3>1
    <3> QED
      BY <1>2, <3>2, <3>3 DEF ByteType
  <2> QED
    BY <2>1, <2>2
<1>7. more \in Seq(ByteType) /\ Len(more) = l
  <2>1. more = [i \in 1..l |-> more[i]]
    BY <1>1, <1>3 DEF more, patchJumpToHere
  <2>2. more \in [1..l -> ByteType]
    BY <1>6, <2>1
  <2> QED
    BY <2>2
<1>8. ASSUME NEW n \in DOMAIN emitted
      PROVE  Whole(more, emitted[n].at, emitted[n].op, 1)
  <2>1. /\ Whole(bytes, emitted[n].at, emitted[n].op, 1) /\ emitted[n].at \in Nat
    BY DEF CodeLies, InstructionLies, Laid
  <2>2. PICK a \in Nat : a = emitted[n].at
    BY <2>1
  <2>3. a + 1 \in 1..l /\ a + 1 <= l
    BY <1>1, <2>1, <2>2 DEF Whole
  <2>4. more[a + 1] = bytes[a + 1]
    BY <1>3, <2>2, <2>3, HitsAre
  <2>5. \A i \in 1..1 : i = 1
    OBVIOUS
  <2> QED
    BY <1>7, <2>1, <2>2, <2>3, <2>4, <2>5 DEF Whole
<1>9. ASSUME NEW n \in DOMAIN emitted, NEW k \in DOMAIN emitted[n].operands
      PROVE  /\ Whole(more, Place(emitted[n], k), emitted[n].operands[k][1], emitted[n].operands[k][2])
             /\ (\E h \in hits : h.at = Place(emitted[n], k)) =>
                     Val(more, emitted[n], k) = Len(bytes) - emitted[n].at /\ k \in Targets(emitted[n])
             /\ ~ (\E h \in hits : h.at = Place(emitted[n], k)) => Val(more, emitted[n], k) = Val(bytes, emitted[n], k)
  <2> DEFINE e == emitted[n]
  <2>1. InstructionLies(bytes, e) /\ Laid(bytes, e) /\ e.at \in Nat /\ Regular(e.operands)
    BY DEF CodeLies, InstructionLies
  <2>2. PICK p \in Nat : p = Place(e, k)
    BY <2>1, PlacesAre
  <2>3. PICK z \in {4, 8} : z = e.operands[k][2]
    BY <2>1, PlacesAre
  <2>4. Whole(bytes, p, e.operands[k][1], z)
    BY <2>1, <2>2, <2>3 DEF Laid
  <2>5. \A i \in 1..z : p + i \in 1..l
    BY <1>1, <2>4 DEF Whole
  <2>6. p + z <= l /\ 1 \in 1..z
    BY <1>1, <2>4 DEF Whole
  <2>7. /\ \A i \in 1..z : Hit(hits, p + i) = {h \in hits : h.at = p}
        /\ \A i \in 1..z : \A h \in Hit(hits, p + i) : h.base = e.at /\ k \in Targets(e)
    BY <2>2, <2>3, HitsAre
  <2>8. PICK r : r = bytes[p + 1][1]
    OBVIOUS
  <2>9. /\ r \in FieldType /\ r.name = e.operands[k][1] /\ r.width = z
        /\ \A i \in 1..z : bytes[p + i] = <<r, i>>
    BY <2>4, <2>8 DEF Whole
  <2>10. CASE \E h \in hits : h.at = p
    <3> DEFINE v == Len(bytes) - e.at
               s == [r EXCEPT !.val = v]
    <3>1. v \in Int
      BY <1>1, <2>1
    <3>2. s \in FieldType /\ s.name = r.name /\ s.width = r.width /\ s.val = v
      BY <2>9, <3>1 DEF FieldType
    <3>3. ASSUME NEW i \in 1..z PROVE more[p + i] = <<s, i>>
      <4>1. Hit(hits, p + i) # {}
        BY <2>7, <2>10
      <4>2. (CHOOSE h \in Hit(hits, p + i) : TRUE) \in Hit(hits, p + i)
        BY <4>1
      <4>3. V(p + i) = v
        BY <2>7, <4>2 DEF V
      <4>4. bytes[p + i] = <<r, i>>
        BY <2>9
      <4>5. bytes[p + i][1] = r /\ bytes[p + i][2] = i
        BY <4>4
      <4> QED
        BY <1>3, <2>5, <4>1, <4>3, <4>5
    <3> HIDE DEF s, v
    <3>4. more[p + 1] = <<s, 1>>
      BY <2>6, <3>3
    <3>5. more[p + 1][1] = s
      BY <3>4
    <3>6. Whole(more, p, e.operands[k][1], z)
      BY <1>7, <2>6, <2>9, <3>2, <3>3, <3>5 DEF Whole
    <3>7. Val(more, e, k) = v
      BY <2>2, <3>2, <3>5 DEF Val
    <3>8. k \in Targets(e)
      BY <2>6, <2>7, <2>10
    <3> QED
      BY <2>2, <2>3, <2>10, <3>6, <3>7, <3>8 DEF v
  <2>11. CASE ~ \E h \in hits : h.at = p
    <3>1. \A i \in 1..z : Hit(hits, p + i) = {}
      BY <2>7, <2>11
    <3>2. \A i \in 1..z : more[p + i] = bytes[p + i]
      BY <1>3, <2>5, <3>1
    <3>3. more[p + 1] = bytes[p + 1]
      BY <2>6, <3>2
    <3>4. Whole(more, p, e.operands[k][1], z)
      BY <1>7, <2>4, <2>6, <3>2, <3>3 DEF Whole
    <3>5. Val(more, e, k) = Val(bytes, e, k)
      BY <2>2, <3>3 DEF Val
    <3> QED
      BY <2>2, <2>3, <2>11, <3>4, <3>5
  <2> QED
    BY <2>10, <2>11
<1>10. \A n \in DOMAIN emitted : \A k \in DOMAIN emitted[n].operands :
           k \notin Targets(emitted[n]) => Val(more, emitted[n], k) = Val(bytes, emitted[n], k)
  BY <1>9
<1>11. ASSUME NEW n \in DOMAIN emitted PROVE InstructionLies(more, emitted[n])
  <2>1. InstructionLies(bytes, emitted[n]) /\ bytes \in Seq(ByteType)
    BY DEF CodeLies
  <2>2. Laid(more, emitted[n])
    BY <1>8, <1>9 DEF Laid
  <2>3. End(emitted[n]) <= Len(more)
    BY <1>1, <1>7, <2>1 DEF InstructionLies
  <2>4. ASSUME emitted[n].op = "JUMP_TABLE"
        PROVE  Val(more, emitted[n], 1) = Val(bytes, emitted[n], 1) /\ Val(more, emitted[n], 2) = Val(bytes, emitted[n], 2)
    <3>1. 1 \in DOMAIN emitted[n].operands /\ 2 \in DOMAIN emitted[n].operands
      BY <2>1, <2>4 DEF InstructionLies, Regular
    <3>2. 1 \notin Targets(emitted[n]) /\ 2 \notin Targets(emitted[n])
      BY <2>1, <2>4, TargetsAreWords
    <3> QED
      BY <1>10, <3>1, <3>2
  <2> QED
    BY <1>7, <2>1, <2>2, <2>3, <2>4, LiesStill
<1>12. CodeLies(more, emitted)
  <2>1. emitted = <<>> => more = <<>>
    <3>1. emitted = <<>> => l = 0
      BY <1>1 DEF CodeLies
    <3> QED
      BY <1>7, <3>1
  <2>2. emitted # <<>> => emitted[1].at = 0 /\ End(emitted[Len(emitted)]) = Len(more)
    BY <1>1, <1>7 DEF CodeLies
  <2>3. \A i \in DOMAIN more : more[i][1].width = 1 => \E n \in DOMAIN emitted : emitted[n].at = i - 1
    BY <1>1, <1>3, <1>6 DEF CodeLies
  <2>4. /\ emitted \in Seq(ToSet(emitted))
        /\ \A n \in 1..(Len(emitted) - 1) : emitted[n + 1].at = End(emitted[n])
        /\ \A m, n \in DOMAIN emitted : m < n => End(emitted[m]) <= emitted[n].at
    BY DEF CodeLies
  <2> QED
    BY <1>7, <1>11, <2>1, <2>2, <2>3, <2>4 DEF CodeLies
<1> QED
  BY <1>1, <1>7, <1>9, <1>10, <1>12 DEF more

-----------------------------------------------------------------------------
(* The steps of the builder.                                                *)

(* A piece begins: what waits for it is patched.                            *)
LEMMA ArriveLies ==
    ASSUME NEW b, NEW end \in Nat, Lies(b, end)
    PROVE  LET c == Arrive(b) IN
           /\ Lies(c, end) /\ Len(c.places) = Len(b.places) + 1
           /\ \A t \in DOMAIN c.places : c.places[t] \in Nat
<1> DEFINE R == Reached(b)
           more == patchJumpToHere(b.bytes, R)
           c == Arrive(b)
<1>1. BuildType(b) /\ CodeLies(b.bytes, b.emitted) /\ SpansCover(b) /\ PlacesAreStarts(b) /\ Settled(b)
  BY DEF Lies
<1>2. R \subseteq b.pending /\ \A h \in R : IsOneOf(b.emitted, h) /\ h.to = Len(b.places) + 1
  BY DEF Reached, Lies
<1>3. /\ CodeLies(more, b.emitted) /\ Len(more) = Len(b.bytes)
      /\ \A n \in DOMAIN b.emitted : \A k \in DOMAIN b.emitted[n].operands :
             /\ (\E h \in R : h.at = Place(b.emitted[n], k)) =>
                    Val(more, b.emitted[n], k) = Len(b.bytes) - b.emitted[n].at
             /\ ~ (\E h \in R : h.at = Place(b.emitted[n], k)) =>
                    Val(more, b.emitted[n], k) = Val(b.bytes, b.emitted[n], k)
             /\ k \notin Targets(b.emitted[n]) => Val(more, b.emitted[n], k) = Val(b.bytes, b.emitted[n], k)
  BY <1>1, <1>2, PatchedLies
<1>4. more \in Seq(ByteType) /\ Len(b.bytes) \in Nat
  BY <1>1, <1>3 DEF CodeLies
<1> HIDE DEF R, more
<1>5. /\ b.places \in Seq(Nat) /\ Len(b.places) \in Nat
      /\ b.pending \in SUBSET [at : Nat, base : Nat, to : Nat]
      /\ b.emitted \in Seq(ToSet(b.emitted))
  BY <1>1 DEF BuildType
<1>6. /\ c.bytes = more /\ c.pending = b.pending \ R /\ c.places = Append(b.places, Len(b.bytes))
      /\ c.lines = b.lines /\ c.span = b.span /\ c.offsetStart = b.offsetStart /\ c.last = b.last
      /\ c.emitted = b.emitted /\ c.source = b.source
  BY <1>1 DEF Arrive, BuildType, R, more
<1>7. BuildType(c)
  <2>1. c \in [bytes : Seq(ByteType), lines : Seq(LineType), span : [first : Nat, last : Nat], offsetStart : Nat,
               last : Ops \cup {"NOP"}, emitted : Seq(ToSet(b.emitted)), places : Seq(Nat),
               pending : SUBSET [at : Nat, base : Nat, to : Nat], source : Nat]
    <3>1. Append(b.places, Len(b.bytes)) \in Seq(Nat)
      BY <1>4, <1>5
    <3> QED
      BY <1>1, <1>4, <3>1 DEF Arrive, BuildType, R, more
  <2> QED
    BY <1>1, <1>6, <2>1 DEF BuildType
<1> HIDE DEF c
<1>8. /\ Len(c.places) = Len(b.places) + 1 /\ c.places[Len(b.places) + 1] = Len(b.bytes)
      /\ \A t \in DOMAIN b.places : t \in DOMAIN c.places /\ c.places[t] = b.places[t]
      /\ \A t \in DOMAIN c.places : t \in DOMAIN b.places \/ t = Len(b.places) + 1
      /\ Len(b.places) + 1 \in DOMAIN c.places
  BY <1>5, <1>6
<1>9. \A n \in DOMAIN b.emitted : /\ InstructionLies(b.bytes, b.emitted[n])
                                  /\ \A k \in Targets(b.emitted[n]) : k \in DOMAIN b.emitted[n].operands
  <2>1. \A n \in DOMAIN b.emitted : InstructionLies(b.bytes, b.emitted[n])
    BY <1>1 DEF CodeLies
  <2> QED
    BY <2>1, TargetsAreWords
<1>10. NamesFunction(c.bytes, c.emitted)
  <2> SUFFICES ASSUME NEW n \in DOMAIN b.emitted, b.emitted[n].op = "CALL"
               PROVE  Val(more, b.emitted[n], 1) \in 0..Len(functions)
    BY <1>6 DEF NamesFunction
  <2>1. 1 \in DOMAIN b.emitted[n].operands
    <3>1. b.emitted[n].operands = Shown("CALL")
      BY <1>9 DEF InstructionLies, ShownAt
    <3> QED
      BY <3>1, ShownIs
  <2>2. 1 \notin Targets(b.emitted[n])
    BY <1>9, TargetsAreWords
  <2>3. Val(b.bytes, b.emitted[n], 1) \in 0..Len(functions)
    BY DEF Lies, NamesFunction
  <2> QED
    BY <1>3, <2>1, <2>2, <2>3
<1>11. SpansCover(c)
  BY <1>1, <1>3, <1>6 DEF SpansCover
<1>12. PlacesAreStarts(c)
  BY <1>1, <1>3, <1>6, <1>8 DEF PlacesAreStarts
<1>13. ToSet(b.places) \subseteq ToSet(c.places) /\ Len(b.bytes) \in ToSet(c.places)
  BY <1>8 DEF ToSet
<1>14. Settled(c)
  <2> SUFFICES ASSUME NEW n \in DOMAIN b.emitted, NEW k \in Targets(b.emitted[n])
               PROVE  \/ \E h \in b.pending \ R : h.at = Place(b.emitted[n], k)
                      \/ b.emitted[n].at + Val(more, b.emitted[n], k) \in ToSet(c.places)
    BY <1>6 DEF Settled
  <2>1. k \in DOMAIN b.emitted[n].operands /\ b.emitted[n].at \in Nat
    BY <1>9 DEF InstructionLies
  <2>2. CASE \E h \in R : h.at = Place(b.emitted[n], k)
    <3>1. Val(more, b.emitted[n], k) = Len(b.bytes) - b.emitted[n].at
      BY <1>3, <2>1, <2>2
    <3>2. b.emitted[n].at + Val(more, b.emitted[n], k) = Len(b.bytes)
      BY <1>4, <2>1, <3>1
    <3> QED
      BY <1>13, <3>2
  <2>3. CASE ~ \E h \in R : h.at = Place(b.emitted[n], k)
    <3>1. Val(more, b.emitted[n], k) = Val(b.bytes, b.emitted[n], k)
      BY <1>3, <2>1, <2>3
    <3>2. \/ \E h \in b.pending : h.at = Place(b.emitted[n], k)
          \/ b.emitted[n].at + Val(b.bytes, b.emitted[n], k) \in ToSet(b.places)
      BY <1>1 DEF Settled
    <3> QED
      BY <1>13, <2>3, <3>1, <3>2
  <2> QED
    BY <2>2, <2>3
<1>15. \A h \in c.pending : IsOneOf(c.emitted, h) /\ h.to \in (Len(c.places) + 1)..end
  <2> SUFFICES ASSUME NEW h \in b.pending, h \notin R
               PROVE  IsOneOf(b.emitted, h) /\ h.to \in (Len(b.places) + 2)..end
    BY <1>5, <1>6, <1>8
  <2>1. IsOneOf(b.emitted, h) /\ h.to \in (Len(b.places) + 1)..end
    BY DEF Lies
  <2>2. h.to # Len(b.places) + 1
    BY DEF Reached, R
  <2> QED
    BY <1>5, <2>1, <2>2
<1>16. \A t \in DOMAIN c.places : c.places[t] \in Nat
  <2>1. c.places \in Seq(Nat)
    BY <1>7 DEF BuildType
  <2> QED
    BY <2>1
<1> QED
  BY <1>3, <1>6, <1>7, <1>8, <1>10, <1>11, <1>12, <1>14, <1>15, <1>16 DEF Lies, c

(* An instruction is pushed, and what of it is to be patched is noted.      *)
Pushes(b, d, op, operands, noted) ==
    d = [bytes |-> After(b.bytes, op, operands), lines |-> b.lines, span |-> b.span,
         offsetStart |-> b.offsetStart, last |-> op,
         emitted |-> Append(b.emitted, Entry(b.bytes, op, operands, b.source)),
         places |-> b.places, pending |-> b.pending \cup noted, source |-> b.source]

(* What a piece leaves to be patched are operands its jumps go by, and they *)
(* go on, or they go back to where a piece began.                           *)
NotesFit(b, end, op, operands, noted) ==
    LET e == Entry(b.bytes, op, operands, b.source) IN
    /\ noted \in SUBSET [at : Nat, base : Nat, to : (Len(b.places) + 1)..end]
    /\ \A h \in noted : \E k \in Targets(e) : h.at = Place(e, k) /\ h.base = e.at
    /\ \A k \in Targets(e) : \/ \E h \in noted : h.at = Place(e, k)
                             \/ e.at + operands[k][2] \in ToSet(b.places)

LEMMA PushLies ==
    ASSUME NEW b, NEW end \in Nat, Lies(b, end), NEW op, NEW operands, InstructionFits(op, operands),
           NEW noted, NotesFit(b, end, op, operands, noted), NEW d, Pushes(b, d, op, operands, noted)
    PROVE  Lies(d, end) /\ d.places = b.places /\ \A p \in ToSet(b.places) : p \in Starts(d.emitted)
<1> DEFINE e == Entry(b.bytes, op, operands, b.source)
           all == After(b.bytes, op, operands)
<1>1. BuildType(b) /\ CodeLies(b.bytes, b.emitted) /\ SpansCover(b) /\ PlacesAreStarts(b) /\ Settled(b)
  BY DEF Lies
<1>2. /\ b.bytes \in Seq(ByteType) /\ b.source \in Nat /\ b.places \in Seq(Nat) /\ Len(b.places) \in Nat
      /\ b.pending \in SUBSET [at : Nat, base : Nat, to : Nat] /\ b.emitted \in Seq(ToSet(b.emitted))
      /\ b.lines \in Seq(LineType) /\ b.span \in [first : Nat, last : Nat] /\ b.offsetStart \in Nat
  BY <1>1 DEF BuildType
<1>3. /\ all \in Seq(ByteType) /\ Len(all) = End(e) /\ End(e) \in Nat /\ Len(b.bytes) < End(e)
      /\ \A i \in 1..Len(b.bytes) : all[i] = b.bytes[i]
      /\ InstructionLies(all, e)
      /\ DOMAIN operands = DOMAIN e.operands /\ DOMAIN e.operands = 1..Len(operands)
      /\ \A k \in DOMAIN e.operands : Val(all, e, k) = operands[k][2]
      /\ \A i \in DOMAIN all : i > Len(b.bytes) /\ all[i][1].width = 1 => i = Len(b.bytes) + 1
  <2>1. b.bytes \in Seq(ByteType) /\ b.source \in Nat
    BY <1>2
  <2>2. InstructionFits(op, operands)
    OBVIOUS
  <2> QED
    BY <2>1, <2>2, PushedLies
<1>4. e.at = Len(b.bytes) /\ e.op = op /\ e.line = b.source /\ op \in Ops /\ Len(b.bytes) \in Nat
  BY <1>2 DEF InstructionFits, Entry
<1>5. /\ \A h \in noted : \E k \in Targets(e) : h.at = Place(e, k) /\ h.base = e.at
      /\ \A k \in Targets(e) : \/ \E h \in noted : h.at = Place(e, k)
                               \/ e.at + operands[k][2] \in ToSet(b.places)
      /\ noted \in SUBSET [at : Nat, base : Nat, to : (Len(b.places) + 1)..end]
  BY DEF NotesFit
<1>6. /\ d = [bytes |-> all, lines |-> b.lines, span |-> b.span,
              offsetStart |-> b.offsetStart, last |-> op, emitted |-> Append(b.emitted, e),
              places |-> b.places, pending |-> b.pending \cup noted, source |-> b.source]
  BY DEF Pushes
<1>7. op = "CALL" => operands[1][2] \in 0..Len(functions)
  BY DEF InstructionFits
<1> HIDE DEF e, all
<1>8. /\ d.bytes = all /\ d.lines = b.lines /\ d.span = b.span
      /\ d.offsetStart = b.offsetStart /\ d.last = op /\ d.emitted = Append(b.emitted, e)
      /\ d.places = b.places /\ d.pending = b.pending \cup noted /\ d.source = b.source
  BY <1>6
<1>9. PICK n \in Nat : n = Len(b.emitted) /\ DOMAIN b.emitted = 1..n
  BY <1>2
<1>10. /\ DOMAIN d.emitted = 1..(n + 1) /\ Len(d.emitted) = n + 1 /\ d.emitted[n + 1] = e
       /\ n + 1 \in DOMAIN d.emitted
       /\ \A i \in 1..n : d.emitted[i] = b.emitted[i]
  BY <1>2, <1>8, <1>9
<1>11. d.emitted \in Seq(ToSet(d.emitted))
  <2>1. \A i \in 1..(n + 1) : d.emitted[i] \in ToSet(d.emitted)
    BY <1>10 DEF ToSet
  <2>2. d.emitted = [i \in 1..(n + 1) |-> d.emitted[i]]
    BY <1>2, <1>8, <1>9, <1>10
  <2>3. d.emitted \in [1..(n + 1) -> ToSet(d.emitted)]
    BY <2>1, <2>2
  <2> QED
    BY <2>3
<1>12. BuildType(d)
  <2>1. d \in [bytes : Seq(ByteType), lines : Seq(LineType), span : [first : Nat, last : Nat], offsetStart : Nat,
               last : Ops \cup {"NOP"}, emitted : Seq(ToSet(d.emitted)), places : Seq(Nat),
               pending : SUBSET [at : Nat, base : Nat, to : Nat], source : Nat]
    <3>1. noted \in SUBSET [at : Nat, base : Nat, to : Nat]
      BY <1>2, <1>5
    <3>2. b.pending \cup noted \in SUBSET [at : Nat, base : Nat, to : Nat]
      BY <1>2, <3>1
    <3> QED
      BY <1>2, <1>3, <1>4, <1>6, <1>8, <1>11, <3>2
  <2>2. d.emitted # <<>> /\ d.emitted[Len(d.emitted)].op = op
    BY <1>4, <1>10
  <2> QED
    BY <1>8, <2>1, <2>2 DEF BuildType
<1>13. \A i \in 1..n : /\ InstructionLies(all, b.emitted[i]) /\ InstructionLies(b.bytes, b.emitted[i])
                       /\ End(b.emitted[i]) <= Len(b.bytes) /\ End(b.emitted[i]) \in Nat
                       /\ b.emitted[i].at \in Nat /\ b.emitted[i].at < Len(b.bytes)
                       /\ \A k \in DOMAIN b.emitted[i].operands :
                              Val(all, b.emitted[i], k) = Val(b.bytes, b.emitted[i], k)
  <2> SUFFICES ASSUME NEW i \in 1..n
               PROVE  /\ InstructionLies(all, b.emitted[i]) /\ InstructionLies(b.bytes, b.emitted[i])
                      /\ End(b.emitted[i]) <= Len(b.bytes) /\ End(b.emitted[i]) \in Nat
                      /\ b.emitted[i].at \in Nat /\ b.emitted[i].at < Len(b.bytes)
                      /\ \A k \in DOMAIN b.emitted[i].operands :
                             Val(all, b.emitted[i], k) = Val(b.bytes, b.emitted[i], k)
    OBVIOUS
  <2>1. InstructionLies(b.bytes, b.emitted[i])
    BY <1>1, <1>9 DEF CodeLies
  <2>2. Len(b.bytes) <= Len(all)
    BY <1>3, <1>4
  <2>3. /\ InstructionLies(all, b.emitted[i])
        /\ \A k \in DOMAIN b.emitted[i].operands :
               Val(all, b.emitted[i], k) = Val(b.bytes, b.emitted[i], k)
    <3>1. b.bytes \in Seq(ByteType) /\ all \in Seq(ByteType) /\ \A j \in 1..Len(b.bytes) : all[j] = b.bytes[j]
      BY <1>2, <1>3
    <3> QED
      BY <2>1, <2>2, <3>1, BeginsAlike
  <2>4. /\ End(b.emitted[i]) <= Len(b.bytes) /\ b.emitted[i].at \in Nat /\ Regular(b.emitted[i].operands)
    BY <2>1 DEF InstructionLies
  <2>5. End(b.emitted[i]) \in Nat /\ b.emitted[i].at < End(b.emitted[i])
    BY <2>4, PlacesAre
  <2> QED
    BY <1>4, <2>1, <2>3, <2>4, <2>5
<1>14. CodeLies(d.bytes, d.emitted)
  <2>1. \A i \in DOMAIN d.emitted : InstructionLies(all, d.emitted[i])
    BY <1>3, <1>10, <1>13
  <2>2. d.emitted # <<>>
    BY <1>10
  <2>3. d.emitted[1].at = 0
    <3>1. CASE n = 0
      <4>0. b.emitted \in Seq(ToSet(b.emitted)) /\ Len(b.emitted) = 0
        BY <1>2, <1>9, <3>1
      <4>1. b.emitted = <<>>
        BY <4>0, EmptySeq
      <4>2. Len(b.bytes) = 0
        BY <1>1, <4>1 DEF CodeLies
      <4> QED
        BY <1>4, <1>10, <3>1, <4>2
    <3>2. CASE n # 0
      <4>1. b.emitted # <<>> /\ 1 \in 1..n
        BY <1>9, <3>2
      <4> QED
        BY <1>1, <1>10, <4>1 DEF CodeLies
    <3> QED
      BY <3>1, <3>2
  <2>4. End(d.emitted[Len(d.emitted)]) = Len(all)
    BY <1>3, <1>10
  <2>5. \A i \in 1..(Len(d.emitted) - 1) : d.emitted[i + 1].at = End(d.emitted[i])
    <3> SUFFICES ASSUME NEW i \in 1..n PROVE d.emitted[i + 1].at = End(b.emitted[i])
      BY <1>10
    <3>1. CASE i = n
      <4>1. b.emitted # <<>>
        BY <1>9, <3>1
      <4>2. End(b.emitted[n]) = Len(b.bytes)
        BY <1>1, <1>9, <4>1 DEF CodeLies
      <4> QED
        BY <1>4, <1>10, <3>1, <4>2
    <3>2. CASE i # n
      <4>1. i \in 1..(Len(b.emitted) - 1) /\ i + 1 \in 1..n
        BY <1>9, <3>2
      <4> QED
        BY <1>1, <1>10, <4>1 DEF CodeLies
    <3> QED
      BY <3>1, <3>2
  <2>6. \A i, j \in DOMAIN d.emitted : i < j => End(d.emitted[i]) <= d.emitted[j].at
    <3> SUFFICES ASSUME NEW i \in 1..(n + 1), NEW j \in 1..(n + 1), i < j
                 PROVE  End(d.emitted[i]) <= d.emitted[j].at
      BY <1>10
    <3>1. i \in 1..n
      BY <1>9
    <3>2. CASE j = n + 1
      BY <1>4, <1>10, <1>13, <3>1, <3>2
    <3>3. CASE j # n + 1
      <4>1. j \in 1..n
        BY <1>9, <3>3
      <4> QED
        BY <1>1, <1>9, <1>10, <3>1, <4>1 DEF CodeLies
    <3> QED
      BY <3>2, <3>3
  <2>7. ASSUME NEW i \in DOMAIN all, all[i][1].width = 1
        PROVE  \E m \in DOMAIN d.emitted : d.emitted[m].at = i - 1
    <3>1. CASE i > Len(b.bytes)
      <4>1. i = Len(b.bytes) + 1
        BY <1>3, <2>7, <3>1
      <4>2. e.at = i - 1
        BY <1>4, <4>1
      <4> QED
        BY <1>10, <4>2
    <3>2. CASE i <= Len(b.bytes)
      <4>1. i \in 1..Len(b.bytes) /\ i \in DOMAIN b.bytes
        BY <1>2, <1>3, <1>4, <3>2
      <4>2. b.bytes[i][1].width = 1
        BY <1>3, <2>7, <4>1
      <4>3. \E m \in DOMAIN b.emitted : b.emitted[m].at = i - 1
        BY <1>1, <4>1, <4>2 DEF CodeLies
      <4> QED
        BY <1>9, <1>10, <4>3
    <3>3. i \in Nat
      BY <1>3
    <3> QED
      BY <1>4, <3>1, <3>2, <3>3
  <2> QED
    BY <1>3, <1>8, <1>11, <2>1, <2>2, <2>3, <2>4, <2>5, <2>6, <2>7 DEF CodeLies
<1>15. NamesFunction(d.bytes, d.emitted)
  <2>1. ASSUME NEW i \in 1..n, b.emitted[i].op = "CALL" PROVE Val(all, b.emitted[i], 1) \in 0..Len(functions)
    <3>1. 1 \in DOMAIN b.emitted[i].operands
      <4>1. b.emitted[i].operands = Shown("CALL")
        BY <1>13, <2>1 DEF InstructionLies, ShownAt
      <4> QED
        BY <4>1, ShownIs
    <3>2. Val(b.bytes, b.emitted[i], 1) \in 0..Len(functions)
      BY <1>9, <2>1 DEF Lies, NamesFunction
    <3> QED
      BY <1>13, <3>1, <3>2
  <2>2. ASSUME op = "CALL" PROVE Val(all, e, 1) \in 0..Len(functions)
    <3>1. 1 \in DOMAIN e.operands
      <4>1. e.operands = Shown("CALL")
        BY <1>3, <1>4, <2>2 DEF InstructionLies, ShownAt
      <4> QED
        BY <4>1, ShownIs
    <3> QED
      BY <1>3, <1>7, <2>2, <3>1
  <2> SUFFICES ASSUME NEW i \in 1..(n + 1), d.emitted[i].op = "CALL"
               PROVE  Val(all, d.emitted[i], 1) \in 0..Len(functions)
    BY <1>8, <1>10 DEF NamesFunction
  <2>3. CASE i = n + 1
    BY <1>4, <1>10, <2>2, <2>3
  <2>4. CASE i # n + 1
    <3>1. i \in 1..n
      BY <2>4
    <3> QED
      BY <1>10, <2>1, <3>1
  <2> QED
    BY <2>3, <2>4
<1>16. /\ Tiled(b.lines, b.offsetStart) /\ b.offsetStart <= Len(b.bytes)
       /\ LinesCover(b.lines, b.emitted)
       /\ \A i \in 1..n : b.offsetStart <= b.emitted[i].at => CoveredBy(b.span, b.emitted[i].line)
       /\ CoveredBy(b.span, b.source)
       /\ b.span.first = 0 => /\ b.lines = <<>> /\ b.source = 0
                              /\ \A i \in 1..n : b.emitted[i].line = 0
  BY <1>1, <1>9 DEF SpansCover
<1>17. SpansCover(d)
  <2>1. d.offsetStart <= Len(d.bytes)
    BY <1>2, <1>3, <1>4, <1>8, <1>16
  <2>2. LinesCover(d.lines, d.emitted)
    <3> SUFFICES ASSUME NEW i \in 1..(n + 1), NEW k \in DOMAIN b.lines,
                        b.lines[k].start <= d.emitted[i].at, d.emitted[i].at < b.lines[k].end
                 PROVE  CoveredBy(b.lines[k], d.emitted[i].line)
      BY <1>8, <1>10 DEF LinesCover
    <3>1. i # n + 1
      <4> SUFFICES ASSUME i = n + 1 PROVE FALSE
        OBVIOUS
      <4>1. Len(b.bytes) < b.lines[k].end
        BY <1>4, <1>10
      <4>2. PICK m \in Nat : m = Len(b.lines) /\ DOMAIN b.lines = 1..m
        BY <1>2
      <4>3. k \in 1..m /\ m \in 1..m /\ b.lines # <<>>
        BY <4>2
      <4>4. b.lines[k].end <= b.lines[m].end /\ b.lines[m].end = b.offsetStart
        <5>1. Tiled(b.lines, b.offsetStart)
          BY <1>16
        <5>2. b.lines[m].end = b.offsetStart
          BY <4>2, <4>3, <5>1 DEF Tiled
        <5>3. b.lines[k].end <= b.lines[m].end
          <6>1. \A i1, i2 \in DOMAIN b.lines : i1 <= i2 => b.lines[i1].end <= b.lines[i2].end
            BY <5>1 DEF Tiled
          <6>2. k \in DOMAIN b.lines /\ m \in DOMAIN b.lines /\ k <= m
            BY <4>2, <4>3
          <6> QED
            BY <6>1, <6>2
        <5> QED
          BY <5>2, <5>3
      <4>5. b.lines[k].end \in Nat
        <5>1. b.lines[k] \in LineType
          BY <1>2
        <5> QED
          BY <5>1 DEF LineType
      <4> QED
        BY <1>2, <1>4, <1>16, <4>1, <4>4, <4>5
    <3>2. i \in 1..n
      BY <3>1
    <3> QED
      BY <1>9, <1>10, <1>16, <3>2 DEF LinesCover
  <2>3. \A i \in 1..(n + 1) : d.offsetStart <= d.emitted[i].at => CoveredBy(d.span, d.emitted[i].line)
    <3> TAKE i \in 1..(n + 1)
    <3>1. CASE i = n + 1
      BY <1>4, <1>8, <1>10, <1>16, <3>1
    <3>2. CASE i # n + 1
      <4>1. i \in 1..n
        BY <3>2
      <4> QED
        BY <1>8, <1>10, <1>16, <4>1
    <3> QED
      BY <3>1, <3>2
  <2>4. d.span.first = 0 => \A i \in 1..(n + 1) : d.emitted[i].line = 0
    <3> SUFFICES ASSUME b.span.first = 0, NEW i \in 1..(n + 1) PROVE d.emitted[i].line = 0
      BY <1>8
    <3>1. CASE i = n + 1
      BY <1>4, <1>10, <1>16, <3>1
    <3>2. CASE i # n + 1
      <4>1. i \in 1..n
        BY <3>2
      <4> QED
        BY <1>10, <1>16, <4>1
    <3> QED
      BY <3>1, <3>2
  <2> QED
    BY <1>8, <1>10, <1>16, <2>1, <2>2, <2>3, <2>4 DEF SpansCover
<1>18. \A p \in ToSet(b.places) : p \in Starts(d.emitted)
  <2> SUFFICES ASSUME NEW t \in DOMAIN b.places PROVE b.places[t] \in Starts(d.emitted)
    BY DEF ToSet
  <2>1. b.places[t] \in Starts(b.emitted) \cup {Len(b.bytes)}
    BY <1>1 DEF PlacesAreStarts
  <2>2. CASE b.places[t] = Len(b.bytes)
    BY <1>4, <1>10, <2>2 DEF Starts
  <2>3. CASE b.places[t] \in Starts(b.emitted)
    BY <1>9, <1>10, <2>3, SMTT(40) DEF Starts
  <2> QED
    BY <2>1, <2>2, <2>3
<1>19. PlacesAreStarts(d)
  BY <1>8, <1>18 DEF PlacesAreStarts, ToSet
<1>20. Settled(d)
  <2> SUFFICES ASSUME NEW i \in 1..(n + 1), NEW k \in Targets(d.emitted[i])
               PROVE  \/ \E h \in b.pending \cup noted : h.at = Place(d.emitted[i], k)
                      \/ d.emitted[i].at + Val(all, d.emitted[i], k) \in ToSet(b.places)
    BY <1>8, <1>10 DEF Settled
  <2>1. CASE i = n + 1
    <3>1. d.emitted[i] = e /\ k \in Targets(e)
      BY <1>10, <2>1
    <3>2. k \in DOMAIN e.operands
      BY <1>3, <3>1, TargetsAreWords
    <3> QED
      BY <1>3, <1>5, <3>1, <3>2
  <2>2. CASE i # n + 1
    <3>1. i \in 1..n
      BY <2>2
    <3>2. d.emitted[i] = b.emitted[i] /\ k \in Targets(b.emitted[i]) /\ i \in DOMAIN b.emitted
      BY <1>9, <1>10, <3>1
    <3>3. Val(all, b.emitted[i], k) = Val(b.bytes, b.emitted[i], k)
      BY <1>13, <3>1, <3>2, TargetsAreWords
    <3>4. \/ \E h \in b.pending : h.at = Place(b.emitted[i], k)
          \/ b.emitted[i].at + Val(b.bytes, b.emitted[i], k) \in ToSet(b.places)
      BY <1>1, <3>2 DEF Settled
    <3> QED
      BY <3>2, <3>3, <3>4
  <2> QED
    BY <2>1, <2>2
<1>21. \A h \in d.pending : IsOneOf(d.emitted, h) /\ h.to \in (Len(d.places) + 1)..end
  <2> SUFFICES ASSUME NEW h \in b.pending \cup noted
               PROVE  IsOneOf(d.emitted, h) /\ h.to \in (Len(b.places) + 1)..end
    BY <1>8
  <2>1. CASE h \in b.pending
    <3>1. IsOneOf(b.emitted, h) /\ h.to \in (Len(b.places) + 1)..end
      BY <2>1 DEF Lies
    <3>2. PICK i \in 1..n : \E k \in Targets(b.emitted[i]) :
               h.at = Place(b.emitted[i], k) /\ h.base = b.emitted[i].at
      BY <1>9, <3>1 DEF IsOneOf
    <3>3. i \in DOMAIN d.emitted /\ d.emitted[i] = b.emitted[i]
      BY <1>10
    <3> QED
      BY <3>1, <3>2, <3>3 DEF IsOneOf
  <2>2. CASE h \in noted
    <3>1. \E k \in Targets(e) : h.at = Place(e, k) /\ h.base = e.at
      BY <1>5, <2>2
    <3>2. n + 1 \in DOMAIN d.emitted /\ d.emitted[n + 1] = e
      BY <1>10
    <3>3. IsOneOf(d.emitted, h)
      BY <3>1, <3>2 DEF IsOneOf
    <3>4. h.to \in (Len(b.places) + 1)..end
      BY <1>5, <2>2
    <3> QED
      BY <3>3, <3>4
  <2> QED
    BY <2>1, <2>2
<1> QED
  BY <1>8, <1>12, <1>14, <1>15, <1>17, <1>18, <1>19, <1>20, <1>21 DEF Lies

(* A line is committed with what was pushed since the last one.             *)
LEMMA CommittedLines ==
    ASSUME NEW b, BuildType(b), CodeLies(b.bytes, b.emitted), SpansCover(b)
    PROVE  LET lines == commitLineInfo(b) IN
           lines # <<>> /\ Tiled(lines, Len(b.bytes)) /\ LinesCover(lines, b.emitted)
<1> DEFINE line == [first |-> b.span.first, last |-> b.span.last, start |-> b.offsetStart, end |-> Len(b.bytes)]
           more == Append(b.lines, line)
<1>1. /\ b.lines \in Seq(LineType) /\ b.span \in [first : Nat, last : Nat] /\ b.offsetStart \in Nat
      /\ b.bytes \in Seq(ByteType)
  BY DEF BuildType
<1>2. line \in LineType /\ Len(b.bytes) \in Nat
  BY <1>1 DEF LineType
<1>3. /\ Tiled(b.lines, b.offsetStart) /\ b.offsetStart <= Len(b.bytes)
      /\ LinesCover(b.lines, b.emitted)
      /\ \A n \in DOMAIN b.emitted : b.offsetStart <= b.emitted[n].at => CoveredBy(b.span, b.emitted[n].line)
  BY DEF SpansCover
<1>4. line.first = b.span.first /\ line.last = b.span.last /\ line.start = b.offsetStart /\ line.end = Len(b.bytes)
  OBVIOUS
<1>5. commitLineInfo(b) = more
  BY DEF commitLineInfo
<1> HIDE DEF line
<1>6. PICK n \in Nat : n = Len(b.lines) /\ DOMAIN b.lines = 1..n
  BY <1>1
<1>7. /\ more \in Seq(LineType) /\ Len(more) = n + 1 /\ DOMAIN more = 1..(n + 1) /\ more[n + 1] = line
      /\ \A k \in 1..n : more[k] = b.lines[k]
  BY <1>1, <1>2, <1>6
<1> HIDE DEF more
<1>8. more # <<>>
  BY <1>7
<1>9. \A k \in 1..n : b.lines[k].start \in Nat /\ b.lines[k].end \in Nat
  <2>1. \A k \in 1..n : b.lines[k] \in LineType
    BY <1>1, <1>6
  <2> QED
    BY <2>1 DEF LineType
<1>10. n # 0 => /\ b.lines[1].start = 0 /\ b.lines[n].end = b.offsetStart
                /\ \A k \in 1..n : b.lines[k].end <= b.offsetStart
  <2> SUFFICES ASSUME n # 0
               PROVE  /\ b.lines[1].start = 0 /\ b.lines[n].end = b.offsetStart
                      /\ \A k \in 1..n : b.lines[k].end <= b.offsetStart
    OBVIOUS
  <2>1. b.lines # <<>> /\ n \in 1..n
    BY <1>6
  <2>2. b.lines[1].start = 0 /\ b.lines[n].end = b.offsetStart
    BY <1>3, <1>6, <2>1 DEF Tiled
  <2>3. \A k \in 1..n : b.lines[k].end <= b.lines[n].end
    BY <1>3, <1>6, <2>1, SMTT(40) DEF Tiled
  <2> QED
    BY <2>2, <2>3
<1>11. n = 0 => b.offsetStart = 0
  <2>1. n = 0 => b.lines = <<>>
    BY <1>1, <1>6, EmptySeq
  <2> QED
    BY <1>3, <2>1 DEF Tiled
<1>12. Tiled(more, Len(b.bytes))
  <2>1. more[1].start = 0
    BY <1>4, <1>7, <1>10, <1>11
  <2>2. more[Len(more)].end = Len(b.bytes)
    BY <1>4, <1>7
  <2>3. \A k \in DOMAIN more : more[k].start <= more[k].end
    <3>1. \A k \in 1..n : b.lines[k].start <= b.lines[k].end
      BY <1>3, <1>6 DEF Tiled
    <3>2. \A k \in 1..(n + 1) : k \in 1..n \/ k = n + 1
      OBVIOUS
    <3> QED
      BY <1>3, <1>4, <1>7, <3>1, <3>2
  <2>4. \A k \in 1..(Len(more) - 1) : more[k + 1].start = more[k].end
    <3> SUFFICES ASSUME NEW k \in 1..n PROVE more[k + 1].start = more[k].end
      BY <1>7
    <3>1. CASE k = n
      BY <1>4, <1>7, <1>10, <3>1
    <3>2. CASE k # n
      <4>1. k \in 1..(n - 1) /\ k + 1 \in 1..n
        BY <3>2
      <4>2. b.lines[k + 1].start = b.lines[k].end
        BY <1>3, <1>6, <4>1 DEF Tiled
      <4> QED
        BY <1>7, <4>1, <4>2
    <3> QED
      BY <3>1, <3>2
  <2>5. \A j, k \in DOMAIN more : j <= k => more[j].end <= more[k].end
    <3> SUFFICES ASSUME NEW j \in 1..(n + 1), NEW k \in 1..(n + 1), j <= k PROVE more[j].end <= more[k].end
      BY <1>7
    <3>1. CASE k = n + 1
      <4>1. more[k].end = Len(b.bytes)
        BY <1>4, <1>7, <3>1
      <4>2. CASE j = n + 1
        BY <1>2, <4>1, <3>1, <4>2
      <4>3. CASE j # n + 1
        <5>1. j \in 1..n /\ n # 0
          BY <4>3
        <5>2. more[j].end = b.lines[j].end /\ b.lines[j].end \in Nat /\ b.lines[j].end <= b.offsetStart
          BY <1>7, <1>9, <1>10, <5>1
        <5> QED
          BY <1>1, <1>2, <1>3, <4>1, <5>2
      <4> QED
        BY <4>2, <4>3
    <3>2. CASE k # n + 1
      <4>1. j \in 1..n /\ k \in 1..n
        BY <3>2
      <4>2. b.lines[j].end <= b.lines[k].end
        BY <1>3, <1>6, <4>1 DEF Tiled
      <4> QED
        BY <1>7, <4>1, <4>2
    <3> QED
      BY <3>1, <3>2
  <2> QED
    BY <1>7, <1>8, <2>1, <2>2, <2>3, <2>4, <2>5 DEF Tiled
<1>13. LinesCover(more, b.emitted)
  <2> SUFFICES ASSUME NEW m \in DOMAIN b.emitted, NEW k \in DOMAIN more,
                      more[k].start <= b.emitted[m].at, b.emitted[m].at < more[k].end
               PROVE  CoveredBy(more[k], b.emitted[m].line)
    BY DEF LinesCover
  <2>1. CASE k = n + 1
    BY <1>3, <1>4, <1>7, <2>1 DEF CoveredBy
  <2>2. CASE k # n + 1
    <3>1. k \in 1..n /\ more[k] = b.lines[k]
      BY <1>7, <2>2
    <3> QED
      BY <1>3, <1>6, <3>1 DEF LinesCover
  <2> QED
    BY <2>1, <2>2
<1> QED
  BY <1>5, <1>8, <1>12, <1>13

(* Lines, the span and its offset may change as long as they cover what they should. *)
Relined(b, lines, within, start, first) ==
    [b EXCEPT !.lines = lines, !.span = within, !.offsetStart = start, !.source = first]
MayBeRelined(b, lines, within, start, first) ==
    /\ lines \in Seq(LineType) /\ within \in [first : Nat, last : Nat] /\ start \in Nat /\ first \in Nat
    /\ Tiled(lines, start) /\ start <= Len(b.bytes) /\ LinesCover(lines, b.emitted)
    /\ \A n \in DOMAIN b.emitted : start <= b.emitted[n].at => CoveredBy(within, b.emitted[n].line)
    /\ within.first <= first /\ first <= within.last /\ within.first # 0
LEMMA RelinedLies ==
    ASSUME NEW b, NEW end \in Nat, Lies(b, end), NEW lines, NEW within, NEW start, NEW first,
           MayBeRelined(b, lines, within, start, first)
    PROVE  Lies(Relined(b, lines, within, start, first), end)
           /\ Relined(b, lines, within, start, first).places = b.places
<1> DEFINE c == Relined(b, lines, within, start, first)
<1>1. BuildType(b) /\ CodeLies(b.bytes, b.emitted) /\ SpansCover(b)
  BY DEF Lies
<1>0. /\ lines \in Seq(LineType) /\ within \in [first : Nat, last : Nat] /\ start \in Nat /\ first \in Nat
      /\ Tiled(lines, start) /\ start <= Len(b.bytes) /\ LinesCover(lines, b.emitted)
      /\ \A n \in DOMAIN b.emitted : start <= b.emitted[n].at => CoveredBy(within, b.emitted[n].line)
      /\ within.first <= first /\ first <= within.last /\ within.first # 0
  BY DEF MayBeRelined
<1>2. /\ c.bytes = b.bytes /\ c.emitted = b.emitted /\ c.places = b.places /\ c.pending = b.pending
      /\ c.last = b.last /\ c.lines = lines /\ c.span = within /\ c.offsetStart = start /\ c.source = first
  BY <1>1 DEF BuildType, Relined
<1>3. BuildType(c)
  <2>1. c \in [bytes : Seq(ByteType), lines : Seq(LineType), span : [first : Nat, last : Nat], offsetStart : Nat,
               last : Ops \cup {"NOP"}, emitted : Seq(ToSet(b.emitted)), places : Seq(Nat),
               pending : SUBSET [at : Nat, base : Nat, to : Nat], source : Nat]
    BY <1>0, <1>1 DEF BuildType, Relined
  <2> QED
    BY <1>1, <1>2, <2>1 DEF BuildType
<1> HIDE DEF c
<1>4. CoveredBy(within, first)
  BY <1>0 DEF CoveredBy
<1>5. SpansCover(c)
  BY <1>0, <1>2, <1>4 DEF SpansCover
<1>6. Lies(c, end)
  BY <1>2, <1>3, <1>5 DEF Lies, NamesFunction, PlacesAreStarts, Settled
<1> QED
  BY <1>2, <1>6 DEF c

(* A statement's span begins: nothing is pushed, but lines may be committed. *)
LEMMA LineLies ==
    ASSUME NEW b, NEW end \in Nat, Lies(b, end),
           NEW span \in [first : Nat \ {0}, last : Nat], span.first <= span.last
    PROVE  LET c == [updateSourceLocation(b, span) EXCEPT !.source = span.first] IN
           Lies(c, end) /\ c.places = b.places
<1> DEFINE c == [updateSourceLocation(b, span) EXCEPT !.source = span.first]
<1>1. BuildType(b) /\ CodeLies(b.bytes, b.emitted) /\ SpansCover(b)
  BY DEF Lies
<1>2. /\ b.bytes \in Seq(ByteType) /\ b.span \in [first : Nat, last : Nat] /\ b.offsetStart \in Nat
      /\ b.lines \in Seq(LineType) /\ Len(b.bytes) \in Nat
  BY <1>1 DEF BuildType
<1>3. /\ span.first \in Nat /\ span.first # 0 /\ span.last \in Nat /\ span \in [first : Nat, last : Nat]
      /\ b.span.first \in Nat /\ b.span.last \in Nat
  BY <1>2
<1>4. /\ Tiled(b.lines, b.offsetStart) /\ b.offsetStart <= Len(b.bytes)
      /\ LinesCover(b.lines, b.emitted)
      /\ \A n \in DOMAIN b.emitted : b.offsetStart <= b.emitted[n].at => CoveredBy(b.span, b.emitted[n].line)
      /\ CoveredBy(b.span, b.source)
      /\ b.span.first = 0 => /\ b.lines = <<>> /\ b.source = 0
                             /\ \A n \in DOMAIN b.emitted : b.emitted[n].line = 0
  BY <1>1 DEF SpansCover
<1>5. \A n \in DOMAIN b.emitted : b.emitted[n].at \in Nat /\ b.emitted[n].at < Len(b.bytes) /\ b.emitted[n].line \in Nat
  <2> SUFFICES ASSUME NEW n \in DOMAIN b.emitted
               PROVE  b.emitted[n].at \in Nat /\ b.emitted[n].at < Len(b.bytes) /\ b.emitted[n].line \in Nat
    OBVIOUS
  <2>1. InstructionLies(b.bytes, b.emitted[n])
    BY <1>1 DEF CodeLies
  <2>2. /\ End(b.emitted[n]) <= Len(b.bytes) /\ b.emitted[n].at \in Nat /\ Regular(b.emitted[n].operands)
        /\ b.emitted[n].line \in Nat
    BY <2>1 DEF InstructionLies
  <2>3. End(b.emitted[n]) \in Nat /\ b.emitted[n].at < End(b.emitted[n])
    BY <2>2, PlacesAre
  <2> QED
    BY <1>2, <2>2, <2>3
<1>7. CASE b.span.first = 0
  <2>1. c = Relined(b, b.lines, span, 0, span.first)
    BY <1>1, <1>7 DEF updateSourceLocation, BuildType, Relined
  <2>2. b.lines = <<>> /\ \A n \in DOMAIN b.emitted : b.emitted[n].line = 0
    BY <1>4, <1>7
  <2>3. Tiled(b.lines, 0)
    BY <1>4, <2>2 DEF Tiled
  <2>4. \A n \in DOMAIN b.emitted : CoveredBy(span, b.emitted[n].line)
    BY <2>2 DEF CoveredBy
  <2> HIDE DEF c
  <2>5. 0 <= Len(b.bytes) /\ span.first <= span.first
    BY <1>2, <1>3
  <2>10. b.lines \in Seq(LineType) /\ span \in [first : Nat, last : Nat] /\ 0 \in Nat
    BY <1>2, <1>3, <1>4, <2>3, <2>4, <2>5
  <2>11. Tiled(b.lines, 0) /\ 0 <= Len(b.bytes) /\ LinesCover(b.lines, b.emitted)
    BY <1>2, <1>3, <1>4, <2>3, <2>4, <2>5
  <2>12. \A n \in DOMAIN b.emitted : 0 <= b.emitted[n].at => CoveredBy(span, b.emitted[n].line)
    BY <1>2, <1>3, <1>4, <2>3, <2>4, <2>5
  <2>13. span.first <= span.first /\ span.first <= span.last /\ span.first # 0
    BY <1>2, <1>3, <1>4, <2>3, <2>4, <2>5
  <2>14. MayBeRelined(b, b.lines, span, 0, span.first)
    BY <1>3, <2>10, <2>11, <2>12, <2>13 DEF MayBeRelined
  <2>15. Lies(Relined(b, b.lines, span, 0, span.first), end)
         /\ Relined(b, b.lines, span, 0, span.first).places = b.places
    BY <2>14, RelinedLies
  <2> QED
    BY <2>1, <2>15 DEF c
<1>8. CASE b.span.first # 0 /\ ~isLineInSpan(b.span, span.first)
  <2>1. c = Relined(b, commitLineInfo(b), span, Len(b.bytes), span.first)
    BY <1>1, <1>8 DEF updateSourceLocation, BuildType, Relined
  <2>2. Tiled(commitLineInfo(b), Len(b.bytes)) /\ LinesCover(commitLineInfo(b), b.emitted)
    BY <1>1, CommittedLines
  <2>3. commitLineInfo(b) \in Seq(LineType)
    BY <2>2 DEF Tiled
  <2>4. \A n \in DOMAIN b.emitted : Len(b.bytes) <= b.emitted[n].at => CoveredBy(span, b.emitted[n].line)
    BY <1>2, <1>5
  <2> HIDE DEF c
  <2>5. Len(b.bytes) <= Len(b.bytes) /\ span.first <= span.first
    BY <1>2, <1>3
  <2>10. commitLineInfo(b) \in Seq(LineType) /\ span \in [first : Nat, last : Nat] /\ Len(b.bytes) \in Nat
    BY <1>2, <1>3, <2>2, <2>3, <2>4, <2>5
  <2>11. Tiled(commitLineInfo(b), Len(b.bytes)) /\ Len(b.bytes) <= Len(b.bytes) /\ LinesCover(commitLineInfo(b), b.emitted)
    BY <1>2, <1>3, <2>2, <2>3, <2>4, <2>5
  <2>12. \A n \in DOMAIN b.emitted : Len(b.bytes) <= b.emitted[n].at => CoveredBy(span, b.emitted[n].line)
    BY <1>2, <1>3, <2>2, <2>3, <2>4, <2>5
  <2>13. span.first <= span.first /\ span.first <= span.last /\ span.first # 0
    BY <1>2, <1>3, <2>2, <2>3, <2>4, <2>5
  <2>14. MayBeRelined(b, commitLineInfo(b), span, Len(b.bytes), span.first)
    BY <1>3, <2>10, <2>11, <2>12, <2>13 DEF MayBeRelined
  <2>15. Lies(Relined(b, commitLineInfo(b), span, Len(b.bytes), span.first), end)
         /\ Relined(b, commitLineInfo(b), span, Len(b.bytes), span.first).places = b.places
    BY <2>14, RelinedLies
  <2> QED
    BY <2>1, <2>15 DEF c
<1>9. CASE b.span.first # 0 /\ isLineInSpan(b.span, span.first) /\ span.last > b.span.last
  <2>0. PICK wider : wider = [b.span EXCEPT !.last = span.last]
    OBVIOUS
  <2>1. c = Relined(b, b.lines, wider, b.offsetStart, span.first)
    BY <1>1, <1>9, <2>0 DEF updateSourceLocation, BuildType, Relined
  <2>2. /\ wider \in [first : Nat, last : Nat] /\ wider.first = b.span.first /\ wider.last = span.last
    BY <1>2, <1>3, <2>0
  <2> HIDE DEF c
  <2>3. b.span.first <= span.first
    BY <1>9 DEF isLineInSpan
  <2>4. \A n \in DOMAIN b.emitted : b.offsetStart <= b.emitted[n].at => CoveredBy(wider, b.emitted[n].line)
    <3> SUFFICES ASSUME NEW n \in DOMAIN b.emitted, b.offsetStart <= b.emitted[n].at, b.emitted[n].line # 0
                 PROVE  wider.first <= b.emitted[n].line /\ b.emitted[n].line <= wider.last
      BY DEF CoveredBy
    <3>1. b.span.first <= b.emitted[n].line /\ b.emitted[n].line <= b.span.last /\ b.emitted[n].line \in Nat
      BY <1>4, <1>5 DEF CoveredBy
    <3> QED
      BY <1>3, <1>9, <2>2, <3>1
  <2>10. b.lines \in Seq(LineType) /\ wider \in [first : Nat, last : Nat] /\ b.offsetStart \in Nat
    BY <1>2, <1>3, <1>4, <1>9, <2>2, <2>3, <2>4
  <2>11. Tiled(b.lines, b.offsetStart) /\ b.offsetStart <= Len(b.bytes) /\ LinesCover(b.lines, b.emitted)
    BY <1>2, <1>3, <1>4, <1>9, <2>2, <2>3, <2>4
  <2>12. \A n \in DOMAIN b.emitted : b.offsetStart <= b.emitted[n].at => CoveredBy(wider, b.emitted[n].line)
    BY <1>2, <1>3, <1>4, <1>9, <2>2, <2>3, <2>4
  <2>13. wider.first <= span.first /\ span.first <= wider.last /\ wider.first # 0
    BY <1>2, <1>3, <1>4, <1>9, <2>2, <2>3, <2>4
  <2>14. MayBeRelined(b, b.lines, wider, b.offsetStart, span.first)
    BY <1>3, <2>10, <2>11, <2>12, <2>13 DEF MayBeRelined
  <2>15. Lies(Relined(b, b.lines, wider, b.offsetStart, span.first), end)
         /\ Relined(b, b.lines, wider, b.offsetStart, span.first).places = b.places
    BY <2>14, RelinedLies
  <2> QED
    BY <2>1, <2>15 DEF c
<1>10. CASE b.span.first # 0 /\ isLineInSpan(b.span, span.first) /\ ~(span.last > b.span.last)
  <2>1. c = Relined(b, b.lines, b.span, b.offsetStart, span.first)
    BY <1>1, <1>10 DEF updateSourceLocation, BuildType, Relined
  <2> HIDE DEF c
  <2>2. b.span.first <= span.first /\ span.first <= b.span.last
    BY <1>10 DEF isLineInSpan
  <2>10. b.lines \in Seq(LineType) /\ b.span \in [first : Nat, last : Nat] /\ b.offsetStart \in Nat
    BY <1>2, <1>3, <1>4, <1>10, <2>2
  <2>11. Tiled(b.lines, b.offsetStart) /\ b.offsetStart <= Len(b.bytes) /\ LinesCover(b.lines, b.emitted)
    BY <1>2, <1>3, <1>4, <1>10, <2>2
  <2>12. \A n \in DOMAIN b.emitted : b.offsetStart <= b.emitted[n].at => CoveredBy(b.span, b.emitted[n].line)
    BY <1>2, <1>3, <1>4, <1>10, <2>2
  <2>13. b.span.first <= span.first /\ span.first <= b.span.last /\ b.span.first # 0
    BY <1>2, <1>3, <1>4, <1>10, <2>2
  <2>14. MayBeRelined(b, b.lines, b.span, b.offsetStart, span.first)
    BY <1>3, <2>10, <2>11, <2>12, <2>13 DEF MayBeRelined
  <2>15. Lies(Relined(b, b.lines, b.span, b.offsetStart, span.first), end)
         /\ Relined(b, b.lines, b.span, b.offsetStart, span.first).places = b.places
    BY <2>14, RelinedLies
  <2> QED
    BY <2>1, <2>15 DEF c
<1> QED
  BY <1>7, <1>8, <1>9, <1>10

(* What a piece leaves to be patched fits it. *)
LEMMA NotesAre ==
    ASSUME NEW pieces, Len(pieces) \in Nat, NEW n \in 1..Len(pieces), PieceFits(functions, pieces, n),
           pieces[n].do # "line", NEW b, Lies(b, Len(pieces) + 1), Len(b.places) = n
    PROVE  LET i == InstructionOf(b, pieces[n])
           IN  InstructionFits(i[1], i[2])
               /\ NotesFit(b, Len(pieces) + 1, i[1], i[2], ToPatch(b, pieces[n]))
<1> DEFINE p == pieces[n]
           i == InstructionOf(b, p)
           e == Entry(b.bytes, i[1], i[2], b.source)
           end == Len(pieces) + 1
<1>1. b.bytes \in Seq(ByteType) /\ b.places \in Seq(Nat) /\ n \in Nat /\ DOMAIN b.places = 1..n
  BY DEF Lies, BuildType
<1>2. PICK at \in Nat : at = Len(b.bytes)
  BY <1>1
<1>3. \A t \in 1..n : b.places[t] \in Nat /\ b.places[t] \in ToSet(b.places)
  BY <1>1 DEF ToSet
<1>4. /\ InstructionFits(i[1], i[2])
      /\ i[1] \in Jumps => /\ p.do \in {"back", "ahead"}
                           /\ p.do = "back" => i[2][1][2] = b.places[p.to] - Len(b.bytes)
      /\ i[1] = "JUMP_TABLE" => p.do = "table" /\ Len(i[2]) = p.hi - p.lo + 4
      /\ p.do \in {"back", "ahead"} => i[1] \in Jumps
      /\ p.do = "table" => i[1] = "JUMP_TABLE"
  <2>1. n \in Nat /\ p.do # "line" /\ PieceFits(functions, pieces, n)
    BY <1>1
  <2>2. Len(b.bytes) \in Nat /\ \A t \in 1..n : b.places[t] \in Nat
    BY <1>2, <1>3
  <2> QED
    BY <2>1, <2>2, InstructionIs
<1>5. e.at = at /\ e.op = i[1] /\ e.operands = Remembered(i[2])
  BY <1>2 DEF Entry
<1>6. Len(e.operands) = Len(i[2])
  <2>1. i[2] \in Seq(OperandType)
    BY <1>4 DEF InstructionFits
  <2>2. DOMAIN Remembered(i[2]) = 1..Len(i[2]) /\ Len(i[2]) \in Nat
    BY <2>1 DEF Remembered
  <2>3. Remembered(i[2]) = [k \in 1..Len(i[2]) |-> Remembered(i[2])[k]]
    BY <2>1 DEF Remembered
  <2>4. Len(Remembered(i[2])) = Len(i[2])
    BY <2>2, <2>3
  <2> QED
    BY <1>5, <2>4
<1> HIDE DEF i, p, e
<1>7. CASE p.do = "ahead"
  <2>1. p.to \in (n + 1)..end
    BY <1>7 DEF PieceFits, p
  <2>2. ToPatch(b, p) = {[at |-> at + 1, base |-> at, to |-> p.to]}
    BY <1>2, <1>7 DEF ToPatch
  <2>3. Targets(e) = {1}
    BY <1>4, <1>5, <1>7 DEF Targets
  <2>4. Place(e, 1) = at + 1
    BY <1>5 DEF Place
  <2>5. ToPatch(b, p) \in SUBSET [at : Nat, base : Nat, to : (n + 1)..end]
    BY <2>1, <2>2
  <2> QED
    BY <1>4, <1>5, <2>2, <2>3, <2>4, <2>5 DEF NotesFit, i, p, e
<1>8. CASE p.do = "back"
  <2>1. p.to \in 1..n
    BY <1>8 DEF PieceFits, p
  <2>2. ToPatch(b, p) = {}
    BY <1>8 DEF ToPatch
  <2>3. Targets(e) = {1}
    BY <1>4, <1>5, <1>8 DEF Targets
  <2>4. i[2][1][2] = b.places[p.to] - at
    BY <1>2, <1>4, <1>8
  <2>5. b.places[p.to] \in Nat /\ b.places[p.to] \in ToSet(b.places)
    BY <1>3, <2>1
  <2>6. at + i[2][1][2] = b.places[p.to]
    BY <2>4, <2>5
  <2>7. e.at + i[2][1][2] \in ToSet(b.places)
    BY <1>5, <2>5, <2>6
  <2> QED
    BY <1>4, <2>2, <2>3, <2>7 DEF NotesFit, i, p, e
<1>9. CASE p.do = "table"
  <2>1. /\ p.lo \in Int /\ p.hi \in Int /\ p.lo <= p.hi
        /\ p.to \in [1..(p.hi - p.lo + 2) -> (n + 1)..end]
    BY <1>9 DEF PieceFits, p
  <2>2. PICK cells \in Nat : cells = p.hi - p.lo + 2
    BY <2>1
  <2>3. /\ DOMAIN p.to = 1..cells
        /\ \A k \in 1..cells : p.to[k] \in (n + 1)..end
    BY <2>1, <2>2
  <2>4. ToPatch(b, p) = {[at |-> at + 17 + 8 * (k - 1), base |-> at, to |-> p.to[k]] : k \in 1..cells}
    BY <1>2, <1>9, <2>3 DEF ToPatch
  <2>5. e.op = "JUMP_TABLE" /\ "JUMP_TABLE" \notin Jumps
    BY <1>4, <1>5, <1>9 DEF Jumps
  <2>6. Len(e.operands) = cells + 2
    <3>1. Len(i[2]) = p.hi - p.lo + 4
      BY <1>4, <1>9
    <3> QED
      BY <1>6, <2>1, <2>2, <3>1
  <2>7. Targets(e) = 3..(cells + 2)
    BY <2>5, <2>6 DEF Targets
  <2>8. \A k \in 1..cells : /\ k + 2 \in 3..(cells + 2) /\ Place(e, k + 2) = at + 17 + 8 * (k - 1)
                            /\ at + 17 + 8 * (k - 1) \in Nat
    <3> SUFFICES ASSUME NEW k \in 1..cells
                 PROVE  /\ k + 2 \in 3..(cells + 2) /\ Place(e, k + 2) = at + 17 + 8 * (k - 1)
                        /\ at + 17 + 8 * (k - 1) \in Nat
      OBVIOUS
    <3>1. PICK m \in Nat : k = m + 1
      <4>1. k - 1 \in Nat /\ k = (k - 1) + 1
        OBVIOUS
      <4> QED
        BY <4>1
    <3>2. at + 17 + 8 * (k - 1) = at + 17 + 8 * m /\ at + 17 + 8 * m \in Nat
      BY <3>1
    <3>3. Place(e, k + 2) = at + 1 + 8 * (m + 2)
      <4>1. (k + 2) - 1 = m + 2
        BY <3>1
      <4> QED
        BY <1>5, <4>1 DEF Place
    <3>4. k + 2 \in 3..(cells + 2)
      BY <2>2
    <3> QED
      BY <3>2, <3>3, <3>4
  <2>9. \A k \in 3..(cells + 2) : k - 2 \in 1..cells /\ (k - 2) + 2 = k
    BY <2>2
  <2>10. ToPatch(b, p) \in SUBSET [at : Nat, base : Nat, to : (n + 1)..end]
    BY <2>3, <2>4, <2>8
  <2>11. \A h \in ToPatch(b, p) : \E k \in Targets(e) : h.at = Place(e, k) /\ h.base = e.at
    <3> SUFFICES ASSUME NEW h \in ToPatch(b, p)
                 PROVE  \E k \in Targets(e) : h.at = Place(e, k) /\ h.base = e.at
      OBVIOUS
    <3>1. PICK j \in 1..cells : h = [at |-> at + 17 + 8 * (j - 1), base |-> at, to |-> p.to[j]]
      BY <2>4
    <3>2. h.at = at + 17 + 8 * (j - 1) /\ h.base = e.at
      BY <1>5, <3>1
    <3>3. h.at = Place(e, j + 2) /\ j + 2 \in Targets(e)
      BY <2>7, <2>8, <3>2
    <3> QED
      BY <3>2, <3>3
  <2>12. \A k \in Targets(e) : \E h \in ToPatch(b, p) : h.at = Place(e, k)
    <3> SUFFICES ASSUME NEW k \in 3..(cells + 2) PROVE \E h \in ToPatch(b, p) : h.at = Place(e, k)
      BY <2>7
    <3>1. PICK j \in 1..cells : j + 2 = k
      BY <2>9
    <3>2. [at |-> at + 17 + 8 * (j - 1), base |-> at, to |-> p.to[j]] \in ToPatch(b, p)
      BY <2>4
    <3> QED
      BY <2>8, <3>1, <3>2
  <2> QED
    BY <1>4, <2>10, <2>11, <2>12 DEF NotesFit, i, p, e
<1>10. CASE p.do \notin {"ahead", "back", "table"}
  <2>1. ToPatch(b, p) = {}
    BY <1>10 DEF ToPatch
  <2>2. Targets(e) = {}
    BY <1>4, <1>5, <1>10 DEF Targets
  <2> QED
    BY <1>4, <2>1, <2>2 DEF NotesFit, i, p, e
<1> QED
  BY <1>7, <1>8, <1>9, <1>10

(* A piece is compiled. *)
LEMMA PieceLies ==
    ASSUME NEW pieces, Len(pieces) \in Nat, NEW n \in 1..Len(pieces), PieceFits(functions, pieces, n),
           NEW b, Lies(b, Len(pieces) + 1), Len(b.places) = n
    PROVE  LET c == compilePiece(b, pieces[n]) IN
           Lies(c, Len(pieces) + 1) /\ c.places = b.places
<1> DEFINE p == pieces[n]
           end == Len(pieces) + 1
           c == compilePiece(b, p)
<1>1. CASE p.do = "line"
  <2>1. p.span \in [first : Nat \ {0}, last : Nat] /\ p.span.first <= p.span.last
    BY <1>1 DEF PieceFits
  <2>2. c = [updateSourceLocation(b, p.span) EXCEPT !.source = p.span.first]
    BY <1>1 DEF compilePiece
  <2> QED
    BY <2>1, <2>2, LineLies
<1>2. CASE p.do # "line"
  <2> DEFINE i == InstructionOf(b, p)
             noted == ToPatch(b, p)
  <2>1. InstructionFits(i[1], i[2]) /\ NotesFit(b, end, i[1], i[2], noted)
    BY <1>2, NotesAre
  <2>2. c = [pushInstruction(b, i) EXCEPT !.pending = @ \cup noted]
    BY <1>2 DEF compilePiece
  <2>3. Pushes(b, c, i[1], i[2], noted)
    <3>1. b \in [bytes : Seq(ByteType), lines : Seq(LineType), span : [first : Nat, last : Nat], offsetStart : Nat,
                 last : Ops \cup {"NOP"}, emitted : Seq(ToSet(b.emitted)), places : Seq(Nat),
                 pending : SUBSET [at : Nat, base : Nat, to : Nat], source : Nat]
      BY DEF Lies, BuildType
    <3> HIDE DEF c, i, noted
    <3> QED
      BY <2>2, <3>1 DEF Pushes, pushInstruction, After, Entry, Remembered
  <2> HIDE DEF c, i, noted
  <2>4. end \in Nat
    OBVIOUS
  <2>5. Lies(c, end) /\ c.places = b.places
    BY <2>1, <2>3, <2>4, PushLies
  <2> QED
    BY <2>5 DEF c
<1> QED
  BY <1>1, <1>2

(* The compiler begins with nothing. *)
LEMMA FreshLies ==
    ASSUME NEW end \in Nat
    PROVE  Lies(Fresh, end) /\ Len(Fresh.places) = 0
<1> DEFINE b == Fresh
<1>1. /\ b.bytes = <<>> /\ b.lines = <<>> /\ b.span = [first |-> 0, last |-> 0] /\ b.offsetStart = 0
      /\ b.last = "NOP" /\ b.emitted = <<>> /\ b.places = <<>> /\ b.pending = {} /\ b.source = 0
  BY DEF Fresh
<1>2. BuildType(b)
  <2>1. b \in [bytes : Seq(ByteType), lines : Seq(LineType), span : [first : Nat, last : Nat], offsetStart : Nat,
               last : Ops \cup {"NOP"}, emitted : Seq(ToSet(b.emitted)), places : Seq(Nat),
               pending : SUBSET [at : Nat, base : Nat, to : Nat], source : Nat]
    BY DEF Fresh
  <2> QED
    BY <1>1, <2>1 DEF BuildType
<1> HIDE DEF b
<1>3. CodeLies(b.bytes, b.emitted)
  BY <1>1 DEF CodeLies
<1>4. NamesFunction(b.bytes, b.emitted) /\ PlacesAreStarts(b) /\ Settled(b)
  BY <1>1 DEF NamesFunction, PlacesAreStarts, Settled
<1>5. Tiled(b.lines, b.offsetStart)
  BY <1>1 DEF Tiled
<1>6. SpansCover(b)
  BY <1>1, <1>5 DEF SpansCover, LinesCover, CoveredBy
<1> QED
  BY <1>1, <1>2, <1>3, <1>4, <1>6 DEF Lies, b

(* A block ends where its last pieces' jumps go, behind a RET.              *)
BlockOf(b) == [bytes |-> b.bytes, lines |-> commitLineInfo(b), emitted |-> b.emitted]

LEMMA DoneLies ==
    ASSUME NEW b, NEW end \in Nat, Lies(b, end), b.pending = {}, b.emitted # <<>>,
           b.emitted[Len(b.emitted)].op = "RET"
    PROVE  BlockLies(BlockOf(b))
<1> DEFINE x == BlockOf(b)
<1>1. BuildType(b) /\ CodeLies(b.bytes, b.emitted) /\ SpansCover(b) /\ PlacesAreStarts(b) /\ Settled(b)
      /\ NamesFunction(b.bytes, b.emitted)
  BY DEF Lies
<1>2. x.bytes = b.bytes /\ x.lines = commitLineInfo(b) /\ x.emitted = b.emitted
  BY DEF BlockOf
<1>3. commitLineInfo(b) # <<>> /\ Tiled(commitLineInfo(b), Len(b.bytes)) /\ LinesCover(commitLineInfo(b), b.emitted)
  BY <1>1, CommittedLines
<1>4. x \in [bytes : Seq(ByteType), lines : Seq(LineType), emitted : Seq(ToSet(b.emitted))]
  BY <1>1, <1>3 DEF BlockOf, BuildType, Tiled
<1> HIDE DEF x
<1>5. LandsIn(x)
  <2> SUFFICES ASSUME NEW n \in DOMAIN b.emitted, NEW k \in Targets(b.emitted[n])
               PROVE  b.emitted[n].at + Val(b.bytes, b.emitted[n], k) \in Starts(b.emitted) \cup {Len(b.bytes)}
    BY <1>2 DEF LandsIn
  <2>1. b.emitted[n].at + Val(b.bytes, b.emitted[n], k) \in ToSet(b.places)
    BY <1>1 DEF Settled
  <2>2. PICK t \in DOMAIN b.places : b.places[t] = b.emitted[n].at + Val(b.bytes, b.emitted[n], k)
    BY <2>1 DEF ToSet
  <2>3. b.places[t] \in Starts(b.emitted) \cup {Len(b.bytes)}
    BY <1>1 DEF PlacesAreStarts
  <2> QED
    BY <2>2, <2>3
<1>6. BlockLies(x)
  BY <1>1, <1>2, <1>3, <1>4, <1>5 DEF BlockLies
<1> QED
  BY <1>6 DEF x

LEMMA RetPushed ==
    ASSUME NEW b, NEW end \in Nat, Lies(b, end), b.pending = {}
    PROVE  BlockLies(BlockOf(pushInstruction(b, pushPlain("RET", <<0>>))))
<1> DEFINE i == pushPlain("RET", <<0>>)
           d == pushInstruction(b, i)
           e == Entry(b.bytes, i[1], i[2], b.source)
<1>1. i[1] = "RET" /\ InstructionFits(i[1], i[2])
  <2>1. "RET" \in Plain /\ Pushed["RET"] = <<"size">>
    BY PlainIs DEF Sizes8
  <2>2. <<0>> \in Seq(Int) /\ Len(<<0>>) >= Len(Pushed["RET"])
    BY <2>1
  <2>3. "RET" # "CALL"
    OBVIOUS
  <2>4. pushPlain("RET", <<0>>)[1] = "RET" /\ InstructionFits("RET", pushPlain("RET", <<0>>)[2])
    BY <2>1, <2>2, <2>3, PlainFits
  <2> QED
    BY <2>4
<1>2. Targets(e) = {}
  BY <1>1 DEF Targets, Entry, Jumps
<1>3. NotesFit(b, end, i[1], i[2], {})
  BY <1>2 DEF NotesFit
<1>4. b \in [bytes : Seq(ByteType), lines : Seq(LineType), span : [first : Nat, last : Nat], offsetStart : Nat,
             last : Ops \cup {"NOP"}, emitted : Seq(ToSet(b.emitted)), places : Seq(Nat),
             pending : SUBSET [at : Nat, base : Nat, to : Nat], source : Nat]
  BY DEF Lies, BuildType
<1>10. d = pushInstruction(b, i) /\ b.pending \cup {} = b.pending
  OBVIOUS
<1> HIDE DEF i, d, e
<1>5. Pushes(b, d, i[1], i[2], {})
  BY <1>4, <1>10 DEF Pushes, pushInstruction, After, Entry, Remembered
<1>6. d.pending = {} /\ d.emitted = Append(b.emitted, e) /\ d.last = i[1]
  BY <1>4, <1>5, <1>10 DEF Pushes, e
<1>7. Lies(d, end)
  BY <1>1, <1>3, <1>5, PushLies
<1>8. d.emitted # <<>> /\ d.emitted[Len(d.emitted)].op = "RET"
  <2>1. d.last = "RET" /\ "RET" # "NOP"
    BY <1>1, <1>6
  <2>2. d.last = IF d.emitted = <<>> THEN "NOP" ELSE d.emitted[Len(d.emitted)].op
    BY <1>7 DEF Lies, BuildType
  <2> QED
    BY <2>1, <2>2
<1>9. BlockLies(BlockOf(d))
  BY <1>6, <1>7, <1>8, DoneLies
<1> QED
  BY <1>9 DEF d, i

LEMMA FinishLies ==
    ASSUME NEW b, NEW end \in Nat, Lies(b, end), Len(b.places) = end
    PROVE  BlockLies(BlockOf(Finish(b)))
<1>1. b.pending = {}
  <2>1. \A h \in b.pending : h.to \in (end + 1)..end
    BY DEF Lies
  <2> QED
    BY <2>1
<1>2. CASE Current.unit \/ b.last # "RET"
  <2>1. Finish(b) = pushInstruction(b, pushPlain("RET", <<0>>))
    BY <1>2 DEF Finish
  <2> QED
    BY <1>1, <2>1, RetPushed
<1>3. CASE ~(Current.unit \/ b.last # "RET")
  <2>1. Finish(b) = b /\ b.last = "RET" /\ "RET" # "NOP"
    BY <1>3 DEF Finish
  <2>2. b.last = IF b.emitted = <<>> THEN "NOP" ELSE b.emitted[Len(b.emitted)].op
    BY DEF Lies, BuildType
  <2>3. b.emitted # <<>> /\ b.emitted[Len(b.emitted)].op = "RET"
    BY <2>1, <2>2
  <2> QED
    BY <1>1, <2>1, <2>3, DoneLies
<1> QED
  BY <1>2, <1>3

(* The builder's steps keep what was laid out. *)
LEMMA BuildGoesOn ==
    ASSUME BuildInv, BuildPiece
    PROVE  BuildInv'
<1> DEFINE pieces == Current.pieces
           b == Arrive(build)
           n == Len(build.places) + 1
<1>1. /\ ProgramFits(functions) /\ exes \in Seq(ToSet(exes)) /\ Len(exes) <= Len(functions)
      /\ \A k \in DOMAIN exes : BlockLies(exes[k])
  BY DEF BuildInv
<1>2. /\ Len(exes) < Len(functions) /\ Len(build.places) < Len(pieces)
      /\ build' = compilePiece(b, pieces[Len(b.places)]) /\ functions' = functions /\ exes' = exes
  BY DEF BuildPiece
<1>3. Len(exes) \in Nat /\ Len(functions) \in Nat /\ Len(exes) + 1 \in DOMAIN functions
  <2>1. functions \in Seq(ToSet(functions))
    BY <1>1 DEF ProgramFits
  <2> QED
    BY <1>1, <1>2, <2>1
<1>4. pieces \in Seq(ToSet(pieces)) /\ Len(pieces) \in Nat /\ DOMAIN pieces = 1..Len(pieces)
      /\ \A k \in DOMAIN pieces : PieceFits(functions, pieces, k)
  <2>1. pieces \in Seq(ToSet(pieces)) /\ \A k \in DOMAIN pieces : PieceFits(functions, pieces, k)
    BY <1>1, <1>3 DEF ProgramFits, Current
  <2> HIDE DEF pieces
  <2> QED
    BY <2>1
<1>5. Lies(build, Len(pieces) + 1)
  BY <1>2 DEF BuildInv, Building, BuildLies
<1>6. Len(build.places) \in Nat
  BY <1>5 DEF Lies, BuildType
<1> HIDE DEF pieces, b
<1>7. Lies(b, Len(pieces) + 1) /\ Len(b.places) = n /\ n \in 1..Len(pieces)
  <2>1. Len(pieces) + 1 \in Nat
    BY <1>4
  <2>2. Lies(b, Len(pieces) + 1) /\ Len(b.places) = n
    BY <1>5, <2>1, ArriveLies DEF b
  <2> QED
    BY <1>2, <1>4, <1>6, <2>2
<1>8. Lies(build', Len(pieces) + 1) /\ Len(build'.places) <= Len(pieces)
  <2> DEFINE c == compilePiece(b, pieces[n])
  <2>1. PieceFits(functions, pieces, n)
    BY <1>4, <1>7
  <2>2. Lies(c, Len(pieces) + 1) /\ c.places = b.places
    BY <1>4, <1>7, <2>1, PieceLies
  <2>3. build' = c
    BY <1>2, <1>7
  <2> HIDE DEF c
  <2> QED
    BY <1>7, <2>2, <2>3
<1>9. pieces' = pieces
  BY <1>2 DEF pieces, Current
<1>10. BuildLies(build, pieces)'
  BY <1>2, <1>8, <1>9 DEF BuildLies, Lies, NamesFunction
<1>11. \A k \in DOMAIN exes' : BlockLies(exes[k])'
  BY <1>1, <1>2 DEF BlockLies, NamesFunction
<1> QED
  BY <1>1, <1>2, <1>10, <1>11 DEF BuildInv, pieces

LEMMA CommitGoesOn ==
    ASSUME BuildInv, Commit
    PROVE  BuildInv'
<1> DEFINE pieces == Current.pieces
           b == Arrive(build)
           x == BlockOf(Finish(b))
<1>1. /\ ProgramFits(functions) /\ exes \in Seq(ToSet(exes)) /\ Len(exes) <= Len(functions)
      /\ \A k \in DOMAIN exes : BlockLies(exes[k])
  BY DEF BuildInv
<1>2. /\ Len(exes) < Len(functions) /\ Len(build.places) = Len(pieces)
      /\ exes' = Append(exes, x) /\ build' = clear(build) /\ functions' = functions
  BY DEF Commit, BlockOf
<1>3. /\ functions \in Seq(ToSet(functions)) /\ Len(exes) \in Nat /\ Len(functions) \in Nat
      /\ Len(exes) + 1 \in DOMAIN functions
  <2>1. functions \in Seq(ToSet(functions))
    BY <1>1 DEF ProgramFits
  <2> QED
    BY <1>1, <1>2, <2>1
<1>4. Len(pieces) \in Nat
  <2>1. pieces \in Seq(ToSet(pieces))
    BY <1>1, <1>3 DEF ProgramFits, Current
  <2> HIDE DEF pieces
  <2> QED
    BY <2>1
<1>5. Lies(build, Len(pieces) + 1)
  BY <1>2 DEF BuildInv, Building, BuildLies
<1> HIDE DEF pieces, b, x
<1>6. BlockLies(x)
  <2>1. Len(pieces) + 1 \in Nat
    BY <1>4
  <2>2. Lies(b, Len(pieces) + 1) /\ Len(b.places) = Len(pieces) + 1
    BY <1>2, <1>5, <2>1, ArriveLies DEF b
  <2> QED
    BY <2>1, <2>2, FinishLies DEF x
<1>7. /\ Len(exes') = Len(exes) + 1 /\ DOMAIN exes' = 1..(Len(exes) + 1) /\ exes'[Len(exes) + 1] = x
      /\ \A k \in 1..Len(exes) : exes'[k] = exes[k] /\ k \in DOMAIN exes
  BY <1>1, <1>2
<1>8. \A k \in DOMAIN exes' : BlockLies(exes'[k])
  <2> SUFFICES ASSUME NEW k \in 1..(Len(exes) + 1) PROVE BlockLies(exes'[k])
    BY <1>7
  <2>1. CASE k = Len(exes) + 1
    BY <1>6, <1>7, <2>1
  <2>2. CASE k # Len(exes) + 1
    <3>1. k \in 1..Len(exes)
      BY <1>3, <2>2
    <3> QED
      BY <1>1, <1>7, <3>1
  <2> QED
    BY <2>1, <2>2
<1>9. \A k \in DOMAIN exes' : BlockLies(exes[k])'
  BY <1>2, <1>8 DEF BlockLies, NamesFunction
<1>10. exes' \in Seq(ToSet(exes'))
  <2>1. \A k \in 1..(Len(exes) + 1) : exes'[k] \in ToSet(exes')
    BY <1>7 DEF ToSet
  <2>2. exes' = [k \in 1..(Len(exes) + 1) |-> exes'[k]]
    <3>1. exes \in Seq(ToSet(exes) \cup {x})
      BY <1>1
    <3>2. Append(exes, x) \in Seq(ToSet(exes) \cup {x})
      BY <3>1
    <3> DEFINE S == ToSet(exes) \cup {x}
    <3> HIDE DEF S
    <3>4. exes' \in Seq(S)
      BY <1>2, <3>2 DEF S
    <3>3. exes' \in [1..(Len(exes) + 1) -> S]
      BY <1>7, <3>4
    <3> QED
      BY <3>3
  <2>3. exes' \in [1..(Len(exes) + 1) -> ToSet(exes')]
    BY <2>1, <2>2
  <2> QED
    BY <1>3, <2>3
<1>11. build' = Fresh
  BY <1>2, <1>5 DEF clear, Fresh, Lies, BuildType
<1>12. Building' => BuildLies(build, Current.pieces)'
  <2> SUFFICES ASSUME Building' PROVE BuildLies(build, Current.pieces)'
    OBVIOUS
  <2> DEFINE more == Current'.pieces
  <2>1. Len(exes') + 1 \in DOMAIN functions
    BY <1>2, <1>3, <1>7 DEF Building
  <2>2. more = functions[Len(exes') + 1].pieces
    BY <1>2 DEF Current
  <2>3. more \in Seq(ToSet(more))
    BY <1>1, <2>1, <2>2 DEF ProgramFits
  <2> HIDE DEF more
  <2>4. Len(more) \in Nat /\ Len(more) + 1 \in Nat
    BY <2>3
  <2>5. Lies(Fresh, Len(more) + 1) /\ Len(Fresh.places) = 0
    BY <2>4, FreshLies
  <2>6. Lies(build', Len(more) + 1) /\ Len(build'.places) <= Len(more)
    BY <1>11, <2>4, <2>5
  <2>7. more = (Current.pieces)'
    BY DEF more
  <2> QED
    BY <1>2, <2>6, <2>7 DEF BuildLies, Lies, NamesFunction
<1>13. Len(exes') <= Len(functions)
  BY <1>2, <1>3, <1>7
<1> QED
  BY <1>1, <1>2, <1>9, <1>10, <1>12, <1>13 DEF BuildInv

LEMMA BuildKept ==
    ASSUME BuildInv, UNCHANGED <<functions, build, exes>>
    PROVE  BuildInv'
<1>1. \A k \in DOMAIN exes' : BlockLies(exes[k])'
  BY DEF BuildInv, BlockLies, NamesFunction
<1>2. Building' => BuildLies(build, Current.pieces)'
  BY DEF BuildInv, Building, BuildLies, Current, Lies, NamesFunction
<1> QED
  BY <1>1, <1>2 DEF BuildInv

LEMMA BuildBegins ==
    ASSUME functions \in Listings, ListingStart
    PROVE  BuildInv
<1>1. ProgramFits(functions) /\ exes = <<>> /\ build = Fresh
  BY ListingAssumption DEF ListingStart
<1>2. functions \in Seq(ToSet(functions)) /\ functions # <<>>
  BY <1>1 DEF ProgramFits
<1>3. Len(functions) \in Nat /\ 1 \in DOMAIN functions
  BY <1>2
<1>4. Len(exes) = 0 /\ exes \in Seq(ToSet(exes)) /\ DOMAIN exes = {}
  BY <1>1
<1>5. BuildLies(build, Current.pieces)
  <2> DEFINE pieces == Current.pieces
  <2>1. pieces \in Seq(ToSet(pieces))
    BY <1>1, <1>3, <1>4 DEF ProgramFits, Current
  <2> HIDE DEF pieces
  <2>2. Len(pieces) \in Nat /\ Len(pieces) + 1 \in Nat
    BY <2>1
  <2>3. Lies(Fresh, Len(pieces) + 1) /\ Len(Fresh.places) = 0
    BY <2>2, FreshLies
  <2>4. BuildLies(build, pieces)
    BY <1>1, <2>2, <2>3 DEF BuildLies
  <2> QED
    BY <2>4 DEF pieces
<1> QED
  BY <1>1, <1>3, <1>4, <1>5 DEF BuildInv

(* What the builder lays out is kept by every step. *)
LEMMA BuildHolds ==
    ASSUME BuildInv, [ListingNext]_listingVars
    PROVE  BuildInv'
<1>1. CASE BuildPiece
  BY <1>1, BuildGoesOn
<1>2. CASE Commit
  BY <1>2, CommitGoesOn
<1>3. CASE UNCHANGED listingVars
  BY <1>3, BuildKept DEF listingVars
<1>4. CASE Collect \/ PrintFunction \/ PrintUnit \/ PrintBlock \/ PrintLine \/ PrintInstruction \/ BlockPrinted
  <2>1. UNCHANGED <<functions, build, exes>>
    BY <1>4 DEF Collect, PrintFunction, PrintUnit, PrintBlock, PrintLine, PrintInstruction, BlockPrinted
  <2> QED
    BY <2>1, BuildKept
<1> QED
  BY <1>1, <1>2, <1>3, <1>4 DEF ListingNext

-----------------------------------------------------------------------------
(* What is read out of code that was laid out.                              *)

(* The operands wanted are found one behind the other. *)
LEMMA FieldsAre ==
    ASSUME NEW bytes \in Seq(ByteType), NEW e, InstructionLies(bytes, e), NEW wanted, Regular(wanted),
           \A k \in DOMAIN wanted : k \in DOMAIN e.operands /\ wanted[k] = e.operands[k]
    PROVE  /\ DOMAIN Fields(bytes, e.at + 1, wanted) = DOMAIN wanted
           /\ \A k \in DOMAIN wanted :
                  /\ Fields(bytes, e.at + 1, wanted)[k].name = e.operands[k][1]
                  /\ Fields(bytes, e.at + 1, wanted)[k].width = e.operands[k][2]
                  /\ Fields(bytes, e.at + 1, wanted)[k].val = Val(bytes, e, k)
                  /\ Val(bytes, e, k) \in Int
<1>1. DOMAIN Fields(bytes, e.at + 1, wanted) = DOMAIN wanted
  BY DEF Fields
<1>2. ASSUME NEW k \in DOMAIN wanted
      PROVE  /\ Fields(bytes, e.at + 1, wanted)[k].name = e.operands[k][1]
             /\ Fields(bytes, e.at + 1, wanted)[k].width = e.operands[k][2]
             /\ Fields(bytes, e.at + 1, wanted)[k].val = Val(bytes, e, k)
             /\ Val(bytes, e, k) \in Int
  <2>1. k \in DOMAIN e.operands /\ wanted[k] = e.operands[k]
    OBVIOUS
  <2>2. e.at \in Nat /\ Regular(e.operands) /\ Laid(bytes, e)
    BY DEF InstructionLies
  <2>3. k \in Nat \ {0} /\ Place(e, k) \in Nat /\ Place(e, k) = e.at + 1 + 8 * (k - 1) /\ e.operands[k][2] \in {4, 8}
    BY <2>1, <2>2, PlacesAre
  <2>4. Offsets(wanted)[k - 1] = 8 * (k - 1)
    BY OffsetsAre
  <2>5. Fields(bytes, e.at + 1, wanted)[k] = Read(bytes, e.at + 1 + Offsets(wanted)[k - 1], wanted[k][2])
    BY DEF Fields
  <2>6. Fields(bytes, e.at + 1, wanted)[k] = Read(bytes, Place(e, k), e.operands[k][2])
    BY <2>1, <2>3, <2>4, <2>5
  <2>7. Whole(bytes, Place(e, k), e.operands[k][1], e.operands[k][2])
    BY <2>1, <2>2 DEF Laid
  <2>8. e.operands[k][2] \in {1, 4, 8}
    BY <2>3
  <2>9. /\ Read(bytes, Place(e, k), e.operands[k][2]) = bytes[Place(e, k) + 1][1]
        /\ bytes[Place(e, k) + 1][1].name = e.operands[k][1]
        /\ bytes[Place(e, k) + 1][1].width = e.operands[k][2]
        /\ bytes[Place(e, k) + 1][1].val \in Int
    BY <2>3, <2>7, <2>8, WholeIsRead, SMTT(40)
  <2> QED
    BY <2>6, <2>9 DEF Val
<1> QED
  BY <1>1, <1>2

(* The operands of a table begin with its bounds. *)
LEMMA TableBegins ==
    ASSUME NEW bytes \in Seq(ByteType), NEW e, InstructionLies(bytes, e), e.op = "JUMP_TABLE"
    PROVE  /\ Shown(e.op) = SubSeq(e.operands, 1, 2)
           /\ \A k \in {1, 2} : k \in DOMAIN e.operands /\ e.operands[k] = Shown(e.op)[k]
<1> DEFINE lo == Read(bytes, e.at + 1, 8).val
           hi == Read(bytes, e.at + 9, 8).val
<1>1. /\ e.operands = Shown(e.op) \o TableCells(lo, hi) /\ Len(e.operands) >= 2 /\ Regular(e.operands)
      /\ Shown(e.op) = << <<"min", 8>>, <<"max", 8>> >>
  BY ShownIs DEF InstructionLies, ShownAt
<1>2. /\ e.operands \in Seq(OperandNames \X {4, 8}) /\ Len(e.operands) \in Nat
      /\ DOMAIN e.operands = 1..Len(e.operands) /\ 1 \in DOMAIN e.operands /\ 2 \in DOMAIN e.operands
  BY <1>1 DEF Regular
<1>3. /\ e.at \in Nat /\ Place(e, 1) = e.at + 1 /\ Place(e, 2) = e.at + 9
      /\ Laid(bytes, e)
  <2>1. e.at \in Nat /\ Laid(bytes, e)
    BY DEF InstructionLies
  <2> QED
    BY <2>1 DEF Place
<1>5. e.operands[1] = Shown(e.op)[1] /\ e.operands[2] = Shown(e.op)[2]
  <2> HIDE DEF lo, hi
  <2>1. e.operands = Shown(e.op) \o TableCells(lo, hi)
    BY <1>1
  <2>2. Len(Shown(e.op)) = 2
    BY <1>1
  <2> QED
    BY <1>1, <1>2, <2>1, <2>2
<1>6. SubSeq(e.operands, 1, 2) = Shown(e.op)
  <2>1. SubSeq(e.operands, 1, 2) = [k \in 1..2 |-> e.operands[k]]
    BY <1>1, <1>2
  <2>2. Shown(e.op) = [k \in 1..2 |-> Shown(e.op)[k]]
    BY <1>1
  <2> QED
    BY <1>5, <2>1, <2>2
<1> QED
  BY <1>2, <1>5, <1>6

(* The operands of a jump are found by its offsets. *)
LEMMA TargetIsRead ==
    ASSUME NEW bytes \in Seq(ByteType), NEW e, InstructionLies(bytes, e), NEW k \in Targets(e)
    PROVE  Read(bytes, e.at + 1 + 8 * (k - 1), 8).val = Val(bytes, e, k)
<1>1. k \in DOMAIN e.operands /\ e.operands[k][2] = 8 /\ k \in Nat \ {0}
  BY TargetsAreWords
<1>2. e.at \in Nat /\ Regular(e.operands) /\ Laid(bytes, e)
  BY DEF InstructionLies
<1>3. Place(e, k) \in Nat /\ Place(e, k) = e.at + 1 + 8 * (k - 1)
  BY <1>1, <1>2, PlacesAre
<1>4. Whole(bytes, Place(e, k), e.operands[k][1], 8)
  BY <1>1, <1>2 DEF Laid
<1>5. Read(bytes, Place(e, k), 8) = bytes[Place(e, k) + 1][1]
  BY <1>3, <1>4, WholeIsRead
<1> QED
  BY <1>3, <1>5 DEF Val

(* A committed block is what a property says of it. *)
LEMMA BlockIsFetched ==
    ASSUME NEW x, BlockLies(x), NEW n \in DOMAIN x.emitted, x.emitted[n].op \notin MisreadBlob
    PROVE  LET e == x.emitted[n] IN
           /\ Fetched(e.op) = (IF e.op = "JUMP_TABLE" THEN SubSeq(e.operands, 1, 2) ELSE e.operands)
           /\ \A k \in DOMAIN Fetched(e.op) : Fields(x.bytes, e.at + 1, Fetched(e.op))[k].name = e.operands[k][1]
<1> DEFINE e == x.emitted[n]
<1>1. x.bytes \in Seq(ByteType) /\ InstructionLies(x.bytes, e)
  BY DEF BlockLies, CodeLies
<1> HIDE DEF e
<1>2. e.op \in Ops /\ e.operands = ShownAt(x.bytes, e.at, e.op) /\ Regular(e.operands)
  BY <1>1 DEF InstructionLies
<1>3. Fetched(e.op) = Shown(e.op)
  BY <1>2, FetchedIs DEF e
<1>4. Regular(Fetched(e.op))
  BY <1>2, <1>3, ShownRegular
<1>5. /\ Fetched(e.op) = (IF e.op = "JUMP_TABLE" THEN SubSeq(e.operands, 1, 2) ELSE e.operands)
      /\ \A k \in DOMAIN Fetched(e.op) : k \in DOMAIN e.operands /\ Fetched(e.op)[k] = e.operands[k]
  <2>1. CASE e.op = "JUMP_TABLE"
    <3>1. DOMAIN Shown(e.op) = {1, 2}
      <4>1. Shown(e.op) = << <<"min", 8>>, <<"max", 8>> >>
        BY <2>1, ShownIs
      <4> QED
        BY <4>1
    <3> QED
      BY <1>1, <1>3, <2>1, <3>1, TableBegins
  <2>2. CASE e.op # "JUMP_TABLE"
    <3>1. e.operands = Shown(e.op)
      BY <1>2, <2>2 DEF ShownAt
    <3> QED
      BY <1>3, <2>2, <3>1
  <2> QED
    BY <2>1, <2>2
<1>6. \A k \in DOMAIN Fetched(e.op) : Fields(x.bytes, e.at + 1, Fetched(e.op))[k].name = e.operands[k][1]
  <2>1. PICK wanted : wanted = Fetched(e.op)
    OBVIOUS
  <2>2. /\ x.bytes \in Seq(ByteType) /\ InstructionLies(x.bytes, e) /\ Regular(wanted)
        /\ \A k \in DOMAIN wanted : k \in DOMAIN e.operands /\ wanted[k] = e.operands[k]
    BY <1>1, <1>4, <1>5, <2>1
  <2>3. \A k \in DOMAIN wanted : Fields(x.bytes, e.at + 1, wanted)[k].name = e.operands[k][1]
    BY <2>2, FieldsAre
  <2> QED
    BY <2>1, <2>3
<1> QED
  BY <1>5, <1>6 DEF e

LEMMA BlockJumps ==
    ASSUME NEW x, BlockLies(x), NEW n \in DOMAIN x.emitted, ShownJumps(x.emitted[n].op) # <<>>
    PROVE  LET e == x.emitted[n] IN
           \A k \in (IF e.op = "JUMP_TABLE" THEN 3..Len(e.operands) ELSE {1}) :
               e.at + Read(x.bytes, e.at + 1 + 8 * (k - 1), 8).val
                   \in {f.at : f \in ToSet(x.emitted)} \cup
                       (IF x.emitted[Len(x.emitted)].op = "RET" THEN {Len(x.bytes)} ELSE {})
<1> DEFINE e == x.emitted[n]
<1>1. x.bytes \in Seq(ByteType) /\ InstructionLies(x.bytes, e)
  BY DEF BlockLies, CodeLies
<1>2. e.op \in Jumps \cup {"JUMP_TABLE"}
  BY DEF ShownJumps, Jumps
<1>3. Targets(e) = IF e.op = "JUMP_TABLE" THEN 3..Len(e.operands) ELSE {1}
  BY <1>2 DEF Targets, Jumps
<1>4. Starts(x.emitted) = {f.at : f \in ToSet(x.emitted)}
  BY DEF Starts, ToSet
<1> SUFFICES ASSUME NEW k \in Targets(e)
             PROVE  e.at + Read(x.bytes, e.at + 1 + 8 * (k - 1), 8).val
                        \in {f.at : f \in ToSet(x.emitted)} \cup
                            (IF x.emitted[Len(x.emitted)].op = "RET" THEN {Len(x.bytes)} ELSE {})
  BY <1>3
<1>5. e.at + Val(x.bytes, e, k) \in Starts(x.emitted) \cup
          (IF x.emitted[Len(x.emitted)].op = "RET" THEN {Len(x.bytes)} ELSE {})
  BY DEF BlockLies, LandsIn
<1>6. Read(x.bytes, e.at + 1 + 8 * (k - 1), 8).val = Val(x.bytes, e, k)
  BY <1>1, TargetIsRead
<1> QED
  BY <1>4, <1>5, <1>6

LEMMA BlocksAreCode ==
    ASSUME BuildInv
    PROVE  /\ FetchedAsPushed /\ JumpsToCode
           /\ \A b \in DOMAIN exes : LET lines == exes[b].lines IN
                  /\ lines[1].start = 0 /\ lines[Len(lines)].end = Len(exes[b].bytes)
                  /\ \A k \in 2..Len(lines) : lines[k].start = lines[k - 1].end /\ lines[k].start <= lines[k].end
<1>1. \A b \in DOMAIN exes : BlockLies(exes[b])
  BY DEF BuildInv
<1>2. FetchedAsPushed
  BY <1>1, BlockIsFetched DEF FetchedAsPushed
<1>3. JumpsToCode
  BY <1>1, BlockJumps DEF JumpsToCode
<1>4. ASSUME NEW b \in DOMAIN exes
      PROVE  LET lines == exes[b].lines IN
             /\ lines[1].start = 0 /\ lines[Len(lines)].end = Len(exes[b].bytes)
             /\ \A k \in 2..Len(lines) : lines[k].start = lines[k - 1].end /\ lines[k].start <= lines[k].end
  <2> DEFINE lines == exes[b].lines
  <2>1. lines # <<>> /\ Tiled(lines, Len(exes[b].bytes))
    BY <1>1 DEF BlockLies
  <2> HIDE DEF lines
  <2>2. lines[1].start = 0 /\ lines[Len(lines)].end = Len(exes[b].bytes)
    BY <2>1 DEF Tiled
  <2>3. PICK n \in Nat : n = Len(lines) /\ DOMAIN lines = 1..n
    BY <2>1 DEF Tiled
  <2>4. ASSUME NEW k \in 2..n PROVE lines[k].start = lines[k - 1].end /\ lines[k].start <= lines[k].end
    <3>1. PICK j \in 1..(n - 1) : k = j + 1 /\ j = k - 1
      <4>1. k - 1 \in 1..(n - 1) /\ k = (k - 1) + 1
        BY <2>3
      <4> QED
        BY <4>1
    <3>2. lines[j + 1].start = lines[j].end
      BY <2>1, <2>3 DEF Tiled
    <3>3. k \in 1..n
      BY <2>3
    <3>4. lines[k].start <= lines[k].end
      BY <2>1, <2>3, <3>3 DEF Tiled
    <3> QED
      BY <3>1, <3>2, <3>4
  <2> QED
    BY <2>2, <2>3, <2>4 DEF lines
<1> QED
  BY <1>2, <1>3, <1>4

-----------------------------------------------------------------------------
(* The disassembler.                                                        *)

(* What one turn of the binary search leaves of the search from l to r.     *)
From(lines, l) == IF l = 0 THEN 0 ELSE lines[l].end
HalvedLines(f, lines, target, l, r) ==
    LET mid == l + (r - l) \div 2
    IN IF r = -1 THEN Wild
       ELSE IF l > r THEN NoLine
       ELSE IF From(lines, mid) <= target /\ target < lines[mid + 1].end THEN mid + 1
       ELSE IF target >= lines[mid + 1].end THEN f[<<mid + 1, r>>]
       ELSE f[<<l, mid - 1>>]

LEMMA LinesHalve ==
    ASSUME NEW lines, NEW target, NEW n \in Nat, n = Len(lines), lines # <<>>
    PROVE  \E f : /\ \A l \in 0..n, r \in -1..(n - 1) : f[<<l, r>>] = HalvedLines(f, lines, target, l, r)
                  /\ findLineForOffset(lines, target) = f[<<0, n - 1>>]
<1> DEFINE D == (0..n) \X (-1..(n - 1))
           B(f, p) == HalvedLines(f, lines, target, p[1], p[2])
           R(f) == [p \in D |-> B(f, p)]
           G == CHOOSE f : f = R(f)
           Part(m) == {p \in D : p[2] - p[1] < m}
           Bad == {m \in 0..n : \A f : f # [p \in Part(m) |-> B(f, p)]}
<1>1. findLineForOffset(lines, target) = G[<<0, n - 1>>]
  BY DEF findLineForOffset, HalvedLines, From
<1>2. ASSUME NEW m \in 0..n, NEW f, NEW h, \A p \in Part(m - 1) : f[p] = h[p]
      PROVE  \A p \in Part(m) : B(f, p) = B(h, p)
  <2> TAKE p \in Part(m)
  <2>1. PICK l \in 0..n, r \in -1..(n - 1) : p = <<l, r>> /\ p[1] = l /\ p[2] = r /\ r - l < m
    OBVIOUS
  <2>2. PICK x \in Int : x = l + (r - l) \div 2
    OBVIOUS
  <2>3. CASE l > r
    BY <2>1, <2>3 DEF HalvedLines
  <2>4. CASE l <= r
    <3>1. l <= x /\ x <= r
      BY <2>1, <2>2, <2>4
    <3>2. <<x + 1, r>> \in Part(m - 1)
      <4>1. x + 1 \in 0..n /\ r \in -1..(n - 1) /\ r - (x + 1) < m - 1
        BY <2>1, <3>1
      <4> QED
        BY <4>1
    <3>3. <<l, x - 1>> \in Part(m - 1)
      <4>1. l \in 0..n /\ x - 1 \in -1..(n - 1) /\ (x - 1) - l < m - 1
        BY <2>1, <3>1
      <4> QED
        BY <4>1
    <3>4. f[<<x + 1, r>>] = h[<<x + 1, r>>] /\ f[<<l, x - 1>>] = h[<<l, x - 1>>]
      BY <1>2, <3>2, <3>3
    <3> QED
      BY <2>1, <2>2, <3>4 DEF HalvedLines
  <2> QED
    BY <2>1, <2>3, <2>4
<1>3. Part(n) = D
  OBVIOUS
<1> HIDE DEF B, D
<1>4. 0 \notin Bad
  <2> DEFINE h == [p \in Part(0) |-> IF p[2] = -1 THEN Wild ELSE NoLine]
  <2>1. \A p \in Part(0) : B(h, p) = IF p[2] = -1 THEN Wild ELSE NoLine
    <3> HIDE DEF h
    <3> QED
      BY DEF B, D, HalvedLines
  <2>2. h = [p \in Part(0) |-> B(h, p)]
    BY <2>1
  <2> QED
    BY <2>2
<1>5. ASSUME NEW m \in 0..n, m # 0, m \in Bad PROVE m - 1 \in Bad
  <2> SUFFICES ASSUME NEW f, f = [p \in Part(m - 1) |-> B(f, p)] PROVE FALSE
    BY <1>5
  <2> DEFINE h == [p \in Part(m) |-> B(f, p)]
  <2>1. Part(m - 1) \subseteq Part(m)
    BY DEF D
  <2>2. \A p \in Part(m - 1) : f[p] = h[p]
    <3>1. \A p \in Part(m - 1) : f[p] = B(f, p)
      OBVIOUS
    <3>2. \A p \in Part(m) : h[p] = B(f, p)
      OBVIOUS
    <3> QED
      BY <2>1, <3>1, <3>2
  <2>3. h = [p \in Part(m) |-> B(h, p)]
    <3> HIDE DEF h
    <3>1. \A p \in Part(m) : B(f, p) = B(h, p)
      <4> HIDE DEF Part
      <4> QED
        BY <1>2, <2>2
    <3>2. h = [p \in Part(m) |-> B(f, p)]
      BY DEF h
    <3> QED
      BY <3>1, <3>2
  <2> QED
    BY <1>5, <2>3
<1>6. Bad = {}
  <2> SUFFICES ASSUME Bad # {} PROVE FALSE
    OBVIOUS
  <2>1. Bad \in SUBSET Nat
    OBVIOUS
  <2>2. PICK m \in Bad : \A l \in Bad : m <= l
    BY <2>1, Smallest
  <2>3. m \in 0..n /\ m # 0
    BY <1>4
  <2>4. m - 1 \in Bad
    BY <1>5, <2>3
  <2> QED
    BY <2>2, <2>3, <2>4
<1>7. \E f : f = R(f)
  <2>1. n \in 0..n /\ n \notin Bad
    BY <1>6
  <2> QED
    BY <1>3, <2>1
<1>8. G = R(G)
  <2> HIDE DEF R
  <2> QED
    BY <1>7
<1> HIDE DEF G
<1>9. \A l \in 0..n, r \in -1..(n - 1) : G[<<l, r>>] = HalvedLines(G, lines, target, l, r)
  <2> TAKE l \in 0..n, r \in -1..(n - 1)
  <2>1. <<l, r>> \in D
    BY DEF D
  <2>2. G[<<l, r>>] = B(G, <<l, r>>)
    BY <1>8, <2>1
  <2> QED
    BY <2>2 DEF B
<1> QED
  BY <1>1, <1>9

(* An offset of the code lies in the line that is found for it. *)
InLine(lines, m, target) == m \in DOMAIN lines /\ lines[m].start <= target /\ target < lines[m].end

LEMMA LineIsFound ==
    ASSUME NEW lines, NEW upTo \in Nat, lines # <<>>, Tiled(lines, upTo), NEW target \in Nat, target < upTo
    PROVE  InLine(lines, findLineForOffset(lines, target), target)
<1>1. lines \in Seq(LineType)
  BY DEF Tiled
<1>2. PICK n \in Nat : n = Len(lines) /\ DOMAIN lines = 1..n /\ n # 0
  BY <1>1
<1>3. PICK f : /\ \A l \in 0..n, r \in -1..(n - 1) : f[<<l, r>>] = HalvedLines(f, lines, target, l, r)
               /\ findLineForOffset(lines, target) = f[<<0, n - 1>>]
  BY <1>2, LinesHalve
<1>4. \A k \in 1..n : lines[k].start \in Nat /\ lines[k].end \in Nat
  <2>1. \A k \in 1..n : lines[k] \in LineType
    BY <1>1, <1>2
  <2> QED
    BY <2>1 DEF LineType
<1>5. lines[1].start = 0 /\ lines[n].end = upTo
  BY <1>2 DEF Tiled
<1>6. \A k \in 0..(n - 1) : k + 1 \in 1..n /\ From(lines, k) = lines[k + 1].start /\ From(lines, k) \in Nat
  <2> TAKE k \in 0..(n - 1)
  <2>1. k + 1 \in 1..n
    BY <1>2
  <2>2. CASE k = 0
    BY <1>4, <1>5, <2>1, <2>2 DEF From
  <2>3. CASE k # 0
    <3>1. k \in 1..(n - 1) /\ k \in 1..n
      BY <1>2, <2>3
    <3>2. lines[k + 1].start = lines[k].end
      BY <1>2, <3>1 DEF Tiled
    <3> QED
      BY <1>4, <2>1, <2>3, <3>1, <3>2 DEF From
  <2> QED
    BY <2>2, <2>3
<1> DEFINE Inside(l, r) == From(lines, l) <= target /\ target < lines[r + 1].end
           Bad == {m \in Nat : \E l \in 0..(n - 1), r \in 0..(n - 1) :
                       r - l = m /\ Inside(l, r) /\ ~ InLine(lines, f[<<l, r>>], target)}
<1>7. ASSUME NEW m \in Bad PROVE \E j \in Bad : j < m
  <2>1. PICK l \in 0..(n - 1), r \in 0..(n - 1) :
            r - l = m /\ Inside(l, r) /\ ~ InLine(lines, f[<<l, r>>], target)
    OBVIOUS
  <2>2. l <= r
    BY <2>1
  <2>3. PICK x \in Int : x = l + (r - l) \div 2 /\ l <= x /\ x <= r
    BY <2>2
  <2>4. x \in 0..(n - 1) /\ x + 1 \in 1..n
    BY <1>2, <2>3
  <2>5. f[<<l, r>>] = HalvedLines(f, lines, target, l, r)
    <3>1. l \in 0..n /\ r \in -1..(n - 1)
      BY <1>2
    <3> QED
      BY <1>3, <3>1
  <2>6. f[<<l, r>>] = IF From(lines, x) <= target /\ target < lines[x + 1].end THEN x + 1
                      ELSE IF target >= lines[x + 1].end THEN f[<<x + 1, r>>]
                      ELSE f[<<l, x - 1>>]
    <3>1. r # -1 /\ ~ (l > r)
      BY <2>2
    <3> QED
      BY <2>3, <2>5, <3>1 DEF HalvedLines
  <2>7. ~ (From(lines, x) <= target /\ target < lines[x + 1].end)
    <3> SUFFICES ASSUME From(lines, x) <= target, target < lines[x + 1].end PROVE FALSE
      OBVIOUS
    <3>1. f[<<l, r>>] = x + 1
      BY <2>6
    <3>2. InLine(lines, x + 1, target)
      BY <1>2, <1>6, <2>4 DEF InLine
    <3> QED
      BY <2>1, <3>1, <3>2
  <2>8. lines[x + 1].end \in Nat /\ From(lines, x) \in Nat
    BY <1>4, <1>6, <2>4
  <2>9. CASE target >= lines[x + 1].end
    <3>1. f[<<l, r>>] = f[<<x + 1, r>>]
      BY <2>6, <2>7, <2>9
    <3>2. x # r
      <4>1. target < lines[r + 1].end
        BY <2>1
      <4> QED
        BY <2>8, <2>9, <4>1
    <3>3. x + 1 \in 0..(n - 1)
      BY <2>3, <2>4, <3>2
    <3>4. From(lines, x + 1) = lines[x + 1].end
      BY <2>4 DEF From
    <3>5. Inside(x + 1, r)
      BY <2>1, <2>8, <2>9, <3>4
    <3>6. PICK j \in Nat : j = r - (x + 1) /\ j < m
      <4>1. r - (x + 1) \in Nat /\ r - (x + 1) < m
        BY <2>1, <2>3, <3>2
      <4> QED
        BY <4>1
    <3>7. j \in Bad
      <4>1. ~ InLine(lines, f[<<x + 1, r>>], target)
        BY <2>1, <3>1
      <4> QED
        BY <3>3, <3>5, <3>6, <4>1
    <3> QED
      BY <3>6, <3>7
  <2>10. CASE ~ (target >= lines[x + 1].end)
    <3>1. f[<<l, r>>] = f[<<l, x - 1>>]
      BY <2>6, <2>7, <2>10
    <3>2. target < lines[x + 1].end
      BY <2>8, <2>10
    <3>3. target < From(lines, x)
      BY <2>7, <2>8, <3>2
    <3>4. x # l
      <4>1. From(lines, l) <= target
        BY <2>1
      <4> QED
        BY <2>8, <3>3, <4>1
    <3>5. x - 1 \in 0..(n - 1) /\ x \in 1..n /\ x # 0 /\ (x - 1) + 1 = x
      BY <2>3, <2>4, <3>4
    <3>6. From(lines, x) = lines[x].end
      BY <3>5 DEF From
    <3>7. Inside(l, x - 1)
      BY <2>1, <3>3, <3>5, <3>6
    <3>8. PICK j \in Nat : j = (x - 1) - l /\ j < m
      <4>1. (x - 1) - l \in Nat /\ (x - 1) - l < m
        BY <2>1, <2>3, <3>4
      <4> QED
        BY <4>1
    <3>9. j \in Bad
      <4>1. ~ InLine(lines, f[<<l, x - 1>>], target)
        BY <2>1, <3>1
      <4> QED
        BY <3>5, <3>7, <3>8, <4>1
    <3> QED
      BY <3>8, <3>9
  <2> QED
    BY <2>9, <2>10
<1>8. Bad = {}
  <2> SUFFICES ASSUME Bad # {} PROVE FALSE
    OBVIOUS
  <2>1. Bad \in SUBSET Nat
    OBVIOUS
  <2> HIDE DEF Bad
  <2>2. PICK m \in Bad : \A l \in Bad : m <= l
    BY <2>1, Smallest
  <2>3. PICK j \in Bad : j < m
    BY <1>7
  <2> QED
    BY <2>1, <2>2, <2>3
<1>9. Inside(0, n - 1)
  <2>1. From(lines, 0) = 0 /\ (n - 1) + 1 = n
    BY <1>2 DEF From
  <2> QED
    BY <1>5, <2>1
<1> HIDE DEF Bad
<1>10. n - 1 \in Nat /\ n - 1 \notin Bad
  BY <1>2, <1>8
<1>11. 0 \in 0..(n - 1) /\ n - 1 \in 0..(n - 1) /\ (n - 1) - 0 = n - 1
  BY <1>2
<1>12. InLine(lines, f[<<0, n - 1>>], target)
  <2> HIDE DEF Inside
  <2> QED
    BY <1>9, <1>10, <1>11 DEF Bad
<1> QED
  BY <1>3, <1>12

(* Where an instruction ends the next one begins, or the code ends.         *)
LEMMA NextIs ==
    ASSUME NEW x, BlockLies(x)
    PROVE  /\ Len(x.emitted) \in Nat /\ DOMAIN x.emitted = 1..Len(x.emitted) /\ Len(x.bytes) \in Nat
           /\ NextAt(x, 0) = 0
           /\ \A n \in 1..Len(x.emitted) :
                  /\ NextAt(x, n) = End(x.emitted[n]) /\ NextAt(x, n - 1) = x.emitted[n].at
                  /\ x.emitted[n].at \in Nat /\ End(x.emitted[n]) \in Nat
                  /\ x.emitted[n].at < End(x.emitted[n]) /\ End(x.emitted[n]) <= Len(x.bytes)
<1>1. CodeLies(x.bytes, x.emitted)
  BY DEF BlockLies
<1>2. x.bytes \in Seq(ByteType) /\ x.emitted \in Seq(ToSet(x.emitted))
  BY <1>1 DEF CodeLies
<1>3. PICK m \in Nat : m = Len(x.emitted) /\ DOMAIN x.emitted = 1..m
  BY <1>2
<1>4. Len(x.bytes) \in Nat
  BY <1>2
<1>5. NextAt(x, 0) = 0
  <2>1. CASE m = 0
    <3>1. x.emitted = <<>>
      BY <1>2, <1>3, <2>1, EmptySeq
    <3>2. Len(x.bytes) = 0
      BY <1>1, <3>1 DEF CodeLies
    <3> QED
      BY <1>3, <2>1, <3>2 DEF NextAt
  <2>2. CASE m # 0
    <3>1. x.emitted # <<>>
      BY <1>3, <2>2
    <3>2. x.emitted[1].at = 0
      BY <1>1, <3>1 DEF CodeLies
    <3>3. 0 < Len(x.emitted) /\ 0 + 1 = 1
      BY <1>3, <2>2
    <3> QED
      BY <3>2, <3>3 DEF NextAt
  <2> QED
    BY <2>1, <2>2
<1>6. ASSUME NEW n \in 1..m
      PROVE  /\ NextAt(x, n) = End(x.emitted[n]) /\ NextAt(x, n - 1) = x.emitted[n].at
             /\ x.emitted[n].at \in Nat /\ End(x.emitted[n]) \in Nat
             /\ x.emitted[n].at < End(x.emitted[n]) /\ End(x.emitted[n]) <= Len(x.bytes)
  <2>1. InstructionLies(x.bytes, x.emitted[n])
    BY <1>1, <1>3 DEF CodeLies
  <2>2. x.emitted[n].at \in Nat /\ Regular(x.emitted[n].operands) /\ End(x.emitted[n]) <= Len(x.bytes)
    BY <2>1 DEF InstructionLies
  <2>3. End(x.emitted[n]) \in Nat /\ x.emitted[n].at < End(x.emitted[n])
    BY <2>2, PlacesAre
  <2>4. NextAt(x, n) = End(x.emitted[n])
    <3>1. CASE n = m
      <4>1. x.emitted # <<>>
        BY <1>3, <3>1
      <4>2. End(x.emitted[m]) = Len(x.bytes)
        BY <1>1, <1>3, <4>1 DEF CodeLies
      <4> QED
        BY <1>3, <3>1, <4>2 DEF NextAt
    <3>2. CASE n # m
      <4>1. n < m /\ n \in 1..(m - 1)
        BY <1>3, <3>2
      <4>2. x.emitted[n + 1].at = End(x.emitted[n])
        BY <1>1, <1>3, <4>1 DEF CodeLies
      <4> QED
        BY <1>3, <4>1, <4>2 DEF NextAt
    <3> QED
      BY <3>1, <3>2
  <2>5. NextAt(x, n - 1) = x.emitted[n].at
    <3>1. n - 1 < Len(x.emitted) /\ (n - 1) + 1 = n
      BY <1>3
    <3> QED
      BY <3>1 DEF NextAt
  <2> QED
    BY <2>2, <2>3, <2>4, <2>5
<1> QED
  BY <1>3, <1>4, <1>5, <1>6

(* The line found for an offset covers the instruction there. *)
LEMMA LineCovers ==
    ASSUME NEW x, BlockLies(x), NEW t \in DOMAIN x.emitted
    PROVE  Covers(x.lines, findLineForOffset(x.lines, x.emitted[t].at), x.emitted[t].line)
<1> DEFINE at == x.emitted[t].at
           m == findLineForOffset(x.lines, at)
<1>1. x.lines # <<>> /\ Tiled(x.lines, Len(x.bytes)) /\ LinesCover(x.lines, x.emitted)
  BY DEF BlockLies
<1>2. Len(x.bytes) \in Nat /\ at \in Nat /\ at < Len(x.bytes)
  <2>1. /\ Len(x.bytes) \in Nat /\ at \in Nat /\ End(x.emitted[t]) \in Nat
        /\ at < End(x.emitted[t]) /\ End(x.emitted[t]) <= Len(x.bytes)
    BY NextIs
  <2> HIDE DEF at
  <2> QED
    BY <2>1
<1>3. InLine(x.lines, m, at)
  BY <1>1, <1>2, LineIsFound
<1> HIDE DEF m
<1>4. m \in DOMAIN x.lines /\ x.lines[m].start <= x.emitted[t].at /\ x.emitted[t].at < x.lines[m].end
  BY <1>3 DEF InLine
<1>5. CoveredBy(x.lines[m], x.emitted[t].line)
  BY <1>1, <1>4 DEF LinesCover
<1>6. Covers(x.lines, m, x.emitted[t].line)
  BY <1>4, <1>5 DEF Covers, CoveredBy
<1> QED
  BY <1>6 DEF m, at

(* What is listed of an instruction is what was pushed. *)
ListedOf(x, ptr, line) ==
    LET op   == Read(x.bytes, ptr, 1).name
        want == ShownAt(x.bytes, ptr, op)
        read == Fields(x.bytes, ptr + 1, want)
    IN [at |-> ptr, op |-> op, line |-> line,
        operands |-> [k \in DOMAIN read |-> <<read[k].name, read[k].width>>],
        asked |-> want,
        target |-> IF ShownJumps(op) # <<>> /\ op # "JUMP_TABLE" THEN ptr + read[1].val ELSE -1,
        targetLine |-> IF ShownJumps(op) # <<>> /\ op # "JUMP_TABLE"
                       THEN findLineForOffset(x.lines, ptr + read[1].val) ELSE NoLine]
Passed(x, ptr) == ptr + 1 + WidthOf(ShownAt(x.bytes, ptr, Read(x.bytes, ptr, 1).name))

LEMMA OpcodeIsRead ==
    ASSUME NEW x, BlockLies(x), NEW n \in DOMAIN x.emitted
    PROVE  LET e == x.emitted[n] IN
           /\ Read(x.bytes, e.at, 1).name = e.op /\ ShownAt(x.bytes, e.at, e.op) = e.operands
           /\ e.at \in Nat /\ Regular(e.operands) /\ x.bytes \in Seq(ByteType) /\ InstructionLies(x.bytes, e)
<1> DEFINE e == x.emitted[n]
<1>1. x.bytes \in Seq(ByteType) /\ InstructionLies(x.bytes, e)
  BY DEF BlockLies, CodeLies
<1> HIDE DEF e
<1>2. e.at \in Nat /\ Regular(e.operands) /\ Whole(x.bytes, e.at, e.op, 1) /\ e.operands = ShownAt(x.bytes, e.at, e.op)
  BY <1>1 DEF InstructionLies, Laid
<1>3. Read(x.bytes, e.at, 1) = x.bytes[e.at + 1][1] /\ x.bytes[e.at + 1][1].name = e.op
  BY <1>1, <1>2, WholeIsRead
<1> QED
  BY <1>1, <1>2, <1>3 DEF e

LEMMA InstructionListed ==
    ASSUME NEW x, BlockLies(x), NEW n \in DOMAIN x.emitted,
           NEW line \in DOMAIN x.lines, x.lines[line].start <= x.emitted[n].at, x.emitted[n].at < x.lines[line].end
    PROVE  /\ EntryIs(x, ListedOf(x, x.emitted[n].at, line), n)
           /\ Passed(x, x.emitted[n].at) = End(x.emitted[n])
<1> DEFINE e == x.emitted[n]
           l == ListedOf(x, e.at, line)
           read == Fields(x.bytes, e.at + 1, e.operands)
           jumps == ShownJumps(e.op) # <<>> /\ e.op # "JUMP_TABLE"
<1>1. /\ Read(x.bytes, e.at, 1).name = e.op /\ ShownAt(x.bytes, e.at, e.op) = e.operands
      /\ e.at \in Nat /\ Regular(e.operands) /\ x.bytes \in Seq(ByteType) /\ InstructionLies(x.bytes, e)
  BY OpcodeIsRead
<1>2. /\ l.at = e.at /\ l.op = e.op /\ l.line = line /\ l.asked = e.operands
      /\ l.operands = [k \in DOMAIN read |-> <<read[k].name, read[k].width>>]
      /\ l.target = (IF jumps THEN e.at + read[1].val ELSE -1)
      /\ l.targetLine = (IF jumps THEN findLineForOffset(x.lines, e.at + read[1].val) ELSE NoLine)
  BY <1>1 DEF ListedOf
<1>3. Passed(x, e.at) = e.at + 1 + WidthOf(e.operands)
  BY <1>1 DEF Passed
<1>4. Covers(x.lines, line, e.line)
  <2>1. CoveredBy(x.lines[line], e.line)
    BY DEF BlockLies, LinesCover
  <2> QED
    BY <2>1 DEF Covers, CoveredBy
<1> HIDE DEF e, l
<1>5. Passed(x, e.at) = End(e)
  <2>1. WidthOf(e.operands) = SizeOf(e.operands)
    BY <1>1, OffsetsAre
  <2> QED
    BY <1>3, <2>1 DEF End
<1>6. /\ DOMAIN read = DOMAIN e.operands
      /\ \A k \in DOMAIN e.operands : read[k].name = e.operands[k][1] /\ read[k].width = e.operands[k][2]
  BY <1>1, FieldsAre
<1> HIDE DEF read
<1>7. l.operands = e.operands
  <2>1. e.operands \in Seq(OperandNames \X {4, 8})
    BY <1>1 DEF Regular
  <2>2. \A k \in DOMAIN e.operands : e.operands[k] \in OperandNames \X {4, 8}
    BY <2>1
  <2>3. \A k \in DOMAIN e.operands : e.operands[k] = <<read[k].name, read[k].width>>
    BY <1>6, <2>2
  <2>4. e.operands = [k \in DOMAIN e.operands |-> e.operands[k]]
    BY <2>1
  <2> QED
    BY <1>2, <1>6, <2>3, <2>4
<1>8. ASSUME l.target # -1, NEW t \in DOMAIN x.emitted, x.emitted[t].at = l.target
      PROVE  Covers(x.lines, l.targetLine, x.emitted[t].line)
  <2>1. l.targetLine = findLineForOffset(x.lines, x.emitted[t].at)
    BY <1>2, <1>8
  <2> QED
    BY <2>1, LineCovers
<1>9. EntryIs(x, l, n)
  <2>1. x.emitted[n] = e
    BY DEF e
  <2> QED
    BY <1>2, <1>4, <1>7, <1>8, <2>1 DEF EntryIs
<1> QED
  BY <1>5, <1>9 DEF l, e

-----------------------------------------------------------------------------
(* The steps of the disassembler.                                           *)

Orders == Seq(1..Len(functions))
PrintingType == [block : Nat, ptr : Int, lineIdx : Nat, lineEnd : Nat,
                 walk : {"no", "walked", "all", "lost"}, order : Orders, done : Nat]

(* A block that is being printed is one of those committed. *)
LEMMA PrintedLies ==
    ASSUME BuildInv, PrintInv, printing.block # 0
    PROVE  /\ printing.block \in DOMAIN exes /\ BlockLies(Printed) /\ Len(Printed.lines) \in Nat
           /\ DOMAIN Printed.lines = 1..Len(Printed.lines) /\ Printed.lines # <<>>
           /\ \A k \in DOMAIN Printed.lines : Printed.lines[k].start \in Nat /\ Printed.lines[k].end \in Nat
<1>1. printing.block \in Nat /\ printing.block <= Len(exes)
  BY DEF PrintInv, PrintType
<1>2. exes \in Seq(ToSet(exes)) /\ \A b \in DOMAIN exes : BlockLies(exes[b])
  BY DEF BuildInv
<1>3. printing.block \in DOMAIN exes
  BY <1>1, <1>2
<1>4. BlockLies(Printed)
  BY <1>2, <1>3 DEF Printed
<1>5. Printed.lines # <<>> /\ Printed.lines \in Seq(LineType)
  BY <1>4 DEF BlockLies, Tiled
<1>6. Len(Printed.lines) \in Nat /\ DOMAIN Printed.lines = 1..Len(Printed.lines)
  BY <1>5
<1>7. \A k \in DOMAIN Printed.lines : Printed.lines[k] \in LineType
  BY <1>5
<1> QED
  BY <1>3, <1>4, <1>5, <1>6, <1>7 DEF LineType

(* What is left of the invariant when the blocks and the listing stay.      *)
LEMMA PrintKept ==
    ASSUME PrintInv, functions' = functions, exes' = exes, listing' = listing,
           printing' \in PrintingType, printing'.ptr >= -1,
           collected' \in Seq(1..Len(functions)), printing'.block = printing.block,
           IF printing'.walk = "no" THEN printing.block = 0 ELSE Built,
           printing.block = 0 => printing'.ptr = -1,
           printing'.ptr >= 0 => GoesOn(Printed, printing', Len(listing))
    PROVE  PrintInv'
<1>1. Printed' = Printed /\ Built' = Built
  BY DEF Printed, Built
<1>2. PrintType'
  BY <1>1 DEF PrintInv, PrintType, PrintingType, Orders
<1>3. \A n \in DOMAIN listing' : EntryIs(Printed, listing[n], n)'
  <2>1. \A n \in DOMAIN listing : EntryIs(Printed, listing[n], n)
    BY DEF PrintInv
  <2> QED
    BY <1>1, <2>1
<1>4. (printing.ptr >= 0 => printing.block # 0 /\ GoesOn(Printed, printing, Len(listing)))'
  <2> SUFFICES ASSUME printing'.ptr >= 0
               PROVE  printing'.block # 0 /\ GoesOn(Printed', printing', Len(listing'))
    OBVIOUS
  <2>1. GoesOn(Printed, printing', Len(listing))
    OBVIOUS
  <2>2. printing.block # 0
    <3>1. printing'.ptr # -1
      BY DEF PrintingType
    <3> QED
      BY <3>1
  <2> QED
    BY <1>1, <2>1, <2>2
<1> QED
  BY <1>2, <1>3, <1>4 DEF PrintInv

LEMMA LineGoesOn ==
    ASSUME BuildInv, PrintInv, PrintLine
    PROVE  PrintInv' /\ printing' = [printing EXCEPT !.lineIdx = @ + 1, !.lineEnd = Printed.lines[printing.lineIdx + 1].end]
<1>1. printing.ptr >= 0 /\ printing.ptr < Len(Printed.bytes) /\ printing.ptr >= printing.lineEnd
      /\ functions' = functions /\ exes' = exes /\ listing' = listing /\ collected' = collected
  BY DEF PrintLine
<1>2. /\ printing \in PrintingType /\ collected \in Seq(1..Len(functions))
      /\ IF printing.walk = "no" THEN printing.block = 0 ELSE Built
      /\ printing.block # 0 /\ GoesOn(Printed, printing, Len(listing))
  BY <1>1 DEF PrintInv, PrintType, PrintingType, Orders
<1>3. /\ BlockLies(Printed) /\ Len(Printed.lines) \in Nat
      /\ DOMAIN Printed.lines = 1..Len(Printed.lines) /\ Printed.lines # <<>>
      /\ \A k \in DOMAIN Printed.lines : Printed.lines[k].start \in Nat /\ Printed.lines[k].end \in Nat
  BY <1>2, PrintedLies
<1>4. PICK i \in Nat, n \in Nat, p \in Nat : i = printing.lineIdx /\ n = Len(Printed.lines) /\ p = printing.ptr
  BY <1>1, <1>2, <1>3 DEF PrintingType
<1> DEFINE lines == Printed.lines
<1>5. Tiled(lines, Len(Printed.bytes)) /\ Len(Printed.bytes) \in Nat
  BY <1>3 DEF BlockLies, CodeLies
<1>6. /\ i <= n /\ printing.lineEnd = (IF i = 0 THEN 0 ELSE lines[i].end)
      /\ i # 0 => lines[i].start <= p
      /\ p = NextAt(Printed, Len(listing))
  BY <1>2, <1>4 DEF GoesOn
<1>7. n # 0
  <2>1. lines \in Seq(LineType)
    BY <1>5 DEF Tiled
  <2> QED
    BY <1>3, <1>4, <2>1, EmptySeq
<1>8. i # n
  <2> SUFFICES ASSUME i = n PROVE FALSE
    OBVIOUS
  <2>1. lines[n].end = Len(Printed.bytes)
    BY <1>3, <1>4, <1>5 DEF Tiled
  <2> QED
    BY <1>1, <1>4, <1>5, <1>6, <1>7, <2>1
<1>9. i + 1 \in 1..n /\ i + 1 \in DOMAIN lines
  BY <1>3, <1>4, <1>6, <1>8
<1>10. lines[i + 1].start <= p
  <2>1. CASE i = 0
    <3>1. lines[1].start = 0
      BY <1>3, <1>5 DEF Tiled
    <3> QED
      BY <1>4, <2>1, <3>1
  <2>2. CASE i # 0
    <3>1. i \in 1..(n - 1)
      BY <1>6, <1>8, <2>2
    <3>2. lines[i + 1].start = lines[i].end
      BY <1>4, <1>5, <3>1 DEF Tiled
    <3>3. printing.lineEnd <= p
      BY <1>1, <1>2, <1>4 DEF PrintingType
    <3> QED
      BY <1>6, <2>2, <3>2, <3>3
  <2> QED
    BY <2>1, <2>2
<1> HIDE DEF lines
<1>11. printing' = [printing EXCEPT !.lineIdx = i + 1, !.lineEnd = lines[i + 1].end]
  <2>1. ~ (printing.lineIdx >= Len(Printed.lines))
    BY <1>4, <1>6, <1>8
  <2> QED
    BY <1>4, <2>1 DEF PrintLine, lines
<1>12. PICK z \in Nat : z = lines[i + 1].end
  BY <1>3, <1>9 DEF lines
<1>13. /\ printing' \in PrintingType /\ printing'.ptr = p /\ printing'.lineIdx = i + 1
       /\ printing'.lineEnd = lines[i + 1].end /\ printing'.walk = printing.walk /\ printing'.block = printing.block
  <2>1. printing \in PrintingType /\ printing.ptr = p
    BY <1>2, <1>4
  <2>2. i + 1 \in Nat /\ printing' = [printing EXCEPT !.lineIdx = i + 1, !.lineEnd = z]
    BY <1>11, <1>12
  <2> QED
    BY <1>12, <2>1, <2>2 DEF PrintingType
<1>14. GoesOn(Printed, printing', Len(listing))
  <2>1. i + 1 <= Len(Printed.lines) /\ i + 1 # 0
    BY <1>4, <1>9
  <2> QED
    BY <1>6, <1>10, <1>13, <2>1 DEF GoesOn, lines
<1>15. PrintInv'
  <2>1. p >= -1
    OBVIOUS
  <2> QED
    BY <1>1, <1>2, <1>13, <1>14, <2>1, PrintKept
<1> QED
  BY <1>4, <1>11, <1>15 DEF lines

LEMMA InstructionGoesOn ==
    ASSUME BuildInv, PrintInv, PrintInstruction
    PROVE  PrintInv'
<1>1. printing.ptr >= 0 /\ printing.ptr < Len(Printed.bytes) /\ printing.ptr < printing.lineEnd
      /\ functions' = functions /\ exes' = exes /\ collected' = collected
  BY DEF PrintInstruction
<1>2. /\ printing \in PrintingType /\ collected \in Seq(1..Len(functions))
      /\ IF printing.walk = "no" THEN printing.block = 0 ELSE Built
      /\ printing.block # 0 /\ printing.block <= Len(exes) /\ GoesOn(Printed, printing, Len(listing))
      /\ listing \in Seq(ToSet(listing)) /\ Len(listing) <= Len(Printed.emitted)
      /\ \A n \in DOMAIN listing : EntryIs(Printed, listing[n], n)
  BY <1>1 DEF PrintInv, PrintType, PrintingType, Orders
<1>3. PICK x : x = Printed
  OBVIOUS
<1>4. BlockLies(x) /\ DOMAIN x.lines = 1..Len(x.lines) /\ Len(x.lines) \in Nat
      /\ \A k \in DOMAIN x.lines : x.lines[k].start \in Nat /\ x.lines[k].end \in Nat
  BY <1>2, <1>3, PrintedLies
<1>5. PICK i \in Nat, p \in Nat, m \in Nat : i = printing.lineIdx /\ p = printing.ptr /\ m = Len(listing)
  BY <1>1, <1>2 DEF PrintingType
<1>6. /\ Len(x.emitted) \in Nat /\ DOMAIN x.emitted = 1..Len(x.emitted) /\ Len(x.bytes) \in Nat
      /\ \A n \in 1..Len(x.emitted) :
             /\ NextAt(x, n) = End(x.emitted[n]) /\ NextAt(x, n - 1) = x.emitted[n].at
             /\ x.emitted[n].at \in Nat /\ End(x.emitted[n]) \in Nat
             /\ x.emitted[n].at < End(x.emitted[n]) /\ End(x.emitted[n]) <= Len(x.bytes)
  BY <1>4, NextIs
<1>7. /\ p = NextAt(x, m) /\ i <= Len(x.lines) /\ printing.lineEnd = (IF i = 0 THEN 0 ELSE x.lines[i].end)
      /\ i # 0 => x.lines[i].start <= p
  BY <1>2, <1>3, <1>5 DEF GoesOn
<1>8. m < Len(x.emitted) /\ m + 1 \in 1..Len(x.emitted) /\ p = x.emitted[m + 1].at
  <2>1. p < Len(x.bytes)
    BY <1>1, <1>3, <1>5
  <2>2. m < Len(x.emitted)
    <3>1. m <= Len(x.emitted)
      BY <1>2, <1>3, <1>5
    <3>2. ~ (m < Len(x.emitted)) => NextAt(x, m) = Len(x.bytes)
      BY DEF NextAt
    <3> QED
      BY <1>6, <1>7, <2>1, <3>1, <3>2
  <2>3. m + 1 \in 1..Len(x.emitted)
    BY <1>6, <2>2
  <2>4. NextAt(x, m) = x.emitted[m + 1].at
    BY <2>2 DEF NextAt
  <2> QED
    BY <1>7, <2>2, <2>3, <2>4
<1>9. i # 0 /\ i \in DOMAIN x.lines /\ x.lines[i].start <= p /\ p < x.lines[i].end
  <2>1. p < printing.lineEnd
    BY <1>1, <1>5
  <2>2. i # 0
    BY <1>7, <2>1
  <2>3. i \in DOMAIN x.lines
    BY <1>4, <1>7, <2>2
  <2> QED
    BY <1>7, <2>1, <2>2, <2>3
<1> DEFINE l == ListedOf(x, p, i)
           q == Passed(x, p)
<1>10. EntryIs(x, l, m + 1) /\ q = End(x.emitted[m + 1])
  BY <1>4, <1>6, <1>8, <1>9, InstructionListed
<1>11. listing' = Append(listing, l)
  BY <1>3, <1>5 DEF PrintInstruction, ListedOf
<1>12. printing' = [printing EXCEPT !.ptr = q]
  BY <1>3, <1>5 DEF PrintInstruction, Passed
<1> HIDE DEF l, q
<1>13. q \in Nat /\ p < q /\ q = NextAt(x, m + 1)
  BY <1>6, <1>8, <1>10
<1>14. /\ printing' \in PrintingType /\ printing'.ptr = q /\ printing'.lineIdx = i
       /\ printing'.lineEnd = printing.lineEnd /\ printing'.walk = printing.walk /\ printing'.block = printing.block
  <2>1. printing \in PrintingType /\ printing.lineIdx = i
    BY <1>2, <1>5
  <2>2. q \in Int
    BY <1>13
  <2> QED
    BY <1>12, <2>1, <2>2 DEF PrintingType
<1>15. /\ Len(listing') = m + 1 /\ DOMAIN listing' = 1..(m + 1) /\ listing'[m + 1] = l
       /\ \A k \in 1..m : listing'[k] = listing[k] /\ k \in DOMAIN listing
  BY <1>2, <1>5, <1>11
<1>16. listing' \in Seq(ToSet(listing'))
  <2>1. \A k \in 1..(m + 1) : listing'[k] \in ToSet(listing')
    BY <1>15 DEF ToSet
  <2> DEFINE S == ToSet(listing) \cup {l}
  <2>2. listing \in Seq(S) /\ l \in S
    BY <1>2
  <2> HIDE DEF S
  <2>3. listing' \in Seq(S)
    BY <1>11, <2>2
  <2>4. listing' = [k \in 1..(m + 1) |-> listing'[k]]
    BY <1>15, <2>3
  <2>5. listing' \in [1..(m + 1) -> ToSet(listing')]
    BY <2>1, <2>4
  <2> QED
    BY <2>5
<1>17. \A k \in DOMAIN listing' : EntryIs(x, listing'[k], k)
  <2> SUFFICES ASSUME NEW k \in 1..(m + 1) PROVE EntryIs(x, listing'[k], k)
    BY <1>15
  <2>1. CASE k = m + 1
    BY <1>10, <1>15, <2>1
  <2>2. CASE k # m + 1
    <3>1. k \in 1..m
      BY <2>2
    <3> QED
      BY <1>2, <1>3, <1>15, <3>1
  <2> QED
    BY <2>1, <2>2
<1>18. GoesOn(x, printing', m + 1)
  <2>1. x.lines[i].start <= q
    BY <1>4, <1>9, <1>13
  <2> QED
    BY <1>7, <1>13, <1>14, <2>1 DEF GoesOn
<1>19. Printed' = x /\ Built' = Built
  BY <1>1, <1>3, <1>14 DEF Printed, Built
<1>20. PrintType'
  <2>1. q >= -1 /\ m + 1 <= Len(x.emitted)
    BY <1>6, <1>8, <1>13
  <2> QED
    BY <1>1, <1>2, <1>14, <1>15, <1>16, <1>19, <2>1 DEF PrintType, PrintingType, Orders
<1> QED
  BY <1>2, <1>14, <1>15, <1>17, <1>18, <1>19, <1>20 DEF PrintInv

LEMMA BlockBegins ==
    ASSUME BuildInv, PrintInv, PrintBlock
    PROVE  PrintInv'
<1> DEFINE b == Order[printing.done + 1]
<1>1. /\ Built /\ printing.walk \in {"walked", "all"} /\ printing.done < Len(Order)
      /\ printing' = [printing EXCEPT !.block = b, !.ptr = 0, !.lineIdx = 0, !.lineEnd = 0]
      /\ listing' = <<>> /\ functions' = functions /\ exes' = exes /\ collected' = collected
  BY DEF PrintBlock
<1>2. printing \in PrintingType /\ collected \in Seq(1..Len(functions))
  BY DEF PrintInv, PrintType, PrintingType, Orders
<1>3. b \in 1..Len(functions)
  <2>1. printing.order \in Seq(1..Len(functions)) /\ printing.done \in Nat
    BY <1>2 DEF PrintingType, Orders
  <2>2. Order \in Seq(1..Len(functions))
    <3> DEFINE T == 1..Len(functions)
    <3>1. printing.order \in Seq(T) /\ collected \in Seq(T)
      BY <1>2, <2>1
    <3> HIDE DEF T
    <3>2. Order \in Seq(T)
      BY <3>1 DEF Order
    <3> QED
      BY <3>2 DEF T
  <2>3. printing.done + 1 \in 1..Len(Order)
    BY <1>1, <2>1, <2>2
  <2> QED
    BY <2>2, <2>3
<1> HIDE DEF b
<1>4. exes \in Seq(ToSet(exes)) /\ Len(exes) = Len(functions) /\ \A k \in DOMAIN exes : BlockLies(exes[k])
  BY <1>1 DEF BuildInv, Built
<1>5. b \in DOMAIN exes /\ b \in Nat /\ b # 0 /\ b <= Len(exes)
  BY <1>3, <1>4
<1>6. /\ printing' \in PrintingType /\ printing'.block = b /\ printing'.ptr = 0 /\ printing'.lineIdx = 0
      /\ printing'.lineEnd = 0 /\ printing'.walk = printing.walk
  <2>1. printing \in PrintingType /\ b \in Nat
    BY <1>2, <1>5
  <2>2. printing' = [printing EXCEPT !.block = b, !.ptr = 0, !.lineIdx = 0, !.lineEnd = 0]
    BY <1>1
  <2>3. printing' = [block |-> b, ptr |-> 0, lineIdx |-> 0, lineEnd |-> 0, walk |-> printing.walk,
                     order |-> printing.order, done |-> printing.done]
    BY <2>1, <2>2 DEF PrintingType
  <2>4. printing.walk \in {"no", "walked", "all", "lost"} /\ printing.order \in Orders /\ printing.done \in Nat
    BY <2>1 DEF PrintingType
  <2> QED
    BY <2>1, <2>3, <2>4 DEF PrintingType
<1>7. Printed' = exes[b] /\ Built'
  BY <1>1, <1>6 DEF Printed, Built
<1>8. BlockLies(exes[b])
  BY <1>4, <1>5
<1>9. NextAt(exes[b], 0) = 0 /\ Len(exes[b].emitted) \in Nat
  BY <1>8, NextIs
<1>10. Len(exes[b].lines) \in Nat
  BY <1>8 DEF BlockLies, Tiled
<1>11. Len(listing') = 0 /\ listing' \in Seq(ToSet(listing')) /\ DOMAIN listing' = {}
  BY <1>1
<1>12. GoesOn(exes[b], printing', 0)
  BY <1>6, <1>9, <1>10 DEF GoesOn
<1>13. PrintType'
  <2>1. printing'.walk # "no"
    BY <1>1, <1>6
  <2>2. Len(listing') <= Len(exes[b].emitted)
    BY <1>9, <1>11
  <2> QED
    BY <1>1, <1>2, <1>5, <1>6, <1>7, <1>11, <2>1, <2>2 DEF PrintType, PrintingType, Orders
<1> QED
  BY <1>5, <1>6, <1>7, <1>11, <1>12, <1>13 DEF PrintInv

(* Where an opcode is read an instruction lies. *)
LEMMA SizesAre ==
    /\ \A op : getOpcodeSize(op) \in Nat
    /\ getOpcodeSize("torn") = 0
<1>1. \A op : SizeOfMove(op) \in Nat
  BY DEF SizeOfMove
<1>2. \A op : SizeOfCalculation(op) \in Nat
  BY DEF SizeOfCalculation
<1>3. \A op : SizeOfStep(op) \in Nat
  BY DEF SizeOfStep
<1>4. SizeOfMove("torn") = 0 /\ SizeOfCalculation("torn") = 0 /\ SizeOfStep("torn") = 0
  BY DEF SizeOfMove, SizeOfCalculation, SizeOfStep
<1> QED
  BY <1>1, <1>2, <1>3, <1>4 DEF getOpcodeSize

LEMMA Aligned ==
    ASSUME NEW x, BlockLies(x), NEW ip \in Nat, Read(x.bytes, ip, 1).name # "torn"
    PROVE  \E n \in DOMAIN x.emitted : x.emitted[n].at = ip /\ Read(x.bytes, ip, 1).name = x.emitted[n].op
<1>1. x.bytes \in Seq(ByteType) /\ \A i \in DOMAIN x.bytes :
          x.bytes[i][1].width = 1 => \E n \in DOMAIN x.emitted : x.emitted[n].at = i - 1
  BY DEF BlockLies, CodeLies
<1>2. ip \in 0..(Len(x.bytes) - 1) /\ \A k \in 1..1 : x.bytes[ip + k][2] = k /\ x.bytes[ip + k][1].width = 1
  BY DEF Read, Torn
<1>3. ip + 1 \in DOMAIN x.bytes /\ x.bytes[ip + 1][1].width = 1
  BY <1>1, <1>2
<1>4. PICK n \in DOMAIN x.emitted : x.emitted[n].at = (ip + 1) - 1
  BY <1>1, <1>3
<1>5. x.emitted[n].at = ip
  BY <1>4
<1>6. Read(x.bytes, x.emitted[n].at, 1).name = x.emitted[n].op
  BY OpcodeIsRead
<1> QED
  BY <1>5, <1>6

LEMMA CallIsRead ==
    ASSUME NEW x, BlockLies(x), NEW n \in DOMAIN x.emitted, x.emitted[n].op = "CALL"
    PROVE  Read(x.bytes, x.emitted[n].at + 1, 8).val \in 0..Len(functions)
<1> DEFINE e == x.emitted[n]
<1>1. x.bytes \in Seq(ByteType) /\ InstructionLies(x.bytes, e) /\ e.at \in Nat /\ Regular(e.operands)
      /\ ShownAt(x.bytes, e.at, e.op) = e.operands
  BY OpcodeIsRead
<1>2. Val(x.bytes, e, 1) \in 0..Len(functions)
  BY DEF BlockLies, NamesFunction
<1>3. e.op = "CALL"
  OBVIOUS
<1> HIDE DEF e
<1>4. e.operands = << <<"fcn", 8>>, <<"varargSize", 8>> >>
  BY <1>1, <1>3, ShownIs DEF ShownAt
<1>5. 1 \in DOMAIN e.operands /\ e.operands[1][2] = 8
  BY <1>4
<1>6. Whole(x.bytes, Place(e, 1), e.operands[1][1], 8)
  BY <1>1, <1>5 DEF InstructionLies, Laid
<1>7. Place(e, 1) = e.at + 1 /\ e.at + 1 \in Nat
  BY <1>1 DEF Place
<1>8. Read(x.bytes, e.at + 1, 8) = x.bytes[e.at + 1 + 1][1]
  BY <1>1, <1>6, <1>7, WholeIsRead
<1>9. Read(x.bytes, e.at + 1, 8).val = Val(x.bytes, e, 1)
  BY <1>7, <1>8 DEF Val
<1> QED
  BY <1>2, <1>9 DEF e

FrameType == [block : 1..Len(functions), ip : Nat, depth : Nat]

LEMMA WalkGoesOn ==
    ASSUME BuildInv, PrintInv, FramesInv, Collect
    PROVE  PrintInv' /\ FramesInv'
<1> DEFINE b == TopFrame.block
           bytes == exes[b].bytes
           op == Read(bytes, TopFrame.ip, 1).name
           next == [frames EXCEPT ![Len(frames)].ip = @ + getOpcodeSize(op)]
           fcn == Read(bytes, TopFrame.ip + 1, 8).val
<1>1. /\ Built /\ frames # <<>> /\ functions' = functions /\ exes' = exes /\ listing' = listing
      /\ \/ frames' = Front(frames) /\ collected' = collected /\ printing' = printing
         \/ frames' = <<>> /\ printing' = [printing EXCEPT !.walk = "lost"] /\ collected' = collected
         \/ /\ printing' = printing
            /\ getOpcodeSize(op) # 0
            /\ collected' = IF op = "CALL" /\ fcn # 0 /\ ~Contains(collected, fcn)
                            THEN Append(collected, fcn) ELSE collected
            /\ frames' = IF op = "CALL" /\ EntersBlock(fcn, TopFrame.depth + 1)
                         THEN Append(next, Frame(fcn, TopFrame.depth + 1)) ELSE next
  BY DEF Collect
<1>2. /\ printing \in PrintingType /\ collected \in Seq(1..Len(functions))
      /\ frames \in Seq(FrameType) /\ Len(frames) <= MaxDepth + 1
      /\ \A k \in DOMAIN frames : frames[k].depth = k - 1
      /\ printing.walk = "walked" /\ printing.ptr = -1
  BY <1>1 DEF PrintInv, PrintType, PrintingType, Orders, FramesInv, FrameType
<1>3. PICK n \in Nat : n = Len(frames) /\ DOMAIN frames = 1..n /\ n # 0
  BY <1>1, <1>2, EmptySeq
<1>4. TopFrame = frames[n] /\ TopFrame \in FrameType /\ TopFrame.depth = n - 1
  <2>1. TopFrame = frames[n] /\ n \in 1..n
    BY <1>3 DEF TopFrame
  <2>2. frames[n] \in FrameType
    BY <1>2, <1>3, <2>1
  <2> QED
    BY <1>2, <1>3, <2>1, <2>2
<1>5. /\ exes \in Seq(ToSet(exes)) /\ Len(exes) = Len(functions) /\ \A k \in DOMAIN exes : BlockLies(exes[k])
  BY <1>1 DEF BuildInv, Built
<1>6. b \in 1..Len(functions) /\ b \in DOMAIN exes /\ TopFrame.ip \in Nat
  <2>1. b \in 1..Len(functions) /\ TopFrame.ip \in Nat
    BY <1>4 DEF FrameType
  <2> QED
    BY <1>5, <2>1
<1>7. BlockLies(exes[b])
  BY <1>5, <1>6
<1> HIDE DEF b
<1>8. op = "CALL" => fcn \in 0..Len(functions)
  <2> SUFFICES ASSUME op = "CALL" PROVE fcn \in 0..Len(functions)
    OBVIOUS
  <2>1. PICK m \in DOMAIN exes[b].emitted : exes[b].emitted[m].at = TopFrame.ip /\ op = exes[b].emitted[m].op
    <3>1. Read(exes[b].bytes, TopFrame.ip, 1).name # "torn"
      OBVIOUS
    <3> QED
      BY <1>6, <1>7, <3>1, Aligned
  <2> QED
    BY <1>7, <2>1, CallIsRead
<1> HIDE DEF op, fcn
<1>9. printing' \in PrintingType /\ printing'.ptr = -1 /\ printing'.block = printing.block
      /\ printing'.walk \in {"walked", "lost"} /\ (frames' # <<>> => printing'.walk = "walked")
  <2>1. CASE printing' = printing
    BY <1>2, <2>1
  <2>2. CASE frames' = <<>> /\ printing' = [printing EXCEPT !.walk = "lost"]
    <3>1. printing \in PrintingType /\ printing.ptr = -1
      BY <1>2
    <3> QED
      BY <2>2, <3>1 DEF PrintingType
  <2> QED
    BY <1>1, <2>1, <2>2
<1>10. collected' \in Seq(1..Len(functions))
  <2>1. CASE collected' = collected
    BY <1>2, <2>1
  <2>2. CASE op = "CALL" /\ fcn # 0 /\ collected' = Append(collected, fcn)
    <3>1. fcn \in 1..Len(functions)
      BY <1>8, <2>2
    <3> QED
      BY <1>2, <2>2, <3>1
  <2> QED
    BY <1>1, <2>1, <2>2
<1>11. PrintInv'
  <2>1. IF printing'.walk = "no" THEN printing.block = 0 ELSE Built
    BY <1>1, <1>9
  <2>2. printing'.ptr >= -1 /\ ~ (printing'.ptr >= 0)
    BY <1>9
  <2> QED
    BY <1>1, <1>9, <1>10, <2>1, <2>2, PrintKept
<1>12. frames' \in Seq(FrameType) /\ Len(frames') <= MaxDepth + 1 /\ \A k \in DOMAIN frames' : frames'[k].depth = k - 1
  <2>1. CASE frames' = Front(frames)
    <3>1. frames' = SubSeq(frames, 1, n - 1)
      BY <1>3, <2>1 DEF Front
    <3>2. /\ frames' \in Seq(FrameType) /\ Len(frames') = n - 1 /\ DOMAIN frames' = 1..(n - 1)
          /\ \A k \in 1..(n - 1) : frames'[k] = frames[k]
      BY <1>2, <1>3, <3>1
    <3>3. \A k \in 1..(n - 1) : k \in 1..n
      OBVIOUS
    <3>4. n - 1 <= MaxDepth + 1
      BY <1>2, <1>3, ListingAssumption
    <3> QED
      BY <1>2, <1>3, <3>2, <3>3, <3>4
  <2>2. CASE frames' = <<>>
    <3>1. 0 <= MaxDepth + 1
      BY ListingAssumption
    <3> QED
      BY <2>2, <3>1
  <2>3. PICK f : f = [TopFrame EXCEPT !.ip = @ + getOpcodeSize(op)]
    OBVIOUS
  <2>4. f \in FrameType /\ f.depth = n - 1
    <3>1. getOpcodeSize(op) \in Nat
      BY SizesAre
    <3>2. TopFrame \in FrameType /\ TopFrame.depth = n - 1
      BY <1>4
    <3> QED
      BY <2>3, <3>1, <3>2 DEF FrameType
  <2>5. next = [frames EXCEPT ![n] = f]
    BY <1>2, <1>3, <1>4, <2>3
  <2> HIDE DEF next
  <2>6. /\ next \in Seq(FrameType) /\ Len(next) = n /\ DOMAIN next = 1..n
        /\ \A k \in 1..n : next[k] = IF k = n THEN f ELSE frames[k]
    BY <1>2, <1>3, <2>4, <2>5
  <2>7. \A k \in 1..n : next[k].depth = k - 1
    BY <1>2, <1>3, <2>4, <2>6
  <2>8. CASE frames' = next
    BY <1>2, <1>3, <2>6, <2>7, <2>8
  <2>9. CASE op = "CALL" /\ EntersBlock(fcn, TopFrame.depth + 1) /\ frames' = Append(next, Frame(fcn, TopFrame.depth + 1))
    <3>1. fcn \in 1..Len(functions) /\ n <= MaxDepth
      <4>1. fcn # 0 /\ TopFrame.depth + 1 <= MaxDepth
        BY <2>9 DEF EntersBlock
      <4>2. TopFrame.depth + 1 = n
        BY <1>4
      <4> QED
        BY <1>8, <2>9, <4>1, <4>2
    <3> DEFINE g == Frame(fcn, TopFrame.depth + 1)
    <3>2. g \in FrameType /\ g.depth = n
      BY <1>4, <3>1 DEF Frame, FrameType
    <3> HIDE DEF g
    <3>3. frames' = Append(next, g)
      BY <2>9 DEF g
    <3>4. /\ frames' \in Seq(FrameType) /\ Len(frames') = n + 1 /\ DOMAIN frames' = 1..(n + 1)
          /\ frames'[n + 1] = g /\ \A k \in 1..n : frames'[k] = next[k]
      BY <2>6, <3>2, <3>3
    <3>5. n + 1 <= MaxDepth + 1
      BY <3>1, ListingAssumption
    <3>6. \A k \in 1..(n + 1) : k \in 1..n \/ k = n + 1
      OBVIOUS
    <3>7. \A k \in 1..(n + 1) : frames'[k].depth = k - 1
      BY <2>7, <3>2, <3>4, <3>6
    <3> QED
      BY <3>4, <3>5, <3>7
  <2> QED
    BY <1>1, <2>1, <2>2, <2>8, <2>9
<1>13. FramesInv'
  BY <1>1, <1>9, <1>12 DEF FramesInv, FrameType
<1> QED
  BY <1>11, <1>13

LEMMA WalkBegins ==
    ASSUME BuildInv, PrintInv, FramesInv, PrintFunction
    PROVE  PrintInv' /\ FramesInv'
<1>1. /\ Built /\ printing.block = 0 /\ printing.walk = "no" /\ frames' = <<Frame(1, 0)>>
      /\ printing' = [printing EXCEPT !.walk = "walked", !.order = <<1>>]
      /\ functions' = functions /\ exes' = exes /\ collected' = collected /\ listing' = listing
  BY DEF PrintFunction
<1>2. printing \in PrintingType /\ collected \in Seq(1..Len(functions)) /\ printing.ptr = -1
  BY <1>1 DEF PrintInv, PrintType, PrintingType, Orders
<1>3. 1 \in 1..Len(functions)
  <2>1. functions \in Seq(ToSet(functions)) /\ functions # <<>>
    BY DEF BuildInv, ProgramFits
  <2> QED
    BY <2>1
<1>4. <<1>> \in Orders
  BY <1>3 DEF Orders
<1>5. printing' \in PrintingType /\ printing'.ptr = -1 /\ printing'.walk = "walked" /\ printing'.block = printing.block
  <2>1. printing' = [printing EXCEPT !.walk = "walked", !.order = <<1>>]
    BY <1>1
  <2> QED
    BY <1>2, <1>4, <2>1 DEF PrintingType
<1>6. PrintInv'
  <2>1. printing'.ptr >= -1 /\ ~ (printing'.ptr >= 0) /\ printing'.walk # "no"
    BY <1>5
  <2> QED
    BY <1>1, <1>2, <1>5, <2>1, PrintKept
<1>7. FramesInv'
  <2>1. Frame(1, 0) \in [block : 1..Len(functions), ip : Nat, depth : Nat] /\ Frame(1, 0).depth = 0
    BY <1>3 DEF Frame
  <2> DEFINE f == Frame(1, 0)
  <2> HIDE DEF f
  <2>2. /\ frames' \in Seq([block : 1..Len(functions), ip : Nat, depth : Nat]) /\ Len(frames') = 1
        /\ \A k \in DOMAIN frames' : frames'[k].depth = k - 1
    BY <1>1, <2>1
  <2>3. 1 <= MaxDepth + 1
    BY ListingAssumption
  <2> QED
    BY <1>1, <1>5, <2>2, <2>3 DEF FramesInv
<1> QED
  BY <1>6, <1>7

(* Every function of a unit is printed, in order. *)
LEMMA UnitBegins ==
    ASSUME BuildInv, PrintInv, FramesInv, PrintUnit
    PROVE  PrintInv' /\ FramesInv'
<1> DEFINE all == [k \in DOMAIN functions |-> k]
<1>1. /\ Built /\ printing.block = 0 /\ printing.walk = "no" /\ frames' = frames
      /\ printing' = [printing EXCEPT !.walk = "all", !.order = all]
      /\ functions' = functions /\ exes' = exes /\ collected' = collected /\ listing' = listing
  BY DEF PrintUnit
<1>2. printing \in PrintingType /\ collected \in Seq(1..Len(functions)) /\ printing.ptr = -1
  BY <1>1 DEF PrintInv, PrintType, PrintingType, Orders
<1>3. all \in Orders
  <2>1. functions \in Seq(ToSet(functions))
    BY DEF BuildInv, ProgramFits
  <2>2. Len(functions) \in Nat /\ DOMAIN functions = 1..Len(functions)
    BY <2>1
  <2>3. all \in [1..Len(functions) -> 1..Len(functions)]
    BY <2>2
  <2> QED
    BY <2>2, <2>3 DEF Orders
<1> HIDE DEF all
<1>4. printing' \in PrintingType /\ printing'.ptr = -1 /\ printing'.walk = "all" /\ printing'.block = printing.block
  <2>1. printing' = [printing EXCEPT !.walk = "all", !.order = all]
    BY <1>1
  <2> QED
    BY <1>2, <1>3, <2>1 DEF PrintingType
<1>5. PrintInv'
  <2>1. printing'.ptr >= -1 /\ ~ (printing'.ptr >= 0) /\ printing'.walk # "no"
    BY <1>4
  <2> QED
    BY <1>1, <1>2, <1>4, <2>1, PrintKept
<1>6. FramesInv'
  <2>1. frames = <<>>
    BY <1>1 DEF FramesInv
  <2> QED
    BY <1>1, <1>4, <2>1 DEF FramesInv
<1> QED
  BY <1>5, <1>6

LEMMA BlockEnds ==
    ASSUME BuildInv, PrintInv, BlockPrinted
    PROVE  PrintInv'
<1>1. /\ printing.ptr >= 0 /\ printing' = [printing EXCEPT !.ptr = -1, !.done = @ + 1]
      /\ functions' = functions /\ exes' = exes /\ collected' = collected /\ listing' = listing
  BY DEF BlockPrinted
<1>2. /\ printing \in PrintingType /\ collected \in Seq(1..Len(functions))
      /\ IF printing.walk = "no" THEN printing.block = 0 ELSE Built
  BY DEF PrintInv, PrintType, PrintingType, Orders
<1>3. printing' \in PrintingType /\ printing'.ptr = -1 /\ printing'.walk = printing.walk /\ printing'.block = printing.block
  <2>1. PICK z \in Int, d \in Nat : z = -1 /\ d = printing.done + 1
    <3>1. printing.done \in Nat
      BY <1>2 DEF PrintingType
    <3> QED
      BY <3>1
  <2>2. printing \in PrintingType /\ printing' = [printing EXCEPT !.ptr = z, !.done = d]
    BY <1>1, <1>2, <2>1
  <2>3. printing' \in PrintingType /\ printing'.ptr = z /\ printing'.walk = printing.walk /\ printing'.block = printing.block
    BY <2>2 DEF PrintingType
  <2> QED
    BY <2>1, <2>3
<1>4. printing'.ptr >= -1 /\ ~ (printing'.ptr >= 0)
  BY <1>3
<1> QED
  BY <1>1, <1>2, <1>3, <1>4, PrintKept

(* While blocks are compiled nothing is printed. *)
LEMMA NotPrintingYet ==
    ASSUME BuildInv, PrintInv, FramesInv, BuildPiece \/ Commit
    PROVE  PrintInv' /\ FramesInv'
<1>1. /\ functions' = functions /\ frames' = frames /\ collected' = collected /\ listing' = listing
      /\ printing' = printing /\ Len(exes) < Len(functions)
  BY DEF BuildPiece, Commit
<1>2. Len(exes) \in Nat /\ Len(functions) \in Nat
  <2>1. functions \in Seq(ToSet(functions)) /\ exes \in Seq(ToSet(exes))
    BY DEF BuildInv, ProgramFits
  <2> QED
    BY <2>1
<1>3. printing.walk = "no" /\ printing.block = 0 /\ printing.ptr = -1 /\ listing = <<>>
  <2>1. ~ Built
    BY <1>1, <1>2 DEF Built
  <2> QED
    BY <2>1 DEF PrintInv, PrintType
<1>4. 0 <= Len(exes')
  <2>1. exes' = exes \/ \E e : exes' = Append(exes, e)
    BY DEF BuildPiece, Commit
  <2>2. exes \in Seq(ToSet(exes))
    BY DEF BuildInv
  <2> QED
    BY <1>2, <2>1, <2>2
<1>5. PrintType'
  <2>1. Len(listing) = 0
    BY <1>3
  <2> QED
    BY <1>1, <1>3, <1>4, <2>1 DEF PrintInv, PrintType
<1>6. DOMAIN listing' = {} /\ ~ (printing'.ptr >= 0)
  BY <1>1, <1>3
<1>7. PrintInv'
  BY <1>5, <1>6 DEF PrintInv
<1>8. FramesInv'
  BY <1>1 DEF FramesInv
<1> QED
  BY <1>7, <1>8

LEMMA ListingKept ==
    ASSUME ListingInv, [ListingNext]_listingVars
    PROVE  ListingInv'
<1>1. BuildInv /\ PrintInv /\ FramesInv /\ BuildInv'
  BY BuildHolds DEF ListingInv
<1>2. CASE BuildPiece \/ Commit
  BY <1>1, <1>2, NotPrintingYet DEF ListingInv
<1>3. CASE Collect
  BY <1>1, <1>3, WalkGoesOn DEF ListingInv
<1>4. CASE PrintFunction
  BY <1>1, <1>4, WalkBegins DEF ListingInv
<1>5. CASE PrintUnit
  BY <1>1, <1>5, UnitBegins DEF ListingInv
<1>6. ASSUME frames' = frames, collected' = collected, functions' = functions,
             frames # <<>> => printing'.walk = printing.walk /\ printing'.ptr = printing.ptr,
             printing'.walk = "no" => printing.walk = "no"
      PROVE  FramesInv'
  <2>1. FramesInv
    BY <1>1
  <2> QED
    BY <1>6, <2>1 DEF FramesInv
<1>7. CASE PrintBlock
  <2>1. FramesInv'
    <3>1. /\ frames = <<>> /\ frames' = frames /\ collected' = collected /\ functions' = functions
          /\ printing.walk # "no" /\ printing \in PrintingType
          /\ \E b : printing' = [printing EXCEPT !.block = b, !.ptr = 0, !.lineIdx = 0, !.lineEnd = 0]
      BY <1>1, <1>7 DEF PrintBlock, PrintInv, PrintType, PrintingType, Orders
    <3>2. printing'.walk = printing.walk
      BY <3>1 DEF PrintingType
    <3> QED
      BY <1>6, <3>1, <3>2
  <2> QED
    BY <1>1, <1>7, <2>1, BlockBegins DEF ListingInv
<1>8. printing.ptr >= 0 => frames = <<>>
  <2>1. ~ (-1 >= 0)
    OBVIOUS
  <2> QED
    BY <1>1, <2>1 DEF FramesInv
<1>9. CASE PrintLine \/ PrintInstruction \/ BlockPrinted
  <2>1. frames = <<>> /\ frames' = frames /\ collected' = collected /\ functions' = functions
    BY <1>8, <1>9 DEF PrintLine, PrintInstruction, BlockPrinted
  <2>2. printing \in PrintingType
    BY <1>1 DEF PrintInv, PrintType, PrintingType, Orders
  <2>3. printing'.walk = printing.walk
    <3>1. CASE PrintLine
      <4>1. printing' = [printing EXCEPT !.lineIdx = @ + 1, !.lineEnd = Printed.lines[printing.lineIdx + 1].end]
        BY <1>1, <3>1, LineGoesOn
      <4> QED
        BY <2>2, <4>1 DEF PrintingType
    <3>2. CASE PrintInstruction
      <4>1. \E q : printing' = [printing EXCEPT !.ptr = q]
        BY <3>2 DEF PrintInstruction
      <4> QED
        BY <2>2, <4>1 DEF PrintingType
    <3>3. CASE BlockPrinted
      <4>1. printing' = [printing EXCEPT !.ptr = -1, !.done = @ + 1]
        BY <3>3 DEF BlockPrinted
      <4> QED
        BY <2>2, <4>1 DEF PrintingType
    <3> QED
      BY <1>9, <3>1, <3>2, <3>3
  <2>4. FramesInv'
    BY <1>6, <2>1, <2>3
  <2>5. PrintInv'
    BY <1>1, <1>9, LineGoesOn, InstructionGoesOn, BlockEnds
  <2> QED
    BY <1>1, <2>4, <2>5 DEF ListingInv
<1>10. CASE UNCHANGED listingVars
  <2>1. PrintInv' /\ FramesInv'
    BY <1>1, <1>10 DEF listingVars, PrintInv, PrintType, FramesInv, Printed, Built
  <2> QED
    BY <1>1, <2>1 DEF ListingInv
<1> QED
  BY <1>2, <1>3, <1>4, <1>5, <1>7, <1>9, <1>10 DEF ListingNext

LEMMA ListingBegins ==
    ASSUME functions \in Listings, ListingStart
    PROVE  ListingInv
<1>1. BuildInv
  BY BuildBegins
<1>2. /\ exes = <<>> /\ frames = <<>> /\ collected = <<>> /\ listing = <<>> /\ printing = NotPrinting
  BY DEF ListingStart
<1>3. printing \in PrintingType /\ printing.ptr = -1 /\ printing.walk = "no" /\ printing.block = 0
  <2>1. <<>> \in Orders
    BY DEF Orders
  <2> QED
    BY <1>2, <2>1 DEF NotPrinting, PrintingType
<1>4. PrintType
  <2>1. Len(exes) = 0 /\ Len(listing) = 0
    BY <1>2
  <2>2. printing.ptr >= -1 /\ printing.block <= Len(exes)
    BY <1>3, <2>1
  <2> QED
    BY <1>2, <1>3, <2>1, <2>2 DEF PrintType, PrintingType, Orders
<1>5. PrintInv
  <2>1. ~ (printing.ptr >= 0) /\ DOMAIN listing = {}
    BY <1>2, <1>3
  <2> QED
    BY <1>4, <2>1 DEF PrintInv
<1>6. FramesInv
  <2>1. Len(frames) = 0 /\ 0 <= MaxDepth + 1
    BY <1>2, ListingAssumption
  <2> QED
    BY <1>2, <2>1 DEF FramesInv
<1> QED
  BY <1>1, <1>5, <1>6 DEF ListingInv

(* All that is said of the listing but which calls are listed. *)
LEMMA ListingIsWhole ==
    ASSUME ListingInv
    PROVE  ListingTypeOK /\ LinesAreWhole /\ ListedAsPushed /\ FetchedAsPushed /\ JumpsToCode
<1>1. BuildInv /\ PrintInv /\ FramesInv
  BY DEF ListingInv
<1>2. printing.walk \in {"no", "walked", "all", "lost"}
  BY <1>1 DEF PrintInv, PrintType
<1>3. ListingTypeOK
  <2>1. Len(exes) <= Len(functions)
    BY <1>1 DEF BuildInv
  <2>2. \A k \in DOMAIN collected : collected[k] \in 1..Len(functions)
    <3>1. collected \in Seq(1..Len(functions))
      BY <1>1 DEF PrintInv, PrintType
    <3> QED
      BY <3>1
  <2> QED
    BY <1>1, <1>2, <2>1, <2>2 DEF ListingTypeOK, FramesInv
<1>4. LinesAreWhole
  BY <1>1, <1>2, BlocksAreCode DEF LinesAreWhole
<1>5. ListedAsPushed
  <2> SUFFICES ASSUME NEW n \in DOMAIN listing
               PROVE  /\ n <= Len(Printed.emitted)
                      /\ EntryIs(Printed, listing[n], n)
    BY DEF ListedAsPushed, EntryIs
  <2>1. EntryIs(Printed, listing[n], n)
    BY <1>1 DEF PrintInv
  <2>2. listing \in Seq(ToSet(listing)) /\ Len(listing) <= IF printing.block = 0 THEN 0 ELSE Len(Printed.emitted)
    BY <1>1 DEF PrintInv, PrintType
  <2>3. n \in 1..Len(listing) /\ Len(listing) \in Nat
    BY <2>2
  <2>4. printing.block # 0
    BY <2>2, <2>3
  <2>5. Len(Printed.emitted) \in Nat
    BY <1>1, <2>4, PrintedLies, NextIs
  <2> QED
    BY <2>1, <2>2, <2>3, <2>4, <2>5
<1> QED
  BY <1>1, <1>3, <1>4, <1>5, BlocksAreCode

-----------------------------------------------------------------------------
(* The calls that are listed.                                               *)

(* The walk goes from one instruction to the next when its size is right.   *)
LEMMA StepsOn ==
    ASSUME NEW x, BlockLies(x), \A e \in ToSet(x.emitted) : e.op \notin Missized,
           NEW ip, NEW m \in 0..Len(x.emitted), ip = NextAt(x, m)
    PROVE  /\ ip >= Len(x.bytes) => m = Len(x.emitted)
           /\ ~ (ip >= Len(x.bytes)) =>
                  LET op == Read(x.bytes, ip, 1).name IN
                  /\ m + 1 \in 1..Len(x.emitted) /\ m + 1 \in DOMAIN x.emitted
                  /\ x.emitted[m + 1].at = ip /\ x.emitted[m + 1].op = op
                  /\ getOpcodeSize(op) # 0 /\ op # "JUMP_TABLE"
                  /\ ip + getOpcodeSize(op) = NextAt(x, m + 1)
<1>1. /\ Len(x.emitted) \in Nat /\ DOMAIN x.emitted = 1..Len(x.emitted) /\ Len(x.bytes) \in Nat
      /\ \A n \in 1..Len(x.emitted) :
             /\ NextAt(x, n) = End(x.emitted[n]) /\ NextAt(x, n - 1) = x.emitted[n].at
             /\ x.emitted[n].at \in Nat /\ End(x.emitted[n]) \in Nat
             /\ x.emitted[n].at < End(x.emitted[n]) /\ End(x.emitted[n]) <= Len(x.bytes)
  BY NextIs
<1>2. m \in Nat /\ m <= Len(x.emitted)
  BY <1>1
<1>3. CASE m = Len(x.emitted)
  <2>1. ip = Len(x.bytes)
    BY <1>1, <1>3 DEF NextAt
  <2>2. ip >= Len(x.bytes)
    BY <1>1, <2>1
  <2> QED
    BY <1>3, <2>2
<1>4. CASE m # Len(x.emitted)
  <2>1. m + 1 \in 1..Len(x.emitted)
    BY <1>1, <1>2, <1>4
  <2>2. PICK n \in 1..Len(x.emitted) : n = m + 1 /\ n - 1 = m
    BY <1>2, <2>1
  <2>3. ip = x.emitted[n].at /\ ip \in Nat /\ ip < Len(x.bytes)
    BY <1>1, <2>2
  <2> DEFINE e == x.emitted[n]
  <2>4. /\ Read(x.bytes, ip, 1).name = e.op /\ ShownAt(x.bytes, ip, e.op) = e.operands
        /\ InstructionLies(x.bytes, e)
    BY <1>1, <2>3, OpcodeIsRead
  <2>5. e.op \in Ops
    BY <2>4 DEF InstructionLies
  <2>6. e.op \notin Missized
    BY <1>1 DEF ToSet
  <2> HIDE DEF e
  <2>7. e.op # "JUMP_TABLE"
    BY <2>6 DEF Missized
  <2>8. getOpcodeSize(e.op) = 1 + SizeOf(e.operands)
    <3>1. e.operands = Shown(e.op)
      BY <2>4, <2>7 DEF ShownAt
    <3> QED
      BY <2>5, <2>6, <3>1, ShownRegular
  <2>9. SizeOf(e.operands) \in Nat /\ End(e) = e.at + 1 + SizeOf(e.operands)
    <3>1. e.at \in Nat /\ Regular(e.operands)
      BY <2>4 DEF InstructionLies
    <3> QED
      BY <3>1, PlacesAre
  <2>10. getOpcodeSize(e.op) # 0
    BY <2>8, <2>9
  <2>11. ip + getOpcodeSize(e.op) = End(e)
    <3>1. PICK s \in Nat : s = SizeOf(e.operands)
      BY <2>9
    <3>2. e.at = ip
      BY <2>3 DEF e
    <3> QED
      BY <2>3, <2>8, <2>9, <3>1, <3>2, SMTT(40)
  <2>12. NextAt(x, n) = End(e)
    BY <1>1 DEF e
  <2>13. ~ (ip >= Len(x.bytes))
    BY <1>1, <2>3
  <2> QED
    BY <1>1, <2>2, <2>3, <2>4, <2>7, <2>10, <2>11, <2>12, <2>13 DEF e
<1> QED
  BY <1>3, <1>4

(* What a call that lies there names is one of the block's calls. *)
LEMMA CallsAre ==
    ASSUME NEW x, BlockLies(x)
    PROVE  /\ \A n \in DOMAIN x.emitted : x.emitted[n].op = "CALL" =>
                  Read(x.bytes, x.emitted[n].at + 1, 8).val \in Calls(x) \cup {0}
           /\ \A c \in Calls(x) : /\ c \in 1..Len(functions)
                                  /\ \E n \in DOMAIN x.emitted : /\ x.emitted[n].op = "CALL"
                                                                 /\ c = Read(x.bytes, x.emitted[n].at + 1, 8).val
<1>1. ASSUME NEW n \in DOMAIN x.emitted, x.emitted[n].op = "CALL"
      PROVE  Read(x.bytes, x.emitted[n].at + 1, 8).val \in Calls(x) \cup {0}
  <2>1. x.emitted[n] \in {f \in ToSet(x.emitted) : f.op = "CALL"}
    BY <1>1 DEF ToSet
  <2> QED
    BY <2>1 DEF Calls
<1>2. ASSUME NEW c \in Calls(x)
      PROVE  /\ c \in 1..Len(functions)
             /\ \E n \in DOMAIN x.emitted : /\ x.emitted[n].op = "CALL"
                                            /\ c = Read(x.bytes, x.emitted[n].at + 1, 8).val
  <2>1. PICK e \in ToSet(x.emitted) : e.op = "CALL" /\ c = Read(x.bytes, e.at + 1, 8).val
    BY DEF Calls
  <2>2. PICK n \in DOMAIN x.emitted : x.emitted[n] = e
    BY DEF ToSet
  <2>3. c \in 0..Len(functions) /\ c # 0
    <3>1. c \in 0..Len(functions)
      BY <2>1, <2>2, CallIsRead
    <3> QED
      BY <3>1 DEF Calls
  <2> QED
    BY <2>1, <2>2, <2>3
<1> QED
  BY <1>1, <1>2

(* A place the walk has come to, and what it does to what is collected. *)
Collects(found, op, fcn) ==
    IF op = "CALL" /\ fcn # 0 /\ ~Contains(found, fcn) THEN Append(found, fcn) ELSE found

LEMMA CollectsOnce ==
    ASSUME NEW T, NEW found \in Seq(T), IsInjective(found), NEW op, NEW fcn, op = "CALL" => fcn \in T \cup {0}
    PROVE  LET more == Collects(found, op, fcn) IN
           /\ IsInjective(more)
           /\ ToSet(more) = ToSet(found) \cup (IF op = "CALL" /\ fcn # 0 THEN {fcn} ELSE {})
<1> DEFINE more == Collects(found, op, fcn)
<1>1. Contains(found, fcn) <=> fcn \in ToSet(found)
  BY DEF Contains, ToSet
<1>2. CASE op = "CALL" /\ fcn # 0 /\ ~Contains(found, fcn)
  <2>1. PICK n \in Nat : n = Len(found) /\ DOMAIN found = 1..n
    OBVIOUS
  <2>2. more = Append(found, fcn) /\ fcn \in T
    BY <1>2 DEF Collects
  <2> HIDE DEF more
  <2>3. /\ DOMAIN more = 1..(n + 1) /\ more[n + 1] = fcn
        /\ \A k \in 1..n : more[k] = found[k]
    BY <2>1, <2>2
  <2>4. \A k \in 1..n : found[k] # fcn
    BY <1>1, <1>2, <2>1 DEF ToSet
  <2>5. \A k \in 1..(n + 1) : k \in 1..n \/ k = n + 1
    BY <2>1
  <2>6. IsInjective(more)
    <3> SUFFICES ASSUME NEW a \in 1..(n + 1), NEW b \in 1..(n + 1), more[a] = more[b] PROVE a = b
      BY <2>3 DEF IsInjective
    <3>1. CASE a \in 1..n /\ b \in 1..n
      BY <2>1, <2>3, <3>1 DEF IsInjective
    <3>2. CASE a = n + 1 /\ b \in 1..n
      BY <2>3, <2>4, <3>2
    <3>3. CASE b = n + 1 /\ a \in 1..n
      BY <2>3, <2>4, <3>3
    <3> QED
      BY <2>5, <3>1, <3>2, <3>3
  <2>7. ToSet(more) = ToSet(found) \cup {fcn}
    <3>1. ToSet(more) = {more[k] : k \in 1..(n + 1)} /\ ToSet(found) = {found[k] : k \in 1..n}
      BY <2>1, <2>3 DEF ToSet
    <3>2. \A k \in 1..n : k \in 1..(n + 1)
      BY <2>1
    <3> QED
      BY <2>1, <2>3, <2>5, <3>1, <3>2
  <2> QED
    BY <1>2, <2>6, <2>7 DEF more
<1>3. CASE ~ (op = "CALL" /\ fcn # 0 /\ ~Contains(found, fcn))
  <2>1. more = found
    BY <1>3 DEF Collects
  <2> QED
    BY <1>1, <1>3, <2>1
<1> QED
  BY <1>2, <1>3

LEMMA PassesMore ==
    ASSUME NEW x, NEW ip, NEW done, NEW more, done \subseteq more \cup {0}, Passes(x, ip, done)
    PROVE  Passes(x, ip, more)
  BY DEF Passes

(* The walk has passed all of a block, or passes one instruction of it.     *)
LEMMA PassesOn ==
    ASSUME NEW x, BlockLies(x), \A e \in ToSet(x.emitted) : e.op \notin Missized,
           NEW ip, NEW done, Passes(x, ip, done)
    PROVE  LET op == Read(x.bytes, ip, 1).name
               fcn == Read(x.bytes, ip + 1, 8).val
           IN /\ ip >= Len(x.bytes) => Calls(x) \subseteq done
              /\ ~ (ip >= Len(x.bytes)) =>
                     /\ getOpcodeSize(op) # 0 /\ op # "JUMP_TABLE"
                     /\ op = "CALL" => fcn \in Calls(x) \cup {0}
                     /\ Passes(x, ip + getOpcodeSize(op), done \cup (IF op = "CALL" THEN {fcn} ELSE {}))
<1> DEFINE op == Read(x.bytes, ip, 1).name
           fcn == Read(x.bytes, ip + 1, 8).val
           more == done \cup (IF op = "CALL" THEN {fcn} ELSE {})
<1>1. PICK m \in 0..Len(x.emitted) :
          /\ ip = NextAt(x, m)
          /\ \A n \in 1..m : x.emitted[n].op = "CALL" =>
                 Read(x.bytes, x.emitted[n].at + 1, 8).val \in done \cup {0}
  BY DEF Passes
<1>2. /\ ip >= Len(x.bytes) => m = Len(x.emitted)
      /\ ~ (ip >= Len(x.bytes)) =>
             /\ m + 1 \in 1..Len(x.emitted) /\ m + 1 \in DOMAIN x.emitted
             /\ x.emitted[m + 1].at = ip /\ x.emitted[m + 1].op = op
             /\ getOpcodeSize(op) # 0 /\ op # "JUMP_TABLE"
             /\ ip + getOpcodeSize(op) = NextAt(x, m + 1)
  BY <1>1, StepsOn
<1>3. Len(x.emitted) \in Nat /\ DOMAIN x.emitted = 1..Len(x.emitted)
  BY NextIs
<1>4. ASSUME ip >= Len(x.bytes) PROVE Calls(x) \subseteq done
  <2> SUFFICES ASSUME NEW c \in Calls(x) PROVE c \in done
    OBVIOUS
  <2>1. PICK n \in DOMAIN x.emitted : x.emitted[n].op = "CALL" /\ c = Read(x.bytes, x.emitted[n].at + 1, 8).val
    BY CallsAre
  <2>2. n \in 1..m
    BY <1>2, <1>3, <1>4
  <2>3. c # 0
    BY DEF Calls
  <2> QED
    BY <1>1, <2>1, <2>2, <2>3
<1>5. ASSUME ~ (ip >= Len(x.bytes))
      PROVE  /\ getOpcodeSize(op) # 0 /\ op # "JUMP_TABLE"
             /\ op = "CALL" => fcn \in Calls(x) \cup {0}
             /\ Passes(x, ip + getOpcodeSize(op), more)
  <2>1. /\ m + 1 \in 1..Len(x.emitted) /\ m + 1 \in DOMAIN x.emitted
        /\ x.emitted[m + 1].at = ip /\ x.emitted[m + 1].op = op
        /\ getOpcodeSize(op) # 0 /\ op # "JUMP_TABLE"
        /\ ip + getOpcodeSize(op) = NextAt(x, m + 1)
    BY <1>2, <1>5
  <2>2. op = "CALL" => fcn \in Calls(x) \cup {0}
    BY <2>1, CallsAre
  <2> HIDE DEF op
  <2>3. m + 1 \in 0..Len(x.emitted)
    BY <1>3, <2>1
  <2>4. ASSUME NEW n \in 1..(m + 1), x.emitted[n].op = "CALL"
        PROVE  Read(x.bytes, x.emitted[n].at + 1, 8).val \in more \cup {0}
    <3>1. CASE n = m + 1
      BY <2>1, <2>4, <3>1
    <3>2. CASE n # m + 1
      <4>1. n \in 1..m
        BY <1>3, <3>2
      <4> QED
        BY <1>1, <2>4, <4>1
    <3> QED
      BY <3>1, <3>2
  <2> HIDE DEF more
  <2>5. Passes(x, NextAt(x, m + 1), more)
    BY <2>3, <2>4 DEF Passes
  <2> QED
    BY <2>1, <2>2, <2>5
<1> QED
  BY <1>4, <1>5

(* The walk when it may enter the blocks the first one calls.               *)
Fits(blocks) ==
    AllSized(blocks) /\ \A f \in {1} \cup Calls(blocks[1]) : BlockLies(blocks[f])

LEMMA TopFits ==
    ASSUME NEW blocks, Fits(blocks), NEW stack, NEW found, Walks(blocks, stack, found),
           NEW n \in {1, 2}, Len(stack) = n, stack # <<>>
    PROVE  LET f == stack[n].block IN
           /\ n = 1 => f = 1
           /\ n = 2 => f \in Calls(blocks[1])
           /\ BlockLies(blocks[f]) /\ \A e \in ToSet(blocks[f].emitted) : e.op \notin Missized
           /\ Passes(blocks[f], stack[n].ip, IF n = 1 THEN Explored(blocks, stack, found) ELSE ToSet(found))
<1>1. n = 1 => stack[n].block = 1
  BY DEF Walks
<1>2. n = 2 => stack[n].block \in Calls(blocks[1])
  BY DEF Walks
<1>3. stack[n].block \in {1} \cup Calls(blocks[1])
  BY <1>1, <1>2
<1>4. Passes(blocks[stack[n].block], stack[n].ip, IF n = 1 THEN Explored(blocks, stack, found) ELSE ToSet(found))
  BY <1>1, <1>2 DEF Walks
<1> QED
  BY <1>1, <1>2, <1>3, <1>4 DEF Fits, AllSized

(* What the walk passed in a block stays collected and entered. *)
LEMMA ExploredStays ==
    ASSUME NEW blocks, NEW stack, NEW found, NEW next, NEW more, ToSet(found) \subseteq ToSet(more),
           Len(stack) = 2 => \/ Len(next) = 2 /\ next[2].block = stack[2].block
                             \/ Calls(blocks[stack[2].block]) \subseteq ToSet(more)
    PROVE  Explored(blocks, stack, found) \subseteq Explored(blocks, next, more)
  BY DEF Explored

LEMMA WalkPops ==
    ASSUME NEW blocks, Fits(blocks), NEW found,
           NEW stack \in Seq(FrameType), stack # <<>>, NEW n \in {1, 2}, Len(stack) = n,
           Walks(blocks, stack, found),
           stack[n].ip >= Len(blocks[stack[n].block].bytes)
    PROVE  Walks(blocks, Front(stack), found)
<1> DEFINE f == stack[n].block
           done == IF n = 1 THEN Explored(blocks, stack, found) ELSE ToSet(found)
<1>1. Calls(blocks[f]) \subseteq done
  BY TopFits, PassesOn
<1>2. n = 1 => f = 1
  BY TopFits
<1>3. Front(stack) = SubSeq(stack, 1, n - 1)
  BY DEF Front
<1>4. CASE n = 1
  <2>1. Front(stack) = <<>> /\ Len(Front(stack)) = 0
    BY <1>3, <1>4
  <2>2. \A g \in Calls(blocks[1]) : g \in ToSet(found) /\ Calls(blocks[g]) \subseteq ToSet(found)
    <3>1. Calls(blocks[1]) \subseteq Explored(blocks, stack, found)
      BY <1>1, <1>2, <1>4
    <3>2. Len(stack) # 2
      BY <1>4
    <3> QED
      BY <3>1, <3>2 DEF Explored
  <2> QED
    BY <2>1, <2>2 DEF Walks
<1>5. CASE n = 2
  <2>1. Len(Front(stack)) = 1 /\ Front(stack)[1] = stack[1] /\ Front(stack) # <<>>
    BY <1>3, <1>5
  <2>2. Explored(blocks, stack, found) \subseteq Explored(blocks, Front(stack), found)
    BY <1>1, <1>5, ExploredStays
  <2>3. stack[1].block = 1 /\ Passes(blocks[1], stack[1].ip, Explored(blocks, stack, found))
    BY DEF Walks
  <2>4. Passes(blocks[1], stack[1].ip, Explored(blocks, Front(stack), found))
    BY <2>2, <2>3, PassesMore
  <2> QED
    BY <2>1, <2>3, <2>4 DEF Walks
<1> QED
  BY <1>4, <1>5

(* A step in a block that was entered: whatever is called is collected.     *)
LEMMA WalkStepsBelow ==
    ASSUME NEW blocks, Fits(blocks), NEW T, NEW found \in Seq(T),
           NEW stack \in Seq(FrameType), Len(stack) = 2, stack # <<>>,
           Walks(blocks, stack, found),
           NEW op, NEW fcn,
           op = Read(blocks[stack[2].block].bytes, stack[2].ip, 1).name,
           fcn = Read(blocks[stack[2].block].bytes, stack[2].ip + 1, 8).val,
           op = "CALL" => fcn \in T \cup {0},
           ~ (stack[2].ip >= Len(blocks[stack[2].block].bytes)),
           NEW next, Len(next) = 2, next # <<>>, next[1] = stack[1], next[2].block = stack[2].block,
           next[2].ip = stack[2].ip + getOpcodeSize(op)
    PROVE  /\ getOpcodeSize(op) # 0 /\ op # "JUMP_TABLE"
           /\ Walks(blocks, next, Collects(found, op, fcn))
<1> DEFINE f == stack[2].block
           more == Collects(found, op, fcn)
<1>1. 2 \in {1, 2} /\ f \in Calls(blocks[1]) /\ BlockLies(blocks[f]) /\ (\A e \in ToSet(blocks[f].emitted) : e.op \notin Missized)
      /\ Passes(blocks[f], stack[2].ip, ToSet(found))
  BY TopFits
<1>2. /\ getOpcodeSize(op) # 0 /\ op # "JUMP_TABLE"
      /\ op = "CALL" => fcn \in Calls(blocks[f]) \cup {0}
      /\ Passes(blocks[f], next[2].ip, ToSet(found) \cup (IF op = "CALL" THEN {fcn} ELSE {}))
  <2>1. PICK x, ip, done : x = blocks[f] /\ ip = stack[2].ip /\ done = ToSet(found)
    OBVIOUS
  <2>2. /\ BlockLies(x) /\ (\A e \in ToSet(x.emitted) : e.op \notin Missized) /\ Passes(x, ip, done)
        /\ op = Read(x.bytes, ip, 1).name /\ fcn = Read(x.bytes, ip + 1, 8).val /\ ~ (ip >= Len(x.bytes))
    BY <1>1, <2>1
  <2>3. /\ getOpcodeSize(op) # 0 /\ op # "JUMP_TABLE"
        /\ op = "CALL" => fcn \in Calls(x) \cup {0}
        /\ Passes(x, ip + getOpcodeSize(op), done \cup (IF op = "CALL" THEN {fcn} ELSE {}))
    BY ONLY <2>2, PassesOn
  <2> QED
    BY <2>1, <2>3
<1>3. IsInjective(found)
  BY DEF Walks
<1>4. IsInjective(more) /\ ToSet(more) = ToSet(found) \cup (IF op = "CALL" /\ fcn # 0 THEN {fcn} ELSE {})
  BY <1>3, CollectsOnce
<1> HIDE DEF more
<1>5. Passes(blocks[f], next[2].ip, ToSet(more))
  <2>1. ToSet(found) \cup (IF op = "CALL" THEN {fcn} ELSE {}) \subseteq ToSet(more) \cup {0}
    BY <1>4
  <2> QED
    BY <1>2, <2>1, PassesMore
<1>6. Passes(blocks[1], next[1].ip, Explored(blocks, next, more))
  <2>1. Explored(blocks, stack, found) \subseteq Explored(blocks, next, more)
    BY <1>4, ExploredStays
  <2>2. Passes(blocks[1], stack[1].ip, Explored(blocks, stack, found))
    BY DEF Walks
  <2> QED
    BY <2>1, <2>2, PassesMore
<1>7. ToSet(more) \subseteq Calls(blocks[1]) \cup UNION {Calls(blocks[g]) : g \in Calls(blocks[1])}
  <2>1. ToSet(found) \subseteq Calls(blocks[1]) \cup UNION {Calls(blocks[g]) : g \in Calls(blocks[1])}
    BY DEF Walks
  <2>2. op = "CALL" /\ fcn # 0 => fcn \in UNION {Calls(blocks[g]) : g \in Calls(blocks[1])}
    BY <1>1, <1>2
  <2> QED
    BY <1>4, <2>1, <2>2
<1>8. next[1].block = 1
  BY DEF Walks
<1>9. Walks(blocks, next, more)
  BY <1>1, <1>4, <1>5, <1>6, <1>7, <1>8 DEF Walks
<1> QED
  BY <1>2, <1>9 DEF more

(* A step in the first block: what it calls is collected and entered.       *)
LEMMA WalkStepsAbove ==
    ASSUME NEW blocks, Fits(blocks), NEW T, NEW found \in Seq(T),
           NEW stack \in Seq(FrameType), Len(stack) = 1, stack # <<>>,
           Walks(blocks, stack, found),
           NEW op, NEW fcn,
           op = Read(blocks[1].bytes, stack[1].ip, 1).name,
           fcn = Read(blocks[1].bytes, stack[1].ip + 1, 8).val,
           op = "CALL" => fcn \in T \cup {0},
           ~ (stack[1].ip >= Len(blocks[1].bytes)),
           NEW next, next # <<>>, next[1].block = 1,
           next[1].ip = stack[1].ip + getOpcodeSize(op),
           IF op = "CALL" /\ fcn # 0 THEN Len(next) = 2 /\ next[2] = Frame(fcn, 1) ELSE Len(next) = 1
    PROVE  /\ getOpcodeSize(op) # 0 /\ op # "JUMP_TABLE"
           /\ Walks(blocks, next, Collects(found, op, fcn))
<1> DEFINE more == Collects(found, op, fcn)
           entered == IF op = "CALL" /\ fcn # 0 THEN {fcn} ELSE {}
<1>1. 1 \in {1, 2} /\ BlockLies(blocks[1]) /\ (\A e \in ToSet(blocks[1].emitted) : e.op \notin Missized)
      /\ Passes(blocks[1], stack[1].ip, Explored(blocks, stack, found))
  <2>1. stack[1].block = 1
    BY DEF Walks
  <2> QED
    BY <2>1, TopFits
<1>2. /\ getOpcodeSize(op) # 0 /\ op # "JUMP_TABLE"
      /\ op = "CALL" => fcn \in Calls(blocks[1]) \cup {0}
      /\ Passes(blocks[1], next[1].ip, Explored(blocks, stack, found) \cup (IF op = "CALL" THEN {fcn} ELSE {}))
  <2>1. PICK x, ip, done : x = blocks[1] /\ ip = stack[1].ip /\ done = Explored(blocks, stack, found)
    OBVIOUS
  <2>2. /\ BlockLies(x) /\ (\A e \in ToSet(x.emitted) : e.op \notin Missized) /\ Passes(x, ip, done)
        /\ op = Read(x.bytes, ip, 1).name /\ fcn = Read(x.bytes, ip + 1, 8).val /\ ~ (ip >= Len(x.bytes))
    BY <1>1, <2>1
  <2>3. /\ getOpcodeSize(op) # 0 /\ op # "JUMP_TABLE"
        /\ op = "CALL" => fcn \in Calls(x) \cup {0}
        /\ Passes(x, ip + getOpcodeSize(op), done \cup (IF op = "CALL" THEN {fcn} ELSE {}))
    BY ONLY <2>2, PassesOn
  <2> QED
    BY <2>1, <2>3
<1>3. IsInjective(found)
  BY DEF Walks
<1>4. IsInjective(more) /\ ToSet(more) = ToSet(found) \cup entered
  BY <1>3, CollectsOnce
<1> HIDE DEF more
<1>5. Explored(blocks, stack, found) \subseteq Explored(blocks, next, more)
  <2>1. Len(stack) # 2
    OBVIOUS
  <2> QED
    BY <1>4, <2>1, ExploredStays
<1>6. entered \subseteq Explored(blocks, next, more)
  <2> SUFFICES ASSUME op = "CALL", fcn # 0 PROVE fcn \in Explored(blocks, next, more)
    OBVIOUS
  <2>1. fcn \in ToSet(more)
    BY <1>4
  <2>2. Len(next) = 2 /\ next[2].block = fcn
    BY DEF Frame
  <2> QED
    BY <2>1, <2>2 DEF Explored
<1>7. Passes(blocks[1], next[1].ip, Explored(blocks, next, more))
  <2>1. Explored(blocks, stack, found) \cup (IF op = "CALL" THEN {fcn} ELSE {}) \subseteq Explored(blocks, next, more) \cup {0}
    BY <1>5, <1>6
  <2> QED
    BY <1>2, <2>1, PassesMore
<1>8. ToSet(more) \subseteq Calls(blocks[1]) \cup UNION {Calls(blocks[g]) : g \in Calls(blocks[1])}
  <2>1. ToSet(found) \subseteq Calls(blocks[1]) \cup UNION {Calls(blocks[g]) : g \in Calls(blocks[1])}
    BY DEF Walks
  <2>2. entered \subseteq Calls(blocks[1])
    BY <1>2
  <2> HIDE DEF entered
  <2> QED
    BY <1>4, <2>1, <2>2
<1>9. Len(next) = 2 => /\ next[2].block \in Calls(blocks[1])
                       /\ Passes(blocks[next[2].block], next[2].ip, ToSet(more))
  <2> SUFFICES ASSUME Len(next) = 2
               PROVE  /\ next[2].block \in Calls(blocks[1])
                      /\ Passes(blocks[next[2].block], next[2].ip, ToSet(more))
    OBVIOUS
  <2>1. op = "CALL" /\ fcn # 0 /\ next[2] = Frame(fcn, 1)
    OBVIOUS
  <2>2. next[2].block = fcn /\ next[2].ip = 0 /\ fcn \in Calls(blocks[1])
    BY <1>2, <2>1 DEF Frame
  <2>3. BlockLies(blocks[fcn])
    BY <2>2 DEF Fits
  <2>4. NextAt(blocks[fcn], 0) = 0 /\ Len(blocks[fcn].emitted) \in Nat
    BY <2>3, NextIs
  <2>5. 0 \in 0..Len(blocks[fcn].emitted) /\ 1..0 = {}
    BY <2>4
  <2>6. Passes(blocks[fcn], 0, ToSet(more))
    BY <2>4, <2>5 DEF Passes
  <2> QED
    BY <2>2, <2>6
<1>10. Walks(blocks, next, more)
  <2>1. IsInjective(more) /\ next[1].block = 1
    BY <1>4
  <2> HIDE DEF entered
  <2> QED
    BY <1>7, <1>8, <1>9, <2>1 DEF Walks
<1> QED
  BY <1>2, <1>10 DEF more

LEMMA CollectKeeps ==
    ASSUME MaxDepth = 1, ListingInv, WalkInv, Collect
    PROVE  WalkInv'
<1> SUFFICES ASSUME AllSized(exes)
             PROVE  printing'.walk = "walked" /\ Walks(exes, frames', collected')
  <2>1. exes' = exes
    BY DEF Collect
  <2> QED
    BY <2>1 DEF WalkInv
<1>1. BuildInv /\ PrintInv /\ FramesInv
  BY DEF ListingInv
<1>2. /\ Built /\ frames # <<>> /\ frames \in Seq(FrameType) /\ Len(frames) <= 2
      /\ \A k \in DOMAIN frames : frames[k].depth = k - 1
      /\ printing.walk = "walked" /\ collected \in Seq(1..Len(functions))
  BY <1>1 DEF Collect, FramesInv, FrameType, PrintInv, PrintType
<1>3. PICK n \in {1, 2} : n = Len(frames) /\ DOMAIN frames = 1..n
  <2>1. Len(frames) \in Nat /\ DOMAIN frames = 1..Len(frames) /\ Len(frames) # 0
    BY <1>2, EmptySeq
  <2>2. Len(frames) = 1 \/ Len(frames) = 2
    BY <1>2, <2>1
  <2> QED
    BY <2>1, <2>2
<1>4. TopFrame = frames[n] /\ TopFrame \in FrameType /\ TopFrame.depth = n - 1
  <2>1. TopFrame = frames[n] /\ n \in 1..n
    BY <1>3 DEF TopFrame
  <2>2. frames[n] \in FrameType
    BY <1>2, <1>3, <2>1
  <2> QED
    BY <1>2, <1>3, <2>1, <2>2
<1>5. Walks(exes, frames, collected)
  BY <1>2 DEF WalkInv
<1>6. Fits(exes)
  <2>1. Len(exes) = Len(functions) /\ exes \in Seq(ToSet(exes)) /\ \A b \in DOMAIN exes : BlockLies(exes[b])
    BY <1>1, <1>2 DEF BuildInv, Built
  <2>2. DOMAIN exes = 1..Len(functions)
    BY <2>1
  <2>3. functions \in Seq(ToSet(functions)) /\ functions # <<>>
    BY <1>1 DEF BuildInv, ProgramFits
  <2>4. BlockLies(exes[1])
    <3>1. 1 \in 1..Len(functions)
      BY <2>3
    <3> QED
      BY <2>1, <2>2, <3>1
  <2>5. \A f \in Calls(exes[1]) : BlockLies(exes[f])
    BY <2>1, <2>2, <2>4, CallsAre
  <2> QED
    BY <2>4, <2>5 DEF Fits
<1> DEFINE b == frames[n].block
           bytes == exes[b].bytes
           ip == frames[n].ip
<1>7. PICK op, fcn : op = Read(bytes, ip, 1).name /\ fcn = Read(bytes, ip + 1, 8).val
  OBVIOUS
<1>8. ip \in Nat /\ getOpcodeSize(op) \in Nat /\ frames[n] \in FrameType /\ b \in 1..Len(functions)
  BY <1>4, SizesAre DEF FrameType
<1>9. CASE ip >= Len(bytes)
  <2>1. frames' = Front(frames) /\ collected' = collected /\ printing' = printing
    BY <1>4, <1>9 DEF Collect
  <2>2. Walks(exes, Front(frames), collected)
    BY <1>2, <1>3, <1>5, <1>6, <1>9, WalkPops
  <2> QED
    BY <1>2, <2>1, <2>2
<1>10. CASE ~ (ip >= Len(bytes))
  <2> DEFINE next == [frames EXCEPT ![n].ip = @ + getOpcodeSize(op)]
             on   == IF op = "CALL" /\ EntersBlock(fcn, n) THEN Append(next, Frame(fcn, n)) ELSE next
  <2>1. getOpcodeSize(op) # 0 /\ op # "JUMP_TABLE" =>
            printing' = printing /\ collected' = Collects(collected, op, fcn) /\ frames' = on
    <3>1. TopFrame.depth + 1 = n
      BY <1>4
    <3> QED
      BY <1>3, <1>4, <1>7, <1>10, <3>1 DEF Collect, Collects
  <2>2. op = "CALL" => fcn \in 1..Len(functions) \cup {0}
    <3>1. BlockLies(exes[b]) /\ (\A e \in ToSet(exes[b].emitted) : e.op \notin Missized)
          /\ Passes(exes[b], ip, IF n = 1 THEN Explored(exes, frames, collected) ELSE ToSet(collected))
      BY <1>2, <1>3, <1>5, <1>6, TopFits
    <3>2. op = "CALL" => fcn \in Calls(exes[b]) \cup {0}
      BY <1>7, <1>10, <3>1, PassesOn
    <3> QED
      BY <3>1, <3>2, CallsAre
  <2>3. PICK f : f = [frames[n] EXCEPT !.ip = ip + getOpcodeSize(op)]
    OBVIOUS
  <2>4. f \in FrameType /\ f.block = b /\ f.ip = ip + getOpcodeSize(op)
    <3>1. ip + getOpcodeSize(op) \in Nat
      BY <1>8
    <3> QED
      BY <1>8, <2>3, <3>1 DEF FrameType
  <2>5. next = [frames EXCEPT ![n] = f]
    BY <2>3
  <2> HIDE DEF next
  <2>6. /\ next \in Seq(FrameType) /\ Len(next) = n /\ DOMAIN next = 1..n
        /\ \A k \in 1..n : next[k] = IF k = n THEN f ELSE frames[k]
    BY <1>2, <1>3, <2>4, <2>5
  <2>7. next # <<>>
    <3>1. Len(next) # 0
      BY <2>6
    <3> QED
      BY <3>1
  <2>8. CASE n = 2
    <3>1. on = next
      BY <2>8 DEF EntersBlock
    <3>2. next[1] = frames[1] /\ next[2] = f
      BY <2>6, <2>8
    <3>3. getOpcodeSize(op) # 0 /\ op # "JUMP_TABLE" /\ Walks(exes, next, Collects(collected, op, fcn))
      <4>1. Len(frames) = 2 /\ collected \in Seq(1..Len(functions)) /\ frames # <<>> /\ frames \in Seq(FrameType)
        BY <1>2, <1>3, <2>8
      <4>2. /\ op = Read(exes[frames[2].block].bytes, frames[2].ip, 1).name
            /\ fcn = Read(exes[frames[2].block].bytes, frames[2].ip + 1, 8).val
            /\ ~ (frames[2].ip >= Len(exes[frames[2].block].bytes))
        BY <1>7, <1>10, <2>8
      <4>3. /\ Len(next) = 2 /\ next[2].block = frames[2].block
            /\ next[2].ip = frames[2].ip + getOpcodeSize(op)
        BY <2>4, <2>6, <2>8, <3>2
      <4> HIDE DEF b, bytes, ip
      <4> QED
        BY <1>5, <1>6, <2>2, <2>7, <3>2, <4>1, <4>2, <4>3, WalkStepsBelow, SMTT(40)
    <3> QED
      BY <1>2, <2>1, <3>1, <3>3
  <2>9. CASE n = 1
    <3>1. EntersBlock(fcn, 1) <=> fcn # 0
      BY DEF EntersBlock
    <3>2. b = 1
      BY <1>2, <1>5, <2>9 DEF Walks
    <3>3. next[1] = f
      BY <2>6, <2>9
    <3>4. /\ on # <<>> /\ on[1] = f
          /\ IF op = "CALL" /\ fcn # 0 THEN Len(on) = 2 /\ on[2] = Frame(fcn, 1) ELSE Len(on) = 1
      <4>1. CASE op = "CALL" /\ fcn # 0
        <5>1. Frame(fcn, 1) \in FrameType
          <6>1. fcn \in 1..Len(functions)
            BY <2>2, <4>1
          <6> QED
            BY <6>1 DEF Frame, FrameType
        <5>2. on = Append(next, Frame(fcn, 1))
          BY <2>9, <3>1, <4>1
        <5>3. PICK g \in FrameType : g = Frame(fcn, 1)
          BY <5>1
        <5>4. on = Append(next, g) /\ Len(next) = 1 /\ next \in Seq(FrameType)
          BY <2>6, <2>9, <5>2, <5>3
        <5> HIDE DEF on
        <5>5. Len(on) = 2 /\ on[1] = next[1] /\ on[2] = g /\ on # <<>>
          BY <5>4
        <5> QED
          BY <3>3, <4>1, <5>3, <5>5
      <4>2. CASE ~ (op = "CALL" /\ fcn # 0)
        <5>1. on = next
          BY <2>9, <3>1, <4>2
        <5> QED
          BY <2>6, <2>7, <2>9, <3>3, <4>2, <5>1
      <4> QED
        BY <4>1, <4>2
    <3> HIDE DEF on
    <3>5. getOpcodeSize(op) # 0 /\ op # "JUMP_TABLE" /\ Walks(exes, on, Collects(collected, op, fcn))
      <4>1. Len(frames) = 1 /\ collected \in Seq(1..Len(functions)) /\ frames # <<>> /\ frames \in Seq(FrameType)
        BY <1>2, <1>3, <2>9
      <4>2. /\ op = Read(exes[1].bytes, frames[1].ip, 1).name
            /\ fcn = Read(exes[1].bytes, frames[1].ip + 1, 8).val
            /\ ~ (frames[1].ip >= Len(exes[1].bytes))
        BY <1>7, <1>10, <2>9, <3>2
      <4>3. on[1].block = 1 /\ on[1].ip = frames[1].ip + getOpcodeSize(op)
        BY <2>4, <2>9, <3>2, <3>4
      <4> HIDE DEF b, bytes, ip
      <4> QED
        BY <1>5, <1>6, <2>2, <3>4, <4>1, <4>2, <4>3, WalkStepsAbove
    <3> QED
      BY <1>2, <2>1, <3>5 DEF on
  <2> QED
    BY <2>8, <2>9
<1> QED
  BY <1>9, <1>10

LEMMA WalkKept ==
    ASSUME MaxDepth = 1, ListingInv, WalkInv, [ListingNext]_listingVars
    PROVE  WalkInv'
<1>1. BuildInv /\ PrintInv /\ FramesInv
  BY DEF ListingInv
<1>2. printing \in PrintingType
  BY <1>1 DEF PrintInv, PrintType, PrintingType, Orders
<1>3. ASSUME exes' = exes, functions' = functions, frames' = frames, collected' = collected,
             printing'.walk = printing.walk
      PROVE  WalkInv'
  BY <1>3 DEF WalkInv, Built
<1>4. CASE BuildPiece \/ Commit
  <2>1. printing' = printing /\ Len(exes) < Len(functions)
    BY <1>4 DEF BuildPiece, Commit
  <2>2. ~ Built
    <3>1. functions \in Seq(ToSet(functions)) /\ exes \in Seq(ToSet(exes))
      BY <1>1 DEF BuildInv, ProgramFits
    <3> QED
      BY <2>1, <3>1 DEF Built
  <2>3. printing.walk = "no"
    BY <1>1, <2>2 DEF PrintInv, PrintType
  <2> QED
    BY <2>1, <2>3 DEF WalkInv
<1>5. CASE Collect
  BY <1>5, CollectKeeps
<1>6. CASE PrintFunction
  <2>1. /\ Built /\ printing.walk = "no" /\ frames' = <<Frame(1, 0)>> /\ exes' = exes /\ collected' = collected
        /\ functions' = functions /\ printing' = [printing EXCEPT !.walk = "walked", !.order = <<1>>]
    BY <1>6 DEF PrintFunction
  <2>2. printing'.walk = "walked"
    BY <1>2, <2>1 DEF PrintingType
  <2>3. collected = <<>> /\ ToSet(collected) = {} /\ IsInjective(collected)
    <3>1. collected = <<>>
      BY <1>1, <2>1 DEF FramesInv
    <3> QED
      BY <3>1 DEF ToSet, IsInjective
  <2>4. /\ Len(frames') = 1 /\ frames' # <<>>
        /\ frames'[1].block = 1 /\ frames'[1].ip = 0
    BY <2>1 DEF Frame
  <2>5. BlockLies(exes[1])
    <3>1. functions \in Seq(ToSet(functions)) /\ functions # <<>> /\ exes \in Seq(ToSet(exes))
      BY <1>1 DEF BuildInv, ProgramFits
    <3>2. 1 \in DOMAIN exes
      BY <2>1, <3>1 DEF Built
    <3> QED
      BY <1>1, <3>2 DEF BuildInv
  <2>6. Passes(exes[1], 0, Explored(exes, frames', collected))
    <3>1. NextAt(exes[1], 0) = 0 /\ Len(exes[1].emitted) \in Nat
      BY <2>5, NextIs
    <3>2. 0 \in 0..Len(exes[1].emitted) /\ 1..0 = {}
      BY <3>1
    <3> QED
      BY <3>1, <3>2 DEF Passes
  <2>7. Walks(exes, frames', collected)
    BY <2>3, <2>4, <2>6 DEF Walks
  <2> QED
    BY <2>1, <2>2, <2>7 DEF WalkInv
<1>7. CASE PrintUnit
  <2>1. printing'.walk = "all"
    <3>1. \E all : printing' = [printing EXCEPT !.walk = "all", !.order = all]
      BY <1>7 DEF PrintUnit
    <3> QED
      BY <1>2, <3>1 DEF PrintingType
  <2> QED
    BY <2>1 DEF WalkInv
<1>8. CASE PrintBlock
  <2>1. \E b : printing' = [printing EXCEPT !.block = b, !.ptr = 0, !.lineIdx = 0, !.lineEnd = 0]
    BY <1>8 DEF PrintBlock
  <2>2. printing'.walk = printing.walk
    BY <1>2, <2>1 DEF PrintingType
  <2> QED
    BY <1>3, <1>8, <2>2 DEF PrintBlock
<1>9. CASE PrintLine
  <2>1. printing' = [printing EXCEPT !.lineIdx = @ + 1, !.lineEnd = Printed.lines[printing.lineIdx + 1].end]
    BY <1>1, <1>9, LineGoesOn
  <2>2. printing'.walk = printing.walk
    BY <1>2, <2>1 DEF PrintingType
  <2> QED
    BY <1>3, <1>9, <2>2 DEF PrintLine
<1>10. CASE PrintInstruction
  <2>1. \E q : printing' = [printing EXCEPT !.ptr = q]
    BY <1>10 DEF PrintInstruction
  <2>2. printing'.walk = printing.walk
    BY <1>2, <2>1 DEF PrintingType
  <2> QED
    BY <1>3, <1>10, <2>2 DEF PrintInstruction
<1>11. CASE BlockPrinted
  <2>1. printing' = [printing EXCEPT !.ptr = -1, !.done = @ + 1]
    BY <1>11 DEF BlockPrinted
  <2>2. printing'.walk = printing.walk
    BY <1>2, <2>1 DEF PrintingType
  <2> QED
    BY <1>3, <1>11, <2>2 DEF BlockPrinted
<1>12. CASE UNCHANGED listingVars
  BY <1>3, <1>12 DEF listingVars
<1> QED
  BY <1>4, <1>5, <1>6, <1>7, <1>8, <1>9, <1>10, <1>11, <1>12 DEF ListingNext

(* What the walk has found when it is done is what is to be listed. *)
LEMMA WalkIsWhole ==
    ASSUME ListingInv, WalkInv
    PROVE  CallsAreListed
<1> DEFINE called == CalledBy(1)
           below == UNION {CalledBy(f) : f \in called}
<1> SUFFICES ASSUME Built, frames = <<>>, printing.walk \in {"walked", "lost"}, \A b \in {1} \cup called : Sized(b)
             PROVE  printing.walk = "walked" /\ ToSet(collected) = called \cup below /\ IsInjective(collected)
  BY DEF CallsAreListed
<1>1. \A f : CalledBy(f) = Calls(exes[f])
  BY DEF CalledBy, Calls
<1>2. AllSized(exes)
  BY <1>1 DEF AllSized, Sized
<1>3. printing.walk = "walked" /\ Walks(exes, frames, collected)
  BY <1>2 DEF WalkInv
<1>4. /\ ToSet(collected) \subseteq called \cup below /\ IsInjective(collected)
      /\ \A f \in called : f \in ToSet(collected) /\ CalledBy(f) \subseteq ToSet(collected)
  BY <1>1, <1>3 DEF Walks
<1>5. called \cup below \subseteq ToSet(collected)
  BY <1>4
<1> QED
  BY <1>3, <1>4, <1>5

-----------------------------------------------------------------------------
(* Whatever the program, if only its pieces fit: a block's lines are its    *)
(* bytes cut into pieces, what is listed is what was pushed, the machine    *)
(* fetches what was pushed but for a blob of another block, and a jump goes *)
(* to an instruction (pushInstruction and patchJumpToHere, printBlock and   *)
(* findLineForOffset, the fetches of interpreter_exec.cpp).                 *)
THEOREM ListingAlwaysWhole ==
    ListingSpec => [](ListingTypeOK /\ LinesAreWhole /\ ListedAsPushed /\ FetchedAsPushed /\ JumpsToCode)
<1>1. functions \in Listings /\ ListingStart => ListingInv
  BY ListingBegins
<1>2. ListingInv /\ [ListingNext]_listingVars => ListingInv'
  BY ListingKept
<1>3. ListingInv => ListingTypeOK /\ LinesAreWhole /\ ListedAsPushed /\ FetchedAsPushed /\ JumpsToCode
  BY ListingIsWhole
<1> QED
  BY <1>1, <1>2, <1>3, PTL DEF ListingSpec

(* With the depth collectFunctions has in the source, 1, the functions      *)
(* listed with one are those it calls and those they call, each once, when  *)
(* no instruction there has a wrong size in getOpcodeSize.                  *)
THEOREM ListingAlwaysCode == MaxDepth = 1 => (ListingSpec => []ListingIsCode)
<1> SUFFICES ASSUME MaxDepth = 1 PROVE ListingSpec => []ListingIsCode
  OBVIOUS
<1>1. functions \in Listings /\ ListingStart => ListingInv /\ WalkInv
  <2> SUFFICES ASSUME functions \in Listings, ListingStart PROVE ListingInv /\ WalkInv
    OBVIOUS
  <2>1. printing.walk = "no"
    BY DEF ListingStart, NotPrinting
  <2> QED
    BY <2>1, ListingBegins DEF WalkInv
<1>2. ListingInv /\ WalkInv /\ [ListingNext]_listingVars => (ListingInv /\ WalkInv)'
  BY ListingKept, WalkKept
<1>3. ListingInv /\ WalkInv => ListingIsCode
  BY ListingIsWhole, WalkIsWhole DEF ListingIsCode
<1> QED
  BY <1>1, <1>2, <1>3, PTL DEF ListingSpec
=============================================================================
