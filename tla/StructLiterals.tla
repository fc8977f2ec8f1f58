---------------------------- MODULE StructLiterals ----------------------------
(***************************************************************************)
(* A struct literal on its way to memory: parseTypeInitialization of       *)
(* src/src/parser.cpp, the case of it in validateExpression of             *)
(* src/src/validator.cpp, and the code of it that src/interpreter_build.cpp *)
(* makes, run by the machine.  src/doc/doc.md (5.5.3) says what a literal  *)
(* means; LiteralsAsWritten says of which literals that is true.           *)
(*                                                                         *)
(* A struct type has members, a scalar has a kind and one cell.  A piece   *)
(* of a literal has a name or none, or stands for the rest, and a value: a *)
(* number, a variable or a literal.  Left out: the literal without pieces, *)
(* unions, and the defaults of members.                                    *)
(***************************************************************************)
EXTENDS Integers, Sequences, SequencesExt, FiniteSets

CONSTANT LiteralTexts      \* the literals, each with the type it is for

VARIABLES literal,         \* [pieces, type]
          literalStage,    \* where it is, or how it ended
          literalCode,
          machine          \* the operand stack, the cells, whether it wrote elsewhere

literalVars == <<literal, literalStage, literalCode, machine>>

-----------------------------------------------------------------------------
(* Types and the cells they take                                           *)

IsStruct(type) == type.kind = "STRUCT"
RECURSIVE CellsIn(_)
RECURSIVE OffsetOf(_, _)
CellsIn(type) == IF IsStruct(type) THEN OffsetOf(type.members, Len(type.members) + 1) ELSE 1
OffsetOf(members, i) == IF i = 1 THEN 0 ELSE OffsetOf(members, i - 1) + CellsIn(members[i - 1].type)

(* Where the member of this name is, 0 where none has it.                  *)
findMember(type, name) == SelectInSeq(type.members, LAMBDA m : <<m.name>> = name)

-----------------------------------------------------------------------------
(* Parsing                                                                 *)

Attributes(pieces) == SelectSeq(pieces, LAMBDA p : ~p.rest)
Rests(pieces) == SelectSeq(pieces, LAMBDA p : p.rest)

(* The first piece says whether all are taken to be named.                 *)
NamesAssumed(pieces) == pieces[1].rest \/ pieces[1].name # <<>>
RECURSIVE ParsesValue(_)
Parses(pieces) ==
    /\ IF NamesAssumed(pieces) THEN /\ \A i \in DOMAIN pieces : pieces[i].rest \/ pieces[i].name # <<>>
                                    /\ Len(Rests(pieces)) <= 1
       ELSE \A i \in DOMAIN pieces : ~pieces[i].rest /\ pieces[i].name = <<>>
    /\ \A i \in DOMAIN pieces : ParsesValue(pieces[i].value)
ParsesValue(v) == v.form = "literal" => Parses(v.pieces)

(* The name the attribute's node has: a lone variable has its own.         *)
Called(p) == IF p.name = <<>> /\ p.value.form = "variable" THEN <<p.value.name>> ELSE p.name
IsLone(p)   == p.name = <<>> /\ p.value.form = "variable"

-----------------------------------------------------------------------------
(* Validating: "ok", "refused", or "faults" where a NULL member is read    *)

FirstNotOk(verdicts) ==
    LET bad == SelectInSeq(verdicts, LAMBDA v : v # "ok") IN IF bad = 0 THEN "ok" ELSE verdicts[bad]

attributesAreNamed(attrs) == attrs # <<>> /\ Called(attrs[1]) # <<>>
(* idxs: the member an attribute is for.                                   *)
idxs(attrs, type, i) == IF attributesAreNamed(attrs) THEN findMember(type, Called(attrs[i])) ELSE i

ImplicitlyCast(from, to) == IF from = to \/ (~IsStruct(from) /\ ~IsStruct(to)) THEN "ok" ELSE "refused"

RECURSIVE ValidateLiteral(_, _)
(* A lone variable is linked to the member at its place, not to what it    *)
(* is the name of.                                                         *)
ValidateAttribute(attrs, type, i) ==
    LET m == idxs(attrs, type, i)
        v == attrs[i].value
    IN IF m = 0 THEN "faults"
       ELSE LET target == type.members[m].type IN
            CASE v.form = "literal" -> IF IsStruct(target) THEN ValidateLiteral(v.pieces, target) ELSE "faults"
              [] IsLone(attrs[i]) -> ImplicitlyCast(type.members[i].type, target)
              [] OTHER -> ImplicitlyCast(v.type, target)
ValidateRest(pieces, type) ==
    FirstNotOk([k \in 1..(Len(type.members) - Len(Attributes(pieces))) |->
        ImplicitlyCast(Rests(pieces)[1].value.type, type.members[Len(Attributes(pieces)) + k].type)])
ValidateLiteral(pieces, type) ==
    LET attrs == Attributes(pieces) IN
    IF Len(attrs) > Len(type.members) THEN "refused"
    ELSE FirstNotOk([i \in DOMAIN attrs |-> ValidateAttribute(attrs, type, i)]
                    \o IF Rests(pieces) = <<>> THEN <<>> ELSE <<ValidateRest(pieces, type)>>)

-----------------------------------------------------------------------------
(* Compiling: the address is on the stack, and is taken away at the end.   *)
(* An attribute goes to the member at its place, whatever its name, and    *)
(* the value for the rest goes nowhere.                                    *)

OpOf(op, arg) == [op |-> op, arg |-> arg]
Datum(of, kind) == [of |-> of, as |-> kind]
Blob(name, type) == [k \in 1..CellsIn(type) |-> OpOf("PUSH", Datum(<<name, k>>, "word"))]

(* Mutant: an address that has been used stays on the stack. *)
AddressStays == <<>>
AddressGone == <<OpOf("POP", 0)>>

RECURSIVE CodeOfLiteral(_, _)
CodeOfValue(attrs, type, i) ==
    LET v == attrs[i].value
        target == type.members[idxs(attrs, type, i)].type
    IN CASE v.form = "literal" -> CodeOfLiteral(v.pieces, target)
         [] IsLone(attrs[i])     -> <<OpOf("GET_MEMBER", i)>>
         [] v.form = "variable" /\ IsStruct(v.type) -> Blob(v.name, v.type)
         [] OTHER -> <<OpOf("PUSH", Datum(<<v.name>>, target.kind))>>
CodeOfAttribute(attrs, type, i) ==
    <<OpOf("DUP", 0), OpOf("PTR_IDX", OffsetOf(type.members, i))>> \o CodeOfValue(attrs, type, i)
    \o IF IsStruct(type.members[i].type) THEN <<>> ELSE <<OpOf("STORE", type.members[i].type.kind)>>
CodeOfLiteral(pieces, type) ==
    LET attrs == Attributes(pieces)
    IN FoldLeft(LAMBDA code, i : code \o CodeOfAttribute(attrs, type, i), <<>>, [i \in DOMAIN attrs |-> i]) \o AddressGone

-----------------------------------------------------------------------------
(* The machine on this code                                                *)

AddressWord(a) == [at |-> a]
IsAddress(w) == "at" \in DOMAIN w
Junk   == Datum(<<"junk">>, "word")
CallersWord == Datum(<<"caller's">>, "word")    \* the word below the statement's
Blank  == Datum(<<"before">>, "word")

FreshMachine == [stack |-> <<CallersWord, AddressWord(0)>>,
                 cells |-> [a \in 0..(CellsIn(literal.type) - 1) |-> Blank], wild |-> FALSE]
LastWord(n) == machine.stack[Len(machine.stack) + 1 - n]
WithoutTop(n) == SubSeq(machine.stack, 1, Len(machine.stack) - n)

Execute(o) ==
    CASE o.op = "PUSH" -> [machine EXCEPT !.stack = Append(@, o.arg)]
      [] o.op = "DUP"  -> [machine EXCEPT !.stack = Append(@, LastWord(1))]
      [] o.op = "POP"  -> [machine EXCEPT !.stack = WithoutTop(1)]
      [] o.op = "PTR_IDX" ->
            LET sum == IF IsAddress(LastWord(1)) THEN AddressWord(LastWord(1).at + o.arg) ELSE Junk
            IN  [machine EXCEPT !.stack = Append(WithoutTop(1), sum)]
      [] o.op = "STORE" ->
            LET to == LastWord(2)
                value == IF IsAddress(LastWord(1)) THEN Junk ELSE LastWord(1)
                inside == IsAddress(to) /\ to.at \in DOMAIN machine.cells
            IN  [machine EXCEPT !.stack = WithoutTop(2), !.wild = @ \/ ~inside,
                                !.cells = IF inside THEN [@ EXCEPT ![to.at] = Datum(value.of, o.arg)] ELSE @]

(* What an opcode takes is there, or the words below are taken.            *)
TakenBy(o) == CASE o.op = "STORE" -> 2 [] o.op = "PUSH" -> 0 [] OTHER -> 1

-----------------------------------------------------------------------------
LiteralStart == literalStage = "text" /\ literalCode = <<>> /\ machine = FreshMachine
LiteralInit == literal \in LiteralTexts /\ LiteralStart

ParseLiteral ==
    /\ literalStage = "text"
    /\ literalStage' = IF Parses(literal.pieces) THEN "parsed" ELSE "refused"
    /\ UNCHANGED <<literal, literalCode, machine>>

CheckLiteral ==
    /\ literalStage = "parsed"
    /\ LET verdict == ValidateLiteral(literal.pieces, literal.type)
       IN literalStage' = IF verdict = "ok" THEN "validated" ELSE verdict
    /\ UNCHANGED <<literal, literalCode, machine>>

CompileLiteral ==
    /\ literalStage = "validated"
    /\ literalStage' = "running"
    /\ literalCode' = CodeOfLiteral(literal.pieces, literal.type)
    /\ UNCHANGED <<literal, machine>>

(* The place of a member is not known to the machine: it reports that the  *)
(* block it would be in is not executing, and stops.                       *)
RunLiteral ==
    /\ literalStage = "running" /\ literalCode # <<>>
    /\ LET o == Head(literalCode) IN
       IF o.op = "GET_MEMBER" \/ Len(machine.stack) < TakenBy(o)
       THEN /\ literalStage' = "stopped" /\ UNCHANGED <<literalCode, machine>>
       ELSE /\ machine' = Execute(o) /\ literalCode' = Tail(literalCode) /\ UNCHANGED literalStage
    /\ UNCHANGED literal

EndLiteral ==
    /\ literalStage = "running" /\ literalCode = <<>>
    /\ literalStage' = "stored"
    /\ UNCHANGED <<literal, literalCode, machine>>

LiteralNext == ParseLiteral \/ CheckLiteral \/ CompileLiteral \/ RunLiteral \/ EndLiteral

-----------------------------------------------------------------------------
(* What a literal means: a named piece is its member's, one without a name *)
(* the member's at its place, and the rest is for all that have none.      *)

PieceFor(pieces, type, i) ==
    LET named == {k \in DOMAIN pieces : pieces[k].name = <<type.members[i].name>>}
        rest  == {k \in DOMAIN pieces : pieces[k].rest}
    IN CASE pieces[1].name = <<>> /\ ~pieces[1].rest -> {i} \cap DOMAIN pieces
         [] named # {} -> named
         [] OTHER -> rest
FitsMember(v, type) == IF v.form = "literal" THEN IsStruct(type) ELSE ImplicitlyCast(v.type, type) = "ok"
RECURSIVE Sensible(_, _)
Sensible(pieces, type) ==
    /\ Parses(pieces) /\ Len(Attributes(pieces)) <= Len(type.members)
    /\ \A k \in DOMAIN pieces :
          pieces[k].name # <<>> =>
              /\ findMember(type, pieces[k].name) # 0
              /\ \A j \in DOMAIN pieces : pieces[j].name = pieces[k].name => j = k
    /\ \A i \in DOMAIN type.members : \A k \in PieceFor(pieces, type, i) :
          /\ FitsMember(pieces[k].value, type.members[i].type)
          /\ pieces[k].value.form = "literal" => Sensible(pieces[k].value.pieces, type.members[i].type)

(* The cells it gives values to, with the values; base is the first cell.  *)
RECURSIVE MeantCells(_, _, _)
MeantValue(v, type, base) ==
    CASE v.form = "literal" -> MeantCells(v.pieces, type, base)
      [] v.form = "variable" /\ IsStruct(type) ->
            {<<base + k - 1, Datum(<<v.name, k>>, "word")>> : k \in 1..CellsIn(type)}
      [] OTHER -> {<<base, Datum(<<v.name>>, type.kind)>>}
MeantCells(pieces, type, base) ==
    UNION {UNION {MeantValue(pieces[k].value, type.members[i].type, base + OffsetOf(type.members, i)) :
                     k \in PieceFor(pieces, type, i)} : i \in DOMAIN type.members}

AsMeant ==
    /\ literalStage = "stored" /\ ~machine.wild /\ machine.stack = <<CallersWord>>
    /\ LET meant == MeantCells(literal.pieces, literal.type, 0)
       IN \A a \in DOMAIN machine.cells :
             machine.cells[a] = IF \E m \in meant : m[1] = a THEN (CHOOSE m \in meant : m[1] = a)[2] ELSE Blank

(* The literals the code does justice to: names in the order of the        *)
(* members, from the first on, nothing for the rest to fill, no lone       *)
(* variable, and no struct but as a literal.                               *)
RECURSIVE Plainly(_, _)
Plainly(pieces, type) ==
    LET attrs == Attributes(pieces) IN
    /\ \A i \in DOMAIN attrs : attrs[i].name \in {<<>>, <<type.members[i].name>>}
    /\ Rests(pieces) = <<>> \/ Len(attrs) = Len(type.members)
    /\ \A i \in DOMAIN attrs :
          LET v == attrs[i].value IN
          /\ ~IsLone(attrs[i])
          /\ v.form = "variable" => ~IsStruct(v.type)
          /\ v.form = "literal" => Plainly(v.pieces, type.members[i].type)

(* A literal that makes sense comes to memory as it is written, with the   *)
(* operand stack as it was, exactly if it is plain in this sense: others    *)
(* are refused, stop the program, or leave other cells or another stack.   *)
(* The doc promises it of every literal that makes sense.                  *)
LiteralsAsWritten ==
    Sensible(literal.pieces, literal.type) =>
        /\ literalStage = "stored" => (AsMeant <=> Plainly(literal.pieces, literal.type))
        /\ literalStage \in {"refused", "faults", "stopped"} => ~Plainly(literal.pieces, literal.type)
===============================================================================
