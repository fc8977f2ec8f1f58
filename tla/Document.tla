------------------------------ MODULE Document ------------------------------
(***************************************************************************)
(* The text a language server keeps of an open document (lsp/src/lsp.cpp): *)
(* the client's edits are applied to a copy, the offsets at which lines    *)
(* begin are brought up to date line by line, and semantic tokens go back  *)
(* as differences of positions.  Characters are one byte; a range of the   *)
(* client's is a pair of positions, line and character from 0.             *)
(***************************************************************************)
EXTENDS Integers, Sequences, FiniteSets

CONSTANTS
    Letter, Newline,
    MaxText,        \* the client's texts are at most this long
    MaxInsert       \* and what one edit inserts at most this

ASSUME DocumentAssumption == Newline \notin Letter /\ {MaxText, MaxInsert} \subseteq Nat

VARIABLES
    clientText,     \* what the client shows
    opened,         \* history: what it was when the document was opened
    text,           \* data->data
    offsets,        \* data->lineOffsets
    tokens          \* data->semanticTokens: [ln, ch], one for each letter

documentVars == <<clientText, opened, text, offsets, tokens>>

Texts(max) == UNION {[1..n -> Letter \cup {Newline}] : n \in 0..max}

(* The positions in s of the members of C, in order. *)
Where(s, C) ==
    LET upTo[n \in 0..Len(s)] ==
            IF n = 0 THEN <<>>
            ELSE IF s[n] \in C THEN Append(upTo[n - 1], n) ELSE upTo[n - 1]
    IN upTo[Len(s)]

(* The ends of the lines of s, each the offset at which the next begins.   *)
LineEnds(s) == Where(s, {Newline})

(* What replaces the characters from offset m up to offset n of s. *)
Splice(s, m, n, new) == SubSeq(s, 1, m) \o new \o SubSeq(s, n + 1, Len(s))

-----------------------------------------------------------------------------
(* The client counts lines in its own text. *)
PositionOf(s, n) ==
    LET line == Cardinality({i \in DOMAIN LineEnds(s) : LineEnds(s)[i] <= n})
    IN [line |-> line, character |-> n - (IF line = 0 THEN 0 ELSE LineEnds(s)[line])]

-----------------------------------------------------------------------------
(* updateLineOffsets of a whole text. *)
AllOffsets(s) == <<0>> \o LineEnds(s)

(* updateLineOffsets after an edit: the lines behind it move by the         *)
(* difference in length, those of the inserted text take the place of the  *)
(* ones that went.                                                         *)
(* Mutant: the line the edit ends in moves, the one behind it too. *)
MovedFromEnd(endLine, diff) ==
    [i \in DOMAIN offsets |-> IF i >= endLine + 1 THEN offsets[i] + diff ELSE offsets[i]]
Moved(endLine, diff) ==
    [i \in DOMAIN offsets |-> IF i >= endLine + 2 THEN offsets[i] + diff ELSE offsets[i]]

updateLineOffsets(startLine, endLine, startOffset, new, diff) ==
    LET moved == Moved(endLine, diff)
        ends  == LineEnds(new)
    IN SubSeq(moved, 1, startLine + 1)
       \o [i \in DOMAIN ends |-> startOffset + ends[i]]
       \o SubSeq(moved, endLine + 2, Len(moved))

INVALID_OFFSET == -1
(* Mutant: the end of a line is refused too. *)
OffsetInLine(p) ==
    LET start == offsets[p.line + 1]
        end   == IF p.line + 1 < Len(offsets) THEN offsets[p.line + 2] ELSE Len(text)
    IN IF p.line >= Len(offsets) THEN INVALID_OFFSET
       ELSE IF p.character >= end - start THEN INVALID_OFFSET
       ELSE start + p.character

(* A position behind the end of its line, its newline included, is refused.*)
getStrictOffset(p) ==
    LET start == offsets[p.line + 1]
        end   == IF p.line + 1 < Len(offsets) THEN offsets[p.line + 2] ELSE Len(text)
    IN IF p.line >= Len(offsets) THEN INVALID_OFFSET
       ELSE IF p.character > end - start THEN INVALID_OFFSET
       ELSE start + p.character

-----------------------------------------------------------------------------
(* Mutant: every line is taken to begin at the first token's. *)
toLspPosOfFirst(idx, ln, s) == [ln |-> ln - 1, ch |-> idx]
(* The lexer gives the index of a token, and its line from 1. *)
toLspPos(idx, ln, s) == [ln |-> ln - 1, ch |-> idx - AllOffsets(s)[ln]]

(* updateSemanticTokens: every letter stands for a token of the text. *)
TokensOf(s) ==
    LET letters == Where(s, Letter)
        Line(i) == 1 + Cardinality({j \in DOMAIN LineEnds(s) : LineEnds(s)[j] < i})
    IN [k \in DOMAIN letters |-> toLspPos(letters[k] - 1, Line(letters[k]), s)]

(* semanticTokensToFull: each position relative to the one before, the     *)
(* character only in the same line.                                        *)
semanticTokensToFull(ts) ==
    [k \in DOMAIN ts |->
        LET before == IF k = 1 THEN [ln |-> 0, ch |-> 0] ELSE ts[k - 1]
        IN [ln |-> ts[k].ln - before.ln,
            ch |-> ts[k].ch - (IF before.ln = ts[k].ln THEN before.ch ELSE 0)]]

-----------------------------------------------------------------------------
DidOpenText(s) ==
    /\ clientText' = s /\ opened' = s
    /\ text' = s /\ offsets' = AllOffsets(s)
    /\ tokens' = TokensOf(s)

(* A document is opened empty, to begin with. *)
DocumentInit ==
    /\ clientText = <<>> /\ opened = <<>>
    /\ text = <<>> /\ offsets = AllOffsets(<<>>)
    /\ tokens = <<>>

(* applyChanges, for a change with a range. *)
ChangeRange(m, n, new) ==
    LET start == PositionOf(clientText, m)
        end   == PositionOf(clientText, n)
        s     == getStrictOffset(start)
        e     == getStrictOffset(end)
    IN /\ clientText' = Splice(clientText, m, n, new)
       /\ Len(clientText') <= MaxText
       /\ IF INVALID_OFFSET \in {s, e} THEN UNCHANGED <<text, offsets>>
          ELSE /\ text' = Splice(text, s, e, new)
               /\ offsets' = updateLineOffsets(start.line, end.line, s, new,
                                               Len(new) - (e - s))
       /\ UNCHANGED <<opened, tokens>>

(* applyChanges, for a change without one. *)
ChangeAll(new) ==
    /\ clientText' = new
    /\ text' = new /\ offsets' = AllOffsets(new)
    /\ UNCHANGED <<opened, tokens>>

DocumentNext ==
    \/ \E s \in Texts(MaxText) : DidOpenText(s) \/ ChangeAll(s)
    \/ \E m, n \in 0..Len(clientText) : \E new \in Texts(MaxInsert) :
            m <= n /\ ChangeRange(m, n, new)

DocumentSpec == DocumentInit /\ [][DocumentNext]_documentVars

-----------------------------------------------------------------------------
DocumentTypeOK ==
    /\ text \in Texts(MaxText)
    /\ \A i \in DOMAIN offsets : offsets[i] \in 0..Len(text)

(* The server's copy of the text is the client's, whatever was edited; no  *)
(* edit of the client's is refused.                                        *)
SameText == text = clientText

(* The offsets brought up to date are those of the whole text. *)
OffsetsMatch == offsets = AllOffsets(text)

(* The client, which adds the differences up, marks the letters of the     *)
(* text that was opened.                                                   *)
Received ==
    LET full == semanticTokensToFull(tokens)
        position[k \in 0..Len(full)] ==
            IF k = 0 THEN [ln |-> 0, ch |-> 0]
            ELSE [ln |-> position[k - 1].ln + full[k].ln,
                  ch |-> full[k].ch + (IF full[k].ln = 0 THEN position[k - 1].ch ELSE 0)]
    IN {position[k] : k \in DOMAIN full}

TokensMarkLetters ==
    Received = {LET p == PositionOf(opened, i - 1) IN [ln |-> p.line, ch |-> p.character] :
                   i \in {j \in DOMAIN opened : opened[j] \in Letter}}

(* The server's document is the client's, with its lines and its tokens.   *)
DocumentIsClients == DocumentTypeOK /\ SameText /\ OffsetsMatch /\ TokensMarkLetters
=============================================================================
