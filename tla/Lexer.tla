--------------------------------- MODULE Lexer ---------------------------------
(***************************************************************************)
(* From the text of a file to its tokens, src/src/lexer.cpp.  nextToken    *)
(* goes on behind the end of the token before it; it is called for a       *)
(* token's value, or without (lookahead and error recovery), where only    *)
(* its kind and its end count.  A text is a sequence of characters, its    *)
(* places counted from 1; "LF" is the end of a line, "Wide" any byte above *)
(* 127, and Eos stands where the text has ended.                           *)
(***************************************************************************)
EXTENDS Integers, Sequences, FiniteSets, SequencesExt

CONSTANTS
    Sources,        \* the texts to be read
    Keywords,       \* the words parseQualifiedName takes for keywords
    CharSize        \* 8 in the program: characters of a character literal

Eos == "eos"

VARIABLES
    input,
    position,       \* span.end.idx, the last character read
    line,           \* span.end.ln
    lexed,          \* what was read so far
    ended

lexerVars == <<input, position, line, lexed, ended>>

Digit    == {"0", "1", "3", "8"}
HexDigit == Digit \cup {"a", "b", "f"}
isIdentifierStart(c) == c \in {"a", "b", "f", "i", "n", "x", "_"}
isIdentifierChar(c)  == isIdentifierStart(c) \/ c \in Digit
isWhitespace(c)      == c \in {" ", "LF"}

At(i) == IF i \in DOMAIN input THEN input[i] ELSE Eos
Starts(i, word) == \A k \in DOMAIN word : At(i + k - 1) = word[k]
Cut(first, last) == [k \in 1..(last - first + 1) |-> At(first + k - 1)]
(* The first place from i on whose character is not of a kind. *)
FirstNot(i, Is(_)) == CHOOSE j \in i..(Len(input) + 1) :
                          ~Is(At(j)) /\ \A k \in i..(j - 1) : Is(At(k))

-----------------------------------------------------------------------------
(* Blanks and comments.  A comment within a comment ends by itself; where  *)
(* one has no end the reading goes on behind its beginning.                *)
LineEnd(i) == CHOOSE j \in i..(Len(input) + 1) :
                At(j) \in {"LF", Eos} /\ \A k \in i..(j - 1) : At(k) # "LF"

RECURSIVE CommentEnd(_, _)
(* Mutant: a comment within a comment does not count. *)
FirstEnd(i, depth) == LET js == {j \in i..Len(input) : Starts(j, <<"/", "}">>)}
                      IN IF js = {} THEN 0 ELSE 2 + CHOOSE j \in js : \A k \in js : j <= k
(* Behind the end of a block comment, or 0; depth comments are open.       *)
CommentEnd(i, depth) ==
    IF depth = 0 THEN i
    ELSE IF At(i) = Eos THEN 0
    ELSE IF Starts(i, <<"/", "{">>) THEN CommentEnd(i + 2, depth + 1)
    ELSE IF Starts(i, <<"/", "}">>) THEN CommentEnd(i + 2, depth - 1)
    ELSE CommentEnd(i + 1, depth)

RECURSIVE skipWhitespacesAndComments(_)
skipWhitespacesAndComments(i) ==
    IF isWhitespace(At(i)) THEN skipWhitespacesAndComments(i + 1)
    ELSE IF Starts(i, <<"/", "/">>) THEN skipWhitespacesAndComments(LineEnd(i + 2))
    ELSE IF Starts(i, <<"/", "{">>)
    THEN IF CommentEnd(i + 2, 1) = 0 THEN [at |-> i + 2, open |-> TRUE]
         ELSE skipWhitespacesAndComments(CommentEnd(i + 2, 1))
    ELSE [at |-> i, open |-> FALSE]

(* Lines are counted where blanks and comments are skipped.                *)
Breaks(first, last) == Cardinality({i \in first..last : At(i) = "LF"})

-----------------------------------------------------------------------------
(* Numbers: how many characters, or 0 where two underscores follow each    *)
(* other and the number is given up.                                       *)
Doubled(first, last) == \E i \in first..last : At(i) = "_" /\ At(i + 1) = "_"
DigitsEnd(i, digits) == FirstNot(i, LAMBDA c : c \in digits \cup {"_"})
parseNumber(i) ==
    LET base == IF Starts(i, <<"0", "x">>) THEN HexDigit
                ELSE IF Starts(i, <<"0", "b">>) THEN {"0", "1"} ELSE Digit
        from == IF base = Digit THEN i ELSE i + 2
        whole == DigitsEnd(from, base)
        frac == IF base = Digit /\ At(whole) = "." THEN DigitsEnd(whole + 1, Digit) ELSE whole
        end == IF base = Digit /\ At(frac) = "f" THEN frac + 1 ELSE frac
    IN IF Doubled(from, frac - 1) THEN 0 ELSE end - i

-----------------------------------------------------------------------------
(* Characters of literals: [value, next], or no value where the character  *)
(* cannot be read; a char is signed, a byte above 127 reads as an error.   *)
NoChar(i) == [value |-> <<>>, next |-> i]
Char(c, i) == [value |-> <<c>>, next |-> i]
Plain == [a |-> "BEL", b |-> "BS", f |-> "FF", n |-> "LF"]
(* Mutant: the digits behind the 0 stay in the text. *)
OneDigit(i) == Char(IF Starts(i, <<"3", "3">>) THEN "ESC" ELSE "NUL", i)
Octal(i) == IF Starts(i, <<"3", "3">>) THEN Char("ESC", i + 2) ELSE Char("NUL", i)
Bits(c) == CHOOSE n \in 0..15 : <<"0", "1", "2", "3", "4", "5", "6", "7", "8", "9",
                                   "a", "b", "c", "d", "e", "f">>[n + 1] = c
parseHexInt(i) ==
    LET end == FirstNot(i, LAMBDA c : c \in HexDigit)
        byte == FoldLeft(LAMBDA n, c : (16 * n + Bits(c)) % 256, 0, Cut(i, end - 1))
    IN IF end = i \/ byte > 127 THEN NoChar(end) ELSE [value |-> <<"byte", byte>>, next |-> end]
parseEscapeChar(i) ==
    CASE At(i) \in DOMAIN Plain -> Char(Plain[At(i)], i + 1)
      [] At(i) \in {"\\", "'", "\""} -> Char(At(i), i + 1)
      [] At(i) = "0" -> Octal(i + 1)
      [] At(i) = "x" -> parseHexInt(i + 1)
      [] OTHER -> NoChar(i + 1)
parseChar(i) ==
    IF At(i) = "\\" THEN parseEscapeChar(i + 1)
    ELSE IF At(i) = Eos THEN NoChar(i)
    ELSE IF At(i) = "Wide" THEN NoChar(i + 1)
    ELSE Char(At(i), i + 1)

RECURSIVE ReadUntil(_, _, _)
(* The characters up to a quote, and where the reading stopped: behind the *)
(* quote, or behind a character that could not be read.                    *)
ReadUntil(quote, i, read) ==
    IF At(i) = quote THEN [ok |-> TRUE, chars |-> read, next |-> i + 1]
    ELSE IF parseChar(i).value = <<>> THEN [ok |-> FALSE, chars |-> <<>>, next |-> parseChar(i).next]
    ELSE ReadUntil(quote, parseChar(i).next, Append(read, parseChar(i).value))

-----------------------------------------------------------------------------
(* Tokens: kind, the first and the last character, and the value; names and *)
(* literals have one.  ln is the line the token is said to be in.          *)
Token(kind, first, last, value) ==
    [kind |-> kind, first |-> first, last |-> last, value |-> value, ln |-> 0]

(* A literal that cannot be read: a character's leaves the span one        *)
(* character behind the token before it; a string's ends where the reading *)
(* stopped, its value is never set, and when none was asked for the error, *)
(* a negative number (UNEXPECTED_SYMBOL stands for all), is its length.    *)
(* Mutant: the span stays where it is. *)
SpanUntouched(from, i) ==
    LET r == ReadUntil("'", i + 1, <<>>)
    IN IF r.ok /\ Len(r.chars) <= CharSize THEN Token("char", i, r.next - 1, r.chars)
       ELSE Token("unreadable", i, from - 1, <<>>)
CharLiteral(from, i) ==
    LET r == ReadUntil("'", i + 1, <<>>)
    IN IF r.ok /\ Len(r.chars) <= CharSize THEN Token("char", i, r.next - 1, r.chars)
       ELSE Token("unreadable", i, from, <<>>)
UNEXPECTED_SYMBOL == -7
StringLiteral(i, valued) ==
    LET r == ReadUntil("\"", i + 1, <<>>)
    IN IF r.ok THEN Token("string", i, IF At(r.next) = "b" THEN r.next ELSE r.next - 1, r.chars)
       ELSE IF valued THEN Token("unset", i, r.next - 1, <<>>)
       ELSE Token("back", i, i + UNEXPECTED_SYMBOL, <<>>)

Doubles == {"+", "-", "<", ">", "=", "&", "|", ".", ":"}
Pairs   == {<<c, c>> : c \in Doubles} \cup {<<c, "=">> : c \in {"!", "<", ">"}}
             \cup {<<c, ">">> : c \in {"-", "="}}
Operator(i) == Token("operator", i, IF <<At(i), At(i + 1)>> \in Pairs THEN i + 1 ELSE i, <<>>)

(* The parts of a name: where each begins and how long it is.              *)
RECURSIVE NameParts(_)
PartEnd(i) == FirstNot(i, isIdentifierChar) - 1
IsKeyword(part) == Cut(part[1], part[1] + part[2] - 1) \in Keywords
NameParts(i) ==
    LET part == <<i, PartEnd(i) - i + 1>>
    IN IF ~Starts(PartEnd(i) + 1, <<":", ":">>) \/ IsKeyword(part) THEN <<part>>
       ELSE <<part>> \o NameParts(PartEnd(i) + 3)

(* The parts lie in one array, each as its offset and its length; the path *)
(* takes the i-th number and the one behind it for its i-th part.          *)
(* Mutant: so is the name. *)
NameAsPath(flat, n) == <<flat[n], flat[n + 1]>>
NamePart(flat, n) == <<flat[2 * n - 1], flat[2 * n]>>
parseQualifiedName(i) ==
    LET parts == NameParts(i)
        n == Len(parts)
        flat == FlattenSeq([k \in 1..n |-> <<parts[k][1] - i, parts[k][2]>>])
        last == parts[n][1] + parts[n][2] - 1
    IN IF Starts(last + 1, <<":", ":">>) THEN Token("error", i, last, <<>>)
       ELSE IF IsKeyword(parts[n]) THEN Token("keyword", i, last, <<>>)
       ELSE Token("name", i, last,
                  [k \in 1..n |-> IF k < n THEN <<i + flat[k], flat[k + 1]>>
                                  ELSE <<i + NamePart(flat, n)[1], NamePart(flat, n)[2]>>])

(* What stands at a place, from is where the token before it ended.        *)
TokenAt(i, from, valued) ==
    CASE At(i) = Eos -> Token("end", i, i, <<>>)
      [] At(i) = "'"  -> CharLiteral(from, i)
      [] At(i) = "\"" -> StringLiteral(i, valued)
      [] At(i) = "_" /\ ~isIdentifierChar(At(i + 1)) -> Token("skip", i, i, <<>>)
      [] isIdentifierStart(At(i)) /\ (At(i) = "_" => isIdentifierChar(At(i + 1))) -> parseQualifiedName(i)
      [] At(i) \in Digit -> Token("number", i, i + parseNumber(i) - 1, <<>>)
      [] OTHER -> Operator(i)

LexerStart == position = 0 /\ line = 0 /\ lexed = <<>> /\ ended = FALSE

(* Mutant: the lines of the blanks are not kept. *)
PutWithoutLines(t, blank, more) ==
    /\ lexed' = Append(lexed, [t EXCEPT !.ln = line + blank])
    /\ position' = t.last /\ line' = line + more
    /\ ended' = (t.kind = "end" \/ t.last <= position)
    /\ UNCHANGED input

(* One token more: it is said to be in the line its blanks lead to; after  *)
(* an unreadable character the lines of the blanks are not kept.           *)
Put(t, blank, more) ==
    /\ lexed' = Append(lexed, [t EXCEPT !.ln = line + blank])
    /\ position' = t.last
    /\ line' = IF t.kind = "unreadable" THEN line ELSE line + blank + more
    /\ ended' = (t.kind = "end" \/ (t.last <= position /\ t.kind # "file"))
    /\ UNCHANGED input

nextToken(valued) ==
    LET from == position + 1
        skipped == skipWhitespacesAndComments(from)
    IN /\ ~ended
       /\ Put(IF skipped.open THEN Token("error", skipped.at, skipped.at, <<>>)
              ELSE TokenAt(skipped.at, from, valued),
              Breaks(from, skipped.at - 1), 0)

(* The name of a file behind the keyword of an import.                     *)
nextFileName ==
    LET from == position + 1
        skipped == skipWhitespacesAndComments(from)
        end == FirstNot(skipped.at, LAMBDA c : isIdentifierChar(c) \/ c \in {".", "\\", "/"}) - 1
    IN /\ ~ended /\ lexed # <<>> /\ Last(lexed).kind = "keyword"
       /\ Put(IF skipped.open THEN Token("unreadable", skipped.at, from, <<>>)
              ELSE Token("file", skipped.at, end, <<>>),
              Breaks(from, skipped.at - 1), 0)

(* The code of another language in braces: up to the brace that closes it, *)
(* whatever it stands in there.                                            *)
Braces(first, last, brace) == Cardinality({i \in first..last : At(i) = brace})
Closing(i) == {j \in i..Len(input) : Braces(i, j, "}") = 1 + Braces(i, j, "{")}
findBlockEnd ==
    LET from == position + 1
        ends == Closing(from)
        end == IF ends = {} THEN Len(input) + 1 ELSE CHOOSE j \in ends : \A k \in ends : j <= k
    IN /\ ~ended /\ lexed # <<>> /\ Last(lexed).kind = "operator" /\ At(position) = "{"
       /\ Put(Token(IF ends = {} THEN "error" ELSE "block", from, end, <<>>), 0, Breaks(from, end))

LexerNext == (\E valued \in BOOLEAN : nextToken(valued)) \/ nextFileName \/ findBlockEnd

-----------------------------------------------------------------------------
LexerTypeOK ==
    /\ position \in Int /\ line \in 0..Len(input) /\ ended \in BOOLEAN
    /\ \A k \in DOMAIN lexed : DOMAIN lexed[k] = {"kind", "first", "last", "value", "ln"}

(* What may be left out between two tokens: blanks, comments to the end of *)
(* their line, and comments in braces, which hold as many beginnings as    *)
(* ends.                                                                   *)
Opens(s)  == Cardinality({i \in 1..(Len(s) - 1) : s[i] = "/" /\ s[i + 1] = "{"})
Closes(s) == Cardinality({i \in 1..(Len(s) - 1) : s[i] = "/" /\ s[i + 1] = "}"})
IsComment(s) ==
    \/ /\ Len(s) > 1 /\ s[1] = "/" /\ s[2] = "/"
       /\ \A i \in DOMAIN s : s[i] = "LF" => i = Len(s)
    \/ /\ Len(s) > 3 /\ s[1] = "/" /\ s[2] = "{" /\ Opens(s) = Closes(s)
       /\ \A i \in 2..(Len(s) - 1) : Opens(SubSeq(s, 1, i)) > Closes(SubSeq(s, 1, i))
RECURSIVE IsBlank(_)
IsBlank(s) ==
    \/ s = <<>>
    \/ isWhitespace(s[1]) /\ IsBlank(Tail(s))
    \/ \E n \in 2..Len(s) : IsComment(SubSeq(s, 1, n)) /\ IsBlank(SubSeq(s, n + 1, Len(s)))

(* A token stays as it was read: what holds of the last one held of those  *)
(* before it.                                                              *)
JustRead == {Len(lexed)} \ {0}

(* Nothing is lost: what the tokens leave out is blank.                    *)
Behind(k) == IF k = 1 THEN 0 ELSE lexed[k - 1].last
NothingLost ==
    \A k \in JustRead :
        lexed[k].kind \notin {"error", "unreadable"} =>
            IsBlank(Cut(Behind(k) + 1, lexed[k].first - 1))

(* A token is said to be in its line, behind literals of one line; behind  *)
(* a character that cannot be read the count may be lost.                  *)
LinesIn(first, last) == Cardinality({i \in first..last : At(i) = "LF"})
SingleLine(t) == t.kind = "block" \/ (t.kind # "unreadable" /\ LinesIn(t.first, t.last) = 0)
InItsLine ==
    \A k \in JustRead :
        (\A j \in 1..(k - 1) : SingleLine(lexed[j])) =>
            lexed[k].ln = LinesIn(1, lexed[k].first - 1)

(* Reading moves on, but at a number given up and at a string that cannot  *)
(* be read when its value is not asked for (whoever skips tokens up to a   *)
(* certain one never ends there), and at the name of a file left out.      *)
MovesOn ==
    [][lexed' # lexed => \/ position' > position
                           \/ Last(lexed').kind \in {"number", "back", "file"}]_lexerVars

(* Every way a character of a literal can be written.                      *)
Spellings(v) ==
    LET c == v[1] IN
    CASE c = "BEL" -> {<<"\\", "a">>}
      [] c = "BS"  -> {<<"\\", "b">>}
      [] c = "FF"  -> {<<"\\", "f">>}
      [] c = "LF"  -> {<<"\\", "n">>, <<"LF">>}
      [] c = "NUL" -> {<<"\\", "0">>}
      [] c = "ESC" -> {<<"\\", "0", "3", "3">>}
      [] c = "byte" -> {<<"\\", "x">> \o h : h \in {<<a, b>> : a, b \in HexDigit} \cup {<<a>> : a \in HexDigit}}
      [] c \in {"\\", "'", "\""} -> {<<"\\", c>>, <<c>>}
      [] OTHER -> {<<c>>}
RECURSIVE Spells(_, _)
Spells(chars, s) ==
    IF chars = <<>> THEN s = <<>>
    ELSE \E w \in Spellings(chars[1]) : IsPrefix(w, s) /\ Spells(Tail(chars), SubSeq(s, Len(w) + 1, Len(s)))

(* The value of a literal is what is written between its quotes.           *)
LiteralAsWritten ==
    \A k \in JustRead :
        LET t == lexed[k] IN
        t.kind \in {"string", "char"} =>
            \E end \in {t.last, t.last - 1} :
                /\ At(end) = At(t.first)
                /\ Spells(t.value, Cut(t.first + 1, end - 1))

(* The name stands behind the last "::", the first part of its path before *)
(* the first one.                                                          *)
Word(part) == Cut(part[1], part[1] + part[2] - 1)
Spelt(t) == Cut(t.first, t.last)
NoColon(s) == \A i \in DOMAIN s : s[i] # ":"
NameAsWritten ==
    \A k \in JustRead :
        LET t == lexed[k] IN
        t.kind = "name" =>
            /\ NoColon(Word(Last(t.value)))
            /\ IsSuffix(Word(Last(t.value)), Spelt(t))
            /\ NoColon(Word(t.value[1])) /\ IsPrefix(Word(t.value[1]), Spelt(t))
            /\ Len(t.value) > 1 => /\ IsSuffix(<<":", ":">> \o Word(Last(t.value)), Spelt(t))
                                   /\ IsPrefix(Word(t.value[1]) \o <<":", ":">>, Spelt(t))
=============================================================================
