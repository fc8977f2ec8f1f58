-------------------------------- MODULE MCTexts --------------------------------
(* The texts the parser is run on, written from trees: those of expressions here, *)
(* those of statements in StatementTexts.  A run reads one text, of either kind; the *)
(* variables of the other component stand still.                                  *)
EXTENDS ExpressionMeaning, StatementTexts, FiniteSets

CONSTANTS StatementNames, StatementValues, Strings, StatementTexts, MaxErrors, Uninitialised

VARIABLES reading,                      \* "expression" or "statement"
          stSource, stC, stFrames       \* the variables of StatementParser

St == INSTANCE StatementMeaning WITH
          Names <- StatementNames, Values <- StatementValues, Sentence <- StatementTexts,
          source <- stSource, c <- stC, frames <- stFrames

stVars == <<stSource, stC, stFrames>>
textVars == <<vars, stVars, reading>>

(* The component that reads nothing has come to its end. *)
NoExpression == /\ source = [text |-> <<>>, loop |-> FALSE, meant |-> Nothing] /\ pos = 1
                /\ token = "end" /\ pc = "done" /\ nodes = <<>> /\ errors = 0
                /\ frames = <<NewFrame("statement")>> /\ held = <<NewHeld(<<>>)>>
NoStatement  == /\ stSource = [text |-> <<>>, recover |-> FALSE, meant |-> <<>>, errors |-> 0]
                /\ stC = [pos |-> 1, errors |-> 0, fault |-> FALSE] /\ stFrames = <<>>

TextsInit == \/ reading = "expression" /\ Init /\ NoStatement
             \/ reading = "statement" /\ St!Init /\ NoExpression

ReadExpression == reading = "expression" /\ Next /\ UNCHANGED <<stVars, reading>>
ReadStatement  == reading = "statement" /\ St!Next /\ UNCHANGED <<vars, reading>>
Finished ==
    \/ reading = "expression" /\ pc = "done" /\ UNCHANGED textVars
    \/ reading = "statement" /\ St!Over /\ UNCHANGED <<vars, reading>>

(* The thread that parses goes on as long as there is a step. *)
TextsSpec ==
    /\ TextsInit /\ [][ReadExpression \/ ReadStatement \/ Finished]_textVars
    /\ WF_textVars(ReadExpression)
    /\ \/ []<><<ReadStatement>>_textVars
       \/ <>[](reading # "statement" \/ St!Done \/ ~St!Running)

-----------------------------------------------------------------------------
(* Statements are read for what they say, and each node gets to its place: the    *)
(* parts of these two are stated in StatementMeaning.                             *)
ReadForWhatItSays == reading = "statement" => St!ReadForWhatItSays
InItsPlace        == reading = "statement" => St!InItsPlace

(* The parser comes to the end of every text, cut off and disturbed ones included. *)
ReadingEnds == /\ reading = "expression" => Terminates
               /\ reading = "statement" => St!Terminates

-----------------------------------------------------------------------------

Bin(o, x, y)  == Tree(o, <<x, y>>)
Un(o, x)      == Tree(o, <<x>>)
Range3(x, y, z) == Tree(":", <<x, y, z>>)
a == Leaf("a")  b == Leaf("b")  c == Leaf("c")  d == Leaf("d")  n == Leaf("1")

InStatement(t) == [text |-> Written(t) \o <<";">>, loop |-> FALSE, meant |-> t]
InLoop(t)      == [text |-> Written(t) \o <<"at">>, loop |-> TRUE, meant |-> t]

(* Every tree of two binary operators, of three operators of few ranks. *)
Infix == BinaryOp \ {".", "[", "~"}
Two   == UNION {{Bin(o, Bin(p, a, b), c), Bin(o, a, Bin(p, b, c))} : o, p \in Infix}
Few   == {"->", "*", "+", "-", "^", "&&"}
Three == UNION {{Bin(o, Bin(p, a, b), Bin(q, c, d)), Bin(o, Bin(p, Bin(q, a, b), c), d),
                 Bin(o, Bin(p, a, Bin(q, b, c)), d), Bin(o, a, Bin(p, Bin(q, b, c), d)),
                 Bin(o, a, Bin(p, b, Bin(q, c, d)))} : o, p, q \in Few}

(* Every rank waiting for the next. *)
Deep == LET D[i \in 0 .. 11] == IF i = 0 THEN d ELSE
                Bin(CHOOSE o \in Ranks[i + 1] : o # "~", a, D[i - 1]) IN D[11]

(* Operands with postfixes and prefixes.  Only a name is called. *)
Post(x, y) == {x, Bin("[", x, y), Bin(".", x, y), Un("--", x),
               Bin("[", x, Range3(y, Nothing, n)), Tree("array", <<y, n>>)}
              \cup IF x.sub = <<>> THEN {Tree("call", <<x, y>>)} ELSE {}
Pre(x)     == {Un(o, x) : o \in {"-", "^", "&", "++", "!"}}
Mixed == UNION {{Bin(o, x, y), Bin(o, Un("-", x), y), Bin(o, x, Un("^", y)), Un("!", Bin(o, x, y))} :
                    o \in {"*", "^", "-"}, x \in Post(a, b), y \in Post(c, d)}
         \cup UNION {Pre(x) : x \in Pre(a) \cup Post(a, b)}
         \cup UNION {Post(x, c) : x \in {Bin("[", a, b), Bin(".", a, b), Bin("+", a, b), Un("-", a)}}

(* Lists in lists, lists in ranges, ranges in lists. *)
Call(f, args) == Tree("call", <<f>> \o args)
Items == {a, Bin("-", a, Bin("*", b, c)), Call(a, <<b, c>>), Tree("array", <<>>),
          Bin("[", a, Range3(b, Nothing, Nothing)), Call(a, <<>>)}
Nested == UNION {{Call(d, <<x, y>>), Tree("array", <<x, y>>), Bin("[", Call(d, <<x>>), y),
                  Bin("[", d, Range3(x, Nothing, y)), Call(d, <<Call(d, <<n, x>>), y>>)} :
                     x, y \in Items}
Slices == {Bin("[", a, Range3(x, Nothing, y)) : x, y \in {Nothing, n, Bin("+", b, c), Un("-", b)}}

Headers == {a, Bin("<", a, b), Range3(Nothing, Nothing, n), Range3(n, Nothing, a),
            Range3(n, Un("-", b), c), Range3(Nothing, n, Bin("+", a, b)),
            Range3(a, b, Call(c, <<d, n>>))}

Texts == {InStatement(t) : t \in Two \cup Three \cup {Deep} \cup Mixed \cup Nested \cup Slices}
         \cup {InLoop(t) : t \in Headers}
         \cup {[text |-> <<"a", "[", "]", ";">>, loop |-> FALSE, meant |-> Bin("[", a, Garbage)]}

=============================================================================
