---------------------------- MODULE ExpressionParser ----------------------------
(***************************************************************************)
(* The expressions of src/src/parser.cpp: the mutual recursion of            *)
(* parseExpression, parseExpressionRecursive, parseExpressionNode, parseList *)
(* and parseRangeExpression over one token stream and one stack of nodes.    *)
(*                                                                         *)
(* "frames" and "held" are the C++ call stack, one entry per activation of   *)
(* parseExpression.  frames[i].ops are the operators its activations of      *)
(* parseExpressionRecursive wait with, the outermost first, and              *)
(* held[i].lefts their left operands; held[i].tree is the operand being      *)
(* read.  A token is a model of its kind; names, numbers, strings and        *)
(* keywords stand for themselves, so a leaf of a tree names its token.       *)
(***************************************************************************)
EXTENDS Integers, Sequences, SequencesExt

CONSTANTS Names, Values, Keywords,  \* tokens of TK_IDENTIFIER, of literals, of TK_KEYWORD
          Sentence                  \* texts [text, loop, meant]; "loop" has a loop's header

UnaryOp   == {"+", "-", "^", "&", "++", "--", "~", "!"}
PostfixOp == {"[", "(", ".", "++", "--"}

Ranks == << {".", "["}, {"->", "=>", "~"}, {"*", "/", "%"}, {"+", "-", ".."}, {"<<", ">>"},
            {"<", ">", "<=", ">="}, {"==", "!="}, {"&"}, {"^"}, {"|"}, {"&&"}, {"||"} >>
BinaryOp == UNION {Ranks[i] : i \in 1 .. 12}
Rank(o)  == (CHOOSE i \in 1 .. 12 : o \in Ranks[i]) - 1

Operand == Names \cup Values \cup Keywords
Closers == {";", ")", "]", ",", ":", "{", "end"}

ASSUME TokenAssumption ==
    Operand \cap (UnaryOp \cup PostfixOp \cup BinaryOp \cup Closers) = {}

VARIABLES source,   \* the text being parsed
          pos,      \* the next token to read
          token,    \* the token in hand
          pc, frames, held,
          nodes,    \* ctx->nodeStack
          errors    \* how many times Diag::report was called

vars == <<source, pos, token, pc, frames, held, nodes, errors>>

(* A Variable with its expression. *)
Tree(o, sub) == [op |-> o, sub |-> sub]
Leaf(x) == Tree(x, <<>>)
Nothing == Leaf("nothing")     \* no expression, no value, no name
Garbage == Leaf("garbage")     \* an uninitialised pointer

TokenAt(i) == IF i <= Len(source.text) THEN source.text[i] ELSE "end"
Ahead      == TokenAt(pos)
Consume(n) == pos' = pos + n
TakeToken(n) == token' = TokenAt(pos + n - 1) /\ pos' = pos + n

Callers == {"statement", "group", "args", "array", "from", "second", "third"}
Frame   == [who: Callers, mark: Nat, ops: Seq(BinaryOp), prefix: Seq(UnaryOp)]

NewFrame(who)  == [who |-> who, mark |-> Len(nodes), ops |-> <<>>, prefix |-> <<>>]
NewHeld(parts) == [tree |-> Nothing, name |-> "garbage", lefts |-> <<>>, parts |-> parts]

F == Last(frames)
H == Last(held)
(* Mutant: an entry is added where one is changed. *)
SetLastGrows(s, x) == Append(s, x)
SetLast(s, x) == Append(Front(s), x)
Hold(t)   == held' = SetLast(held, [H EXCEPT !.tree = t])
Called(who, parts) ==
    /\ frames' = Append(frames, NewFrame(who))
    /\ held' = Append(held, NewHeld(parts))

(* parseRangeExpression before its first part: an omitted start is seen by peekToken. *)
RangeFrom(i) == IF TokenAt(i) = ":"
                THEN [who |-> "second", parts |-> <<Nothing>>, read |-> 1]
                ELSE [who |-> "from",   parts |-> <<>>,        read |-> 0]

Init ==
    /\ source \in Sentence
    /\ token = "end" /\ pc = "operand" /\ nodes = <<>> /\ errors = 0
    /\ LET range == RangeFrom(1) IN
       /\ pos = IF source.loop THEN 1 + range.read ELSE 1
       /\ frames = <<NewFrame(IF source.loop THEN range.who ELSE "statement")>>
       /\ held = <<NewHeld(IF source.loop THEN range.parts ELSE <<>>)>>

-----------------------------------------------------------------------------
(* parseExpressionNode: prefixes, a primary, postfixes. *)

ParsePrefix ==
    /\ pc = "operand" /\ Ahead \in UnaryOp
    /\ frames' = SetLast(frames, [F EXCEPT !.prefix = Append(@, Ahead)])
    /\ Consume(1)
    /\ UNCHANGED <<source, token, pc, held, nodes, errors>>

ParseOperand ==
    /\ pc = "operand" /\ Ahead \in Operand
    /\ held' = SetLast(held, [H EXCEPT !.tree = Leaf(Ahead), !.name = Ahead])
    /\ TakeToken(2)
    /\ pc' = "postfix"
    /\ UNCHANGED <<source, frames, nodes, errors>>

ParseGroup ==
    /\ pc = "operand" /\ Ahead = "("
    /\ Called("group", <<>>)
    /\ Consume(1)
    /\ UNCHANGED <<source, token, pc, nodes, errors>>

(* No primary: the operand stays a Variable without content, no postfix is read. *)
NoOperand ==
    /\ pc = "operand" /\ Ahead \notin UnaryOp \cup Operand \cup {"(", "["}
    /\ TakeToken(1)
    /\ pc' = "wrap"
    /\ UNCHANGED <<source, frames, held, nodes, errors>>

CloserOf(who) == IF who = "args" THEN ")" ELSE "]"
ListOf(who, name, items) == IF who = "args" THEN Tree("call", <<Leaf(name)>> \o items)
                                            ELSE Tree("array", items)

(* parseList: a list that ends at once makes no node.  "read" tokens lead to it. *)
ParseList(who, read) ==
    IF TokenAt(pos + read) = CloserOf(who)
    THEN /\ Hold(ListOf(who, H.name, <<>>))
         /\ TakeToken(read + 2)
         /\ pc' = "postfix"
         /\ UNCHANGED <<source, frames, nodes, errors>>
    ELSE /\ Called(who, <<>>)
         /\ Consume(read)
         /\ pc' = "operand"
         /\ UNCHANGED <<source, token, nodes, errors>>

parseArrayInitialization == pc = "operand" /\ Ahead = "[" /\ ParseList("array", 1)

(* The call takes the last name its node has read, not the expression it follows. *)
ParseCall == pc = "postfix" /\ token = "(" /\ ParseList("args", 0)

MemberSelection ==
    /\ pc = "postfix" /\ token = "."
    /\ held' = SetLast(held, [H EXCEPT !.tree = Tree(".", <<H.tree, Leaf(Ahead)>>),
                                       !.name = Ahead])
    /\ TakeToken(2)
    /\ UNCHANGED <<source, pc, frames, nodes, errors>>

Subscript ==
    /\ pc = "postfix" /\ token = "[" /\ Ahead # "]"
    /\ LET range == RangeFrom(pos) IN
       /\ Called(range.who, range.parts)
       /\ Consume(range.read)
    /\ pc' = "operand"
    /\ UNCHANGED <<source, token, nodes, errors>>

(* "a[]": the range is returned without a value. *)
EmptySubscript ==
    /\ pc = "postfix" /\ token = "[" /\ Ahead = "]"
    /\ Hold(Tree("[", <<H.tree, Garbage>>))
    /\ TakeToken(2)
    /\ UNCHANGED <<source, pc, frames, nodes, errors>>

PostfixUnary ==
    /\ pc = "postfix" /\ token \in {"++", "--"}
    /\ Hold(Tree(token, <<H.tree>>))
    /\ TakeToken(1)
    /\ UNCHANGED <<source, pc, frames, nodes, errors>>

NoPostfix ==
    /\ pc = "postfix" /\ token \notin PostfixOp
    /\ pc' = "wrap"
    /\ UNCHANGED <<source, pos, token, frames, held, nodes, errors>>

(* Mutant: the first prefix read is applied first. *)
InPrefixesReversed(prefix, t) == FoldLeft(LAMBDA x, o : Tree(o, <<x>>), t, prefix)
(* The prefixes were read from the outside in, each Variable the operand of the one before. *)
InPrefixes(prefix, t) == FoldRight(LAMBDA o, x : Tree(o, <<x>>), prefix, t)

NodeEnds ==
    /\ pc = "wrap"
    /\ Hold(InPrefixes(F.prefix, H.tree))
    /\ frames' = SetLast(frames, [F EXCEPT !.prefix = <<>>])
    /\ pc' = "operator"
    /\ UNCHANGED <<source, pos, token, nodes, errors>>

-----------------------------------------------------------------------------
(* parseExpressionRecursive. *)

Waiting == IF F.ops = <<>> THEN 12 ELSE Rank(Last(F.ops))

(* The operand in hand becomes the left operand of the operator in hand. *)
HugTighter(tighter) ==
    /\ pc = "operator" /\ token \in BinaryOp /\ tighter
    /\ frames' = SetLast(frames, [F EXCEPT !.ops = Append(@, token)])
    /\ held' = SetLast(held, [NewHeld(H.parts) EXCEPT !.lefts = Append(H.lefts, H.tree)])
    /\ pc' = "operand"
    /\ UNCHANGED <<source, pos, token, nodes, errors>>

(* Mutant: an operator of the same rank takes the operand too. *)
HugEqual == HugTighter(Waiting >= Rank(token))
Hug == HugTighter(Waiting > Rank(token))

(* The operand is the right one of the innermost waiting operator; the token is handed back. *)
HandBack(yields, operands) ==
    /\ pc = "operator" /\ F.ops # <<>>
    /\ token \in BinaryOp => yields
    /\ frames' = SetLast(frames, [F EXCEPT !.ops = Front(@)])
    /\ held' = SetLast(held, [H EXCEPT !.lefts = Front(@), !.tree = Tree(Last(F.ops), operands)])
    /\ UNCHANGED <<source, pos, token, pc, nodes, errors>>

(* Mutant: an operator of the same rank neither takes the operand nor gives it up. *)
BeHuggedStrict == HandBack(Waiting < Rank(token), <<Last(H.lefts), H.tree>>)
(* Mutant: the operands change places. *)
BeHuggedSwapped == HandBack(Waiting <= Rank(token), <<H.tree, Last(H.lefts)>>)
BeHugged == HandBack(Waiting <= Rank(token), <<Last(H.lefts), H.tree>>)

-----------------------------------------------------------------------------
(* The end of parseExpression, by its caller. *)

Over == pc = "operator" /\ F.ops = <<>> /\ token \notin BinaryOp

One(stray) == IF stray THEN 1 ELSE 0
Complain(n) == errors' = errors + n

Caller == held[Len(held) - 1]
(* Back in parseExpressionNode, which reads the next token and looks for a postfix. *)
Return(t) ==
    /\ frames' = Front(frames)
    /\ held' = SetLast(Front(held), [Caller EXCEPT !.tree = t])
    /\ TakeToken(1)
    /\ pc' = "postfix"

Finish(t) == Hold(t) /\ pc' = "done" /\ UNCHANGED <<source, pos, token, frames, nodes>>

StatementEnds ==
    /\ Over /\ F.who = "statement"
    /\ Complain(One(token # ";"))
    /\ Finish(H.tree)

(* The overload that fills a Variable: a group is kept as a UnaryExpression without operator. *)
GroupEnds ==
    /\ Over /\ F.who = "group"
    /\ Complain(One(token # ")") + One(H.tree = Nothing))
    /\ Return(Tree("group", <<H.tree>>))
    /\ UNCHANGED <<source, nodes>>

InList == Over /\ F.who \in {"args", "array"}

(* Both parseExpression and parseList check how an item ends; the first item may end *)
(* in any way for parseExpression, EMPTY_EXPRESSION_ALLOWED is a bit of              *)
(* ALLOW_UNEXPECTED_END.                                                             *)
NextItem ==
    /\ InList /\ token # CloserOf(F.who)
    /\ nodes' = Append(nodes, H.tree)
    /\ Complain(IF token = "," THEN 0 ELSE 1 + One(Len(nodes) > F.mark))
    /\ held' = SetLast(held, NewHeld(<<>>))
    /\ pc' = "operand"
    /\ UNCHANGED <<source, pos, token, frames>>

(* Mutant: commitStack copies the items and leaves them on the stack. *)
CommitCopies(mark) == Append(nodes, H.tree)
(* commitStack: the items above the mark leave the stack. *)
Commit(mark) == SubSeq(nodes, 1, mark)

ListEnds ==
    /\ InList /\ token = CloserOf(F.who)
    /\ Return(ListOf(F.who, Caller.name,
                     Append(SubSeq(nodes, F.mark + 1, Len(nodes)), H.tree)))
    /\ nodes' = Commit(F.mark)
    /\ UNCHANGED <<source, errors>>

InRange == Over /\ F.who \in {"from", "second", "third"}

PartEnds ==
    /\ InRange /\ F.who # "third" /\ token = ":"
    /\ frames' = SetLast(frames, [F EXCEPT !.who = IF @ = "from" THEN "second" ELSE "third"])
    /\ held' = SetLast(held, NewHeld(Append(H.parts, H.tree)))
    /\ pc' = "operand"
    /\ UNCHANGED <<source, pos, token, nodes, errors>>

RangeOver == InRange /\ (F.who # "third" => token # ":")
(* <<start, step, end>> *)
RangeTree == Tree(":", IF F.who = "second" THEN <<H.parts[1], Nothing, H.tree>>
                                           ELSE Append(H.parts, H.tree))
(* Mutant: a keyword does not end the third part. *)
StrayThirdKeyword == One(F.who = "third" /\ token \notin {":", "{"})
(* The third part is parsed with the ends of a loop's header, whoever asks. *)
StrayThird == One(F.who = "third" /\ token \notin {":", "{"} \cup Keywords)

(* "range" is only assigned when there is a range.  The token is not looked at. *)
SubscriptEnds ==
    /\ RangeOver /\ Len(frames) > 1
    /\ Complain(StrayThird)
    /\ Return(Tree("[", << Caller.tree, IF F.who # "from" THEN RangeTree
                                       ELSE IF H.tree = Nothing THEN Garbage ELSE H.tree >>))
    /\ UNCHANGED <<source, nodes>>

LoopHeaderEnds ==
    /\ RangeOver /\ Len(frames) = 1
    /\ Complain(StrayThird + One(token \notin {":", "{"} \cup Keywords))
    /\ Finish(IF F.who = "from" THEN H.tree ELSE RangeTree)

Next ==
    \/ ParsePrefix \/ ParseOperand \/ ParseGroup \/ NoOperand \/ parseArrayInitialization
    \/ ParseCall \/ MemberSelection \/ Subscript \/ EmptySubscript \/ PostfixUnary
    \/ NoPostfix \/ NodeEnds
    \/ Hug \/ BeHugged
    \/ StatementEnds \/ GroupEnds \/ NextItem \/ ListEnds
    \/ PartEnds \/ SubscriptEnds \/ LoopHeaderEnds

Spec == Init /\ [][Next]_vars /\ WF_vars(Next)

-----------------------------------------------------------------------------
(* Everything is of its kind; the two halves of the call stack have one height. *)
TypeOK ==
    /\ pos \in Nat \ {0} /\ errors \in Nat
    /\ pc \in {"operand", "postfix", "wrap", "operator", "done"}
    /\ Len(frames) >= 1
    /\ Len(held) = Len(frames)
    /\ \A i \in DOMAIN frames :
         /\ frames[i].who \in Callers /\ frames[i].mark \in Nat
         /\ frames[i].prefix \in Seq(UnaryOp) /\ frames[i].ops \in Seq(BinaryOp)
         /\ Len(held[i].lefts) = Len(frames[i].ops)

(* The operators an expression waits with bind tighter and tighter, so an operator *)
(* that hands an operand back hands it to one that may take it, and an expression  *)
(* however long recurses at most once for each of the twelve ranks.                *)
RanksDescend ==
    \A i \in DOMAIN frames : \A j \in 1 .. Len(frames[i].ops) - 1 :
        Rank(frames[i].ops[j + 1]) < Rank(frames[i].ops[j])

(* The nodes above a list's mark are that list's own items: whatever is parsed       *)
(* inside an item gives the stack back as it found it, and so does the expression.   *)
NodesBelong ==
    /\ frames[1].mark = 0
    /\ \A i \in DOMAIN frames :
         LET top == IF i = Len(frames) THEN Len(nodes) ELSE frames[i + 1].mark IN
         /\ frames[i].mark <= top
         /\ frames[i].who \notin {"args", "array"} => frames[i].mark = top

=============================================================================
