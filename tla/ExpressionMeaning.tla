---------------------------- MODULE ExpressionMeaning ----------------------------
(***************************************************************************)
(* What an expression means, stated without the parser: doc.md section 7     *)
(* ranks the operators, a tree is written with the parentheses these ranks   *)
(* ask for, and the parser has to read the tree back.                        *)
(***************************************************************************)
EXTENDS ExpressionParser

(* The ranks of the language: 0 for operands and postfixes, 1 for prefixes, then the *)
(* binary operators in their order.                                                  *)
Binary(t)   == t.op \in BinaryOp \ {".", "["} /\ Len(t.sub) = 2
Prefixed(t) == t.op \in UnaryOp \ {"--"} /\ Len(t.sub) = 1
DocRank(t)  == IF Binary(t) THEN Rank(t.op) + 1 ELSE IF Prefixed(t) THEN 1 ELSE 0

RECURSIVE Commas(_)
Commas(texts) == IF Len(texts) <= 1 THEN FlattenSeq(texts)
                 ELSE Head(texts) \o <<",">> \o Commas(Tail(texts))

(* The text of a tree.  "--" is written behind its operand, "++" before it: the *)
(* tree does not tell the two positions apart.                                  *)
RECURSIVE Written(_)
Written(t) ==
    LET all      == [i \in DOMAIN t.sub |-> Written(t.sub[i])]
        Part(i, most) == IF DocRank(t.sub[i]) <= most THEN all[i]
                                                      ELSE <<"(">> \o all[i] \o <<")">> IN
    CASE t = Nothing    -> <<>>
      [] t.sub = <<>> /\ t.op \notin {"call", "array"} -> <<t.op>>
      [] t.op = "call"  -> all[1] \o <<"(">> \o Commas(Tail(all)) \o <<")">>
      [] t.op = "array" -> <<"[">> \o Commas(all) \o <<"]">>
      [] t.op = "group" -> <<"(">> \o all[1] \o <<")">>
      [] t.op = "["     -> Part(1, 0) \o <<"[">> \o all[2] \o <<"]">>
      [] t.op = "."     -> Part(1, 0) \o <<".">> \o all[2]
      [] t.op = ":"     -> all[1] \o (IF t.sub[2] = Nothing THEN <<>> ELSE <<":">> \o all[2])
                                  \o <<":">> \o all[3]
      [] t.op = "--"    -> Part(1, 0) \o <<"--">>
      [] Prefixed(t)    -> <<t.op>> \o Part(1, 1)
      [] OTHER          -> Part(1, DocRank(t)) \o <<t.op>> \o Part(2, DocRank(t) - 1)

(* The operands of a tree from left to right. *)
RECURSIVE Operands(_)
Operands(t) == (IF t.sub = <<>> /\ t.op \in Operand THEN <<t.op>> ELSE <<>>)
               \o FlattenSeq([i \in DOMAIN t.sub |-> Operands(t.sub[i])])

(* A tree without the marks of its parentheses. *)
RECURSIVE Plain(_)
Plain(t) == IF t.op = "group" THEN Plain(t.sub[1])
            ELSE Tree(t.op, [i \in DOMAIN t.sub |-> Plain(t.sub[i])])

-----------------------------------------------------------------------------
(* What the call stack holds, from left to right: the items a list has on the stack of *)
(* nodes, the parts of a range, the left operands that wait, the operand being read.   *)
HeldIn(i) ==
    LET above == IF i = Len(frames) THEN Len(nodes) ELSE frames[i + 1].mark IN
    SubSeq(nodes, frames[i].mark + 1, above) \o held[i].parts \o held[i].lefts
        \o <<held[i].tree>>

AllHeld == FlattenSeq([i \in DOMAIN frames |-> HeldIn(i)])

(* Without the token in hand, which nothing has been made of yet. *)
ReadSoFar == SubSeq(source.text, 1, IF pc = "operand" THEN pos - 1 ELSE pos - 2)

(* No operand is lost, doubled or moved: at every step what has been read is what the  *)
(* activations of the parser and the stack of nodes hold between them, in its order.   *)
OperandsInOrder ==
    (errors = 0 /\ pc # "done") =>
        FlattenSeq([i \in DOMAIN AllHeld |-> Operands(AllHeld[i])])
            = SelectSeq(ReadSoFar, LAMBDA x : x \in Operand)

(* A text written from a tree is read as that tree: precedence, association to the     *)
(* left, prefixes inside binary operators and outside postfixes, whatever nests.       *)
ReadAsWritten == pc = "done" => Plain(held[1].tree) = source.meant

(* What the language has is parsed without a diagnostic. *)
NoComplaint == errors = 0

(* What the language has is read as it is meant, and nothing gets lost on the way.    *)
ReadBack == TypeOK /\ OperandsInOrder /\ ReadAsWritten /\ NoComplaint

(* The parser comes to the end of a text. *)
Terminates == <>(pc = "done")

=============================================================================
