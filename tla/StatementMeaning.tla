---------------------------- MODULE StatementMeaning ----------------------------
(***************************************************************************)
(* What the statement parser must make of a text, without the parser: a text   *)
(* comes with the tree it was written from (StatementTexts), or the number of  *)
(* errors a test of the repository expects.  A tree there names no scope; the  *)
(* scopes' numbers are checked by themselves.                                  *)
(***************************************************************************)
EXTENDS StatementParser, FiniteSets

(* A tree that was read, without the scopes' numbers. *)
RECURSIVE Shape(_)
Shape(n) == LET sub == [i \in DOMAIN n.sub |-> Shape(n.sub[i])] IN
            IF n.k = "scope" THEN [k |-> "scope", sub |-> sub, defs |-> n.defs]
                             ELSE [k |-> n.k, name |-> n.name, sub |-> sub]

TypeOK ==
    /\ c.pos \in 1 .. Len(source.text) + 1
    /\ c.scope \in 1 .. c.made /\ c.errors \in 0 .. MaxErrors
    /\ c.foreign \in BOOLEAN /\ c.fault \in BOOLEAN /\ c.tick \in BOOLEAN
    /\ \A i \in DOMAIN frames :
           frames[i].fn \in {"scope", "print", "enum", "struct", "function", "namespace",
                             "if", "case", "loop", "import"}

(* Written text is read as the tree it was written from, scopes' lists of definitions *)
(* included, and without a complaint: parser.cpp:6-9, what is collected on the shared *)
(* stacks while a node is read is committed to that node.                             *)
ReadAsWritten ==
    (Done \/ ~Running) /\ source.meant # <<>> => Done /\ c.errors = 0 /\ Shape(c.val) = source.meant[1]

(* The stacks are shared by all activations: each owns what is above its mark, and the *)
(* marks of those it was called from are below its own.  Nothing is left at the end.   *)
MarksNest ==
    /\ \A i \in DOMAIN frames : /\ frames[i].mark <= Len(c.nodes)
                                /\ frames[i].dmark <= Len(c.defs)
                                /\ i > 1 => /\ frames[i - 1].mark <= frames[i].mark
                                            /\ frames[i - 1].dmark <= frames[i].dmark
    /\ Done => c.nodes = <<>> /\ c.defs = <<>>

(* The scope a node names as its own is the one that lists it; a loop names its outer *)
(* scope, which names the one that lists the loop (parser.cpp:20-23: who changes the  *)
(* ambient state restores it before returning).                                       *)
RECURSIVE KnowsPlace(_, _)
KnowsPlace(n, id) ==
    LET outer == n.sub[Len(n.sub) - 1].id
        Place(i) == CASE n.k = "scope" -> n.id
                      [] n.k = "fcn" -> Last(n.sub).in
                      [] n.k = "loop" /\ i = Len(n.sub) -> outer
                      [] OTHER -> id
    IN n.k = "exp" \/ /\ n.in = IF n.k = "loop" THEN outer ELSE id
                      /\ \A i \in DOMAIN n.sub : KnowsPlace(n.sub[i], Place(i))
OwnScope == Done /\ c.errors = 0 => KnowsPlace(c.val, 0)

(* Later passes go by the unit's lists, not by the tree: a text without errors has each *)
(* of its nodes in its list as often as in the tree.                                    *)
RECURSIVE Kinds(_)
Kinds(n) == <<n.k>> \o FlattenSeq([i \in DOMAIN n.sub |-> Kinds(n.sub[i])])
Listed == {"print", "statement", "assign", "var", "case", "loop", "return", "enum", "struct", "fcn"}
RegistryMatchesTree ==
    Done /\ c.errors = 0 =>
        LET inTree == Kinds(c.val)
            count(q, k) == Len(SelectSeq(q, LAMBDA x : x = k))
        IN \A k \in Listed : count(c.reg, k) = count(inTree, k)

(* After an error the parser goes on and reports what the tests of recovery expect. *)
ErrorsAsTested == Done /\ source.errors > 0 => c.errors = source.errors

(* A text is read for what it says, with errors in it or without. *)
ReadForWhatItSays == ReadAsWritten /\ ErrorsAsTested

(* Every node is where it belongs: on the stacks of its owner while it is read, in the *)
(* scope that lists it and in the unit's list of its kind when it has been.            *)
InItsPlace == TypeOK /\ MarksNest /\ OwnScope /\ RegistryMatchesTree

(* Recovery moves forward (parser.cpp:62-66): reading ends for texts cut off or disturbed  *)
(* anywhere.  A case with a brace and a print list are not cut off: they go round behind   *)
(* the end, where what is read is not known.                                              *)
Terminates == <>(Done \/ ~Running)
================================================================================
