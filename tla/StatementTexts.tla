---------------------------- MODULE StatementTexts ----------------------------
(* The texts of statements the parser is run on: programs written from trees, with the *)
(* tree each must be read as, and texts with errors in them.                           *)
EXTENDS Integers, Sequences, SequencesExt

T(k, name, sub) == [k |-> k, name |-> name, sub |-> sub]
E(o) == T("exp", o, <<>>)

(* The definitions a statement makes in its scope; a structure's members are among them, *)
(* as parseTypeDefinition has it.                                                        *)
DefsOf(n) ==
    CASE n.k \in {"var", "fcn", "namespace", "enum", "item", "index"} -> <<n.name>>
      [] n.k = "struct" -> [i \in DOMAIN n.sub |-> n.sub[i].name] \o <<n.name>>
      [] OTHER -> <<>>
Block(kids, before) ==
    [k |-> "scope", sub |-> kids, defs |-> before \o FlattenSeq([i \in DOMAIN kids |-> DefsOf(kids[i])])]
Scope(kids) == Block(kids, <<>>)

(* A body is put in braces, or behind a colon when it is one simple statement.  A block in  *)
(* a block and a namespace have braces; so has the body of a loop behind an open range or  *)
(* behind "at i", where a colon means something else.                                     *)
Simple == {"statement", "assign", "var", "return", "continue", "break", "print"}
MayInline(n, i) ==
    CASE n.k = "scope" -> n.sub[i].k # "scope"
      [] n.k = "loop" -> i = Len(n.sub) /\ n.sub[i - 1].sub # <<>> /\ n.sub[i].sub[1].k # "var"
      [] n.k = "namespace" -> FALSE
      [] OTHER -> TRUE
(* Parts with a separator after each but the last. *)
Apart(parts, sep) == FlattenSeq([i \in DOMAIN parts |-> IF i = 1 THEN parts[i] ELSE <<sep>> \o parts[i]])
Initial(v) == IF v = E("") THEN <<>> ELSE <<"=", v.name>>
Fields(q)  == [i \in DOMAIN q |-> <<q[i].name, ":", "i32">> \o Initial(q[i].sub[1])]

(* The words before each part of an if and a case, whose conditions stand behind the bodies *)
(* they are for; parts are written already.                                                *)
WriteIf(parts) ==
    FlattenSeq([i \in DOMAIN parts |->
        IF i % 2 = 0 THEN <<>>
        ELSE IF i = Len(parts) THEN <<"else">> \o parts[i]
        ELSE (IF i = 1 THEN <<"if">> ELSE <<"else", "if">>) \o parts[i + 1] \o parts[i]])
WriteCase(parts, inline) ==
    LET body == FlattenSeq([i \in DOMAIN parts |->
            IF i % 2 = 1 THEN <<>>
            ELSE IF i = Len(parts) THEN <<"else">> \o parts[i]
            ELSE <<"when">> \o parts[i + 1] \o parts[i]])
    IN <<"case">> \o parts[1] \o (IF inline /\ Len(parts) % 2 = 1
                                  THEN <<":">> \o body ELSE <<"{">> \o body \o <<"}">>)
(* A loop: an argument of no, one or three parts, its outer scope, its body. *)
WriteLoop(n, parts) ==
    LET m == Len(n.sub)
        arg == IF m = 5
               THEN parts[1] \o <<":">> \o (IF parts[2] = <<"">> THEN <<>> ELSE parts[2] \o <<":">>) \o parts[3]
               ELSE IF m = 3 THEN parts[1] ELSE <<>>
        head == FlattenSeq([i \in DOMAIN n.sub[m - 1].sub |->
                    LET d == n.sub[m - 1].sub[i] IN
                    CASE d.k = "item" -> <<"as", d.name>>
                      [] d.k = "index" -> <<"at", d.name>>
                      [] d.k = "var" -> <<"at", d.name, ":", "i32">>])
    IN <<"loop">> \o SelectSeq(arg, LAMBDA t : t # "") \o head \o parts[m]

RECURSIVE Write(_, _)
Write(n, inline) ==
    LET parts == [i \in DOMAIN n.sub |-> Write(n.sub[i], inline /\ MayInline(n, i))]
    IN CASE n.k = "statement" -> parts[1] \o <<";">>
         [] n.k = "assign" -> parts[1] \o <<"=">> \o parts[2] \o <<";">>
         [] n.k = "var" -> <<n.name, ":", "const", "i32", "^", "[", "1", "]">> \o Initial(n.sub[1]) \o <<";">>
         [] n.k = "return" -> <<"return">> \o Apart([i \in DOMAIN parts |->
                                  IF parts[i] = <<"">> THEN <<"_">> ELSE parts[i]], ",") \o <<";">>
         [] n.k \in {"continue", "break"} ->
                <<n.k>> \o (IF n.name = "" THEN <<>> ELSE <<n.name>>) \o <<";">>
         [] n.k = "print" -> parts[1] \o Apart(Tail(parts), ",") \o <<";">>
         [] n.k = "if" -> WriteIf(parts)
         [] n.k = "case" -> WriteCase(parts, inline)
         [] n.k = "loop" -> WriteLoop(n, parts)
         [] n.k = "enum" -> <<n.name, ":", "enum", ":", "i32", "{">> \o
                Apart([i \in DOMAIN n.sub |-> <<n.sub[i].name>> \o Initial(n.sub[i].sub[1])], ",") \o <<"}">>
         [] n.k = "struct" -> <<n.name, ":", "struct", "{">>
                \o FlattenSeq([i \in DOMAIN n.sub |-> Fields(n.sub)[i] \o <<";">>]) \o <<"}">>
         [] n.k = "fcn" -> <<n.name, ":", "(">> \o Apart(Fields(Front(n.sub)), ",") \o <<")", "->", "i32">>
                \o Last(parts)
         [] n.k = "namespace" -> <<n.name, ":">> \o parts[1]
         [] n.k = "scope" -> IF inline /\ Len(n.sub) = 1 /\ n.sub[1].k \in Simple
                             THEN <<":">> \o parts[1] ELSE <<"{">> \o FlattenSeq(parts) \o <<"}">>
         [] n.k \in {"exp", "member", "item", "index"} -> <<n.name>>
WriteAll(kids, inline) ==
    FlattenSeq([i \in DOMAIN kids |-> Write(kids[i], inline /\ kids[i].k # "scope")])

-----------------------------------------------------------------------------
Text(kids, inline) ==
    [text |-> WriteAll(kids, inline), recover |-> FALSE, meant |-> <<Scope(kids)>>, errors |-> 0]
Broken(text, n) == [text |-> text, recover |-> TRUE, meant |-> <<>>, errors |-> n]

Stmt == T("statement", "", <<E("a")>>)
Assign == T("assign", "", <<E("a"), E("1")>>)
Var(x, v) == T("var", x, <<E(v)>>)
Ret(f, parts) == T("return", f, parts)
Leaves(f) == {Stmt, Assign, Var("a", "1"), Var("b", ""), Var("b", "alloc"),
              T("break", "", <<>>), T("continue", "a", <<>>),
              T("print", "", <<E("str")>>), T("print", "", <<E("str"), E("a"), E("1")>>),
              Ret(f, <<>>), Ret(f, <<E("a")>>), Ret(f, <<E("a"), E("b")>>), Ret(f, <<E(""), E("b")>>)}

Outer(defs) == Scope(defs)
Item == T("item", "a", <<>>)
Index == T("index", "b", <<>>)
LoopHeads == {<< <<E("a")>>, <<Item>> >>, << <<E("a")>>, <<Item, Index>> >>, << <<>>, <<>> >>,
            << <<E("1"), E(""), E("2")>>, <<Index>> >>, << <<E("1"), E("2"), E("a")>>, <<>> >>,
            << <<E("a")>>, <<Var("b", "")>> >>}
Loop(h, b) == T("loop", "", Append(Append(h[1], Outer(h[2])), b))

(* Every way to hold a body; "f" is the function it is in. *)
Holders(b) ==
    {T("if", "", <<b, E("a")>>), T("if", "", <<b, E("a"), b>>),
     T("if", "", <<b, E("a"), b, E("1"), Scope(<<Stmt>>)>>),
     T("case", "", <<E("a"), b, E("1")>>), T("case", "", <<E("a"), b, E("1"), b, E("2"), b>>),
     T("case", "", <<E("a"), b>>)}
        \cup {Loop(h, b) : h \in LoopHeads}
Function(args, b) == T("fcn", "f", Append(args, Block(b, [i \in DOMAIN args |-> args[i].name])))
Members == {T("enum", "e", <<T("member", "a", <<E("")>>), T("member", "b", <<E("1")>>)>>),
            T("struct", "s", <<Var("a", ""), Var("b", "1")>>), T("struct", "s", <<>>)}
Definitions ==
    Members \cup
    {Function(<<>>, <<l>>) : l \in Leaves("f")} \cup
    {Function(<<Var("a", ""), Var("b", "1")>>, <<Var("a", "1"), h>>) : h \in Holders(Scope(<<Ret("f", <<E("a")>>)>>))} \cup
    {T("namespace", "n", <<Scope(<<d, Var("a", "1")>>)>>) : d \in Members \cup {Function(<<>>, <<Stmt>>)}} \cup
    {Scope(<<Var("a", "1"), h>>) : h \in Holders(Scope(<<Assign>>))}
Statements == Leaves("") \cup Definitions
                 \cup UNION {Holders(Scope(<<l>>)) : l \in Leaves("")}
                 \cup UNION {Holders(Scope(<<Var("b", "1"), h, Stmt>>)) : h \in Holders(Scope(<<Stmt, Assign>>))}
Programs == {<<s>> : s \in Statements} \cup {<<Stmt, h, Assign>> : h \in Holders(Scope(<<Stmt>>))}

(* A foreign library's namespace and code in another language. *)
Foreign == << "import", "[", "a", "]", "b", "as", "n", ":", "{", "f", ":", "(", "a", ":", "i32", ")", ";", "}",
              "[", "a", "]", "{", "1", "{", "2", "}", "}", ";" >>
Meant_Foreign == T("namespace", "n", <<Scope(<<T("fcn", "f", <<Var("a", "")>>)>>)>>)

(* The recovery tests of test_sync.qvi: 1.1, 1.3, 1.4, 2.1, 2.2, 3.1, 3.2, 4.1, 5.2 and 6.1,   *)
(* as far as they are the parser's: a call is a name here, an array a number, and E69, E11 *)
(* and W4 are the validator's.  With each the number of errors the parser reports.        *)
Good(x) == <<x, ":", "i32", "=", "1", ";">>
Bad(x)  == <<x, ":", "i32", "=", ";">>
BadBody == <<"{">> \o Bad("a") \o Good("b") \o Bad("a") \o <<"}">>
Fcn(b)  == <<"f", ":", "(", ")", "{">> \o b \o <<"}">>
LoopHead == <<"loop", "1", ":", "2", "at", "a">>
Tested == {
    Broken(Good("a") \o Bad("b") \o Good("a") \o Bad("b"), 2),
    Broken(Good("a") \o Bad("b") \o Good("a") \o <<"a", ";">>, 1),
    Broken(Good("a") \o <<"}">>, 1),
    Broken(<<"f", ":", "(", ")">> \o BadBody \o Fcn(<<"return", ";">>), 2),
    Broken(Fcn(Good("a") \o Bad("b") \o Good("a") \o Bad("b")), 2),
    Broken(LoopHead \o BadBody, 2),
    Broken(<<"if", "1", "{">> \o Bad("a") \o <<"}">> \o Good("b") \o Bad("a"), 2),
    Broken(<<"f", ":", "(", ")", "{">> \o Bad("a"), 2),
    Broken(Good("a") \o <<")">> \o Good("b"), 1),
    Broken(Good("a") \o <<")">> \o Fcn(Bad("a")) \o LoopHead \o <<"{">> \o Bad("b") \o <<"}", "a", ";">>, 3) }

(* Texts of that file of which the code reports other errors than the test wants.  A stray *)
(* ")" is taken for an assignment without its "=": the next "=" is looked for, and behind  *)
(* the last one there is none, so 1.2 gets four errors where the test has two, and 5.5     *)
(* three where it has one.  In 5.1 the parser reports two, the test gives it one.          *)
Untrue == {
    Broken(Good("a") \o <<")">> \o Good("b") \o <<")">>, 4),
    Broken(Good("a") \o Good("b") \o <<")">>, 3),
    Broken(<<"s", ":", "struct", "{", "a", ":", "i32", ";", "b", ":", "i32", ";", "}",
             "e", ":", "enum", ":", "f64", "{", "a", "}">> \o Good("a") \o <<"a", "=", "str", ";">>, 2) }

(* Texts that break off anywhere, and tokens where none of them belongs. *)
Cuttable == {Function(<<Var("a", "")>>, <<Var("b", "1")>>), Loop(<< <<E("a")>>, <<Item, Index>> >>, Scope(<<Stmt>>)),
             T("if", "", <<Scope(<<Stmt>>), E("a"), Scope(<<Stmt>>), E("1"), Scope(<<Stmt>>)>>),
             Ret("", <<E("a"), E("b")>>), Var("a", "alloc")} \cup Members
Cuts == UNION {{Broken(SubSeq(WriteAll(<<d>>, FALSE), 1, n), 0) :
                   n \in 1 .. Len(WriteAll(<<d>>, FALSE))} : d \in Cuttable}
Stray == {Broken(InsertAt(WriteAll(<<Var("a", "1"), Loop(<< <<E("a")>>, <<Item>> >>, Scope(<<Stmt>>)), Stmt>>, FALSE), n, t), 0) :
             n \in 1 .. 20, t \in {")", "}", "at", "#test", "enum", "1"}}

(* Members of an enumeration without a name. *)
Unnamed == {Broken(<<"e", ":", "enum">> \o type \o <<"{">> \o first \o <<m, "}">> \o Good("a"), 0) :
               type \in {<<>>, <<":", "i32">>}, first \in {<<>>, <<"a", ",">>}, m \in {",", "1", "str", "(" }}

Sentences == {Text(p, i) : p \in Programs, i \in BOOLEAN} \cup Tested \cup Untrue \cup Cuts \cup Stray \cup Unnamed
             \cup {[text |-> Foreign, recover |-> FALSE, meant |-> <<Scope(<<Meant_Foreign>>)>>, errors |-> 0]}

============================================================================
