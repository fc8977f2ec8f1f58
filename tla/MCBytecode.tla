------------------------------- MODULE MCBytecode -------------------------------
(* Programs for BytecodeMachine: a loop of every kind in a loop of every kind,    *)
(* with everything that leaves a loop, a case or a function early.                *)
EXTENDS BytecodeMachine

Names == {"a", "b", "x", "n", "s", "p", "q", "i", "j", "m", "k", "l", "r", "u"}

Less(e, n) == Bin("LT", e, Num(n))
Is(e, n)   == Bin("EQ", e, Num(n))
Add(e, f)  == Bin("ADD", e, f)
X          == Var("x")
Count(x)   == Set(x, Add(Var(x), Num(1)))

\* The names a loop may use.
Outer == [item |-> "p", index |-> "i", counter |-> "m", from |-> "a"]
Inner == [item |-> "q", index |-> "j", counter |-> "k", from |-> "b"]

LoopKinds == {"cond", "condItem", "range", "rangeDown", "rangeNamed", "rangeKept",
              "array", "arrayNamed", "arrayBare"}

Looped(kind, v, body) ==
    LET below == Less(Var(v.counter), 2)
        next  == <<Count(v.counter)>> \o body
        items == Array(v.from, 3)
        item  == <<Shows(Var(v.item))>> \o body
        both  == <<Shows(Add(Var(v.index), Var(v.item)))>> \o body
    IN  CASE kind = "cond" ->
                <<Set(v.counter, Num(0)), Loop("cond", below, NoExp, NoExp, "", "", FALSE, next)>>
          [] kind = "condItem" ->
                <<Set(v.counter, Num(0)),
                  Loop("cond", below, NoExp, NoExp, v.item, "", FALSE, item \o next)>>
          [] kind = "range" ->
                <<Loop("range", Num(1), Num(0), NoExp, "", "", FALSE, body)>>
          [] kind = "rangeDown" ->
                <<Loop("range", Num(0), Num(3), Num(-2), v.item, "", FALSE, item)>>
          [] kind = "rangeNamed" ->
                <<Loop("range", Num(3), Num(0), Num(2), v.item, v.index, TRUE, both)>>
          [] kind = "rangeKept" ->
                <<Loop("range", Var("s"), Num(1), NoExp, "", "n", FALSE, body), Shows(Var("n"))>>
          [] kind = "array" ->
                <<Loop("array", items, NoExp, NoExp, v.item, "", FALSE, item)>>
          [] kind = "arrayNamed" ->
                <<Loop("array", items, NoExp, NoExp, v.item, v.index, TRUE, both)>>
          [] kind = "arrayBare" ->
                <<Loop("array", items, NoExp, NoExp, "", "", FALSE, body)>>

\* What is done in the innermost loop.
Leaves == [
    plain  |-> <<Shows(X)>>,
    early  |-> <<If(<<Is(X, 2), Less(X, 4)>>, <<<<Break>>, <<Continue>>, <<Shows(X)>>>>)>>,
    only   |-> <<If(<<Less(X, 3)>>, <<<<Shows(X), Continue>>>>), Break>>,
    linear |-> <<Case(X, <<3, 1>>, <<<<Break>>, <<Shows(Num(7))>>>>, <<Continue>>), Shows(X)>>,
    table  |-> <<Case(X, <<5, 2, 1, 3>>, <<<<Continue>>, <<Shows(Num(8))>>, <<Continue>>, <<Break>>>>,
                      NoElse), Shows(X)>>,
    both   |-> <<Case(X, <<4, 2, 6, 1, 8>>, <<<<Shows(X)>>, <<Break>>, <<Continue>>, <<>>, <<Break>>>>,
                      <<Shows(Num(9)), Continue>>)>>,
    calls  |-> <<If(<<Logic("or", Less(X, 3), Is(Call(1, X), 7))>>,
                    <<<<Shows(Call(1, X))>>, <<Break>>>>),
                 If(<<Logic("and", Less(X, 5), Call(2, X))>>, <<<<Shows(X)>>>>)>>,
    cells  |-> <<SetElem("a", Call(2, X), Add(Elem("a", Num(2)), X)), Shows(Elem("a", Num(1)))>>
]

\* A function that leaves two loops and a case at once, one that calls it.
Functions == <<
    [param |-> "u", names |-> {"u", "r", "l"},
     body |-> <<Def("l", Num(0)),
                Loop("array", Array("a", 3), NoExp, NoExp, "r", "", FALSE,
                     <<Loop("range", Num(1), Num(0), NoExp, "", "", FALSE,
                            <<Count("l"), Count("s"),
                              Case(Var("l"), <<1, 4>>, <<<<Break>>, <<Return(Var("r"))>>>>,
                                   <<If(<<Is(Var("u"), 2)>>,
                                        <<<<Return(Add(Var("l"), Num(10)))>>>>)>>)>>)>>),
                Return(Var("s"))>>],
    [param |-> "w", names |-> {"w"},
     body |-> <<If(<<Is(Call(1, Var("w")), 6), Less(Var("w"), 3)>>,
                   <<<<Return(Num(0))>>, <<Return(Num(1))>>>>), Return(Num(2))>>]
>>

Program(k1, k2, leaf) ==
    [body |-> <<Def("x", Num(0)), Def("n", NoExp), Def("s", Num(2)), Def("m", NoExp), Def("k", NoExp),
                Arr("a", <<Num(4), Num(5), Num(6)>>), Arr("b", <<Num(1), Num(0), Num(3)>>)>>
              \o Looped(k1, Outer, Looped(k2, Inner, <<Count("x")>> \o Leaves[leaf]))
              \o <<Shows(X)>>,
     fcns |-> Functions, names |-> Names \cup {"w"}]

\* Every loop in every loop, and every leaf in every loop; programs whose loops
\* go on for ever are left out.
AllPrograms ==
    {p \in {Program(k1, k2, "early") : k1 \in LoopKinds, k2 \in LoopKinds}
           \cup {Program("range", k2, leaf) : k2 \in LoopKinds, leaf \in DOMAIN Leaves} :
        Meaning(p).sig = "next"}

Compiled(programs) == {[image |-> Build(p), meant |-> Meaning(p).out] : p \in programs}
AllImages == Compiled(AllPrograms)
================================================================================
