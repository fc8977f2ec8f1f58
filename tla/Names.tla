--------------------------------- MODULE Names ---------------------------------
(***************************************************************************)
(* How a name finds its definition, src/src/validator.cpp: pre-validation  *)
(* indexes the scopes that hold many definitions and looks for names used  *)
(* twice, and then every use of a name is resolved, along its path of      *)
(* namespaces or from its scope outwards, and linked.                      *)
(* Each behaviour is one scene: parent gives the scope around each scope,  *)
(* defs its definitions as written, [name, kind, at, inner, sig], where at *)
(* is the place in the text, inner the scope of a namespace, sig the       *)
(* arguments of a function; uses are the names to be resolved,             *)
(* [scope, path, name, at, call, args].                                    *)
(* A call is linked to the function its arguments score best for: the      *)
(* scoring, and the implicit casts of data_types.cpp it uses, come first.  *)
(* A type is [kind, size, of, len]: "int", "uint", "float", "pointer",     *)
(* "array", "slice", "enum", or "any", the type of a variadic last         *)
(* argument; a signature is the sequence of its argument types.            *)
(***************************************************************************)
EXTENDS Integers, Sequences, FiniteSets, SequencesExt

CONSTANTS
    Scenes,
    LINEAR_SEARCH_THRESHOLD,
    Internal,           \* names the language itself defines
    Spacing             \* 2^8 in the program: how far apart the tiers of a score are

ASSUME SpacingAssumption == Spacing \in Nat \ {0, 1}

isInt(t)       == t.kind \in {"int", "uint"}
isFloat(t)     == t.kind = "float"
isArrayLike(t) == t.kind \in {"array", "slice"}
isPrimitive(t) == isInt(t) \/ isFloat(t) \/ t.kind = "pointer"
isIntegerOrEnum(t) == isInt(t) \/ t.kind = "enum"

RECURSIVE canImplicitCast(_, _)
canImplicitCast(source, target) ==
    CASE source = target -> TRUE
      [] source # target /\ target.kind = "pointer" /\ isArrayLike(source) -> target.of = source.of
      [] source # target /\ isPrimitive(source) /\ isPrimitive(target) ->
            (source.kind = "pointer") <=> (target.kind = "pointer")
      [] source # target /\ isArrayLike(source) /\ isArrayLike(target) ->
            /\ source.kind = "array" /\ target.kind = "array" => source.len = target.len
            /\ canImplicitCast(source.of, target.of)
      [] ~isArrayLike(source) /\ isArrayLike(target) -> canImplicitCast(source, target.of)
      [] OTHER -> isIntegerOrEnum(source) /\ isIntegerOrEnum(target)

-----------------------------------------------------------------------------
(* The tiers from the lowest, ScoreWeight; one argument counts for one.    *)
Tiers == <<"implicitCast", "sizeDecrease", "signChange", "toFloat", "promotion",
           "exactMatch", "nonVarBonus">>
(* Mutant: two tiers closer than a call has arguments. *)
CloseWeight(tier) == 2 ^ ((CHOOSE i \in DOMAIN Tiers : Tiers[i] = tier) - 1)
Weight(tier) == Spacing ^ ((CHOOSE i \in DOMAIN Tiers : Tiers[i] = tier) - 1)

NoMatch == "none"

(* The tier of one argument. *)
MatchOf(arg, wants) ==
    CASE arg = wants -> "exactMatch"
      [] arg # wants /\ arg.kind = wants.kind /\ (isInt(arg) \/ isFloat(arg)) ->
            IF arg.size < wants.size THEN "promotion" ELSE "sizeDecrease"
      [] isInt(arg) /\ isInt(wants) /\ arg.kind # wants.kind -> "signChange"
      [] isInt(arg) /\ isFloat(wants) -> "toFloat"
      [] OTHER -> IF arg # wants /\ canImplicitCast(arg, wants) THEN "implicitCast" ELSE NoMatch

isVariadic(sig) == sig # <<>> /\ Last(sig).kind = "any"
Fixed(sig)      == IF isVariadic(sig) THEN Len(sig) - 1 ELSE Len(sig)

ArityFits(sig, args) == IF isVariadic(sig) THEN Len(args) >= Fixed(sig) ELSE Len(args) = Len(sig)

(* What every argument counts as; the tail of a variadic call is lowest.   *)
Matches(sig, args) == [i \in DOMAIN args |->
                         IF i > Fixed(sig) THEN "implicitCast" ELSE MatchOf(args[i], sig[i])]

computeFunctionMatchScore(sig, args) ==
    LET ms == Matches(sig, args)
    IN IF ~ArityFits(sig, args) \/ (\E i \in DOMAIN ms : ms[i] = NoMatch) THEN 0
       ELSE FoldLeft(LAMBDA sum, m : sum + Weight(m),
                     IF isVariadic(sig) THEN 0 ELSE Weight("nonVarBonus"), ms)

(* One round of the loop over the overloads: [best, score, same], where    *)
(* same counts the functions that came level with the best.                *)
NoneYet == [best |-> 0, score |-> 0, same |-> 0]
(* Mutant: the functions level with an earlier best still count. *)
StillLevel(seen, i, score) ==
    IF score > seen.score THEN [best |-> i, score |-> score, same |-> seen.same]
    ELSE IF score = seen.score THEN [seen EXCEPT !.same = @ + 1]
    ELSE [seen EXCEPT !.same = 0]
Compare(seen, i, score) ==
    IF score > seen.score THEN [best |-> i, score |-> score, same |-> 0]
    ELSE IF score = seen.score THEN [seen EXCEPT !.same = @ + 1]
    ELSE [seen EXCEPT !.same = 0]

(* The place of the function a call means in the list, or 0.               *)
Decide(seen) == IF seen.score > 0 /\ seen.same = 0 THEN seen.best ELSE 0
findClosestFunction(sigs, args) ==
    Decide(FoldLeft(LAMBDA seen, i : Compare(seen, i, computeFunctionMatchScore(sigs[i], args)),
                    NoneYet, [i \in DOMAIN sigs |-> i]))

-----------------------------------------------------------------------------
VARIABLES
    scene,
    index,              \* per scope: what Scope::index holds, or NoIndex
    phase,
    checked,            \* the last scope pre-validation went through
    wanted,             \* the use being resolved
    segment,            \* how many names of its path are resolved
    scope,              \* the scope it is looked for in
    late,               \* isOrderingInvalid: a later declaration was passed over
    entry,              \* the index entry found
    linked              \* the definition the use was linked to

nameVars == <<scene, index, phase, checked, wanted, segment, scope, late, entry, linked>>

NoIndex == <<>>
NoEntry == [kind |-> "none", nodes |-> <<>>]
InternalEntry == [kind |-> "internal", nodes |-> <<>>]
NoUse   == [scope |-> 0, path |-> <<>>, name |-> "", at |-> 0, call |-> FALSE, args |-> <<>>]

NamesStart ==
    /\ index = [s \in DOMAIN scene.parent |-> NoIndex]
    /\ phase = "check" /\ checked = 0
    /\ wanted = NoUse /\ segment = 0 /\ scope = 0 /\ late = FALSE
    /\ entry = NoEntry /\ linked = <<>>

Def(node) == scene.defs[node[1]][node[2]]
(* The definitions of a name in one scope, in the order of the text.       *)
Written(s, name) ==
    SelectSeq([i \in DOMAIN scene.defs[s] |-> <<s, i>>], LAMBDA n : Def(n).name = name)

EntryOf(nodes) == [kind |-> IF Len(nodes) = 1 THEN "single" ELSE "overload", nodes |-> nodes]

-----------------------------------------------------------------------------
(* Pre-validation.  The third and each later definition of a name is put   *)
(* at the head of the list of an index entry.                              *)
(* Mutant: the list starts anew with the third definition. *)
ForgetsFirst(nodes) == IF Len(nodes) < 3 THEN nodes ELSE Reverse(SubSeq(nodes, 3, Len(nodes)))
Prepended(nodes) == IF Len(nodes) < 3 THEN nodes
                    ELSE Reverse(SubSeq(nodes, 3, Len(nodes))) \o SubSeq(nodes, 1, 2)

NamesIn(s) == {scene.defs[s][i].name : i \in DOMAIN scene.defs[s]}
IndexOf(s) ==
    IF Len(scene.defs[s]) <= LINEAR_SEARCH_THRESHOLD THEN NoIndex
    ELSE [name \in NamesIn(s) \ {""} |-> EntryOf(Prepended(Written(s, name)))]

Found(ix, s, name) ==
    IF ix # NoIndex THEN IF name \in DOMAIN ix THEN ix[name] ELSE NoEntry
    ELSE IF Written(s, name) = <<>> THEN NoEntry ELSE EntryOf(Written(s, name))
findSymbolAsIndexEntry(s, name) == Found(index[s], s, name)

(* A name used twice must be a function's: the first of the list is asked. *)
Clash(ix, s) ==
    \E name \in NamesIn(s) \ {""} :
        LET e == Found(ix, s, name)
        IN e.kind = "overload" /\ Def(e.nodes[1]).kind # "function"

ensureUniqueDefinitions(s) ==
    /\ phase = "check" /\ s = checked + 1
    /\ index' = [index EXCEPT ![s] = IndexOf(s)]
    /\ checked' = s
    /\ phase' = IF Clash(index'[s], s) THEN "rejected"
                ELSE IF s = Len(scene.parent) THEN "ready" ELSE "check"
    /\ UNCHANGED <<scene, wanted, segment, scope, late, entry, linked>>

-----------------------------------------------------------------------------
(* One use at a time; validation begins only when pre-validation found no  *)
(* error.                                                                  *)
Resolve(u) ==
    /\ phase = "ready" /\ wanted' = u /\ scope' = u.scope
    /\ phase' = IF u.path = <<>> THEN "search" ELSE "path"
    /\ segment' = 0 /\ late' = FALSE /\ entry' = NoEntry /\ linked' = <<>>
    /\ UNCHANGED <<scene, index, checked>>

RECURSIVE Around(_)
(* A scope and the scopes around it, the innermost first.                  *)
Around(s) == IF s = 0 THEN <<>> ELSE <<s>> \o Around(scene.parent[s])

(* The nearest scope from s outwards that has the name, or 0.              *)
Holder(s, name) ==
    LET hs == SelectSeq(Around(s), LAMBDA t : findSymbolAsIndexEntry(t, name) # NoEntry)
    IN IF hs = <<>> THEN 0 ELSE hs[1]
findSymbolAsIndexEntryRecursive(s, name) ==
    IF Holder(s, name) = 0 THEN NoEntry ELSE findSymbolAsIndexEntry(Holder(s, name), name)

Fail(why) == phase' = why /\ UNCHANGED <<scene, index, checked, wanted, segment, scope, late, entry, linked>>

(* resolveQualifiedPath: the first name is looked for outwards, each one   *)
(* behind it only in the namespace before it.  The lexer hands the second  *)
(* and later names over with the "::" before them (NamePart in Lexer):     *)
(* they are never found.                                                   *)
SegmentEntry(s, name) == IF segment = 0 THEN findSymbolAsIndexEntryRecursive(s, name)
                         ELSE findSymbolAsIndexEntry(s, name)
resolveQualifiedPath ==
    /\ phase = "path"
    /\ IF segment = Len(wanted.path)
       THEN /\ phase' = "inside"
            /\ UNCHANGED <<scene, index, checked, wanted, segment, scope, late, entry, linked>>
       ELSE LET e == SegmentEntry(scope, wanted.path[segment + 1])
            IN IF e.kind # "single" THEN Fail("noPath")
               ELSE IF Def(e.nodes[1]).kind # "namespace" THEN Fail("noPath")
               ELSE /\ segment' = segment + 1 /\ scope' = Def(e.nodes[1]).inner
                    /\ UNCHANGED <<scene, index, phase, checked, wanted, late, entry, linked>>

(* Functions and types carry IS_UNORDERED; the flag init(Scope) sets is    *)
(* cleared again by init(SyntaxNode), so a namespace does not.             *)
Unordered(d) == d.kind \in {"function", "type"}
(* Mutant: the place in the text is never looked at. *)
AlwaysInOrder(e, u) == TRUE
isOrderingValid(e, u) ==
    e.kind = "overload" \/ Unordered(Def(e.nodes[1])) \/ Def(e.nodes[1]).at < u.at

(* The name itself behind a path.                                          *)
(* Mutant: it is looked for outwards. *)
FromInside(s, name) == findSymbolAsIndexEntryRecursive(s, name)
InsideEntry(s, name) == findSymbolAsIndexEntry(s, name)
ResolveInside ==
    /\ phase = "inside"
    /\ LET e == InsideEntry(scope, wanted.name)
           valid == e # NoEntry => isOrderingValid(e, wanted)
       IN /\ late' = ~valid
          /\ entry' = IF valid THEN e ELSE NoEntry
          /\ phase' = IF ~valid THEN "usedBefore" ELSE IF e = NoEntry THEN "notFound" ELSE "found"
    /\ UNCHANGED <<scene, index, checked, wanted, segment, scope, linked>>

(* One round of the search for a name without a path: a declaration that   *)
(* comes after the use sends the search to the scope around it.            *)
Outside(s) == scene.parent[s]
Search ==
    /\ phase = "search"
    /\ LET h == Holder(scope, wanted.name)
       IN \/ /\ h = 0
             /\ phase' = IF late THEN "usedBefore"
                         ELSE IF wanted.name \in Internal THEN "found" ELSE "notFound"
             /\ entry' = IF ~late /\ wanted.name \in Internal THEN InternalEntry ELSE NoEntry
             /\ UNCHANGED <<scope, late>>
          \/ /\ h # 0 /\ isOrderingValid(findSymbolAsIndexEntry(h, wanted.name), wanted)
             /\ phase' = "found" /\ late' = FALSE
             /\ entry' = findSymbolAsIndexEntry(h, wanted.name)
             /\ UNCHANGED scope
          \/ /\ h # 0 /\ ~isOrderingValid(findSymbolAsIndexEntry(h, wanted.name), wanted)
             /\ late' = TRUE /\ scope' = Outside(h)
             /\ UNCHANGED <<phase, entry>>
    /\ UNCHANGED <<scene, index, checked, wanted, segment, linked>>

Done(what, node) ==
    /\ phase' = what /\ linked' = node
    /\ UNCHANGED <<scene, index, checked, wanted, segment, scope, late, entry>>

(* resolveQualifiedName: an overloaded name is no variable;                *)
(* applyVariableLinkage takes variables and types.                         *)
AsVariable(e) == e.kind = "single"
linkVariable ==
    /\ phase = "found" /\ ~wanted.call
    /\ IF entry.kind = "internal" THEN Done("linked", <<>>)
       ELSE IF AsVariable(entry) /\ Def(entry.nodes[1]).kind \in {"variable", "type"}
       THEN Done("linked", entry.nodes)
       ELSE Done("notFound", <<>>)

AllFunctions(nodes) == \A i \in DOMAIN nodes : Def(nodes[i]).kind = "function"
(* A call: the only function of the name as it is, a variable as a pointer *)
(* to a function, or the closest of several.  The members of a list are    *)
(* taken for functions whatever they are: then all bets are off.           *)
linkCall ==
    /\ phase = "found" /\ wanted.call
    /\ CASE entry.kind = "internal" -> Done("linked", <<>>)
         [] entry.kind = "single" ->
                IF Def(entry.nodes[1]).kind \in {"function", "variable"} THEN Done("linked", entry.nodes)
                ELSE Done("notFound", <<>>)
         [] entry.kind = "overload" ->
                IF ~AllFunctions(entry.nodes) THEN Done("misread", <<>>)
                ELSE LET c == findClosestFunction([i \in DOMAIN entry.nodes |-> Def(entry.nodes[i]).sig], wanted.args)
                     IN IF c = 0 THEN Done("notFound", <<>>) ELSE Done("linked", <<entry.nodes[c]>>)

NamesNext ==
    \/ \E s \in DOMAIN scene.parent : ensureUniqueDefinitions(s)
    \/ \E u \in scene.uses : Resolve(u)
    \/ resolveQualifiedPath \/ ResolveInside \/ Search \/ linkVariable \/ linkCall

-----------------------------------------------------------------------------
NamesTypeOK ==
    /\ phase \in {"check", "rejected", "ready", "path", "inside", "search", "found",
                  "linked", "notFound", "usedBefore", "noPath", "misread"}
    /\ checked \in 0..Len(scene.parent) /\ late \in BOOLEAN
    /\ entry.kind \in {"none", "internal", "single", "overload"}

Members(e) == {e.nodes[i] : i \in DOMAIN e.nodes}

(* A scope is searched through its index or through its definitions, as it *)
(* happens to hold many or few: both give the same definitions.            *)
SameWithIndex ==
    \A s \in DOMAIN scene.parent : index[s] # NoIndex =>
        \A i \in DOMAIN scene.defs[s] :
            LET name == scene.defs[s][i].name IN name # "" =>
            /\ findSymbolAsIndexEntry(s, name).kind = EntryOf(Written(s, name)).kind
            /\ Members(findSymbolAsIndexEntry(s, name)) = Members(EntryOf(Written(s, name)))

(* The meaning of a name without a path, said without the loop: of all     *)
(* scopes around the use the innermost that declares the name where the    *)
(* use may see it.                                                         *)
Declares(s, name) == {<<s, i>> : i \in {j \in DOMAIN scene.defs[s] : scene.defs[s][j].name = name}}
MaySee(s) == LET ds == Declares(s, wanted.name)
             IN Cardinality(ds) > 1 \/ \E d \in ds : Def(d).kind \in {"function", "type"} \/ Def(d).at < wanted.at
Surrounding == {Around(wanted.scope)[i] : i \in DOMAIN Around(wanted.scope)}
Sees == {s \in Surrounding : MaySee(s)}
Innermost(S) == CHOOSE s \in S : \A t \in S : s \in {Around(s)[i] : i \in DOMAIN Around(s)}
                                            /\ t \in {Around(s)[i] : i \in DOMAIN Around(s)}

(* A use means the innermost declaration it may see; it is reported as     *)
(* used before its declaration only when there are declarations but none   *)
(* it may see; a name of the language is not found behind one of those.    *)
MeansInnermost ==
    wanted.path = <<>> =>
    /\ phase = "found" /\ entry.kind # "internal" =>
         Sees # {} /\ Members(entry) = Declares(Innermost(Sees), wanted.name)
    /\ phase = "usedBefore" =>
         Sees = {} /\ \E s \in Surrounding : Declares(s, wanted.name) # {}
    /\ phase = "found" /\ entry.kind = "internal" =>
         \A s \in Surrounding : Declares(s, wanted.name) = {}

(* A name behind a path is a definition of the namespace the path leads    *)
(* to, each name of it but the first in the one before, never of a scope   *)
(* around them.                                                            *)
RECURSIVE Leads(_, _)
Leads(path, s) ==
    IF path = <<>> THEN {s}
    ELSE UNION {Leads(Tail(path), Def(d).inner) :
                  d \in {d \in Declares(s, Head(path)) : Def(d).kind = "namespace"}}
FirstsOf(path) == UNION {Leads(path, s) : s \in Surrounding}
StaysOnPath ==
    (phase = "found" /\ wanted.path # <<>>) => \E s \in FirstsOf(wanted.path) : Members(entry) = Declares(s, wanted.name)

(* The tiers are strict: one argument of a higher tier outweighs all of    *)
(* the lower ones together.                                                *)
Count(sig, args, tier) ==
    Cardinality({i \in DOMAIN args : Matches(sig, args)[i] = tier})
      + IF tier = "nonVarBonus" /\ ~isVariadic(sig) THEN 1 ELSE 0
Candidate(sig, args) == ArityFits(sig, args) /\ \A i \in DOMAIN args : Matches(sig, args)[i] # NoMatch
Above(a, b, args) ==
    \E k \in DOMAIN Tiers :
        /\ Count(a, args, Tiers[k]) > Count(b, args, Tiers[k])
        /\ \A j \in (k + 1)..Len(Tiers) : Count(a, args, Tiers[j]) = Count(b, args, Tiers[j])
Sigs == {Def(entry.nodes[i]).sig : i \in DOMAIN entry.nodes}
Overloaded == wanted.call /\ entry.kind = "overload" /\ AllFunctions(entry.nodes)

(* The function an overloaded call is linked to is a candidate, and no     *)
(* other one is above it tier by tier; the first of equals in the list.    *)
(* Candidates and tiers are the code's (validator.cpp:665-708): it takes   *)
(* narrower, unsigned and floating parameters for candidates that doc.md   *)
(* 9.2.1 and 5.10.4 rule out, and of two level functions the first when a  *)
(* lower one comes behind them, where doc.md:1221 has a compile error.     *)
BestIsLinked ==
    phase = "linked" /\ Overloaded =>
        LET best == Def(linked[1]).sig
        IN /\ Len(best) = Len(wanted.args) \/ (isVariadic(best) /\ Len(best) - 1 <= Len(wanted.args))
           /\ Candidate(best, wanted.args)
           /\ \A s \in Sigs : Candidate(s, wanted.args) => ~Above(s, best, wanted.args)

(* A call is refused only when no function is a candidate or the best two  *)
(* are level.                                                              *)
RefusedForCause ==
    phase = "notFound" /\ Overloaded =>
        \/ \A s \in Sigs : ~Candidate(s, wanted.args)
        \/ \E i, j \in DOMAIN entry.nodes : i # j /\
             LET a == Def(entry.nodes[i]).sig  b == Def(entry.nodes[j]).sig
             IN /\ Candidate(a, wanted.args) /\ Candidate(b, wanted.args)
                /\ \A s \in Sigs : Candidate(s, wanted.args) =>
                     ~Above(s, a, wanted.args) /\ ~Above(s, b, wanted.args)

=============================================================================
