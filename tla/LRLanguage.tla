----------------------------- MODULE LRLanguage -----------------------------
(***************************************************************************)
(* The language of a grammar, from its rules alone: what the LR modules    *)
(* are checked against.  Nothing here follows the table construction.      *)
(***************************************************************************)
EXTENDS LRTables

\* The token sequences of at most n tokens, a piece of each of two sets.
Join(left, right, n) == {uv[1] \o uv[2] : uv \in {x \in left \X right :
                            Len(x[1]) + Len(x[2]) <= n}}

Spaces(n) == {[i \in 1..m |-> Whitespace] : m \in 0..n}

\* What one member stands for.  Inserted whitespace stands for any amount of
\* it, up to a bound, when it is trivia, and for itself when the grammar also
\* asks for whitespace explicitly.
MemberStrings(g, known, member, spaces) ==
    IF Trivia(g, member) THEN Spaces(spaces)
    ELSE IF member.name \in DOMAIN known THEN known[member.name]
    ELSE {<<member.name>>}

AlternativeStrings(g, known, alternative, n, spaces) ==
    FoldLeft(LAMBDA strings, member : Join(strings, MemberStrings(g, known, member, spaces), n),
             {<<>>}, alternative)

RuleNames(g) == {rule.lhs : rule \in Range(g.rules)}
RuleOf(g, lhs) == CHOOSE rule \in Range(g.rules) : rule.lhs = lhs

\* The sentences of at most n tokens of every rule.
Derives(g, n, spaces) ==
    LET sweep[known \in [RuleNames(g) -> SUBSET Seq(STRING)]] ==
            LET next == [lhs \in RuleNames(g) |->
                            UNION {AlternativeStrings(g, known, alternative, n, spaces) :
                                      alternative \in Range(RuleOf(g, lhs).alts)}]
            IN  IF next = known THEN known ELSE sweep[next]
    IN  sweep[[lhs \in RuleNames(g) |-> {}]]

Sentences(g, n) == Derives(g, n, n)[Main]

\* The beginnings, whitespace aside, of the sentences of at most n tokens.
Beginnings(g, n) == UNION {Prefixes(sentence) : sentence \in Derives(g, n, 0)[Main]}

\* The texts of symbols and their beginnings, whitespace aside, of at most n
\* tokens, when every beginning is one of a text of at most m.
BareTexts(g, symbols, n, m) ==
    LET derived == WorkedOut(Derives(g, m, 0))
        texts(symbol) == IF symbol \in DOMAIN derived THEN derived[symbol] ELSE {<<symbol>>}
        short(set) == {text \in set : Len(text) <= n}
    IN  [words |-> [symbol \in symbols |-> short(texts(symbol))],
         begins |-> [symbol \in symbols |-> short(UNION {Prefixes(text) : text \in texts(symbol)})]]

\* The rules of productions, each behind those one of its productions is made of.
OrderOf(ps) ==
    LET made(known) == {ps[id].lhs : id \in {i \in DOMAIN ps \ {0} :
                            Range(ps[i].rhs) \cap LeftSides(ps) \subseteq known}}
        go[order \in Seq(STRING)] ==
            LET more == made(Range(order)) \ Range(order)
            IN  IF more = {} THEN order ELSE go[order \o SetToSeq(more)]
    IN  go[<<>>]

-----------------------------------------------------------------------------
(* Readings: a derivation tree of a token sequence is written as the rules  *)
(* of its inner nodes in postorder, with its frontier, in which Slot stands *)
(* where the tree has whitespace.                                           *)

Slot == "slot"

SlotAt(production, gap) == IF gap \in production.gaps THEN <<Slot>> ELSE <<>>

Plant(left, right, n, h) ==
    {[calls |-> x[1].calls \o x[2].calls, frontier |-> x[1].frontier \o x[2].frontier] :
        x \in {y \in left \X right :
                 /\ Len(y[1].calls) + Len(y[2].calls) <= h
                 /\ Len(SelectSeq(y[1].frontier \o y[2].frontier, LAMBDA t : t # Slot)) <= n}}

\* The trees a production makes of trees of the symbols of its right-hand side.
TreesWith(known, production, rule, n, h) ==
    LET of(symbol) == IF symbol \in DOMAIN known THEN known[symbol]
                      ELSE {[calls |-> <<>>, frontier |-> <<symbol>>]}
        member(i) == {[t EXCEPT !.frontier = @ \o SlotAt(production, i)] :
                         t \in of(production.rhs[i])}
        leading == [calls |-> <<>>, frontier |-> SlotAt(production, 0)]
        joined == FoldLeft(LAMBDA acc, i : Plant(acc, member(i), n, h),
                           {leading}, [i \in DOMAIN production.rhs |-> i])
    IN  {[t EXCEPT !.calls = Append(@, rule)] : t \in {x \in joined : Len(x.calls) < h}}

\* The trees of at most n tokens and h inner nodes, for every left-hand side.
Trees(ps, n, h) ==
    LET sweep[known \in [LeftSides(ps) -> SUBSET [calls : Seq(Nat), frontier : Seq(STRING)]]] ==
            LET next == [lhs \in LeftSides(ps) |->
                            UNION {TreesWith(known, ps[id], id - 1, n, h) :
                                      id \in {i \in DOMAIN ps \ {0} : ps[i].lhs = lhs}}]
            IN  IF next = known THEN known ELSE sweep[next]
    IN  sweep[NoFirst(ps)]

\* How many tokens stand before each blank of a sequence.
BlanksOf(text, blank) ==
    {Len(SelectSeq(SubSeq(text, 1, i), LAMBDA t : t # blank)) :
        i \in {j \in DOMAIN text : text[j] = blank}}

Fits(frontier, text, blank) ==
    /\ SelectSeq(frontier, LAMBDA t : t # Slot) = SelectSeq(text, LAMBDA t : t # blank)
    /\ BlanksOf(text, blank) \subseteq BlanksOf(frontier, Slot)
=============================================================================
