---------------------------- MODULE LRDerivations ----------------------------
(***************************************************************************)
(* What the productions of a parser p derive, from the productions alone:  *)
(* nothing here follows states, cells or spans.  Positions are those of a  *)
(* text, and a reading is named by the rules of its inner nodes in         *)
(* postorder, the order in which a parser reduces them.                    *)
(***************************************************************************)
EXTENDS LRGenerated

\* From one position to a later one there is nothing but whitespace.
Blanks(p, text, lo, hi) == lo <= hi /\ \A m \in (lo + 1)..hi : LrIsSpace(p, text[m])

Rules(p) == DOMAIN p.productions \ {0}
Places(text) == 0..Len(text)

\* Gap g of a production: nothing, or whitespace where the rule has some.
Gap(p, text, id, g, lo, hi) ==
    lo = hi \/ (g \in p.productions[id].gaps /\ Blanks(p, text, lo, hi))

\* whole holds what symbols stand for, as <<symbol, from, to, reductions>>, and
\* part what the members before the dot of a production do, as <<production,
\* dot, from, to, reductions>>.  Both are closed under derivation: a token
\* stands for itself, members follow each other with the gaps between them, and
\* a production whose members are all there makes its left-hand side.
ClosedUnder(p, text, whole, part) ==
    /\ \A i \in DOMAIN text : <<text[i], i - 1, i, <<>>>> \in whole
    /\ \A id \in Rules(p) : \A lo, hi \in Places(text) :
          Gap(p, text, id, 0, lo, hi) => <<id, 0, lo, hi, <<>>>> \in part
    /\ \A id \in Rules(p) : \A d \in DOMAIN p.productions[id].rhs :
          \A lo, from, to, hi \in Places(text) : \A before, own \in Seq(Nat) :
             /\ <<id, d - 1, lo, from, before>> \in part
             /\ <<p.productions[id].rhs[d], from, to, own>> \in whole
             /\ Gap(p, text, id, d, to, hi)
             => <<id, d, lo, hi, before \o own>> \in part
    /\ \A id \in Rules(p) : \A lo, hi \in Places(text) : \A calls \in Seq(Nat) :
          <<id, Len(p.productions[id].rhs), lo, hi, calls>> \in part
             => <<p.productions[id].lhs, lo, hi, Append(calls, id - 1)>> \in whole

\* What is derived is in everything that is closed.
Derived(p, text, symbol, lo, hi, calls) ==
    \A whole, part : ClosedUnder(p, text, whole, part) => <<symbol, lo, hi, calls>> \in whole

PartDerived(p, text, id, d, lo, hi, calls) ==
    \A whole, part : ClosedUnder(p, text, whole, part) => <<id, d, lo, hi, calls>> \in part

\* The whole text, derived from the start symbol by these reductions.
IsReading(p, text, calls) == Derived(p, text, "main", 0, Len(text), calls)
IsSentence(p, text) == \E calls \in Seq(Nat) : IsReading(p, text, calls)
-----------------------------------------------------------------------------
(* The same said of texts of at most n tokens, for finite sets of them.     *)
(* words gives the texts of every symbol.                                   *)

GapTexts(p, id, g, n) ==
    {<<>>} \cup (IF g \in p.productions[id].gaps /\ p.skipsSpace
                 THEN {[i \in 1..m |-> Whitespace] : m \in 1..n} ELSE {})

Joined(left, right, n) ==
    {uv[1] \o uv[2] : uv \in {x \in left \X right : Len(x[1]) + Len(x[2]) <= n}}

\* The texts of the first members of a production, from none to all.
Openings(p, words, id, n) ==
    LET rhs == p.productions[id].rhs
        open[d \in 0..Len(rhs)] ==
            IF d = 0 THEN GapTexts(p, id, 0, n)
            ELSE Joined(Joined(open[d - 1], words[rhs[d]], n), GapTexts(p, id, d, n), n)
    IN  open

WordsClosed(p, words, n) ==
    \A id \in Rules(p) :
        Openings(p, words, id, n)[Len(p.productions[id].rhs)] \subseteq words[p.productions[id].lhs]
-----------------------------------------------------------------------------
(* The same from below: texts made in stages, from those of tokens.         *)

\* The texts a symbol has after a stage: it keeps those it had, and a rule
\* makes texts of those its members had before.
StageAfter(p, words, n, symbol) ==
    words[symbol] \cup UNION {Openings(p, words, id, n)[Len(p.productions[id].rhs)] :
                                 id \in {rule \in Rules(p) : p.productions[rule].lhs = symbol}}

Staged(p, stages, n) ==
    /\ Len(stages) \in Nat \ {0} /\ DOMAIN stages = 1..Len(stages)
    /\ DOMAIN stages[1] \subseteq STRING
    /\ \A symbol \in DOMAIN stages[1] : stages[1][symbol] \subseteq {<<symbol>>}
    /\ \A id \in Rules(p) : \A d \in DOMAIN p.productions[id].rhs :
          p.productions[id].rhs[d] \in DOMAIN stages[1]
    /\ \A i \in 1..(Len(stages) - 1) : \A symbol \in DOMAIN stages[1] :
          stages[i + 1][symbol] \subseteq StageAfter(p, stages[i], n, symbol)
==============================================================================
