---------------------------- MODULE LLDerivations ----------------------------
(***************************************************************************)
(* What the rules of a grammar g derive, from the rules alone: nothing     *)
(* here knows of FIRST sets, guards or frames.  A grammar maps rule names  *)
(* to sequences of members as in LLGrammar; every other name is a token.   *)
(* What stands for something in a text is a pair of places, the one where  *)
(* it begins and the one behind it, counted from 1.                        *)
(***************************************************************************)
EXTENDS Integers, SequencesExt

Spots(text) == 1..Len(text) + 1
Pairs(text) == Spots(text) \X Spots(text)

\* n pairs that follow one another, the k-th of them out of spans[k].
InARow(spans, n, lo, hi) ==
    \E cuts \in [0..n -> Int] :
        /\ cuts[0] = lo /\ cuts[n] = hi
        /\ \A k \in 1..n : <<cuts[k - 1], cuts[k]>> \in spans[k]

\* How often something quantified stands there.
TurnsOf(q) == CASE q = "?" -> {0, 1} [] q = "*" -> Nat [] q = "+" -> Nat \ {0} [] OTHER -> {1}

Turning(text, q, one) ==
    {s \in Pairs(text) : \E n \in TurnsOf(q) : InARow([k \in 1..n |-> one], n, s[1], s[2])}

\* whole holds what symbols stand for, as <<symbol, from, to>>.
OneOf(text, whole, atom) == {s \in Pairs(text) : \E a \in Range(atom.syms) : <<a, s[1], s[2]>> \in whole}

AtomSpans(text, whole, atom) == Turning(text, atom.q, OneOf(text, whole, atom))

BodyParts(text, whole, member) == [i \in DOMAIN member.body |-> AtomSpans(text, whole, member.body[i])]
BodySpans(text, whole, member) ==
    {s \in Pairs(text) : InARow(BodyParts(text, whole, member), Len(member.body), s[1], s[2])}

MemberSpans(text, whole, member) == Turning(text, member.q, BodySpans(text, whole, member))

RuleParts(text, whole, members) == [m \in DOMAIN members |-> MemberSpans(text, whole, members[m])]

\* A token stands for itself, a rule for its members one after the other.
ClosedUnder(g, text, whole) ==
    /\ \A i \in DOMAIN text : text[i] \notin DOMAIN g => <<text[i], i, i + 1>> \in whole
    /\ \A r \in DOMAIN g : \A lo, hi \in Spots(text) :
          InARow(RuleParts(text, whole, g[r]), Len(g[r]), lo, hi) => <<r, lo, hi>> \in whole

\* What is derived is in everything that is closed.
Derived(g, text, symbol, lo, hi) == \A whole : ClosedUnder(g, text, whole) => <<symbol, lo, hi>> \in whole

IsSentence(g, text) == Derived(g, text, "main", 1, Len(text) + 1)

-----------------------------------------------------------------------------
(* The same said of texts of at most n tokens, for finite sets of them.    *)
(* words gives the texts of every rule.                                    *)

Joined(left, right, n) ==
    {uv[1] \o uv[2] : uv \in {x \in left \X right : Len(x[1]) + Len(x[2]) <= n}}

\* The texts of the first parts, from none to all.
Openings(parts, n) ==
    LET open[d \in 0..Len(parts)] ==
            IF d = 0 THEN {<<>>} ELSE Joined(open[d - 1], parts[d], n)
    IN  open

\* Each part in its turn, and any number of turns.
RowTexts(parts, n) == Openings(parts, n)[Len(parts)]
ManyTexts(one, n) == RowTexts([k \in 1..n |-> one \cup {<<>>}], n)

TurnTexts(q, one, n) ==
    CASE q = "?" -> one \cup {<<>>}
      [] q = "*" -> ManyTexts(one, n)
      [] q = "+" -> Joined(ManyTexts(one, n), one, n)
      [] OTHER -> one

SymbolTexts(words, symbol) == IF symbol \in DOMAIN words THEN words[symbol] ELSE {<<symbol>>}

AtomTexts(words, atom, n) ==
    TurnTexts(atom.q, UNION {SymbolTexts(words, symbol) : symbol \in Range(atom.syms)}, n)

MemberTexts(words, member, n) ==
    TurnTexts(member.q, RowTexts([i \in DOMAIN member.body |-> AtomTexts(words, member.body[i], n)], n), n)

RuleTexts(words, members, n) ==
    RowTexts([m \in DOMAIN members |-> MemberTexts(words, members[m], n)], n)

TextsClosed(g, words, n) ==
    DOMAIN words = DOMAIN g /\ \A r \in DOMAIN g : RuleTexts(words, g[r], n) \subseteq words[r]
==============================================================================
