----------------------------- MODULE LLLanguage -----------------------------
(***************************************************************************)
(* The language of a grammar of LLGrammar, worked out from its rules       *)
(* alone: the reference a generated parser is compared with.  n bounds the *)
(* length of the words.                                                    *)
(***************************************************************************)
EXTENDS LLGrammar, LLDerivations

\* The texts of at most n tokens of every rule.
TextsUpTo(g, n) ==
    LET words[known \in [Rules(g) -> SUBSET UNION {[1..k -> TokensOf(g)] : k \in 0..n}]] ==
            LET next == [r \in Rules(g) |-> RuleTexts(known, g[r], n)]
            IN  IF next = known THEN known ELSE words[next]
    IN  words[[r \in Rules(g) |-> {}]]

Sentences(g, n) == TextsUpTo(g, n)[Main]

\* A word with one token left out, put in or put for another.
Dropped(w) == {RemoveAt(w, i) : i \in DOMAIN w}
Added(w, tokens) == {InsertAt(w, i, t) : i \in 1..Len(w) + 1, t \in tokens}
Changed(w, tokens) == {ReplaceAt(w, i, t) : i \in DOMAIN w, t \in tokens}
Edited(ws, tokens) == ws \cup UNION {Dropped(w) \cup Added(w, tokens) \cup Changed(w, tokens) : w \in ws}
=============================================================================
