---------------------------- MODULE LRBeginnings ----------------------------
(***************************************************************************)
(* What the productions of a parser p say and how it begins, whitespace    *)
(* aside: texts are those of tokens alone.  And what makes every state of  *)
(* the tables one in which a sentence can go on: nothing is in it without  *)
(* a reason.                                                               *)
(***************************************************************************)
EXTENDS LRDerivations, LRCompleteness

\* whole holds the texts of symbols, as <<symbol, text>>, and part those of the
\* members before the dot of a production, as <<production, dot, text>>.
SaidUnder(p, whole, part) ==
    /\ \A token \in STRING :
          ~IsRule(p, token) /\ ~LrIsSpace(p, token) => <<token, <<token>>>> \in whole
    /\ \A id \in Rules(p) : <<id, 0, <<>>>> \in part
    /\ \A id \in Rules(p) : \A d \in DOMAIN Rhs(p, id) : \A before, own \in Seq(STRING) :
          <<id, d - 1, before>> \in part /\ <<Rhs(p, id)[d], own>> \in whole
             => <<id, d, before \o own>> \in part
    /\ \A id \in Rules(p) : \A text \in Seq(STRING) :
          <<id, Len(Rhs(p, id)), text>> \in part => <<p.productions[id].lhs, text>> \in whole

\* begun holds beginnings of symbols: nothing, the whole of it, or the first
\* members of a rule and a beginning of the next.
BegunUnder(p, whole, part, begun) ==
    /\ \A symbol \in STRING : <<symbol, <<>>>> \in begun
    /\ \A symbol \in STRING : \A text \in Seq(STRING) :
          <<symbol, text>> \in whole => <<symbol, text>> \in begun
    /\ \A id \in Rules(p) : \A d \in DOMAIN Rhs(p, id) : \A before, own \in Seq(STRING) :
          <<id, d - 1, before>> \in part /\ <<Rhs(p, id)[d], own>> \in begun
             => <<p.productions[id].lhs, before \o own>> \in begun

\* A beginning of the start symbol is in everything that is closed.
BeginsSentence(p, text) ==
    \A whole, part, begun :
        SaidUnder(p, whole, part) /\ BegunUnder(p, whole, part, begun) => <<"main", text>> \in begun

-----------------------------------------------------------------------------
\* What expects rules at its dot.
Expected(p, item) ==
    IF item[2] < Len(Rhs(p, item[1])) THEN {Rhs(p, item[1])[item[2] + 1]} ELSE {}

\* No state is empty, and an item that has read nothing is there because
\* another one expects its rule, which is there for a reason too: a set of
\* such items that holds what the rest of the state and the set itself expect
\* is all of them.
Rooted(p) ==
    \A s \in DOMAIN p.items :
        LET opening == {item \in p.items[s] : item[2] = 0 /\ item # <<0, 0>>}
            expects(items) == UNION {Expected(p, item) : item \in items}
        IN  /\ p.items[s] # {}
            /\ \A kept \in SUBSET opening :
                  (\A item \in opening :
                      p.productions[item[1]].lhs \in expects((p.items[s] \ opening) \cup kept)
                         => item \in kept)
                  => kept = opening

\* Whitespace is no member of a rule, and no rule has the name of a token.
Plain(p, texts) ==
    /\ \A id \in DOMAIN p.productions : \A d \in DOMAIN Rhs(p, id) : ~LrIsSpace(p, Rhs(p, id)[d])
    /\ \A text \in texts : \A i \in DOMAIN text : ~IsRule(p, text[i])

\* Every rule derives a text: order names the rules so that each has a
\* production of tokens and of rules before it.
Fertile(p, order) ==
    /\ \A i \in DOMAIN order : \E id \in Rules(p) :
          /\ p.productions[id].lhs = order[i]
          /\ \A d \in DOMAIN Rhs(p, id) :
                IsRule(p, Rhs(p, id)[d]) => \E j \in 1..(i - 1) : order[j] = Rhs(p, id)[d]
    /\ \A id \in Rules(p) : \E i \in DOMAIN order : order[i] = p.productions[id].lhs

-----------------------------------------------------------------------------
(* The same for finite sets of texts of at most n tokens.                   *)

\* The productions without their gaps.
Bare(p) == [productions |-> p.productions, skipsSpace |-> FALSE]

BeginningsClosed(p, words, begins, n) ==
    /\ DOMAIN begins = DOMAIN words /\ "main" \in DOMAIN words
    /\ \A id \in Rules(p) :
          p.productions[id].lhs \in DOMAIN words /\ \A d \in DOMAIN Rhs(p, id) : Rhs(p, id)[d] \in DOMAIN words
    /\ \A token \in DOMAIN words :
          ~IsRule(p, token) /\ ~LrIsSpace(p, token) => <<token>> \in words[token]
    /\ WordsClosed(Bare(p), words, n)
    /\ \A symbol \in DOMAIN words : {<<>>} \cup words[symbol] \subseteq begins[symbol]
    /\ \A id \in Rules(p) : \A d \in DOMAIN Rhs(p, id) :
          Joined(Openings(Bare(p), words, id, n)[d - 1], begins[Rhs(p, id)[d]], n)
             \subseteq begins[p.productions[id].lhs]

-----------------------------------------------------------------------------
(* What the drivers' viable prefixes rest on, for parsers run on inputs.     *)

Founded(parsers, inputs, orders) ==
    \A id \in DOMAIN parsers :
        /\ Rooted(parsers[id]) /\ Plain(parsers[id], inputs[id])
        /\ orders[id] \in Seq(STRING) /\ Fertile(parsers[id], orders[id])

\* viable leaves out no beginning of a sentence that is as short as the inputs.
NamesBeginnings(parsers, inputs, viable, words, begins, bounds) ==
    \A id \in DOMAIN parsers :
        /\ bounds[id] \in Nat /\ \A text \in inputs[id] : Len(text) <= bounds[id]
        /\ BeginningsClosed(parsers[id], words[id], begins[id], bounds[id])
        /\ begins[id]["main"] \subseteq viable[id]
=============================================================================
