----------------------------- MODULE MCGrammars -----------------------------
(***************************************************************************)
(* Small grammars for the model checker, most of them from tests/ and      *)
(* tools/core-parity/grammars.                                             *)
(***************************************************************************)
EXTENDS LRLanguage

LOCAL Member(name) == [name |-> name, auto |-> FALSE, marked |-> FALSE]
LOCAL Alternative(names) == [i \in DOMAIN names |-> Member(names[i])]
Rule(lhs, alts) ==
    [lhs |-> lhs, tail |-> FALSE, alts |-> [i \in DOMAIN alts |-> Alternative(alts[i])]]
TailRule(lhs, alts) == [Rule(lhs, alts) EXCEPT !.tail = TRUE]
Grammar(tokens, rules) == [tokens |-> tokens, rules |-> rules]

\* The nullable helper rule the normalizer makes of inserted whitespace.
SpaceRule ==
    [lhs |-> "ws", tail |-> FALSE,
     alts |-> <<<<>>, <<[name |-> Whitespace, auto |-> TRUE, marked |-> FALSE]>>>>]
Marked(alternative, i) == [alternative EXCEPT ![i].marked = TRUE]
Names(names) == Alternative(names)

\* Left recursion and parentheses.
Expressions == Grammar(<<"A", "CP", "OP", "PLUS">>,
    <<Rule("main", <<<<"main", "PLUS", "part">>, <<"part">>>>),
      Rule("part", <<<<"A">>, <<"OP", "main", "CP">>>>)>>)

\* LR(1), but merging states makes reductions collide in LALR(1).
NotLALR == Grammar(<<"A", "B", "C", "D", "E">>,
    <<Rule("e", <<<<"E">>>>), Rule("f", <<<<"E">>>>),
      Rule("main", <<<<"A", "e", "C">>, <<"A", "f", "D">>, <<"B", "f", "C">>, <<"B", "e", "D">>>>)>>)

\* One token of lookahead does not decide, two do (tests/LRParser.cpp).
TwoTokens == Grammar(<<"A", "B", "C", "D">>,
    <<Rule("main", <<<<"A", "B", "C">>, <<"x", "B", "D">>>>), Rule("x", <<<<"A">>>>)>>)

\* A repetition as the normalizer writes it, with a nullable payload next to it.
Repetition == Grammar(<<"A", "B", "C">>,
    <<Rule("list", <<<<>>, <<"A", "opt", "list__tail">>>>),
      TailRule("list__tail", <<<<>>, <<"A", "opt", "list__tail">>>>),
      Rule("main", <<<<"list", "C">>>>),
      Rule("opt", <<<<>>, <<"B">>>>)>>)

\* Optional whitespace around a plus and inside a repetition, none elsewhere:
\* not across an empty member either.
Spaced == Grammar(<<"A", "B", "PLUS">>,
    <<Rule("main", <<<<"list", "ws", "PLUS", "ws", "opt", "B">>, <<"ws", "opt", "B", "ws">>,
                      <<"PLUS", "opt", "B">>>>),
      Rule("list", <<<<"A", "list__tail">>>>),
      TailRule("list__tail", <<<<>>, <<"ws", "A", "list__tail">>>>),
      Rule("opt", <<<<>>, <<"A", "ws">>>>),
      SpaceRule>>)

\* Statements whose missing semicolon a fail block deals with; the block of the
\* first statement has no token to insert
\* (tools/core-parity/grammars/failblock/failblock.isc).
Statements == Grammar(<<"NUM", "SEMI">>,
    <<[lhs |-> "main", tail |-> FALSE, alts |-> <<Marked(Names(<<"stmt", "main__tail">>), 1)>>],
      TailRule("main__tail", <<<<>>, <<"stmt", "main__tail">>>>),
      [lhs |-> "stmt", tail |-> FALSE, alts |-> <<Marked(Names(<<"NUM", "SEMI">>), 2)>>]>>)

\* A recursive rule whose inserted member is followed by itself.
Recursive == Grammar(<<"A", "B">>,
    <<[lhs |-> "main", tail |-> FALSE, alts |->
         <<Marked(Names(<<"A", "main">>), 1), Names(<<"B">>)>>]>>)

-----------------------------------------------------------------------------
(* Grammars no bounded lookahead decides. *)

\* The dangling else.
Dangling == Grammar(<<"ELSE", "IF", "X">>,
    <<Rule("main", <<<<"IF", "main">>, <<"IF", "main", "ELSE", "main">>, <<"X">>>>)>>)

\* As many readings as there are binary trees.
Pairs == Grammar(<<"A">>, <<Rule("main", <<<<"main", "main">>, <<"A">>>>)>>)

\* A rule that derives itself.
Unit == Grammar(<<"A", "B">>,
    <<Rule("main", <<<<"B">>, <<"x">>>>), Rule("x", <<<<"x">>, <<"A">>>>)>>)

\* A left recursion behind an empty member: no end of stacks.
Hidden == Grammar(<<"B", "C">>,
    <<Rule("main", <<<<"opt", "main", "B">>, <<"C">>>>), Rule("opt", <<<<>>>>)>>)

\* One reading each, but the middle is known at the end only.
Palindromes == Grammar(<<"A", "B">>,
    <<Rule("main", <<<<"A", "main", "A">>, <<"B", "main", "B">>, <<"A">>, <<"B">>>>)>>)

\* One conflict that two tokens decide and one that none do.
Mixed == Grammar(<<"A", "B", "C", "D", "E">>,
    <<Rule("main", <<<<"A", "B", "C">>, <<"x", "B", "y">>, <<"E", "main", "E">>, <<"E">>>>),
      Rule("x", <<<<"A">>>>), Rule("y", <<<<"D">>>>)>>)

\* Two readings, of which only one has room for whitespace.
Gaps == Grammar(<<"A", "B">>,
    <<Rule("main", <<<<"A", "ws", "B">>, <<"x", "B">>, <<"A", "B", "ws", "list">>>>),
      Rule("list", <<<<"A">>, <<"list", "ws", "list">>>>),
      SpaceRule,
      Rule("x", <<<<"A">>>>)>>)
=============================================================================
