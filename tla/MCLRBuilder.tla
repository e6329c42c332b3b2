---------------------------- MODULE MCLRBuilder ----------------------------
(* Builds of edited grammars: the edits of tests/LRCache.cpp (structural    *)
(* changes and the edit matrix), changed settings, and grammars that fail.  *)
EXTENDS LRBuilder

G == INSTANCE MCGrammars

LOCAL ABC == <<"A", "B", "C">>
LOCAL Edited(left, right, main) ==
    G!Grammar(ABC, <<G!Rule("left", left), G!Rule("main", main), G!Rule("right", right)>>)
LOCAL Plain == <<<<"left", "right">>>>

GrammarOf ==
    [plain |-> Edited(<<<<"A">>>>, <<<<"B">>>>, Plain),
     wider |-> Edited(<<<<"A">>, <<"B">>>>, <<<<"B">>>>, Plain),
     swapped |-> Edited(<<<<"B">>, <<"A">>>>, <<<<"B">>>>, Plain),
     twice |-> Edited(<<<<"A">>, <<"A">>>>, <<<<"B">>>>, Plain),
     nullable |-> Edited(<<<<>>, <<"A">>>>, <<<<>>, <<"B", "right">>>>, Plain),
     repeated |-> Edited(<<<<"A">>>>, <<<<"B">>>>, <<<<"main", "A">>, <<"left", "right">>>>),
     recursive |-> Edited(<<<<"A", "left">>, <<"A">>>>, <<<<"B">>, <<"C">>>>, Plain),
     renumbered |->
        G!Grammar(ABC, <<G!Rule("aa", <<<<"C">>>>), G!Rule("left", <<<<"A">>>>),
                         G!Rule("main", Plain), G!Rule("right", <<<<"B">>>>)>>),
     twoTokens |-> G!TwoTokens,
     longer |-> G!Grammar(<<"A", "B", "C", "D">>,
        <<G!Rule("main", <<<<"A", "B", "C">>, <<"x", "B", "x">>>>), G!Rule("x", <<<<"A">>, <<"D">>>>)>>),
     notLALR |-> G!NotLALR,
     pairs |-> G!Pairs,
     undefined |-> Edited(<<<<"A">>>>, <<<<"nowhere">>>>, Plain),
     endless |-> Edited(<<<<"A", "left">>>>, <<<<"B">>>>, <<<<"left", "right">>, <<"C">>>>),
     repeatedKernel |->
        G!Grammar(<<"A", "B", "Z">>,
            <<G!Rule("main", <<<<"A", "main">>, <<"y", "x">>>>), G!Rule("x", <<<<"x", "B">>>>),
              G!Rule("y", <<<<"Z">>>>)>>),
     unequalStates |->
        G!Grammar(<<"B", "P", "Q", "S", "T", "W", "X">>,
            <<G!Rule("main", <<<<"P", "z", "P">>, <<"Q", "z", "x">>>>),
              G!Rule("u", <<<<"v", "W">>>>), G!Rule("v", <<<<"X">>>>), G!Rule("x", <<<<"x", "B">>>>),
              G!Rule("z", <<<<"T", "S", "u">>>>)>>)]

Ask(grammar, family, auto, max) == [grammar |-> grammar, family |-> family, auto |-> auto, depth |-> max]

MCGrammarOf == GrammarOf
MCRequests ==
    {Ask(id, "LALR", TRUE, 3) : id \in {"plain", "wider", "swapped", "twice", "nullable", "repeated",
                                        "recursive", "renumbered", "undefined", "endless"}}
    \cup {Ask(id, "LR", TRUE, 3) : id \in {"plain", "repeated", "notLALR", "repeatedKernel"}}
    \cup {Ask("twoTokens", "LALR", auto, max) : auto \in BOOLEAN, max \in {1, 2, 3}}
    \cup {Ask("longer", "LALR", TRUE, 3), Ask("pairs", "LALR", TRUE, 3), Ask("notLALR", "LALR", TRUE, 2)}

BrokenRequests ==
    {Ask(id, family, FALSE, 1) : id \in {"endless", "repeatedKernel", "unequalStates", "plain"},
                                 family \in {"LR", "LALR"}}

\* No rule of these grammars needs more than four tokens for its first string.
Leading == G!WorkedOut([id \in DOMAIN GrammarOf |->
    [lhs \in G!RuleNames(GrammarOf[id]) |->
        {Truncate(text, 1) : text \in G!Derives(GrammarOf[id], 4, 0)[lhs]}]])

MCFirstTokens == Leading
=============================================================================
