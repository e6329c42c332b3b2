-------------------------- MODULE MCLRGeneralized --------------------------
(* The generalized driver on parsers with conflict cells left open. *)
EXTENDS LRGeneralized, LRBeginnings, MCAheads

G == INSTANCE MCGrammars

GrammarOf ==
    [dangling |-> G!Dangling, pairs |-> G!Pairs, unit |-> G!Unit, hidden |-> G!Hidden,
     palindromes |-> G!Palindromes, mixed |-> G!Mixed, notLALR |-> G!NotLALR, gaps |-> G!Gaps]

BoundOf(id) == IF id = "hidden" THEN 2 ELSE IF id \in {"pairs", "notLALR", "unit"} THEN 3
               ELSE IF id = "mixed" THEN 4 ELSE 5

\* How many tokens complete a beginning of a sentence.
Completion(id) == IF id \in {"palindromes", "mixed"} THEN 5 ELSE 1

Alphabet(g) == G!Range(g.tokens) \cup (IF G!SkipsWhitespace(g) THEN {Whitespace} ELSE {})

\* TLC works out a constant definition once, but not the one a CONSTANT is
\* given in the cfg: hence the two definitions of each constant.

Compiled == G!WorkedOut([id \in DOMAIN GrammarOf |-> G!Compile(GrammarOf[id], "LALR", 1, 3)])
Texts == G!WorkedOut([id \in DOMAIN GrammarOf |->
            UNION {[1..n -> Alphabet(GrammarOf[id])] : n \in 0..BoundOf(id)}])
TreesOf(parsers) ==
    [id \in DOMAIN parsers |->
        G!Trees(parsers[id].productions, BoundOf(id), 3 * BoundOf(id))["main"]]
ReadingsOf(parsers, texts, trees) ==
    [id \in DOMAIN parsers |->
        LET blank == IF parsers[id].skipsSpace THEN Whitespace ELSE G!Slot
        IN  [text \in texts[id] |->
                {t.calls : t \in {u \in trees[id] : G!Fits(u.frontier, text, blank)}}]]

Read == G!WorkedOut(LET parsers == G!WorkedOut(Compiled)
                  IN  ReadingsOf(parsers, G!WorkedOut(Texts), G!WorkedOut(TreesOf(parsers))))
Beginnings == G!WorkedOut([id \in DOMAIN GrammarOf |->
            G!Beginnings(GrammarOf[id], BoundOf(id) + Completion(id))])

\* Small where the limit is what ends the run.
MCNodeLimit == [id \in DOMAIN GrammarOf |-> IF id = "hidden" THEN 15 ELSE 60]

MCParsers == Compiled
MCInputs == Texts
MCReadings == Read
MCViable == Beginnings

-----------------------------------------------------------------------------
(* What is read begins a sentence: what the tables and Viable need for it.   *)

SymbolsOf(id) ==
    Alphabet(GrammarOf[id]) \cup {Parsers[id].productions[rule].lhs : rule \in Rules(Parsers[id])}

ASSUME NothingIsUnrooted ==
    Founded(Parsers, Inputs, [id \in DOMAIN Parsers |-> G!OrderOf(Parsers[id].productions)])

ASSUME BeginningsAreNamed ==
    LET texts == G!WorkedOut([id \in DOMAIN Parsers |->
                    G!BareTexts(GrammarOf[id], SymbolsOf(id), BoundOf(id), BoundOf(id) + Completion(id))])
    IN  NamesBeginnings(Parsers, Inputs, Viable, [id \in DOMAIN Parsers |-> texts[id].words],
                        [id \in DOMAIN Parsers |-> texts[id].begins], [id \in DOMAIN Parsers |-> BoundOf(id)])

-----------------------------------------------------------------------------
(* These tables refuse no sentence: what Thorough asks of them.              *)

ASSUME NothingIsLeftOut == Thorough([id \in DOMAIN Parsers |-> AheadOf(Parsers[id])])
=============================================================================
