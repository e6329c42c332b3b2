---------------------------- MODULE MCLRMachine ----------------------------
(* The driver on parsers compiled from small grammars. *)
EXTENDS LRMachine, LRBeginnings, MCAheads

G == INSTANCE MCGrammars

GrammarOf ==
    [expressions |-> G!Expressions, notLALR |-> G!NotLALR, twoTokens |-> G!TwoTokens,
     repetition |-> G!Repetition, spaced |-> G!Spaced, statements |-> G!Statements,
     recursive |-> G!Recursive, deleting |-> G!Repetition]

FamilyOf(id) == IF id \in {"notLALR", "twoTokens"} THEN "LR" ELSE "LALR"

Alphabet(g) == G!Range(g.tokens) \cup (IF G!SkipsWhitespace(g) THEN {Whitespace} ELSE {})

\* TLC works out a constant definition once, but not the one a CONSTANT is
\* given in the cfg: hence the two definitions of each constant.

Compiled == G!WorkedOut([id \in DOMAIN GrammarOf |-> G!Compile(GrammarOf[id], FamilyOf(id), 1, 3)])
Texts == G!WorkedOut([id \in DOMAIN GrammarOf |->
            UNION {[1..n -> Alphabet(GrammarOf[id])] : n \in 0..Longest}])
Words(g) ==
    LET derived == G!Derives(g, Longest, Longest)
    IN  [symbol \in DOMAIN derived \cup Alphabet(g) |->
            IF symbol \in DOMAIN derived THEN derived[symbol] ELSE {<<symbol>>}]
Sentences == G!WorkedOut([id \in DOMAIN GrammarOf |-> Words(GrammarOf[id])])
Beginnings == G!WorkedOut([id \in DOMAIN GrammarOf |-> G!Beginnings(GrammarOf[id], 2 * Longest + 1)])

MCParsers == Compiled
MCInputs == Texts
MCLanguage == Sentences
MCViable == Beginnings

MCHook ==
    [id \in DOMAIN GrammarOf |->
        IF id \in {"statements", "recursive"} THEN "fail block"
        ELSE IF id = "deleting" THEN "delete" ELSE "none"]

\* A silent block that inserts the marked member of a recursive rule is never
\* stopped by the budget: it would insert for ever.
MCReportFirst == {"recursive"}

MCBlocks ==
    [id \in DOMAIN GrammarOf |-> IF MCHook[id] = "fail block" THEN Calls ELSE {}]

-----------------------------------------------------------------------------
(* These tables refuse no sentence: what Thorough and Grounded ask of them.  *)

StagesOf(p, symbols) ==
    LET sweep[stages \in Seq([symbols -> SUBSET Seq(STRING)])] ==
            LET last == stages[Len(stages)]
                next == G!WorkedOut([symbol \in symbols |-> StageAfter(p, last, Longest, symbol)])
            IN  IF next = last THEN stages ELSE sweep[Append(stages, next)]
    IN  sweep[<<[symbol \in symbols |-> IF IsRule(p, symbol) THEN {} ELSE {<<symbol>>}]>>]

SymbolsOf(id) ==
    Alphabet(GrammarOf[id]) \cup {Parsers[id].productions[rule].lhs : rule \in Rules(Parsers[id])}

ASSUME NothingIsLeftOut == Thorough([id \in DOMAIN Parsers |-> AheadOf(Parsers[id])])
ASSUME LanguageIsGrounded == Grounded([id \in DOMAIN Parsers |-> StagesOf(Parsers[id], SymbolsOf(id))])

-----------------------------------------------------------------------------
(* What is read begins a sentence: what the tables and Viable need for it.   *)

ASSUME NothingIsUnrooted ==
    Founded(Parsers, Inputs, [id \in DOMAIN Parsers |-> G!OrderOf(Parsers[id].productions)])

ASSUME BeginningsAreNamed ==
    LET texts == G!WorkedOut([id \in DOMAIN Parsers |->
                    G!BareTexts(GrammarOf[id], SymbolsOf(id), Longest, 2 * Longest + 1)])
    IN  NamesBeginnings(Parsers, Inputs, Viable, [id \in DOMAIN Parsers |-> texts[id].words],
                        [id \in DOMAIN Parsers |-> texts[id].begins], [id \in DOMAIN Parsers |-> Longest])
=============================================================================
