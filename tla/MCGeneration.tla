----------------------------- MODULE MCGeneration -----------------------------
(***************************************************************************)
(* Two grammars that differ in one file, share one and have one file each  *)
(* that the other does not generate.  Two more read like the first and     *)
(* have actions: one gives a rule a data block with an expression, which   *)
(* changes one file, the other adds a fail block, which changes the other. *)
(***************************************************************************)
EXTENDS Generation

MCGrammars == {"base", "edited", "revalued", "guarded"}
MCTexts == {"text", "edited text"}
MCText == [g \in MCGrammars |-> IF g = "edited" THEN "edited text" ELSE "text"]
MCActing == {"revalued", "guarded"}
MCPaths == {"parser", "rule"}
MCContents == {"old", "new"}

Own ==
    [base     |-> [parser |-> "old", rule |-> "old"],
     edited   |-> [parser |-> "new", rule |-> "absent"],
     revalued |-> [parser |-> "old", rule |-> "new"],
     guarded  |-> [parser |-> "new", rule |-> "old"]]

\* Grammars of one text differ only in what comes from their productions.
MCOutput ==
    [g \in MCGrammars |->
        [h \in MCGrammars |-> Own[IF MCText[g] = MCText[h] THEN h ELSE g]]]
=============================================================================
