---------------------------- MODULE MCLLRecovery ----------------------------
(***************************************************************************)
(* Small grammars for LLRecovery, their parsers, and inputs: the short     *)
(* sentences and what is a few edits away from them.                       *)
(***************************************************************************)
EXTENDS LLRecovery

CONSTANTS
    Chosen,         \* the grammars of the run
    SentenceLength

L == INSTANCE LLLanguage

Atom(symbol, q) == [syms |-> <<symbol>>, q |-> q]
Group(body, q) == [body |-> body, q |-> q]
One(symbol) == Group(<<Atom(symbol, "")>>, "")
Opt(symbol) == Group(<<Atom(symbol, "?")>>, "")
Many(symbol) == Group(<<Atom(symbol, "*")>>, "")
Some(symbol) == Group(<<Atom(symbol, "+")>>, "")
Either(symbols) == [syms |-> symbols, q |-> ""]

\* { let id ; ... }
Block == [main |-> <<One("ob"), Many("stmt"), One("cb")>>,
          stmt |-> <<One("let"), One("id"), One("semi")>>]

\* [ id , [ id ] ]
List == [main |-> <<One("list")>>,
         list |-> <<One("ob"), One("item"), Group(<<Atom("comma", ""), Atom("item", "")>>, "*"), One("cb")>>,
         item |-> <<Group(<<Either(<<"id", "list">>)>>, "")>>]

\* an optional header, then clauses with tokens repeated and optional
Clauses == [main |-> <<Opt("header"), Some("clause")>>,
            header |-> <<Many("at"), One("id"), One("semi")>>,
            clause |-> <<One("key"), Some("id"), Opt("comma"), Group(<<Atom("semi", ""), Atom("at", "?")>>, "?")>>]

\* { id { num } }
Nested == [main |-> <<One("node")>>,
           node |-> <<One("ob"), One("item"), Opt("node"), One("cb")>>,
           item |-> <<Group(<<Either(<<"id", "num">>)>>, "")>>]

\* key id }, with a choice in the middle of a group
Settings == [main |-> <<One("section"), One("cb")>>,
             section |-> <<One("entry"), Opt("semi")>>,
             entry |-> <<Group(<<Atom("key", ""), Either(<<"id", "num">>)>>, "")>>]

\* label ? flags * key = value }
Record == [main |-> <<Opt("label"), Many("flags"), One("pair"), Many("stmt"), One("cb")>>,
           label |-> <<One("value")>>,
           flags |-> <<Opt("at"), Opt("semi")>>,
           pair |-> <<Group(<<Atom("key", ""), Atom("eq", ""), Atom("value", "")>>, "+")>>,
           stmt |-> <<One("let"), Group(<<Either(<<"id", "num">>)>>, "")>>,
           value |-> <<Group(<<Either(<<"id", "num">>)>>, "")>>]

Grammars == [block |-> Block, list |-> List, clauses |-> Clauses, nested |-> Nested, settings |-> Settings, record |-> Record]

EditsOf == [block |-> 2, list |-> 1, clauses |-> 1, nested |-> 1, settings |-> 2, record |-> 1]

Words(name) == L!Sentences(Grammars[name], SentenceLength)
EditedWords(name) ==
    LET tokens == L!TokensOf(Grammars[name]) \cup {"junk"}
        after[k \in 0..EditsOf[name]] == IF k = 0 THEN Words(name) ELSE L!Edited(after[k - 1], tokens)
    IN  after[EditsOf[name]]

\* v itself: the comparison has the model checker work out all of it, once.
WorkedOut(v) == CHOOSE w \in {v} : w = w

\* TLC works out a constant definition once, but not the one a CONSTANT is
\* given in the cfg: hence the two definitions of each constant.
Generated == WorkedOut({L!Generate(Grammars[name]) @@ ("name" :> name) : name \in Chosen})
Texts == WorkedOut([name \in Chosen |-> EditedWords(name)])
Correct == WorkedOut([name \in Chosen |-> L!TextsUpTo(Grammars[name], SentenceLength + EditsOf[name])])

MCParsers == Generated
MCInputs == Texts
MCLanguage == Correct
MCLongest == [name \in Chosen |-> SentenceLength + EditsOf[name]]

ASSUME DecidableAssumption == \A p \in Generated : p.decidable

\* No optional rule of these grammars comes behind another part of its member.
ASSUME SoloAssumption == SoloOptions
=============================================================================
