------------------------------ MODULE MCLexer ------------------------------
(***************************************************************************)
(* Small tokens for Lexer, compiled from their members, and all short      *)
(* texts of their characters.                                              *)
(***************************************************************************)
EXTENDS Lexer, FiniteSets, TLC

CONSTANTS
    Chosen,      \* the names of the run
    MaxLength,   \* of the texts
    Slack,       \* how much further the reference looks for the rest of a token
    OnlyTokens   \* whether texts are made of tokens

W == INSTANCE TokenWiring
T == INSTANCE LexerTables
L == INSTANCE TokenLanguage

Word(chars) == [kind |-> "word", word |-> chars, parts |-> <<>>, repeat |-> W!Once, cap |-> W!NoCapture]
Char(char) == Word(<<{char}>>)
AnyOf(chars) == Word(<<chars>>)
Group(parts) == [kind |-> "group", word |-> <<>>, parts |-> parts, repeat |-> W!Once, cap |-> W!NoCapture]
Choice(parts) == [kind |-> "choice", word |-> <<>>, parts |-> parts, repeat |-> W!Once, cap |-> W!NoCapture]
Opt(member) == [member EXCEPT !.repeat = W!Maybe]
Some(member) == [member EXCEPT !.repeat = W!Plus]
Many(member) == [member EXCEPT !.repeat = W!Star]
At(cap, member) == [member EXCEPT !.cap = cap]

TokensOf ==
    [\* an integer and its fraction, both captured
     number   |-> <<<<At(0, Some(Char("d"))), Opt(Group(<<Char("."), At(1, Some(Char("d")))>>))>>>>,
     \* a word, and a word that is also a keyword
     keyword  |-> <<<<Some(AnyOf({"i", "f"}))>>, <<Word(<<{"i"}, {"f"}>>)>>>>,
     \* a quoted text in which a backslash protects the next character
     string   |-> <<<<Char("q"), At(0, Many(Choice(<<Char("a"), Group(<<Char("b"), AnyOf({"a", "b", "q"})>>)>>))),
                   Char("q")>>>>,
     \* where the first capture ends is known three characters later
     split    |-> <<<<Char("c"), At(0, Many(Char("a"))), At(1, Opt(Word(<<{"a"}, {"a"}, {"b"}>>))), Char("c")>>>>,
     \* either of two captures, told apart by the last character
     either   |-> <<<<Choice(<<Group(<<At(0, Char("a")), Char("b")>>),
                               Group(<<At(1, Some(Char("a"))), Char("c")>>)>>)>>>>,
     \* a comment that ends with the first star and slash, a slash, a star
     comment  |-> <<<<Char("/"), Char("*"),
                     At(0, Many(Choice(<<Char("x"), Group(<<Some(Char("*")), Char("x")>>)>>))),
                     Some(Char("*")), Char("/")>>,
                   <<Char("/")>>, <<Char("*")>>>>,
     \* integers and fractions are tokens of their own
     fraction |-> <<<<At(0, Some(Char("d")))>>, <<At(1, Some(Char("d"))), Char("."), At(2, Some(Char("d")))>>,
                   <<Word(<<{"."}, {"."}>>)>>>>,
     \* a number and a dot
     dotted   |-> <<<<Some(Char("d")), Opt(Group(<<Char("."), Some(Char("d"))>>))>>, <<Char(".")>>>>,
     \* a number with a sign in front
     signed   |-> <<<<Opt(Char("-")), Some(Char("d"))>>>>]

Characters(name) ==
    UNION {UNION {{s.text[i] : i \in DOMAIN s.text} : s \in L!Spellings(TokensOf[name], MaxLength)}}
Texts(name) == UNION {[1 .. k -> Characters(name)] : k \in 0 .. MaxLength}
MadeOfTokens(name) ==
    {s.text : s \in L!Runs({[text |-> t.text, spans |-> <<>>] : t \in L!Spellings(TokensOf[name], MaxLength)},
                           MaxLength)}

ReferenceOf(name) ==
    LET spellings == L!Spellings(TokensOf[name], MaxLength)
        texts == {s.text : s \in spellings}
    IN  [spellings |-> spellings,
         viable |-> L!Viable(TokensOf[name], MaxLength, Slack),
         preferred |-> [text \in texts |->
                           L!Preferred(TokensOf[name], MaxLength, {s.token : s \in {x \in spellings : x.text = text}})]]

\* v itself: the comparison has the model checker work out all of it, once.
WorkedOut(v) == CHOOSE w \in {v} : w = w

\* TLC works out a constant definition once, but not the one a CONSTANT is
\* given in the cfg: hence the two definitions of each constant. The LET keeps
\* its coverage statistics from following all that the definition uses.
Compiled == WorkedOut(UNION {{T!Compile(nfa) @@ ("name" :> name) : nfa \in W!NFAs(TokensOf[name])} : name \in Chosen})
AllTexts == WorkedOut([name \in Chosen |-> IF OnlyTokens THEN MadeOfTokens(name) ELSE Texts(name)])
Readings == WorkedOut([name \in Chosen |-> ReferenceOf(name)])

MCLexers == LET lexers == Compiled IN lexers
MCInputs == LET texts == AllTexts IN texts
MCReference == LET readings == Readings IN readings
=============================================================================
