----------------------------- MODULE LLGrammar -----------------------------
(***************************************************************************)
(* What the LL algorithm works out of a grammar for the parser it          *)
(* generates: FIRST and FOLLOW, and for every member of a rule the sets    *)
(* its recovery handler and its frame are given.  A grammar maps rule      *)
(* names to sequences of members.                                          *)
(*                                                                         *)
(*   member   body, a sequence of atoms, and the quantifier q of the group *)
(*   atom     syms, the alternatives of a choice (one for a plain name),   *)
(*            and the quantifier q of the name                             *)
(*                                                                         *)
(* A name with a quantifier is a member whose group has none.  One token   *)
(* of lookahead; grammars without whitespace rule.                         *)
(***************************************************************************)
EXTENDS Integers, FiniteSets, Sequences, SequencesExt

Main == "main"
End == "$"
Empty == "empty"      \* the empty token sequence

Rules(g) == DOMAIN g
AtomsOf(member) == Range(member.body)
SymbolsOf(member) == UNION {Range(atom.syms) : atom \in AtomsOf(member)}
TokensOf(g) == (UNION {SymbolsOf(member) : member \in UNION {Range(g[r]) : r \in Rules(g)}}) \ Rules(g)

-----------------------------------------------------------------------------
(* FIRST and FOLLOW. *)

Concat(one, other) == (one \ {Empty}) \cup (IF Empty \in one THEN other ELSE {})

Star(one) == one \cup {Empty}

Quantified(q, base) == IF q \in {"?", "*"} THEN Star(base) ELSE base

SymbolFirst(known, symbol) == IF symbol \in DOMAIN known THEN known[symbol] ELSE {symbol}

AtomBase(known, atom) == UNION {SymbolFirst(known, symbol) : symbol \in Range(atom.syms)}

SequenceFirst(known, atoms) ==
    FoldRight(LAMBDA atom, rest : Concat(Quantified(atom.q, AtomBase(known, atom)), rest),
              atoms, {Empty})

MemberFirst(known, member) == Quantified(member.q, SequenceFirst(known, member.body))

MembersFirst(known, members) ==
    FoldRight(LAMBDA member, rest : Concat(MemberFirst(known, member), rest), members, {Empty})

First(g) ==
    LET sweep[known \in [Rules(g) -> SUBSET (TokensOf(g) \cup {Empty})]] ==
            LET next == [r \in Rules(g) |-> MembersFirst(known, g[r])]
            IN  IF next = known THEN known ELSE sweep[next]
    IN  sweep[[r \in Rules(g) |-> {}]]

Suffix(s, i) == SubSeq(s, i + 1, Len(s))

\* What can stand behind one turn of something that may be repeated.
Inner(q, base, after) == IF q \in {"*", "+"} THEN Concat(Star(base), after) ELSE after

\* What can stand behind atom i of member m of a rule with this FOLLOW.
AfterAtom(first, members, m, i, follow) ==
    LET member == members[m]
        atom == member.body[i]
        behind == Concat(MembersFirst(first, Suffix(members, m)), follow)
        turn == Inner(member.q, SequenceFirst(first, member.body), behind)
    IN  Inner(atom.q, AtomBase(first, atom),
              Concat(SequenceFirst(first, Suffix(member.body, i)), turn))

Places(g) ==
    UNION {UNION {{<<r, m, i>> : i \in DOMAIN g[r][m].body} : m \in DOMAIN g[r]} : r \in Rules(g)}

Uses(g, name) == {u \in Places(g) : name \in Range(g[u[1]][u[2]].body[u[3]].syms)}

Follow(g) ==
    LET first == First(g)
        sweep[known \in [Rules(g) -> SUBSET (TokensOf(g) \cup {End})]] ==
            LET next == [r \in Rules(g) |->
                            (IF r = Main THEN {End} ELSE {}) \cup
                            UNION {AfterAtom(first, g[u[1]], u[2], u[3], known[u[1]]) : u \in Uses(g, r)}]
            IN  IF next = known THEN known ELSE sweep[next]
    IN  sweep[[r \in Rules(g) |-> {}]]

-----------------------------------------------------------------------------
(* The sets of recovery. *)

\* The terminals of a rule and of the rules it reaches.
Reach(g) ==
    LET sweep[known \in [Rules(g) -> SUBSET TokensOf(g)]] ==
            LET next == [r \in Rules(g) |->
                            UNION {SymbolFirst(known, symbol) :
                                      symbol \in UNION {SymbolsOf(member) : member \in Range(g[r])}}]
            IN  IF next = known THEN known ELSE sweep[next]
    IN  sweep[[r \in Rules(g) |-> {}]]

\* What a frame claims at member m: the terminals of the member and of the
\* whole suffix, nested ones included.
Claims(g, reach, rule, m) ==
    UNION {SymbolFirst(reach, symbol) :
              symbol \in UNION {SymbolsOf(member) : member \in Range(SubSeq(g[rule], m, Len(g[rule])))}}

DirectTerminal(g, member) ==
    /\ Len(member.body) = 1
    /\ member.q = ""
    /\ Len(member.body[1].syms) = 1
    /\ member.body[1].syms[1] \notin Rules(g)

Continuation(g, first, follow, rule, m) ==
    IF m = Len(g[rule]) THEN follow[rule]
    ELSE Concat(MembersFirst(first, Suffix(g[rule], m)), follow[rule])

\* The handler and the claims of member m of a rule.
Site(g, first, follow, reach, rule, m) ==
    LET member == g[rule][m]
        continuation == Continuation(g, first, follow, rule, m)
    IN  [expected |-> MemberFirst(first, member) \ {Empty},
         continuation |-> continuation,
         follow |-> follow[rule],
         synthesizes |-> /\ DirectTerminal(g, member)
                         /\ member.body[1].q \notin {"?", "*"}
                         /\ continuation \cup follow[rule] # {},
         claims |-> Claims(g, reach, rule, m)]

\* A quantified group is entered by looking at one token; a choice too.
Decidable(g, first) ==
    \A r \in Rules(g) : \A member \in Range(g[r]) :
        /\ member.q # "" => Empty \notin SequenceFirst(first, member.body)
        /\ \A atom \in AtomsOf(member) : Len(atom.syms) > 1 =>
              /\ atom.q = ""
              /\ \A i, j \in DOMAIN atom.syms :
                  /\ Empty \notin SymbolFirst(first, atom.syms[i])
                  /\ i # j => SymbolFirst(first, atom.syms[i]) \cap SymbolFirst(first, atom.syms[j]) = {}

\* A generated parser, as far as recovery needs it.
Generate(g) ==
    LET first == First(g)
        follow == Follow(g)
        reach == Reach(g)
        symbols == Rules(g) \cup TokensOf(g)
    IN  [rules |-> g,
         sites |-> [r \in Rules(g) |-> [m \in DOMAIN g[r] |-> Site(g, first, follow, reach, r, m)]],
         first |-> [s \in symbols |-> SymbolFirst(first, s)],
         reach |-> [s \in symbols |-> SymbolFirst(reach, s)],
         guards |-> [r \in Rules(g) |-> [m \in DOMAIN g[r] |-> SequenceFirst(first, g[r][m].body)]],
         decidable |-> Decidable(g, first)]
=============================================================================
