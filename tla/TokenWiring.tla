---------------------------- MODULE TokenWiring ----------------------------
(***************************************************************************)
(* From the members of a token to a tagged NFA (src/NFA): members are      *)
(* flattened into leaves that know what may follow them (NFA.IR.cpp), and  *)
(* the leaves are wired into states (NFA.TNFA.cpp).                        *)
(*                                                                         *)
(* A member has                                                            *)
(*   kind      "word", "group" or "choice"                                 *)
(*   word      of a word: a sequence of sets of characters                 *)
(*   parts     of the others: a sequence of members                        *)
(*   repeat    whether it may be left out and whether it may come again    *)
(*   cap       the capture it is marked with, or NoCapture                 *)
(* A token is a sequence of members. Its leaves are numbered from 1, and   *)
(* End follows those that may end the token. A leaf has the captures it is *)
(* in, outermost first, and the position of its member in the token.       *)
(***************************************************************************)
EXTENDS Integers, Sequences, FiniteSets, SequencesExt, FiniteSetsExt

NoCapture == -1
End == 0

Once == [skip |-> FALSE, again |-> FALSE]
Maybe == [skip |-> TRUE, again |-> FALSE]
Plus == [skip |-> FALSE, again |-> TRUE]
Star == [skip |-> TRUE, again |-> TRUE]

Without(seq, others) == SelectSeq(seq, LAMBDA x : x \notin Range(others))

(***************************************************************************)
(* Flattening. A fragment has the leaves it can begin with and those it    *)
(* can end with.                                                           *)
(***************************************************************************)
\* From its last leaves a repeated member can begin again.
LoopBack(leaves, fragment) ==
    [i \in DOMAIN leaves |->
        IF i \in Range(fragment.tails)
        THEN [leaves[i] EXCEPT !.next = @ \o Without(fragment.entries, @)]
        ELSE leaves[i]]

RECURSIVE ExpandMember(_, _, _, _, _), ExpandGroup(_, _, _, _, _)

\* A repetition goes round the member, and a leaf that may be left out lets
\* what is before it see what comes next.
ExpandMember(member, position, leaves, next, captures) ==
    LET inside == IF member.cap = NoCapture THEN captures ELSE Append(captures, member.cap)
        Choose(acc, option) ==
            LET sub == ExpandMember(option, position, acc.leaves, next, inside)
            IN  [leaves |-> sub.leaves, entries |-> acc.entries \o sub.entries, tails |-> acc.tails \o sub.tails]
        core == IF member.kind = "word"
                THEN LET leaf == Len(leaves) + 1
                     IN  [leaves |-> Append(leaves, [word |-> member.word, captures |-> inside,
                                                     next |-> next, position |-> position]),
                          entries |-> <<leaf>>, tails |-> <<leaf>>]
                ELSE IF member.kind = "choice"
                THEN FoldLeft(Choose, [leaves |-> leaves, entries |-> <<>>, tails |-> <<>>], member.parts)
                ELSE ExpandGroup(member.parts, position, leaves, next, inside)
    IN  [core EXCEPT !.leaves = IF member.repeat.again THEN LoopBack(@, core) ELSE @,
                     !.entries = IF member.repeat.skip THEN @ \o next ELSE @]

\* Back to front, so that each part knows what follows it.
ExpandGroup(parts, position, leaves, next, captures) ==
    LET last == ExpandMember(Last(parts), position, leaves, next, captures)
        front == ExpandGroup(Front(parts), position, last.leaves, last.entries, captures)
    IN  IF Len(parts) = 1 THEN last
        ELSE [front EXCEPT !.tails = last.tails]

\* The members of a token follow each other as the parts of a group do.
RECURSIVE Leaves(_, _, _)
Leaves(members, leaves, next) ==
    IF members = <<>> THEN leaves
    ELSE LET last == ExpandMember(Last(members), Len(members), leaves, next, <<>>)
         IN  Leaves(Front(members), last.leaves, last.entries)
Flatten(members) == Leaves(members, <<>>, <<End>>)

(***************************************************************************)
(* Captures end and begin before the first character of a leaf, whichever  *)
(* leaf the token comes from (0: from its start).                          *)
(***************************************************************************)
Ends(captures) == [i \in DOMAIN captures |-> [end |-> TRUE, cap |-> Reverse(captures)[i]]]
Begins(captures) == [i \in DOMAIN captures |-> [end |-> FALSE, cap |-> captures[i]]]

Successors(leaves, i) == Range(leaves[i].next) \ {i, End}
Referenced(leaves) == UNION {Successors(leaves, i) : i \in DOMAIN leaves}

Boundary(leaves, before, leaf) ==
    IF before # 0
    THEN Ends(Without(leaves[before].captures, leaves[leaf].captures))
         \o Begins(Without(leaves[leaf].captures, leaves[before].captures))
    ELSE IF leaf \in Referenced(leaves) THEN <<>> ELSE Begins(leaves[leaf].captures)

\* The leaves before it disagree on what begins and ends.
IsSplit(leaves, leaf) ==
    Cardinality({Boundary(leaves, i, leaf) : i \in {j \in DOMAIN leaves : leaf \in Successors(leaves, j)}}) > 1

(***************************************************************************)
(* Wiring. A wire has the automaton built so far (states are numbered from *)
(* 1), the next priority, and for each leaf the state before and after it. *)
(***************************************************************************)
NewWire == [states |-> 0, edges |-> <<>>, eps |-> <<>>, accepts |-> <<>>, priority |-> 0,
            entryOf |-> <<>>, endOf |-> <<>>, joined |-> {}]

\* A word has a state of its own behind each character.
WireWord(wire, state, leaf, word, acts) ==
    LET Before(k) == IF k = 1 THEN state ELSE wire.states + k - 1
    IN  [wire EXCEPT
            !.states = @ + Len(word),
            !.priority = @ + Len(word),
            !.edges = @ \o [k \in DOMAIN word |->
                               [from |-> Before(k), chars |-> word[k], to |-> wire.states + k, leaf |-> leaf,
                                pri |-> wire.priority + k, acts |-> IF k = 1 THEN acts ELSE <<>>]]]

\* The edge into the end of a leaf of one character is repeated there.
WireSelfLoop(wire, state, end) ==
    [wire EXCEPT !.edges =
        @ \o LET into == SelectSeq(@, LAMBDA e : e.from = state /\ e.to = end)
             IN  [k \in DOMAIN into |-> [into[k] EXCEPT !.from = end, !.acts = <<>>]]]

\* A leaf that is wired already is joined: by edges of its own where the
\* captures differ, else through the state the leaf was first wired from.
Join(leaves, wire, state, leaf, before) ==
    LET entry == wire.entryOf[leaf]
        first == SelectSeq(wire.edges, LAMBDA e : e.from = entry /\ e.leaf = leaf)
        known == [wire EXCEPT !.joined = @ \cup {<<state, leaf, before>>}]
    IN  IF entry = state \/ <<state, leaf, before>> \in wire.joined THEN wire
        ELSE IF IsSplit(leaves, leaf)
        THEN [known EXCEPT !.edges =
                 @ \o [k \in DOMAIN first |->
                          [first[k] EXCEPT !.from = state, !.acts = Boundary(leaves, before, leaf)]]]
        ELSE IF \E k \in DOMAIN wire.eps : wire.eps[k].from = state /\ wire.eps[k].to = entry THEN known
        ELSE [known EXCEPT !.eps = Append(@, [from |-> state, to |-> entry, pri |-> wire.priority + 1,
                                              acts |-> <<>>]),
                           !.priority = @ + 1]

MarkAccept(leaves, wire, end, leaf) ==
    [wire EXCEPT !.accepts = (end :> Ends(leaves[leaf].captures)) @@ @]

RECURSIVE Visit(_, _, _, _, _)
Visit(leaves, wire, state, leaf, before) ==
    LET word == leaves[leaf].word
        end == wire.states + Len(word)
        wired == [WireWord(wire, state, leaf, word, Boundary(leaves, before, leaf)) EXCEPT
                     !.entryOf = (leaf :> state) @@ @, !.endOf = (leaf :> end) @@ @]
        Follow(w, next) == IF next = End THEN MarkAccept(leaves, w, end, leaf)
                           ELSE IF next = leaf THEN WireSelfLoop(w, state, end)
                           ELSE Visit(leaves, w, end, next, leaf)
    IN  IF leaf \in DOMAIN wire.endOf THEN Join(leaves, wire, state, leaf, before)
        ELSE FoldLeft(Follow, wired, leaves[leaf].next)

\* A token begins with the leaves nothing else refers to, in the order of their
\* members; leaves of one member in the order of their text, which is any order
\* here. Where all leaves are referred to, the hash map decides which of the
\* first member comes first.
RootOrders(leaves) ==
    {roots \in SetToSeqs(DOMAIN leaves \ Referenced(leaves)) :
        \A i, j \in DOMAIN roots : i < j => leaves[roots[i]].position <= leaves[roots[j]].position}

Unvisited(leaves, wire) ==
    LET left == DOMAIN leaves \ DOMAIN wire.endOf
    IN  {i \in left : \A j \in left : leaves[i].position <= leaves[j].position}

RECURSIVE WireUnvisited(_, _, _)
WireUnvisited(leaves, wire, initial) ==
    IF Unvisited(leaves, wire) = {} THEN {wire}
    ELSE UNION {WireUnvisited(leaves, Visit(leaves, wire, initial, leaf, 0), initial) :
                   leaf \in Unvisited(leaves, wire)}

WireToken(wire, members) ==
    LET leaves == Flatten(members)
        initial == wire.states + 1
        fresh == [wire EXCEPT !.states = initial, !.entryOf = <<>>, !.endOf = <<>>, !.joined = {}]
    IN  UNION {WireUnvisited(leaves, FoldLeft(LAMBDA w, root : Visit(leaves, w, initial, root, 0), fresh, roots),
                             initial) : roots \in RootOrders(leaves)}

(***************************************************************************)
(* The automata a build can make of its tokens: with the states each token *)
(* begins in and the token of each final state.                            *)
(***************************************************************************)
RECURSIVE WireTokens(_, _)
WireTokens(tokens, acc) ==
    IF tokens = <<>> THEN {acc}
    ELSE UNION {WireTokens(Tail(tokens),
                           [wire |-> wire,
                            entries |-> acc.entries \cup {acc.wire.states + 1},
                            tokenOf |-> acc.tokenOf
                                        @@ [f \in DOMAIN wire.accepts \ DOMAIN acc.wire.accepts |->
                                               Cardinality(acc.entries) + 1]]) :
                   wire \in WireToken(acc.wire, Head(tokens))}

RECURSIVE CapturesOf(_)
CapturesOf(members) ==
    UNION {{members[i].cap} \cup CapturesOf(members[i].parts) : i \in DOMAIN members} \ {NoCapture}

NFAs(tokens) ==
    {[entries |-> built.entries, edges |-> built.wire.edges, eps |-> built.wire.eps,
      accepts |-> built.wire.accepts, tokenOf |-> built.tokenOf,
      captures |-> Cardinality(UNION {CapturesOf(tokens[i]) : i \in DOMAIN tokens})] :
        built \in WireTokens(tokens, [wire |-> NewWire, entries |-> {}, tokenOf |-> <<>>])}
=============================================================================
