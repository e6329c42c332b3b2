----------------------------- MODULE TaggedDFA -----------------------------
(***************************************************************************)
(* The determinization of the lexer (src/DFA): the closure of a tagged NFA *)
(* by priority, DFA states as lists of configurations whose tags are kept  *)
(* in registers, the operations that carry registers along a transition,   *)
(* and the allocation of registers.                                        *)
(*                                                                         *)
(* An automaton nfa has                                                    *)
(*   entries   a set of states, one for each token                         *)
(*   edges     a sequence of [from, chars, to, pri, acts]                  *)
(*   eps       a sequence of [from, to, pri, acts]                         *)
(*   accepts   a function from accepting states to their terminal actions  *)
(*   captures  how many captures it has                                    *)
(* An action is [end, cap]: a boundary of a capture. A boundary on an edge *)
(* lies before the character of the edge, one behind it after. A token is  *)
(* known by its final state.                                               *)
(* States of a DFA are numbered from 1.                                    *)
(***************************************************************************)
EXTENDS Integers, Sequences, FiniteSets, SequencesExt, FiniteSetsExt, Functions

None == -1

Ascending(S) == SetToSortSeq(S, <)

(***************************************************************************)
(* Closures.                                                               *)
(***************************************************************************)
\* Seeds of a character: edges of the subset, smallest priority first, then
\* smallest source.
Seeds(nfa, subset, char) ==
    LET chosen == {i \in DOMAIN nfa.edges : nfa.edges[i].from \in Range(subset) /\ char \in nfa.edges[i].chars}
        Before(i, j) == LET e == nfa.edges[i]
                            f == nfa.edges[j]
                        IN  \/ e.pri < f.pri
                            \/ e.pri = f.pri /\ e.from < f.from
                            \/ e.pri = f.pri /\ e.from = f.from /\ i < j
    IN  [k \in 1 .. Cardinality(chosen) |-> nfa.edges[SetToSortSeq(chosen, Before)[k]]]

EpsilonFrom(nfa, state) ==
    LET chosen == {i \in DOMAIN nfa.eps : nfa.eps[i].from = state}
    IN  [k \in 1 .. Cardinality(chosen) |->
            nfa.eps[SetToSortSeq(chosen, LAMBDA i, j : nfa.eps[i].pri < nfa.eps[j].pri)[k]]]

\* Depth first, and the first path that reaches a state keeps it.
RECURSIVE Enter(_, _, _, _, _)
Enter(nfa, found, state, seed, path) ==
    IF \E i \in DOMAIN found : found[i].state = state THEN found
    ELSE FoldLeft(LAMBDA acc, e : Enter(nfa, acc, e.to, seed, path \o e.acts),
                  Append(found, [state |-> state, seed |-> seed, path |-> path]),
                  EpsilonFrom(nfa, state))

\* Each seed is followed to its end before the next one is looked at.
Closure(nfa, seeded) ==
    FoldLeft(LAMBDA found, k : Enter(nfa, found, seeded[k].state, k, seeded[k].path),
             <<>>, [k \in DOMAIN seeded |-> k])

(***************************************************************************)
(* What the closure tells the construction.                                *)
(***************************************************************************)
Tags(nfa) == 2 * nfa.captures

EventsOf(path, edgeOps, afterEdge) ==
    [i \in DOMAIN path |-> [tag |-> 2 * path[i].cap + (IF path[i].end THEN 1 ELSE 0),
                            next |-> afterEdge /\ i > edgeOps]]

\* Paths that enter one state with one priority give each other the boundaries they lack.
Boundaries(path) == {<<path[i].cap, path[i].end>> : i \in DOMAIN path}
MergedActs(seeds, i) ==
    FoldLeft(LAMBDA path, seed :
                 IF seed.to # seeds[i].to \/ seed.pri # seeds[i].pri THEN path
                 ELSE path \o SelectSeq(seed.acts, LAMBDA act : <<act.cap, act.end>> \notin Boundaries(path)),
             seeds[i].acts, SubSeq(seeds, i + 1, Len(seeds)))

\* An item: an NFA state, the configuration it comes from and its events.
StartItems(nfa) ==
    LET entries == Ascending(nfa.entries)
        closure == Closure(nfa, [k \in DOMAIN entries |-> [state |-> entries[k], path |-> <<>>]])
    IN  [i \in DOMAIN closure |->
            [nfa |-> closure[i].state, src |-> None, events |-> EventsOf(closure[i].path, 0, FALSE)]]

MoveItems(nfa, subset, char) ==
    LET seeds == Seeds(nfa, subset, char)
        acts == [k \in DOMAIN seeds |-> MergedActs(seeds, k)]
        closure == Closure(nfa, [k \in DOMAIN seeds |-> [state |-> seeds[k].to, path |-> acts[k]]])
    IN  [i \in DOMAIN closure |->
            [nfa |-> closure[i].state,
             src |-> CHOOSE c \in DOMAIN subset : subset[c] = seeds[closure[i].seed].from,
             events |-> EventsOf(closure[i].path, Len(acts[closure[i].seed]), TRUE)]]

Symbols(nfa, subset) ==
    UNION {nfa.edges[i].chars : i \in {j \in DOMAIN nfa.edges : nfa.edges[j].from \in Range(subset)}}

(***************************************************************************)
(* Which of several tokens a state accepts: the one with the fewest first  *)
(* characters, then the one wired last.                                    *)
(***************************************************************************)
RECURSIVE Reaching(_, _, _)
Reaching(nfa, states, byCharacters) ==
    LET more == states \cup {nfa.eps[i].to : i \in {j \in DOMAIN nfa.eps : nfa.eps[j].from \in states}}
                       \cup (IF byCharacters
                             THEN {nfa.edges[i].to : i \in {j \in DOMAIN nfa.edges : nfa.edges[j].from \in states}}
                             ELSE {})
    IN  IF more = states THEN states ELSE Reaching(nfa, more, byCharacters)

EntryWidth(nfa, final) ==
    LET mine == {e \in nfa.entries : final \in Reaching(nfa, {e}, TRUE)}
    IN  Min({Cardinality(Symbols(nfa, Ascending(Reaching(nfa, {e}, FALSE)))) : e \in mine})

\* A fault: the token that was wired first.
AcceptedFirst(nfa, subset) == Min(Range(subset) \cap DOMAIN nfa.accepts)

Accepting(nfa, subset) == Range(subset) \cap DOMAIN nfa.accepts
Accepted(nfa, subset) ==
    CHOOSE best \in Accepting(nfa, subset) :
        \A other \in Accepting(nfa, subset) \ {best} :
            \/ EntryWidth(nfa, best) < EntryWidth(nfa, other)
            \/ EntryWidth(nfa, best) = EntryWidth(nfa, other) /\ other < best

(***************************************************************************)
(* Operations of one transition: at most one register is set to the        *)
(* position before the character and one to the position behind it. An     *)
(* operation is [kind, next, a, b]: set a, or copy b to a.                 *)
(***************************************************************************)
Set(reg, next) == [kind |-> "set", next |-> next, a |-> reg, b |-> None]
Copy(to, from) == [kind |-> "copy", next |-> FALSE, a |-> to, b |-> from]

NewGroup(free) == [ops |-> <<>>, free |-> free]
Setting(group, next) == {i \in DOMAIN group.ops : group.ops[i].next = next}

Apply(acc, event) ==
    LET known == Setting(acc.group, event.next)
        group == IF known # {} THEN acc.group
                 ELSE [ops |-> Append(acc.group.ops, Set(acc.group.free, event.next)),
                       free |-> acc.group.free + 1]
        reg == group.ops[Min(Setting(group, event.next))].a
    IN  [group |-> group, regs |-> [acc.regs EXCEPT ![event.tag] = reg]]

MakeConfigs(nfa, source, items, free) ==
    LET sorted == SortSeq(items, LAMBDA x, y : x.nfa < y.nfa)
        Before(item) == IF item.src = None THEN [t \in 0 .. Tags(nfa) - 1 |-> None] ELSE source[item.src].regs
        Step(acc, item) ==
            LET applied == FoldLeft(Apply, [group |-> acc.group, regs |-> Before(item)], item.events)
            IN  [group |-> applied.group,
                 configs |-> Append(acc.configs, [nfa |-> item.nfa, regs |-> applied.regs])]
    IN  FoldLeft(Step, [group |-> NewGroup(free), configs |-> <<>>], sorted)

\* Equal up to a renaming of registers: each is known by where it first appears.
Canonical(configs) ==
    LET places == (DOMAIN configs) \X (DOMAIN configs[1].regs)
        Earlier(p, q) == p[1] < q[1] \/ (p[1] = q[1] /\ p[2] <= q[2])
        First(r) == LET holding == {p \in places : configs[p[1]].regs[p[2]] = r}
                    IN  CHOOSE p \in holding : \A q \in holding : Earlier(p, q)
    IN  [i \in DOMAIN configs |->
            [nfa |-> configs[i].nfa,
             regs |-> [t \in DOMAIN configs[i].regs |->
                          IF configs[i].regs[t] = None THEN <<>> ELSE First(configs[i].regs[t])]]]

(***************************************************************************)
(* Parallel assignments in an order that keeps their meaning: a value is   *)
(* read before it is overwritten, and a cycle of copies goes through a     *)
(* register of its own.                                                    *)
(***************************************************************************)
\* A fault: the assignments are made as they come.
SequentializeAsWritten(pending, done, free) == [ops |-> done \o pending, free |-> free]

RECURSIVE Sequentialize(_, _, _)
Sequentialize(pending, done, free) ==
    LET Overwrites(j, i) == i # j /\ pending[i].b # None /\ pending[i].b = pending[j].a
        ready == {j \in DOMAIN pending : \A i \in DOMAIN pending : ~Overwrites(j, i)}
        cyclic == {i \in DOMAIN pending : \E j \in DOMAIN pending : Overwrites(j, i)}
    IN  IF pending = <<>> THEN [ops |-> done, free |-> free]
        ELSE IF ready # {}
        THEN Sequentialize(RemoveAt(pending, Min(ready)), Append(done, pending[Min(ready)]), free)
        ELSE Sequentialize([pending EXCEPT ![Min(cyclic)].b = free],
                           Append(done, Copy(free, pending[Min(cyclic)].b)), free + 1)

\* The operations of a transition into a state with these configurations.
FinishGroup(group, configs, target) ==
    LET held == UNION {{<<i, t>> : t \in {u \in DOMAIN configs[i].regs : configs[i].regs[u] # None}} :
                          i \in DOMAIN configs}
        renamed == [r \in {configs[p[1]].regs[p[2]] : p \in held} |->
                        LET p == CHOOSE q \in held : configs[q[1]].regs[q[2]] = r
                        IN  target[p[1]].regs[p[2]]]
        kept == SelectSeq(group.ops, LAMBDA op : op.a \in DOMAIN renamed)
        made == {op.a : op \in Range(group.ops)}
        inherited == Ascending({r \in DOMAIN renamed \ made : renamed[r] # r})
    IN  Sequentialize([i \in DOMAIN kept |-> Set(renamed[kept[i].a], kept[i].next)]
                      \o [i \in DOMAIN inherited |-> Copy(renamed[inherited[i]], inherited[i])],
                      <<>>, group.free)

(***************************************************************************)
(* Determinization. A state has its configurations, edges [char, to, ops], *)
(* and the token it accepts with the operations of accepting it.           *)
(***************************************************************************)
NewState(configs) == [configs |-> configs, edges |-> <<>>, token |-> None, acceptOps |-> <<>>]
Subset(configs) == [i \in DOMAIN configs |-> configs[i].nfa]

\* The tags of the accepting configuration are left in registers 0, 1, ...
AcceptState(nfa, dfa, s, entryOps, free) ==
    LET configs == dfa[s].configs
        token == Accepted(nfa, Subset(configs))
        config == CHOOSE c \in DOMAIN configs : configs[c].nfa = token
        applied == FoldLeft(Apply, [group |-> NewGroup(free), regs |-> configs[config].regs],
                            EventsOf(nfa.accepts[token], 0, FALSE))
        set == Ascending({t \in DOMAIN applied.regs : applied.regs[t] # None})
        outputs == [i \in DOMAIN set |-> Copy(set[i], applied.regs[set[i]])]
    IN  IF Accepting(nfa, Subset(configs)) = {} THEN [dfa |-> dfa, free |-> free]
        ELSE [dfa |-> [dfa EXCEPT ![s].token = token,
                                  ![s].acceptOps = (IF s = 1 THEN entryOps ELSE <<>>)
                                                   \o applied.group.ops \o outputs],
              free |-> applied.group.free]

\* The start state is not in the index: no transition goes back to it.
AddEdge(nfa, acc, s, char, entryOps) ==
    LET source == acc.dfa[s].configs
        made == MakeConfigs(nfa, source, MoveItems(nfa, Subset(source), char), acc.free)
        same == {i \in 2 .. Len(acc.dfa) : Canonical(acc.dfa[i].configs) = Canonical(made.configs)}
        known == same # {}
        target == IF known THEN Min(same) ELSE Len(acc.dfa) + 1
        finished == FinishGroup(made.group, made.configs,
                                IF known THEN acc.dfa[target].configs ELSE made.configs)
        ops == (IF s = 1 THEN entryOps ELSE <<>>) \o finished.ops
        grown == IF known THEN acc.dfa ELSE Append(acc.dfa, NewState(made.configs))
    IN  [dfa |-> [grown EXCEPT ![s].edges = Append(@, [char |-> char, to |-> target, ops |-> ops])],
         free |-> finished.free]

RECURSIVE Grow(_, _, _, _)
Grow(nfa, acc, s, entryOps) ==
    IF s > Len(acc.dfa) THEN acc
    ELSE Grow(nfa,
              FoldLeft(LAMBDA a, char : AddEdge(nfa, a, s, char, entryOps),
                       AcceptState(nfa, acc.dfa, s, entryOps, acc.free),
                       SetToSeq(Symbols(nfa, Subset(acc.dfa[s].configs)))),
              s + 1, entryOps)

\* Registers 0 .. Tags - 1 are the outputs.
Determinize(nfa) ==
    LET start == MakeConfigs(nfa, <<>>, StartItems(nfa), Tags(nfa))
    IN  Grow(nfa, [dfa |-> <<NewState(start.configs)>>, free |-> start.group.free], 1, start.group.ops).dfa
=============================================================================
