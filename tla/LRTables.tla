------------------------------ MODULE LRTables ------------------------------
(***************************************************************************)
(* The LR table construction of lib/algorithm/LR and lib/algorithm/LALR,   *)
(* as operators.  A grammar is a record                                    *)
(*                                                                         *)
(*   rules   the rules in the order of their names, each with its lhs, its *)
(*           alternatives and whether its name ends in "__tail";           *)
(*   tokens  the token names, in order.                                    *)
(*                                                                         *)
(* An alternative is a sequence of members [name, auto, marked]: "auto" is *)
(* the whitespace the normalizer inserted, "marked" a member with a fail   *)
(* marker.  A set of LR items keeps the cores and their lookaheads apart,  *)
(* because the code can hold a core whose set of lookaheads is empty.      *)
(* States and productions are numbered from 0, as in the code.             *)
(***************************************************************************)
EXTENDS Integers, FiniteSets, Sequences, SequencesExt

Whitespace == "WS"
Main == "main"
Augmented == "__ispa_lr_augmented"
EndOfInput == "$"

\* True of any literal, which the provers do not know.
ASSUME NamesAssumption == {Augmented, Main, EndOfInput} \subseteq STRING

\* What the callbacks emitted from the tables do, and what they take for granted.
Gen == INSTANCE LRGenerated

\* v itself: the comparison has the model checker work out all of it, once.
WorkedOut(v) == CHOOSE w \in {v} : w = w

\* The elements that pass the test, in order.
Selected(seq, Test(_)) ==
    FoldLeft(LAMBDA kept, e : IF Test(e) THEN Append(kept, e) ELSE kept, <<>>, seq)

-----------------------------------------------------------------------------
(* From the normalized grammar to productions. *)

MembersOf(rule) == UNION {Range(alternative) : alternative \in Range(rule.alts)}

\* The reserved name is no token, as those are upper case, and no member names
\* it: it would name a rule that no grammar may define.
IsGrammar(g) ==
    /\ g.tokens \in Seq(STRING) /\ Augmented \notin Range(g.tokens)
    /\ g.rules \in Seq([lhs : STRING, tail : BOOLEAN,
                       alts : Seq(Seq([name : STRING, auto : BOOLEAN, marked : BOOLEAN]))])
    /\ \A rule \in Range(g.rules) : \A m \in MembersOf(rule) : m.name # Augmented

Inserted(member) == member.name = Whitespace /\ member.auto

ExplicitWhitespace(g) ==
    \E rule \in Range(g.rules) : \E m \in MembersOf(rule) :
        m.name = Whitespace /\ ~m.auto

\* The nullable rules the normalizer made of inserted whitespace only.
WhitespaceHelpers(g) ==
    {rule.lhs : rule \in {r \in Range(g.rules) :
        MembersOf(r) # {} /\ \A m \in MembersOf(r) : Inserted(m)}}

SkipsWhitespace(g) == ~ExplicitWhitespace(g) /\ WhitespaceHelpers(g) # {}

Trivia(g, member) ==
    SkipsWhitespace(g) /\ (member.name \in WhitespaceHelpers(g) \/ Inserted(member))

\* T -> p1..pk T becomes T -> T p1..pk.  Gap i precedes member i+1, gap Len
\* follows the last member.
Rotated(production) ==
    LET n == Len(production.rhs)
    IN  [production EXCEPT
            !.rhs = <<Last(@)>> \o Front(@),
            !.gaps = {gap + 1 : gap \in @ \ {n}} \cup (@ \cap {n})]

WithoutTrivia(g, alternative) == Selected(alternative, LAMBDA m : ~Trivia(g, m))

Production(g, rule, alternative) ==
    LET kept == WithoutTrivia(g, alternative)
        rhs == [i \in DOMAIN kept |-> kept[i].name]
        trivia == {j \in DOMAIN alternative : Trivia(g, alternative[j])}
        before(j) == {i \in 1..(j - 1) : i \notin trivia}
        plain == [lhs |-> rule.lhs, rhs |-> rhs,
                  gaps |-> {Cardinality(before(j)) : j \in trivia}]
    IN  IF rule.tail /\ Len(rhs) >= 2 /\ Last(rhs) = rule.lhs
        THEN Rotated(plain) ELSE plain

ProperRules(g) ==
    Selected(g.rules, LAMBDA rule : ~(SkipsWhitespace(g) /\ rule.lhs \in WhitespaceHelpers(g)))

PrepareProductions(g) ==
    LET kept == ProperRules(g)
        of(rule) == [a \in DOMAIN rule.alts |-> Production(g, rule, rule.alts[a])]
        rows == FlattenSeq([r \in DOMAIN kept |-> of(kept[r])])
    IN  [id \in 0..Len(rows) |->
            IF id = 0 THEN [lhs |-> Augmented, rhs |-> <<Main>>, gaps |-> {}] ELSE rows[id]]

\* The members with a fail marker, by production.  The helper rules of the
\* normalizer are no fail sites.
MarkedMembers(g) ==
    LET kept == ProperRules(g)
        marks(rule, members) ==
            IF rule.tail THEN {} ELSE {i \in DOMAIN members : members[i].marked}
        of(rule) == [a \in DOMAIN rule.alts |-> marks(rule, WithoutTrivia(g, rule.alts[a]))]
    IN  <<{}>> \o FlattenSeq([r \in DOMAIN kept |-> of(kept[r])])

LeftSides(ps) == {ps[id].lhs : id \in DOMAIN ps}

\* What prepareProductions throws on.
Malformed(g) ==
    \/ ~\E rule \in Range(g.rules) : rule.lhs = Main /\ rule.alts # <<>>
    \/ \E rule \in Range(g.rules) : rule.lhs = Augmented
    \/ LET ps == PrepareProductions(g)
       IN  \E id \in DOMAIN ps : \E symbol \in Range(ps[id].rhs) :
              symbol = EndOfInput \/ symbol \notin LeftSides(ps) \cup Range(g.tokens)

-----------------------------------------------------------------------------
(* FIRST_k.  A window is a sequence of at most k tokens. *)

Truncate(window, k) == SubSeq(window, 1, IF Len(window) < k THEN Len(window) ELSE k)

Concatenate(left, right, k) == {Truncate(ab[1] \o ab[2], k) : ab \in left \X right}

FirstOfSymbol(first, symbol) ==
    IF symbol \in DOMAIN first THEN first[symbol] ELSE {<<symbol>>}

FirstOfString(first, k, symbols) ==
    FoldLeft(LAMBDA windows, symbol : Concatenate(windows, FirstOfSymbol(first, symbol), k),
             {<<>>}, symbols)

NoFirst(ps) == [lhs \in LeftSides(ps) |-> {}]

\* The production numbers in the order the loops of the code visit them.
InOrder(ps) == [i \in 1..Cardinality(DOMAIN ps) |-> i - 1]

\* A fault: only the first symbol of a right-hand side counts, nullable or not.
FirstSweepOfHeads(ps, k, first) ==
    LET head(id) == Selected(ps[id].rhs, LAMBDA symbol : symbol = Head(ps[id].rhs))
        visit(known, id) == [known EXCEPT ![ps[id].lhs] = @ \cup FirstOfString(known, k, head(id))]
    IN  FoldLeft(visit, first, InOrder(ps))

\* One round of the fixpoint loop of computeFirstK.
FirstSweep(ps, k, first) ==
    LET visit(known, id) == [known EXCEPT ![ps[id].lhs] = @ \cup FirstOfString(known, k, ps[id].rhs)]
    IN  FoldLeft(visit, first, InOrder(ps))

ComputeFirstK(ps, k) ==
    LET sweep[first \in [LeftSides(ps) -> SUBSET Seq(STRING)]] ==
            LET next == FirstSweep(ps, k, first)
            IN  IF next = first THEN first ELSE sweep[next]
    IN  sweep[NoFirst(ps)]

\* What the closure and the tables read of the grammar.
Analysis(ps, k, first) ==
    [productions |-> ps, k |-> k, first |-> first,
     order |-> FlattenSeq([i \in DOMAIN InOrder(ps) |->
                  [d \in 1..(Len(ps[i - 1].rhs) + 1) |-> <<i - 1, d - 1>>]])]

FirstOfSuffix(G, id, begin, trailing) ==
    LET rhs == G.productions[id].rhs
    IN  Concatenate(FirstOfString(G.first, G.k, SubSeq(rhs, begin + 1, Len(rhs))),
                    {trailing}, G.k)

-----------------------------------------------------------------------------
(* Item sets: closure, goto and the canonical collection. *)

AtEnd(G, core) == core[2] >= Len(G.productions[core[1]].rhs)
NextSymbol(G, core) == G.productions[core[1]].rhs[core[2] + 1]
ProductionsOf(G, lhs) == {id \in DOMAIN G.productions : G.productions[id].lhs = lhs}

Lookaheads(items, core) == {it[2] : it \in {x \in items.windows : x[1] = core}}
EmptyLookaheads(items) == {core \in items.cores : Lookaheads(items, core) = {}}

Both(left, right) ==
    [cores |-> left.cores \cup right.cores, windows |-> left.windows \cup right.windows]

\* The body of the loop of closureUncached for one item.
ClosureVisit(G, items, core) ==
    IF core \notin items.cores \/ AtEnd(G, core) THEN items
    ELSE LET children == ProductionsOf(G, NextSymbol(G, core)) \X {0}
             windows == UNION {FirstOfSuffix(G, core[1], core[2] + 1, window) :
                                  window \in Lookaheads(items, core)}
         IN  Both(items, [cores |-> children, windows |-> children \X windows])

\* A core added before the iterator is not visited in this sweep, one added
\* after it is; another sweep follows only if some lookahead set grew.
ClosureSweep(G, items) ==
    FoldLeft(LAMBDA acc, core : ClosureVisit(G, acc, core), items, G.order)

ItemSets(G) ==
    LET cores == Range(G.order)
    IN  [cores : SUBSET cores, windows : SUBSET (cores \X Seq(STRING))]

Closure(G, kernel) ==
    LET sweep[items \in ItemSets(G)] ==
            LET next == ClosureSweep(G, items)
            IN  IF next.windows = items.windows THEN next ELSE sweep[next]
    IN  sweep[kernel]

Kernel(G, items, symbol) ==
    LET moved == {core \in items.cores : ~AtEnd(G, core) /\ NextSymbol(G, core) = symbol}
        step(core) == <<core[1], core[2] + 1>>
    IN  [cores |-> {step(core) : core \in moved},
         windows |-> {<<step(x[1]), x[2]>> : x \in {y \in items.windows : y[1] \in moved}}]

NextSymbols(G, items) ==
    {NextSymbol(G, core) : core \in {c \in items.cores : ~AtEnd(G, c)}}

EndWindow(k) == [i \in 1..k |-> EndOfInput]

StartKernel(k) == [cores |-> {<<0, 0>>}, windows |-> {<<<<0, 0>>, EndWindow(k)>>}]

\* The vocabulary in name order: tokens are upper case, rules lower case.
Vocabulary(g) == g.tokens \o [r \in DOMAIN g.rules |-> g.rules[r].lhs]

\* The symbols some item of a state expects, in the order they are followed.
SymbolsAfter(g, G, items) == Selected(Vocabulary(g), LAMBDA s : s \in NextSymbols(G, items))

\* A collection is the sequence of the states found so far and the set of the
\* transitions [from, symbol, to]; state i is element i + 1.
AddTransition(collection, from, symbol, items) ==
    LET known == {i \in DOMAIN collection.states : collection.states[i] = items}
        to == IF known = {} THEN Len(collection.states)
                            ELSE (CHOOSE i \in known : TRUE) - 1
    IN  [states |-> IF known = {} THEN Append(collection.states, items)
                                  ELSE collection.states,
         moves |-> collection.moves \cup {[from |-> from, symbol |-> symbol, to |-> to]}]

\* The body of the breadth first loop of buildCanonical for one state.
ExpandState(g, G, collection, state) ==
    LET items == collection.states[state + 1]
    IN  FoldLeft(LAMBDA acc, symbol :
                    AddTransition(acc, state, symbol, Closure(G, Kernel(G, items, symbol))),
                 collection, SymbolsAfter(g, G, items))

\* The item sets a state can have: its lookaheads are of items it has, and made
\* of the symbols of the grammar.
StateSets(G) ==
    LET ps == G.productions
        symbols == {EndOfInput} \cup UNION {Range(ps[id].rhs) : id \in DOMAIN ps}
    IN  {items \in ItemSets(G) : \A x \in items.windows :
            x[1] \in items.cores /\ Len(x[2]) <= G.k /\ Range(x[2]) \subseteq symbols}

Collections(G) ==
    [states : Seq(StateSets(G)), moves : SUBSET [from : Nat, symbol : STRING, to : Nat]]

Canonical(g, G) ==
    LET expand[work \in Nat \X Collections(G)] ==
            LET state == work[1]
            IN  IF state >= Len(work[2].states) THEN work[2]
                ELSE expand[<<state + 1, ExpandState(g, G, work[2], state)>>]
    IN  expand[<<0, [states |-> <<Closure(G, StartKernel(G.k))>>, moves |-> {}]>>]

-----------------------------------------------------------------------------
(* LALR: states with the same cores are merged. *)

\* A fault: states are compared with their lookaheads, so none are merged.
UnmergedNumber(collection, state) == state

\* A fault: states are compared by their productions, not by their items.
NumberByProductions(collection, state) ==
    LET of(i) == {core[1] : core \in collection.states[i].cores}
        firsts == {i \in DOMAIN collection.states : \A j \in 1..(i - 1) : of(j) # of(i)}
        mine == CHOOSE i \in firsts : of(i) = of(state + 1)
    IN  Cardinality({i \in firsts : i < mine})

\* The merged number of every canonical state, in the order of discovery.
MergedNumber(collection, state) ==
    LET coresOf(i) == collection.states[i].cores
        firsts == {i \in DOMAIN collection.states :
                      \A j \in 1..(i - 1) : coresOf(j) # coresOf(i)}
        mine == CHOOSE i \in firsts : coresOf(i) = coresOf(state + 1)
    IN  Cardinality({i \in firsts : i < mine})

MergedMoves(collection) ==
    {[from |-> MergedNumber(collection, move.from), symbol |-> move.symbol,
      to |-> MergedNumber(collection, move.to)] : move \in collection.moves}

\* mergeLR0Cores throws a logic_error on two targets for one symbol.
InconsistentMerge(collection) ==
    \E m1, m2 \in MergedMoves(collection) :
        m1.from = m2.from /\ m1.symbol = m2.symbol /\ m1.to # m2.to

MergeLR0Cores(collection) ==
    LET number == [i \in DOMAIN collection.states |-> MergedNumber(collection, i - 1)]
        merged(n) ==
            LET parts == {collection.states[i] : i \in {j \in DOMAIN number : number[j] = n}}
            IN  [cores |-> UNION {part.cores : part \in parts},
                 windows |-> UNION {part.windows : part \in parts}]
        count == Cardinality(Range(number))
    IN  [states |-> [i \in 1..count |-> merged(i - 1)], moves |-> MergedMoves(collection)]

-----------------------------------------------------------------------------
(* The tables.  Reductions are numbered without the augmented production. *)

Shift(state) == [type |-> "shift", state |-> state]
Reduce(id) == [type |-> "reduce", state |-> id - 1]
AcceptAction == [type |-> "accept", state |-> 0]

\* A fault: the transition is looked up by its symbol alone.
GotoOfSymbol(collection, state, symbol) ==
    (CHOOSE m \in collection.moves : m.symbol = symbol).to

GotoOf(collection, state, symbol) ==
    (CHOOSE m \in collection.moves : m.from = state /\ m.symbol = symbol).to

\* proposalsForState: what every item of a state asks for.
Proposals(G, collection, state) ==
    LET items == collection.states[state + 1]
        shifts == {core \in items.cores :
                      ~AtEnd(G, core) /\ NextSymbol(G, core) \notin LeftSides(G.productions)}
        windowsAfter(core) ==
            UNION {Concatenate({<<NextSymbol(G, core)>>},
                               FirstOfSuffix(G, core[1], core[2] + 1, window), G.k) :
                      window \in Lookaheads(items, core)}
        ended == {core \in items.cores : AtEnd(G, core)}
    IN  (UNION {{[window |-> w, item |-> core,
                  action |-> Shift(GotoOf(collection, state, NextSymbol(G, core)))] :
                     w \in windowsAfter(core)} : core \in shifts})
        \cup
        {[window |-> x[2], item |-> x[1], action |-> Reduce(x[1][1])] :
            x \in {y \in items.windows : y[1] \in ended /\ y[1][1] # 0}}
        \cup
        {[window |-> x[2], item |-> x[1], action |-> AcceptAction] :
            x \in {y \in items.windows : y[1] \in ended /\ y[1][1] = 0 /\ y[2] = EndWindow(G.k)}}

Cell(state, window, rows) ==
    LET here == {p \in rows : p.window = window}
    IN  [state |-> state, window |-> window,
         actions |-> {p.action : p \in here},
         origins |-> {[action |-> p.action, item |-> p.item] : p \in here}]

\* buildTables, from the proposals of every state (rows[i] of state i - 1).
CellsOf(rows) ==
    UNION {{Cell(i - 1, window, rows[i]) : window \in {p.window : p \in rows[i]}} :
              i \in DOMAIN rows}

EntriesOf(rows) ==
    {[state |-> c.state, window |-> c.window, action |-> CHOOSE a \in c.actions : TRUE] :
        c \in {cell \in CellsOf(rows) : Cardinality(cell.actions) = 1}}

ConflictsOf(rows) == {cell \in CellsOf(rows) : Cardinality(cell.actions) > 1}

RowsOf(G, collection) ==
    [i \in DOMAIN collection.states |-> Proposals(G, collection, i - 1)]

-----------------------------------------------------------------------------
(* Resolution of conflicts with more lookahead, one depth at a time. *)

\* The places <<production, position>> of rules in right-hand sides, in order.
RulePlaces(ps) ==
    FlattenSeq([i \in DOMAIN InOrder(ps) |->
        Selected([d \in DOMAIN ps[i - 1].rhs |-> <<i - 1, d>>],
                  LAMBDA place : ps[place[1]].rhs[place[2]] \in LeftSides(ps))])

FollowSweep(ps, depth, first, follow) ==
    LET rhs(place) == ps[place[1]].rhs
        suffix(place) == SubSeq(rhs(place), place[2] + 1, Len(rhs(place)))
        visit(known, place) ==
            [known EXCEPT ![rhs(place)[place[2]]] = @ \cup
                Concatenate(FirstOfString(first, depth, suffix(place)), known[ps[place[1]].lhs], depth)]
    IN  FoldLeft(visit, follow, RulePlaces(ps))

Follow(ps, depth, first) ==
    LET sweep[follow \in [LeftSides(ps) -> SUBSET Seq(STRING)]] ==
            LET next == FollowSweep(ps, depth, first, follow)
            IN  IF next = follow THEN follow ELSE sweep[next]
    IN  sweep[[NoFirst(ps) EXCEPT ![Augmented] = {EndWindow(depth)}]]

\* The windows of this depth with which an origin of a conflict can go on.
Continuations(ps, depth, first, follow, conflict, origin) ==
    LET id == origin.item[1]
        rest == SubSeq(ps[id].rhs, origin.item[2] + 1, Len(ps[id].rhs))
        windows == IF origin.action.type = "shift"
                   THEN Concatenate(FirstOfString(first, depth, rest), follow[ps[id].lhs], depth)
                   ELSE follow[ps[id].lhs]
    IN  {w \in windows : Len(w) = depth /\ IsPrefix(conflict.window, w)}

\* The decisions for one conflict cell at one depth, {} if it stays open.
DecisionsAt(ps, depth, first, follow, conflict) ==
    LET proposals == UNION {{[window |-> w, action |-> origin.action] :
                        w \in Continuations(ps, depth, first, follow, conflict, origin)} :
                            origin \in conflict.origins}
        disjoint == \A p, q \in proposals : p.window = q.window => p.action = q.action
        complete == \A action \in conflict.actions : \E p \in proposals : p.action = action
    IN  IF disjoint /\ complete
        THEN {[state |-> conflict.state, window |-> p.window, action |-> p.action] :
                 p \in proposals}
        ELSE {}

\* The open conflicts decided at this depth: a function from cells to decisions.
Decided(ps, depth, first, follow, open) ==
    LET found == [c \in open |-> DecisionsAt(ps, depth, first, follow, c)]
    IN  [c \in {d \in open : found[d] # {}} |-> found[c]]

DecidedWith(ps, depth, first, open) ==
    Decided(ps, depth, first, WorkedOut(Follow(ps, depth, first)), open)

ResolveAt(ps, depth, open) ==
    DecidedWith(ps, depth, WorkedOut(ComputeFirstK(ps, depth)), open)

Unresolved(k, conflicts) == [open |-> conflicts, decisions |-> {}, k |-> k]

Extended(resolved, depth, found) ==
    IF DOMAIN found = {} THEN resolved
    ELSE [open |-> resolved.open \ DOMAIN found,
          decisions |-> resolved.decisions \cup UNION Range(found),
          k |-> depth]

ResolveConflicts(ps, k, maxLookahead, conflicts) ==
    LET after[depth \in k..maxLookahead] ==
            IF depth = k THEN Unresolved(k, conflicts)
            ELSE LET resolved == after[depth - 1]
                 IN  Extended(resolved, depth,
                              IF resolved.open = {} THEN <<>>
                              ELSE WorkedOut(ResolveAt(ps, depth, resolved.open)))
    IN  after[IF maxLookahead > k THEN maxLookahead ELSE k]

-----------------------------------------------------------------------------
(* The whole construction, without caches: what the emitter writes out.    *)

\* The first item of a state, in core order, that expects a marked member.
FailSites(marks, ps, collection) ==
    LET marked(i) == {c \in collection.states[i + 1].cores : c[2] + 1 \in marks[c[1] + 1]}
        first(cores) == CHOOSE c \in cores : \A d \in cores :
                            c[1] < d[1] \/ (c[1] = d[1] /\ c[2] <= d[2])
        expected(core) == ps[core[1]].rhs[core[2] + 1]
        sites == {i \in 0..(Len(collection.states) - 1) : marked(i) # {}}
        site(core) == [symbol |-> expected(core), dot |-> core[2],
                       isToken |-> expected(core) \notin LeftSides(ps)]
    IN  [i \in sites |-> site(first(marked(i)))]

Emit(g, ps, collection, entries, resolved) ==
    [productions |-> ps,
     items |-> [i \in 0..(Len(collection.states) - 1) |-> collection.states[i + 1].cores],
     goto |-> [pair \in {<<m.from, m.symbol>> : m \in collection.moves} |->
                 GotoOf(collection, pair[1], pair[2])],
     entries |-> entries, decisions |-> resolved.decisions, open |-> resolved.open,
     k |-> resolved.k, skipsSpace |-> SkipsWhitespace(g),
     failSites |-> FailSites(MarkedMembers(g), ps, collection)]

TablesOf(g, G, collection, rows, maxLookahead) ==
    Emit(g, G.productions, collection, EntriesOf(rows),
         ResolveConflicts(G.productions, G.k, maxLookahead, ConflictsOf(rows)))

BuildTables(g, G, collection, maxLookahead) ==
    TablesOf(g, G, collection, WorkedOut(RowsOf(G, collection)), maxLookahead)

CollectionOf(canonical, family) ==
    IF family = "LALR" THEN MergeLR0Cores(canonical) ELSE canonical

BuildStates(g, G, family, maxLookahead) ==
    BuildTables(g, G, WorkedOut(CollectionOf(WorkedOut(Canonical(g, G)), family)), maxLookahead)

Build(g, ps, family, k, maxLookahead) ==
    BuildStates(g, WorkedOut(Analysis(ps, k, ComputeFirstK(ps, k))), family, maxLookahead)

Compile(g, family, k, maxLookahead) ==
    WorkedOut(Build(g, WorkedOut(PrepareProductions(g)), family, k, maxLookahead))
=============================================================================
