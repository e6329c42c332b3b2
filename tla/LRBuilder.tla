----------------------------- MODULE LRBuilder -----------------------------
(***************************************************************************)
(* Incremental builds of LR tables: buildLR called again and again on a    *)
(* grammar that is edited in between, each build starting from the         *)
(* snapshot of closures, table rows and conflict decisions the last        *)
(* successful one saved.  A snapshot refers to productions by a structural *)
(* key and to states by their items, never by number.                      *)
(*                                                                         *)
(* A build is a sequence of steps: rounds of FIRST, the closure of one     *)
(* goto at a time, the LALR merge, one table row at a time, the resolution *)
(* of conflicts one depth at a time.                                       *)
(***************************************************************************)
EXTENDS LRTables

CONSTANTS
    Grammars,      \* the versions of the grammar, by name
    Requests,      \* the builds asked for: [grammar, family, auto, depth]
    FirstTokens,   \* the first tokens of the strings of every rule, by grammar:
                   \* none for a rule that no string has
    EntryLimit,    \* the FIRST and FOLLOW entries a depth may have (200000)
    MaxBuilds      \* how many builds there are

ASSUME BuildsAssumption == MaxBuilds \in Nat \ {0} /\ EntryLimit \in Nat

\* A depth of 0 is an invalid argument of resolveConflicts.
ASSUME RequestsAssumption ==
    /\ Requests \subseteq [grammar : DOMAIN Grammars, family : {"LR", "LALR"}, auto : BOOLEAN,
                           depth : Nat \ {0}]
    /\ \A name \in DOMAIN Grammars : IsGrammar(Grammars[name])

\* The code keeps names in ordered sets: one order, whatever the grammar.
ASSUME OrderAssumption ==
    \A id1, id2 \in DOMAIN Grammars :
        LET one == Vocabulary(Grammars[id1])
            other == Vocabulary(Grammars[id2])
        IN  \A i, j \in DOMAIN one : \A m, n \in DOMAIN other :
                i < j /\ one[i] = other[m] /\ one[j] = other[n] => m < n

K == 1    \* buildLR always asks for one token of lookahead

VARIABLES
    request,       \* the build under way
    snapshot,      \* what the last successful build saved
    cached,        \* what this build loaded of it
    analysis,      \* productions and FIRST sets
    current,       \* the closures of this build
    automaton,    \* the states found so far and their transitions
    awaiting,       \* the symbols of the state being expanded still to follow
    expanded,      \* how many states have been expanded
    table,          \* the proposals of the states done so far
    currentRows,   \* the rows of this build
    verdict,      \* the conflict cells left open and decided
    reach,         \* the lookahead with which conflicts are being resolved
    built,         \* cache_stats: closures and rows that were not reused
    builds,        \* how many builds have begun
    phase, failure

tablesVars == <<automaton, awaiting, expanded, table, currentRows, verdict, reach>>
vars == <<request, snapshot, cached, analysis, current, tablesVars, built, builds, phase, failure>>

NoCache == [kind |-> "none", closures |-> <<>>, rows |-> <<>>, decisions |-> {}, of |-> "none"]
NoStates == [states |-> <<>>, moves |-> {}]
NoGrammar == [productions |-> <<>>, k |-> K, first |-> <<>>, order |-> <<>>]
NoConflicts == Unresolved(K, {})

Source == Grammars[request.grammar]
Productions == analysis.productions

Init ==
    /\ request \in Requests
    /\ snapshot = NoCache /\ cached = NoCache
    /\ analysis = NoGrammar /\ current = <<>>
    /\ automaton = NoStates /\ awaiting = <<>> /\ expanded = 0
    /\ table = <<>> /\ currentRows = <<>> /\ verdict = NoConflicts /\ reach = K
    /\ built = [closures |-> 0, rows |-> 0]
    /\ builds = 1
    /\ phase = "load" /\ failure = "none"

Fail(reason) == phase' = "failed" /\ failure' = reason
Proceed(to) == phase' = to /\ UNCHANGED failure

-----------------------------------------------------------------------------
(* What a snapshot calls productions, items and actions. *)

ProductionKey(id) ==
    LET named(i) == [lhs |-> Productions[i].lhs, rhs |-> Productions[i].rhs, gaps |-> Productions[i].gaps]
    IN  [production |-> named(id), occurrence |-> Cardinality({i \in 0..(id - 1) : named(i) = named(id)})]

Keys == {ProductionKey(id) : id \in DOMAIN Productions}
ProductionId(key) == CHOOSE id \in DOMAIN Productions : ProductionKey(id) = key

EncodeItems(items) ==
    [cores |-> {<<ProductionKey(c[1]), c[2]>> : c \in items.cores},
     windows |-> {<<<<ProductionKey(x[1][1]), x[1][2]>>, x[2]>> : x \in items.windows}]

DecodeItems(entry) ==
    [cores |-> {<<ProductionId(c[1]), c[2]>> : c \in entry.cores},
     windows |-> {<<<<ProductionId(x[1][1]), x[1][2]>>, x[2]>> : x \in entry.windows}]

\* decodeItems throws on unknown productions and on empty sets of lookaheads.
Decodable(entry) ==
    /\ \A c \in entry.cores : c[1] \in Keys
    /\ EmptyLookaheads(entry) = {}

\* The items reached from these by expanding the symbol after the dot.
Expansion(cores) ==
    LET grow[known \in SUBSET Range(analysis.order)] ==
            LET next == known \cup UNION {ProductionsOf(analysis, NextSymbol(analysis, c)) \X {0} :
                                             c \in {d \in known : ~AtEnd(analysis, d)}}
            IN  IF next = known THEN known ELSE grow[next]
    IN  grow[cores]

\* The items closure reads: those it starts from and those it adds.
Visited(items) == {c \in Expansion(items.cores) : ~AtEnd(analysis, c)}

StampOf(visited) ==
    LET names == LeftSides(Productions)
        suffix(c) == LET rhs == Productions[c[1]].rhs IN Range(SubSeq(rhs, c[2] + 2, Len(rhs)))
    IN  [alternatives |-> [name \in {NextSymbol(analysis, c) : c \in visited} \cap names |->
                             {ProductionKey(id) : id \in ProductionsOf(analysis, name)}],
         first |-> [name \in (UNION {suffix(c) : c \in visited}) \cap names |-> analysis.first[name]]]

\* A fault: only the items the closure starts from are stamped.
KernelStamp(items) == StampOf({c \in items.cores : ~AtEnd(analysis, c)})

DependencyStamp(items) == StampOf(WorkedOut(Visited(items)))

ClosureKey(items) == [items |-> EncodeItems(items), stamp |-> DependencyStamp(items)]

StateKey(state) == EncodeItems(automaton.states[state + 1])
StateId(key) == (CHOOSE i \in DOMAIN automaton.states : StateKey(i - 1) = key) - 1
StateKeys == {StateKey(i - 1) : i \in DOMAIN automaton.states}

EncodeAction(action) ==
    [type |-> action.type,
     target |-> CASE action.type = "shift" -> StateKey(action.state)
                  [] action.type = "reduce" -> ProductionKey(action.state + 1)
                  [] OTHER -> [none |-> TRUE]]

DecodeAction(action) ==
    CASE action.type = "shift" -> Shift(StateId(action.target))
      [] action.type = "reduce" -> Reduce(ProductionId(action.target))
      [] OTHER -> AcceptAction

-----------------------------------------------------------------------------
(* loadCache, prepareProductions, computeFirstK. *)

\* A snapshot of another parser family is a cold cache.
Load ==
    /\ phase = "load"
    /\ cached' = IF snapshot.kind = request.family THEN snapshot ELSE NoCache
    /\ current' = <<>> /\ automaton' = NoStates /\ awaiting' = <<>> /\ expanded' = 0
    /\ table' = <<>> /\ currentRows' = <<>> /\ verdict' = NoConflicts /\ reach' = K
    /\ built' = [closures |-> 0, rows |-> 0]
    /\ IF Malformed(Source)
       THEN Fail("malformed grammar") /\ UNCHANGED analysis
       ELSE /\ \E ps \in {PrepareProductions(Source)} : analysis' = Analysis(ps, K, NoFirst(ps))
            /\ Proceed("first")
    /\ UNCHANGED <<request, snapshot, builds>>

FirstRound ==
    /\ phase = "first"
    /\ \E swept \in {FirstSweep(Productions, K, analysis.first)} :
          /\ analysis' = [analysis EXCEPT !.first = swept]
          /\ IF swept = analysis.first THEN Proceed("start") ELSE UNCHANGED <<phase, failure>>
    /\ UNCHANGED <<request, snapshot, cached, current, tablesVars, built, builds>>

-----------------------------------------------------------------------------
(* buildCanonical. *)

\* A map with one more entry, or with a new value for a key it has.
Stored(entries, key, value) ==
    [k \in DOMAIN entries \cup {key} |-> IF k = key THEN value ELSE entries[k]]

\* Where the closure of a kernel comes from: this traversal, the snapshot, or
\* the computation.  An entry of the snapshot that cannot be decoded counts as
\* missing; one of the traversal makes the build throw.
Look(kernel, key) ==
    IF key \in DOMAIN current THEN [from |-> "traversal", entry |-> current[key]]
    ELSE IF key \in DOMAIN cached.closures /\ Decodable(cached.closures[key])
    THEN [from |-> "snapshot", entry |-> cached.closures[key]]
    ELSE [from |-> "computed", entry |-> EncodeItems(Closure(analysis, kernel))]

Unusable(found) == found.from = "traversal" /\ ~Decodable(found.entry)

GiveUp(found) ==
    /\ Unusable(found)
    /\ Fail("empty cached lookaheads")
    /\ UNCHANGED <<current, built, automaton, awaiting, expanded>>

Remember(key, found) ==
    /\ ~Unusable(found)
    /\ current' = Stored(current, key, found.entry)
    /\ built' = [built EXCEPT !.closures = @ + (IF found.from = "computed" THEN 1 ELSE 0)]

FirstState ==
    /\ phase = "start"
    /\ \E kernel \in {StartKernel(K)} : \E key \in {ClosureKey(kernel)} : \E found \in {Look(kernel, key)} :
          \/ GiveUp(found)
          \/ /\ Remember(key, found)
             /\ automaton' = [states |-> <<DecodeItems(found.entry)>>, moves |-> {}]
             /\ Proceed("states") /\ UNCHANGED <<awaiting, expanded>>
    /\ UNCHANGED <<request, snapshot, cached, analysis, table, currentRows, verdict, reach, builds>>

\* The breadth first loop takes up the next state.
NextState ==
    /\ phase = "states" /\ awaiting = <<>>
    /\ IF expanded = Len(automaton.states)
       THEN Proceed("merge") /\ UNCHANGED <<awaiting, expanded>>
       ELSE /\ awaiting' = SymbolsAfter(Source, analysis, automaton.states[expanded + 1])
            /\ expanded' = expanded + 1
            /\ UNCHANGED <<phase, failure>>
    /\ UNCHANGED <<request, snapshot, cached, analysis, current, automaton, table, currentRows,
                   verdict, reach, built, builds>>

GoTo ==
    /\ phase = "states" /\ awaiting # <<>>
    /\ \E kernel \in {Kernel(analysis, automaton.states[expanded], Head(awaiting))} :
       \E key \in {ClosureKey(kernel)} : \E found \in {Look(kernel, key)} :
          \/ GiveUp(found)
          \/ /\ Remember(key, found)
             /\ \E items \in {DecodeItems(found.entry)} :
                   automaton' = AddTransition(automaton, expanded - 1, Head(awaiting), items)
             /\ awaiting' = Tail(awaiting)
             /\ UNCHANGED <<expanded, phase, failure>>
    /\ UNCHANGED <<request, snapshot, cached, analysis, table, currentRows, verdict, reach, builds>>

MergeStates ==
    /\ phase = "merge"
    /\ IF request.family = "LALR" /\ InconsistentMerge(automaton)
       THEN Fail("inconsistent merge") /\ UNCHANGED automaton
       ELSE /\ automaton' = CollectionOf(automaton, request.family)
            /\ Proceed("table")
    /\ UNCHANGED <<request, snapshot, cached, analysis, current, awaiting, expanded, table, currentRows,
                   verdict, reach, built, builds>>

-----------------------------------------------------------------------------
(* buildTables. *)

RowKey(state) ==
    [state |-> StateKey(state), stamp |-> DependencyStamp(automaton.states[state + 1]),
     moves |-> {<<move.symbol, StateKey(move.to)>> :
                   move \in {m \in automaton.moves : m.from = state}}]

EncodeRow(proposals) ==
    {[window |-> p.window, action |-> EncodeAction(p.action),
      item |-> <<ProductionKey(p.item[1]), p.item[2]>>] : p \in proposals}

DecodeRow(entry) ==
    {[window |-> p.window, action |-> DecodeAction(p.action),
      item |-> <<ProductionId(p.item[1]), p.item[2]>>] : p \in entry}

RowDecodable(state, entry) ==
    \A p \in entry :
        /\ p.item[1] \in Keys
        /\ <<ProductionId(p.item[1]), p.item[2]>> \in automaton.states[state + 1].cores
        /\ p.action.type = "shift" => p.action.target \in StateKeys
        /\ p.action.type = "reduce" => p.action.target \in Keys

BuildRow ==
    /\ phase = "table" /\ Len(table) < Len(automaton.states)
    /\ \E key \in {RowKey(Len(table))} :
          IF key \in DOMAIN cached.rows /\ RowDecodable(Len(table), cached.rows[key])
          THEN /\ table' = Append(table, DecodeRow(cached.rows[key]))
               /\ currentRows' = Stored(currentRows, key, cached.rows[key])
               /\ UNCHANGED built
          ELSE /\ table' = Append(table, Proposals(analysis, automaton, Len(table)))
               /\ currentRows' = Stored(currentRows, key, EncodeRow(Proposals(analysis, automaton, Len(table))))
               /\ built' = [built EXCEPT !.rows = @ + 1]
    /\ UNCHANGED <<request, snapshot, cached, analysis, current, automaton, awaiting, expanded,
                   verdict, reach, builds, phase, failure>>

RowsDone ==
    /\ phase = "table" /\ Len(table) = Len(automaton.states)
    /\ verdict' = Unresolved(K, ConflictsOf(table))
    /\ Proceed(IF request.auto THEN "restore" ELSE "save")
    /\ UNCHANGED <<request, snapshot, cached, analysis, current, automaton, awaiting, expanded, table,
                   currentRows, reach, built, builds>>

-----------------------------------------------------------------------------
(* resolveConflicts. *)

\* A fault: decisions are kept for the grammar, whatever depth is asked for.
ResolutionKeyOfAnyDepth ==
    [skips |-> SkipsWhitespace(Source),
     productions |-> [i \in 1..Cardinality(DOMAIN Productions) |-> ProductionKey(i - 1)]]

ResolutionKey ==
    [max |-> request.depth, skips |-> SkipsWhitespace(Source),
     productions |-> [i \in 1..Cardinality(DOMAIN Productions) |-> ProductionKey(i - 1)]]

CellId(cell) == [state |-> StateKey(cell.state), window |-> cell.window]

EncodeDecisions ==
    {[key |-> ResolutionKey, k |-> verdict.k, open |-> {CellId(c) : c \in verdict.open},
      decisions |-> {[state |-> StateKey(d.state), window |-> d.window,
                      action |-> EncodeAction(d.action)] : d \in verdict.decisions}]}

DecodeDecisions(saved) ==
    [k |-> saved.k,
     open |-> {c \in verdict.open : CellId(c) \in saved.open},
     decisions |-> {[state |-> StateId(d.state), window |-> d.window,
                     action |-> DecodeAction(d.action)] : d \in saved.decisions}]

\* Decisions are for an identical grammar and depth, or are made again.
Restore ==
    /\ phase = "restore"
    /\ \E usable \in {{saved \in cached.decisions : saved.key = ResolutionKey}} :
          IF usable = {}
          THEN Proceed("resolve") /\ reach' = K /\ UNCHANGED verdict
          ELSE /\ \E saved \in usable : verdict' = DecodeDecisions(saved)
               /\ Proceed("save") /\ UNCHANGED reach
    /\ UNCHANGED <<request, snapshot, cached, analysis, current, automaton, awaiting, expanded, table,
                   currentRows, built, builds>>

Sizes(ps, first, follow) ==
    FoldSet(LAMBDA name, sum : sum + Cardinality(first[name]) + Cardinality(follow[name]),
            0, LeftSides(ps))

EntriesAt(ps, n, first) == Sizes(ps, first, WorkedOut(Follow(ps, n, first)))

\* One more token of lookahead, unless every cell is decided or the budget is gone.
ResolveDepth ==
    /\ phase = "resolve"
    /\ \E first \in {ComputeFirstK(Productions, reach + 1)} :
          IF verdict.open = {} \/ reach >= request.depth \/ EntriesAt(Productions, reach + 1, first) > EntryLimit
          THEN Proceed("save") /\ UNCHANGED <<verdict, reach>>
          ELSE /\ \E found \in {DecidedWith(Productions, reach + 1, first, verdict.open)} :
                    verdict' = Extended(verdict, reach + 1, found)
               /\ reach' = reach + 1
               /\ UNCHANGED <<phase, failure>>
    /\ UNCHANGED <<request, snapshot, cached, analysis, current, automaton, awaiting, expanded, table,
                   currentRows, built, builds>>

-----------------------------------------------------------------------------
(* saveCache, and the next build. *)

\* Without conflict resolution the decisions of the last snapshot stay in it.
SnapshotWith(closures, rows) ==
    [kind |-> request.family, closures |-> closures, rows |-> rows,
     decisions |-> IF request.auto THEN EncodeDecisions ELSE cached.decisions,
     of |-> request.grammar]

\* A fault: the rows of the last build are saved again.
SaveOldRows == SnapshotWith(current, cached.rows)

\* A fault: what the last build left is kept for ever.
SaveEverything == SnapshotWith(current @@ cached.closures, currentRows @@ cached.rows)

SaveCache == SnapshotWith(current, currentRows)

Save ==
    /\ phase = "save"
    /\ snapshot' = SaveCache
    /\ Proceed("done")
    /\ UNCHANGED <<request, cached, analysis, current, tablesVars, built, builds>>

\* The grammar or the settings are edited and the tables built again.  A build
\* that failed has left the snapshot as it was.
Rebuild ==
    /\ phase \in {"done", "failed"} /\ builds < MaxBuilds
    /\ request' \in Requests
    /\ builds' = builds + 1
    /\ phase' = "load" /\ failure' = "none"
    /\ UNCHANGED <<snapshot, cached, analysis, current, tablesVars, built>>

Step ==
    \/ Load \/ FirstRound \/ FirstState \/ NextState \/ GoTo \/ MergeStates
    \/ BuildRow \/ RowsDone \/ Restore \/ ResolveDepth \/ Save

Done == phase \in {"done", "failed"} /\ builds = MaxBuilds /\ UNCHANGED vars

Next == Step \/ Rebuild \/ Done

Spec == Init /\ [][Next]_vars

-----------------------------------------------------------------------------
(* The tables of every request, built without a snapshot. *)

\* The deepest lookahead whose sets stay within the limit.
Reached(ps, max) ==
    LET within(n) == n = K \/ ~(EntriesAt(ps, n, ComputeFirstK(ps, n)) > EntryLimit)
    IN  CHOOSE n \in K..max : (\A m \in K..n : within(m)) /\ (n = max \/ ~within(n + 1))

ColdTables(asked) ==
    LET g == Grammars[asked.grammar]
    IN  Compile(g, asked.family, K,
                IF asked.auto THEN Reached(PrepareProductions(g), asked.depth) ELSE K)

Fresh ==
    WorkedOut([asked \in {r \in Requests : ~Malformed(Grammars[r.grammar])} |-> ColdTables(asked)])

-----------------------------------------------------------------------------
(* Properties. *)

Productive == \A windows \in Range(FirstTokens[request.grammar]) : windows # {}

\* The shape of the state.  (Load, Remember, BuildRow, Save.)
TypeOK ==
    /\ request \in Requests /\ builds \in 1..MaxBuilds
    /\ phase \in {"load", "first", "start", "states", "merge", "table", "restore", "resolve",
                  "save", "done", "failed"}
    /\ (phase = "failed") <=> (failure # "none")
    /\ snapshot.kind \in {"none", "LR", "LALR"}
    /\ phase = "states" => expanded <= Len(automaton.states)
    /\ Len(table) <= Len(automaton.states)
    /\ \A move \in automaton.moves :
          move.from < Len(automaton.states) /\ move.to < Len(automaton.states)
    /\ built.closures <= Cardinality(DOMAIN current) /\ built.rows <= Len(table)
    /\ phase # "load" =>
          /\ cached.kind \in {"none", request.family}
          /\ verdict.k \in K..(IF request.auto THEN request.depth ELSE K)

\* Whatever was built before, edited or failed in between, a build makes the
\* tables that a build without any snapshot makes: the promise of the cache in
\* lib/algorithm/README.md.
WarmIsCold ==
    phase = "done" =>
        Emit(Source, Productions, automaton, EntriesOf(table), verdict) = Fresh[request]

\* computeFirstK ends with exactly the tokens with which the strings of a rule
\* begin.
FirstIsExact ==
    phase = "start" =>
        \A name \in LeftSides(Productions) \ {Augmented} :
            analysis.first[name] = FirstTokens[request.grammar][name]

\* The LR(0) states of the grammar, found without any lookahead.
AfterSymbol(cores, symbol) ==
    {<<c[1], c[2] + 1>> :
        c \in {d \in cores : ~AtEnd(analysis, d) /\ NextSymbol(analysis, d) = symbol}}

StatesAfter(cores) ==
    {Expansion(AfterSymbol(cores, NextSymbol(analysis, c))) : c \in {d \in cores : ~AtEnd(analysis, d)}}

LR0States ==
    LET grow[found \in SUBSET SUBSET Range(analysis.order)] ==
            LET next == found \cup UNION {StatesAfter(cores) : cores \in found}
            IN  IF next = found THEN found ELSE grow[next]
    IN  grow[{Expansion({<<0, 0>>})}]

\* A LALR build has one state for every LR(0) state, with its transitions,
\* and an LR build at least one.  (mergeLR0Cores, buildCanonical.)
StatesAreTheLR0States ==
    (phase = "table" /\ table = <<>>) =>
        /\ {state.cores : state \in Range(automaton.states)} = LR0States
        /\ request.family = "LALR" => Len(automaton.states) = Cardinality(LR0States)
        /\ \A i \in DOMAIN automaton.states :
              {automaton.states[move.to + 1].cores : move \in {m \in automaton.moves : m.from = i - 1}}
                  = StatesAfter(automaton.states[i].cores)

\* Building again what the snapshot was made of reads every closure and every
\* row from it, however the builds before it went (tests/LRCache.cpp,
\* roundTrip). A rule without strings may leave a closure with items without
\* lookaheads, which decodeItems refuses: such a closure is built every time.
UnchangedBuildsNothing ==
    (phase = "done" /\ cached.kind # "none" /\ cached.of = request.grammar /\ Productive) =>
        built = [closures |-> 0, rows |-> 0]

\* A snapshot holds the closures and rows of the states of its own build and
\* nothing of the builds before it: it does not grow with the number of edits
\* ("Only entries visited by the current build are retained",
\* lib/algorithm/README.md).
SnapshotIsOfThisBuild ==
    phase = "done" =>
        /\ {entry.cores : entry \in Range(snapshot.closures)} =
               {StateKey(i - 1).cores : i \in DOMAIN automaton.states}
        /\ Cardinality(DOMAIN snapshot.rows) = Len(automaton.states)

\* The tables of every build have what the drivers take for granted of them,
\* whatever edits came before: the assumption under which NoTableFault is
\* proved of lr_parse, and of the conflict cells of the generalized driver too.
TablesAreCoherent ==
    phase = "done" =>
        LET tables == Emit(Source, Productions, automaton, EntriesOf(table), verdict)
        IN  Gen!Coherent(tables) /\ Gen!OpenCellsSound(tables)

\* A build fails only on a grammar that is malformed or has a rule no string
\* derives; no edit history makes a good grammar fail.
GoodGrammarsBuild ==
    (phase = "failed" /\ ~Malformed(Source)) => ~Productive

\* The traversal does not throw over its own closures:
\* "Repeated kernels in the same traversal have identical closures too"
\* (lib/algorithm/LR/Cache.cpp:188).
RepeatedKernelsAreFound == failure # "empty cached lookaheads"

\* mergeLR0Cores treats two targets of one symbol as an error that cannot
\* happen, a logic_error.
MergesAreConsistent == failure # "inconsistent merge"
=============================================================================
