-------------------------- MODULE LRBuilderProofs --------------------------
(***************************************************************************)
(* Proofs about incremental builds, for any versions of a grammar that     *)
(* RequestsAssumption allows, any requests and any number of builds.       *)
(***************************************************************************)
EXTENDS LRBuilder, LRTablesProofs

-----------------------------------------------------------------------------
(* The shape of the state. *)

PhasesOK ==
    /\ request \in Requests /\ builds \in 1..MaxBuilds
    /\ phase \in {"load", "first", "start", "states", "merge", "table", "restore", "resolve",
                  "save", "done", "failed"}
    /\ (phase = "failed") <=> (failure # "none")

\* An unfinished traversal is inside the states found so far.
StatesOK ==
    /\ IsSequence(automaton.states) /\ MovesWithin(automaton)
    /\ expanded \in Nat
    /\ phase \in {"first", "start"} => awaiting = <<>> /\ expanded = 0
    /\ phase = "states" => expanded <= Len(automaton.states) /\ (awaiting # <<>> => expanded >= 1)

TableOK ==
    /\ IsSequence(table) /\ Len(table) <= Len(automaton.states)
    /\ phase \in {"first", "start", "states", "merge"} => table = <<>>

\* A closure that was not reused is one more that this build knows.
CountsOK ==
    /\ built \in [closures : Nat, rows : Nat]
    /\ IsFiniteSet(DOMAIN current) /\ built.closures <= Cardinality(DOMAIN current)
    /\ built.rows <= Len(table)

\* Decisions are saved with the depth they were asked for, and look no further.
Shallow(decisions) == \A saved \in decisions : saved.k \in K..saved.key.max

DecisionsOK ==
    /\ snapshot.kind \in {"none", "LR", "LALR"}
    /\ Shallow(snapshot.decisions) /\ Shallow(cached.decisions)
    /\ reach \in Nat /\ reach >= K
    /\ phase \in {"restore", "resolve"} => request.auto
    /\ phase # "load" => cached.kind \in {"none", request.family}
    /\ phase # "load" => verdict.k \in K..(IF request.auto THEN request.depth ELSE K)

Shape == PhasesOK /\ StatesOK /\ TableOK /\ CountsOK /\ DecisionsOK

LEMMA ShapeIsTypeOK == Shape => TypeOK
<1> SUFFICES ASSUME Shape PROVE TypeOK
  OBVIOUS
<1>1. PICK S : automaton.states \in Seq(S)
  BY DEF Shape, StatesOK, IsSequence
<1>2. \A move \in automaton.moves :
          move.from < Len(automaton.states) /\ move.to < Len(automaton.states)
  <2>1. Len(automaton.states) \in Nat
    BY <1>1
  <2> QED BY <2>1 DEF Shape, StatesOK, MovesWithin
<1> QED BY <1>2 DEF Shape, PhasesOK, StatesOK, TableOK, CountsOK, DecisionsOK, TypeOK

LEMMA ARequest ==
    ASSUME NEW r \in Requests
    PROVE  r.family \in {"LR", "LALR"} /\ r.depth \in Nat \ {0} /\ r.grammar \in DOMAIN Grammars
BY RequestsAssumption

LEMMA ShapeInit == Init => Shape
<1> SUFFICES ASSUME Init PROVE Shape
  OBVIOUS
<1>1. builds \in 1..MaxBuilds
  BY BuildsAssumption DEF Init
<1>2. PhasesOK
  BY <1>1 DEF Init, PhasesOK
<1>3. <<>> \in Seq({}) /\ Len(<<>>) = 0
  OBVIOUS
<1>4. StatesOK
  BY <1>3 DEF Init, StatesOK, NoStates, IsSequence, MovesWithin
<1>5. TableOK
  BY <1>3 DEF Init, TableOK, NoStates, IsSequence
<1>6. IsFiniteSet(DOMAIN <<>>) /\ Cardinality(DOMAIN <<>>) = 0
  <2>1. DOMAIN <<>> = {}
    OBVIOUS
  <2> QED BY <2>1, FS_EmptySet
<1>7. CountsOK
  BY <1>3, <1>6 DEF Init, CountsOK
<1>8. DecisionsOK
  BY DEF Init, DecisionsOK, NoCache, K, Shallow
<1> QED BY <1>2, <1>4, <1>5, <1>7, <1>8 DEF Shape

\* One more closure, or one that was known.
LEMMA RememberCounts ==
    ASSUME CountsOK, NEW kernel, NEW key, Remember(key, Look(kernel, key))
    PROVE  /\ built' \in [closures : Nat, rows : Nat] /\ built'.rows = built.rows
           /\ IsFiniteSet(DOMAIN current') /\ built'.closures <= Cardinality(DOMAIN current')
<1> DEFINE found == Look(kernel, key)
           more == IF found.from = "computed" THEN 1 ELSE 0
<1>1. DOMAIN current' = DOMAIN current \cup {key}
  BY DEF Remember, Stored
<1>2. IsFiniteSet(DOMAIN current') /\ Cardinality(DOMAIN current') =
        IF key \in DOMAIN current THEN Cardinality(DOMAIN current) ELSE Cardinality(DOMAIN current) + 1
  BY <1>1, FS_AddElement DEF CountsOK
<1>3. found.from = "computed" => key \notin DOMAIN current
  BY DEF Look
<1>4. built' = [built EXCEPT !.closures = @ + more] /\ more \in {0, 1}
  BY DEF Remember
<1>5. Cardinality(DOMAIN current) \in Nat
  BY FS_CardinalityType DEF CountsOK
<1> HIDE DEF found
<1>6. built'.closures = built.closures + more /\ built'.rows = built.rows /\ built' \in [closures : Nat, rows : Nat]
  BY <1>4 DEF CountsOK
<1> QED BY <1>2, <1>3, <1>5, <1>6 DEF CountsOK

LEMMA ShapeNext == Shape /\ [Next]_vars => Shape'
<1> SUFFICES ASSUME Shape, [Next]_vars PROVE Shape'
  OBVIOUS
<1> USE DEF Shape
<1>0. request \in Requests /\ request.family \in {"LR", "LALR"} /\ request.depth \in Nat \ {0}
  BY ARequest DEF PhasesOK
<1>1. CASE Load
  <2>1. PhasesOK'
    BY <1>1, Zenon DEF Load, PhasesOK, Fail, Proceed
  <2>2. /\ <<>> \in Seq({}) /\ Len(<<>>) = 0 /\ DOMAIN <<>> = {}
        /\ automaton' = NoStates /\ table' = <<>> /\ current' = <<>>
    <3>1. automaton' = NoStates /\ table' = <<>> /\ current' = <<>>
      BY <1>1, Zenon DEF Load
    <3>2. <<>> \in Seq({}) /\ Len(<<>>) = 0 /\ DOMAIN <<>> = {}
      OBVIOUS
    <3> QED BY <3>1, <3>2
  <2>3. StatesOK'
    <3>1. expanded' = 0 /\ awaiting' = <<>> /\ phase' # "states"
      BY <1>1, Zenon DEF Load, Fail, Proceed
    <3> QED BY <2>2, <3>1 DEF StatesOK, NoStates, IsSequence, MovesWithin
  <2>4. TableOK'
    BY <2>2 DEF TableOK, NoStates, IsSequence
  <2>5. CountsOK'
    <3>1. built' = [closures |-> 0, rows |-> 0]
      BY <1>1, Zenon DEF Load
    <3> QED BY <2>2, <3>1, FS_EmptySet DEF CountsOK
  <2>6. DecisionsOK'
    <3>1. /\ verdict' = NoConflicts /\ reach' = K /\ phase' \notin {"restore", "resolve"}
          /\ UNCHANGED <<request, snapshot>>
      BY <1>1, Zenon DEF Load, Fail, Proceed
    <3>2. Shallow(cached'.decisions) /\ cached'.kind \in {"none", request.family}
      BY <1>1 DEF Load, NoCache, Shallow, DecisionsOK
    <3>3. verdict'.k = K
      BY <3>1 DEF NoConflicts, Unresolved
    <3> QED BY <3>1, <3>2, <3>3, <1>0 DEF DecisionsOK, K
  <2> QED BY <2>1, <2>3, <2>4, <2>5, <2>6
<1>2. CASE FirstRound
  <2>1. /\ phase = "first" /\ phase' \in {"first", "start"} /\ failure' = failure
        /\ UNCHANGED <<request, snapshot, cached, current, tablesVars, built, builds>>
    BY <1>2 DEF FirstRound, Proceed
  <2> QED BY <2>1 DEF PhasesOK, StatesOK, TableOK, CountsOK, DecisionsOK, tablesVars
<1>3. CASE FirstState
  <2>1. /\ phase = "start"
        /\ UNCHANGED <<request, snapshot, cached, analysis, table, currentRows, verdict, reach, builds>>
    BY <1>3 DEF FirstState
  <2>2. PICK kernel, key : \/ GiveUp(Look(kernel, key))
                           \/ /\ Remember(key, Look(kernel, key))
                              /\ automaton' = [states |-> <<DecodeItems(Look(kernel, key).entry)>>, moves |-> {}]
                              /\ Proceed("states") /\ UNCHANGED <<awaiting, expanded>>
    BY <1>3 DEF FirstState
  <2>3. CASE GiveUp(Look(kernel, key))
    <3>1. /\ phase' = "failed" /\ failure' # "none"
          /\ UNCHANGED <<current, built, automaton, awaiting, expanded>>
      BY <2>3, Zenon DEF GiveUp, Fail
    <3> QED BY <2>1, <3>1 DEF PhasesOK, StatesOK, TableOK, CountsOK, DecisionsOK
  <2>4. CASE /\ Remember(key, Look(kernel, key))
             /\ automaton' = [states |-> <<DecodeItems(Look(kernel, key).entry)>>, moves |-> {}]
             /\ Proceed("states") /\ UNCHANGED <<awaiting, expanded>>
    <3>1. phase' = "states" /\ failure' = failure
      BY <2>4 DEF Proceed
    <3>2. automaton'.moves = {} /\ Len(automaton'.states) = 1 /\ IsSequence(automaton'.states)
      <4> DEFINE it == DecodeItems(Look(kernel, key).entry)
      <4>1. automaton' = [states |-> <<it>>, moves |-> {}]
        BY <2>4
      <4> HIDE DEF it
      <4>2. <<it>> \in Seq({it})
        OBVIOUS
      <4> QED BY <4>1, <4>2 DEF IsSequence
    <3>3. PhasesOK'
      BY <2>1, <3>1 DEF PhasesOK
    <3>4. StatesOK'
      BY <2>1, <2>4, <3>1, <3>2 DEF StatesOK, MovesWithin
    <3>5. TableOK'
      <4>1. table = <<>> /\ Len(<<>>) = 0
        BY <2>1 DEF TableOK
      <4> QED BY <2>1, <3>2, <4>1 DEF TableOK
    <3>6. CountsOK'
      BY <2>1, <2>4, RememberCounts DEF CountsOK
    <3>7. DecisionsOK'
      BY <2>1, <3>1 DEF DecisionsOK
    <3> QED BY <3>3, <3>4, <3>5, <3>6, <3>7
  <2> QED BY <2>2, <2>3, <2>4
<1>4. CASE NextState
  <2>1. /\ phase = "states" /\ phase' \in {"states", "merge"} /\ failure' = failure
        /\ UNCHANGED <<request, snapshot, cached, analysis, current, automaton, table, currentRows,
                       verdict, reach, built, builds>>
    BY <1>4 DEF NextState, Proceed
  <2>2. Len(automaton.states) \in Nat
    <3>1. PICK S : automaton.states \in Seq(S)
      BY DEF StatesOK, IsSequence
    <3> QED BY <3>1
  <2>3. expanded' \in Nat /\ (phase' = "states" => expanded' <= Len(automaton.states) /\ expanded' >= 1)
    <3>1. \/ phase' = "merge" /\ expanded' = expanded
          \/ expanded # Len(automaton.states) /\ expanded' = expanded + 1
      BY <1>4 DEF NextState, Proceed
    <3> QED BY <2>1, <2>2, <3>1 DEF StatesOK
  <2>4. StatesOK'
    BY <2>1, <2>3 DEF StatesOK
  <2> QED BY <2>1, <2>4 DEF PhasesOK, TableOK, CountsOK, DecisionsOK
<1>5. CASE GoTo
  <2>1. /\ phase = "states" /\ awaiting # <<>>
        /\ UNCHANGED <<request, snapshot, cached, analysis, table, currentRows, verdict, reach, builds>>
    BY <1>5 DEF GoTo
  <2>2. PICK kernel, key :
           \/ GiveUp(Look(kernel, key))
           \/ /\ Remember(key, Look(kernel, key))
              /\ automaton' = AddTransition(automaton, expanded - 1, Head(awaiting), DecodeItems(Look(kernel, key).entry))
              /\ awaiting' = Tail(awaiting)
              /\ UNCHANGED <<expanded, phase, failure>>
    BY <1>5 DEF GoTo
  <2>3. CASE GiveUp(Look(kernel, key))
    <3>1. /\ phase' = "failed" /\ failure' # "none"
          /\ UNCHANGED <<current, built, automaton, awaiting, expanded>>
      BY <2>3, Zenon DEF GiveUp, Fail
    <3> QED BY <2>1, <3>1 DEF PhasesOK, StatesOK, TableOK, CountsOK, DecisionsOK
  <2>4. CASE /\ Remember(key, Look(kernel, key))
             /\ automaton' = AddTransition(automaton, expanded - 1, Head(awaiting), DecodeItems(Look(kernel, key).entry))
             /\ awaiting' = Tail(awaiting)
             /\ UNCHANGED <<expanded, phase, failure>>
    <3>1. expanded - 1 \in 0..(Len(automaton.states) - 1) /\ Len(automaton.states) \in Nat
      <4>1. PICK S : automaton.states \in Seq(S)
        BY DEF StatesOK, IsSequence
      <4> QED BY <2>1, <4>1 DEF StatesOK
    <3>2. /\ IsSequence(automaton'.states) /\ MovesWithin(automaton')
          /\ Len(automaton'.states) >= Len(automaton.states)
      BY <2>4, <3>1, AddingStaysWithin DEF StatesOK
    <3>3. Len(automaton'.states) \in Nat
      <4>1. PICK S : automaton'.states \in Seq(S)
        BY <3>2 DEF IsSequence
      <4> QED BY <4>1
    <3>4. StatesOK'
      <4>1. MovesWithin(automaton)'
        BY <3>2 DEF MovesWithin
      <4> QED BY <2>1, <2>4, <3>1, <3>2, <3>3, <4>1 DEF StatesOK
    <3>5. TableOK'
      <4>1. table = <<>> /\ Len(<<>>) = 0
        BY <2>1 DEF TableOK
      <4> QED BY <2>1, <2>4, <3>3, <4>1 DEF TableOK
    <3>6. CountsOK'
      BY <2>1, <2>4, RememberCounts DEF CountsOK
    <3> QED BY <2>1, <2>4, <3>4, <3>5, <3>6 DEF PhasesOK, DecisionsOK
  <2> QED BY <2>2, <2>3, <2>4
<1>6. CASE MergeStates
  <2>1. /\ phase = "merge" /\ phase' \in {"failed", "table"} /\ ((phase' = "failed") <=> (failure' # "none"))
        /\ UNCHANGED <<request, snapshot, cached, analysis, current, awaiting, expanded, table, currentRows,
                       verdict, reach, built, builds>>
    BY <1>6, Zenon DEF MergeStates, Fail, Proceed, PhasesOK
  <2>2. automaton' \in {automaton, MergeLR0Cores(automaton)}
    BY <1>6 DEF MergeStates, CollectionOf
  <2>3. IsSequence(automaton'.states) /\ MovesWithin(automaton)'
    <3>1. IsSequence(MergeLR0Cores(automaton).states) /\ MovesWithin(MergeLR0Cores(automaton))
      BY MergeStaysWithin DEF StatesOK
    <3> QED BY <2>2, <3>1 DEF StatesOK, MovesWithin
  <2>4. Len(automaton'.states) \in Nat /\ Len(<<>>) = 0 /\ table = <<>> /\ IsSequence(<<>>)
    <3>1. PICK S : automaton'.states \in Seq(S)
      BY <2>3 DEF IsSequence
    <3>2. Len(automaton'.states) \in Nat
      BY <3>1
    <3>3. <<>> \in Seq({}) /\ Len(<<>>) = 0
      OBVIOUS
    <3>4. IsSequence(<<>>)
      BY <3>3 DEF IsSequence
    <3> QED BY <2>1, <3>2, <3>3, <3>4 DEF TableOK
  <2>5. PhasesOK'
    BY <2>1 DEF PhasesOK
  <2>6. StatesOK'
    BY <2>1, <2>3 DEF StatesOK
  <2>7. TableOK'
    BY <2>1, <2>4 DEF TableOK
  <2> QED BY <2>1, <2>5, <2>6, <2>7 DEF CountsOK, DecisionsOK
<1>7. CASE BuildRow
  <2>1. /\ phase = "table" /\ Len(table) < Len(automaton.states)
        /\ UNCHANGED <<request, snapshot, cached, analysis, current, automaton, awaiting, expanded,
                       verdict, reach, builds, phase, failure>>
    BY <1>7 DEF BuildRow
  <2>2. PICK row : table' = Append(table, row)
    BY <1>7 DEF BuildRow
  <2>3. built' = built \/ built' = [built EXCEPT !.rows = @ + 1]
    BY <1>7 DEF BuildRow
  <2>4. IsSequence(table') /\ Len(table') = Len(table) + 1 /\ Len(table) \in Nat /\ Len(automaton.states) \in Nat
    <3>1. PICK S : table \in Seq(S)
      BY DEF TableOK, IsSequence
    <3>2. PICK T : automaton.states \in Seq(T)
      BY DEF StatesOK, IsSequence
    <3>3. table \in Seq(S \cup {row})
      BY <3>1
    <3>4. Append(table, row) \in Seq(S \cup {row}) /\ Len(Append(table, row)) = Len(table) + 1
      BY <3>3
    <3> QED BY <2>2, <3>1, <3>2, <3>4 DEF IsSequence
  <2>5. TableOK'
    BY <2>1, <2>4 DEF TableOK
  <2>6. CountsOK'
    BY <2>1, <2>3, <2>4 DEF CountsOK
  <2> QED BY <2>1, <2>5, <2>6 DEF PhasesOK, StatesOK, DecisionsOK
<1>8. CASE RowsDone
  <2>1. /\ phase = "table" /\ phase' = (IF request.auto THEN "restore" ELSE "save") /\ failure' = failure
        /\ verdict'.k = K
        /\ UNCHANGED <<request, snapshot, cached, analysis, current, automaton, awaiting, expanded, table,
                       currentRows, reach, built, builds>>
    BY <1>8 DEF RowsDone, Proceed, Unresolved
  <2>2. phase' \in {"restore", "save"} /\ (phase' = "restore" => request.auto)
    BY <2>1
  <2>3. DecisionsOK'
    BY <2>1, <2>2, <1>0 DEF DecisionsOK, K
  <2> QED BY <2>1, <2>2, <2>3 DEF PhasesOK, StatesOK, TableOK, CountsOK
<1>9. CASE Restore
  <2>1. /\ phase = "restore" /\ phase' \in {"resolve", "save"} /\ failure' = failure
        /\ UNCHANGED <<request, snapshot, cached, analysis, current, automaton, awaiting, expanded, table,
                       currentRows, built, builds>>
    BY <1>9 DEF Restore, Proceed
  <2>2. reach' \in Nat /\ reach' >= K
    BY <1>9 DEF Restore, DecisionsOK, K
  <2>3. verdict'.k \in K..request.depth
    <3>1. \/ verdict' = verdict
          \/ \E saved \in cached.decisions : saved.key = ResolutionKey /\ verdict' = DecodeDecisions(saved)
      BY <1>9 DEF Restore
    <3>2. CASE verdict' = verdict
      BY <2>1, <3>2 DEF DecisionsOK
    <3>3. ASSUME NEW saved \in cached.decisions, saved.key = ResolutionKey, verdict' = DecodeDecisions(saved)
          PROVE  verdict'.k \in K..request.depth
      <4>1. verdict'.k = saved.k
        BY <3>3 DEF DecodeDecisions
      <4>2. saved.key.max = request.depth
        BY <3>3 DEF ResolutionKey
      <4> QED BY <4>1, <4>2 DEF DecisionsOK, Shallow
    <3> QED BY <3>1, <3>2, <3>3
  <2>4. DecisionsOK'
    BY <2>1, <2>2, <2>3 DEF DecisionsOK
  <2> QED BY <2>1, <2>4 DEF PhasesOK, StatesOK, TableOK, CountsOK
<1>10. CASE ResolveDepth
  <2>1. /\ phase = "resolve" /\ phase' \in {"resolve", "save"} /\ failure' = failure
        /\ UNCHANGED <<request, snapshot, cached, analysis, current, automaton, awaiting, expanded, table,
                       currentRows, built, builds>>
    BY <1>10 DEF ResolveDepth, Proceed
  <2>2. \/ UNCHANGED <<verdict, reach>>
        \/ /\ reach' = reach + 1 /\ ~(reach >= request.depth)
           /\ \E found : verdict' = Extended(verdict, reach + 1, found)
    BY <1>10 DEF ResolveDepth
  <2>3. reach' \in Nat /\ reach' >= K /\ verdict'.k \in K..request.depth
    <3>1. verdict.k \in K..request.depth /\ reach \in Nat /\ reach >= K
      BY <2>1 DEF DecisionsOK
    <3>2. CASE UNCHANGED <<verdict, reach>>
      BY <3>1, <3>2
    <3>3. ASSUME reach' = reach + 1, ~(reach >= request.depth), NEW found,
                 verdict' = Extended(verdict, reach + 1, found)
          PROVE  reach' \in Nat /\ reach' >= K /\ verdict'.k \in K..request.depth
      <4>1. verdict'.k \in {verdict.k, reach + 1}
        BY <3>3 DEF Extended
      <4> QED BY <3>1, <3>3, <4>1, <1>0 DEF K
    <3> QED BY <2>2, <3>2, <3>3
  <2>4. DecisionsOK'
    BY <2>1, <2>3 DEF DecisionsOK
  <2> QED BY <2>1, <2>4 DEF PhasesOK, StatesOK, TableOK, CountsOK
<1>11. CASE Save
  <2>1. /\ phase = "save" /\ phase' = "done" /\ failure' = failure /\ snapshot' = SaveCache
        /\ UNCHANGED <<request, cached, analysis, current, tablesVars, built, builds>>
    BY <1>11 DEF Save, Proceed
  <2>2. snapshot'.kind = request.family
    BY <2>1 DEF SaveCache, SnapshotWith
  <2>3. Shallow(snapshot'.decisions)
    <3>1. snapshot'.decisions = IF request.auto THEN EncodeDecisions ELSE cached.decisions
      BY <2>1 DEF SaveCache, SnapshotWith
    <3>2. CASE request.auto
      <4>1. ASSUME NEW saved \in snapshot'.decisions PROVE saved.k = verdict.k /\ saved.key.max = request.depth
        BY <3>1, <3>2 DEF EncodeDecisions, ResolutionKey
      <4>2. verdict.k \in K..request.depth
        BY <2>1, <3>2 DEF DecisionsOK
      <4> QED BY <4>1, <4>2 DEF Shallow
    <3>3. CASE ~request.auto
      BY <3>1, <3>3 DEF DecisionsOK
    <3> QED BY <3>2, <3>3
  <2>4. DecisionsOK'
    BY <2>1, <2>2, <2>3, <1>0 DEF DecisionsOK, tablesVars
  <2> QED BY <2>1, <2>4 DEF PhasesOK, StatesOK, TableOK, CountsOK, tablesVars
<1>12. CASE Rebuild
  <2>1. /\ request' \in Requests /\ builds' = builds + 1 /\ builds < MaxBuilds /\ phase' = "load" /\ failure' = "none"
        /\ UNCHANGED <<snapshot, cached, analysis, current, tablesVars, built>>
    BY <1>12 DEF Rebuild
  <2>2. PhasesOK'
    BY <2>1, BuildsAssumption DEF PhasesOK
  <2> QED BY <2>1, <2>2 DEF StatesOK, TableOK, CountsOK, DecisionsOK, tablesVars
<1>13. CASE UNCHANGED vars
  BY <1>13 DEF PhasesOK, StatesOK, TableOK, CountsOK, DecisionsOK, vars, tablesVars
<1> QED BY <1>1, <1>2, <1>3, <1>4, <1>5, <1>6, <1>7, <1>8, <1>9, <1>10, <1>11, <1>12, <1>13
        DEF Next, Step, Done

\* The state has its shape in every reachable state: a traversal stays inside
\* the states it found, a table is no longer than the automaton, the statistics
\* never count more closures than the build knows, and no decision looks
\* further ahead than the depth it was asked for, restored or not.
\* (Load, Remember, BuildRow, Restore, ResolveDepth, Save.)
THEOREM BuilderTypeOK == Spec => []TypeOK
<1>1. Init => Shape
  BY ShapeInit
<1>2. Shape /\ [Next]_vars => Shape'
  BY ShapeNext
<1>3. Shape => TypeOK
  BY ShapeIsTypeOK
<1> QED BY <1>1, <1>2, <1>3, PTL DEF Spec

LEMMA ExpansionIsThat ==
    ASSUME NEW cores
    PROVE  Expansion(cores) = ExpansionIn(analysis, cores)
BY Zenon DEF Expansion, ExpansionIn, Opened

-----------------------------------------------------------------------------
(* The keys of productions, items and closures. *)

Named(ps, i) == [lhs |-> ps[i].lhs, rhs |-> ps[i].rhs, gaps |-> ps[i].gaps]
Earlier(ps, id) == {i \in 0..(id - 1) : Named(ps, i) = Named(ps, id)}
KeyOf(ps, id) == [production |-> Named(ps, id), occurrence |-> Cardinality(Earlier(ps, id))]
IdOf(ps, key) == CHOOSE id \in DOMAIN ps : KeyOf(ps, id) = key

EncCore(ps, c) == <<KeyOf(ps, c[1]), c[2]>>
Enc(ps, items) ==
    [cores |-> {EncCore(ps, c) : c \in items.cores},
     windows |-> {<<EncCore(ps, x[1]), x[2]>> : x \in items.windows}]
Dec(ps, entry) ==
    [cores |-> {<<IdOf(ps, c[1]), c[2]>> : c \in entry.cores},
     windows |-> {<<<<IdOf(ps, x[1][1]), x[1][2]>>, x[2]>> : x \in entry.windows}]

LEMMA KeysAreThose ==
    /\ \A id : ProductionKey(id) = KeyOf(Productions, id)
    /\ \A key : ProductionId(key) = IdOf(Productions, key)
    /\ \A items : EncodeItems(items) = Enc(Productions, items)
    /\ \A entry : DecodeItems(entry) = Dec(Productions, entry)
<1>1. ASSUME NEW id PROVE ProductionKey(id) = KeyOf(Productions, id)
  BY Zenon DEF ProductionKey, KeyOf, Named, Earlier
<1>2. ASSUME NEW key PROVE ProductionId(key) = IdOf(Productions, key)
  BY <1>1, Zenon DEF ProductionId, IdOf
<1>3. ASSUME NEW items PROVE EncodeItems(items) = Enc(Productions, items)
  BY <1>1, Zenon DEF EncodeItems, Enc, EncCore
<1>4. ASSUME NEW entry PROVE DecodeItems(entry) = Dec(Productions, entry)
  BY <1>2, Zenon DEF DecodeItems, Dec
<1> QED BY <1>1, <1>2, <1>3, <1>4

\* Productions that look the same are told apart by the order they come in.
LEMMA EarlierIsSmaller ==
    ASSUME NEW ps, GoodProductions(ps), NEW i \in DOMAIN ps, NEW j \in DOMAIN ps, i < j,
           Named(ps, i) = Named(ps, j)
    PROVE  Cardinality(Earlier(ps, i)) < Cardinality(Earlier(ps, j))
<1>1. PICK n \in Nat : DOMAIN ps = 0..n
  BY DEF GoodProductions
<1>2. i \in Nat /\ j \in Nat
  BY <1>1
<1>3. Earlier(ps, i) \subseteq Earlier(ps, j) /\ i \in Earlier(ps, j) /\ i \notin Earlier(ps, i)
  <2>1. \A x \in 0..(i - 1) : x \in 0..(j - 1)
    BY <1>2
  <2>2. i \in 0..(j - 1) /\ i \notin 0..(i - 1)
    BY <1>2
  <2> QED BY <2>1, <2>2 DEF Earlier
<1>4. IsFiniteSet(Earlier(ps, j))
  <2>1. 0 \in Int /\ j - 1 \in Int
    BY <1>2
  <2>2. IsFiniteSet(0..(j - 1))
    BY <2>1, FS_Interval
  <2>3. Earlier(ps, j) \subseteq 0..(j - 1)
    BY DEF Earlier
  <2> QED BY <2>2, <2>3, FS_Subset
<1>5. /\ IsFiniteSet(Earlier(ps, i)) /\ Cardinality(Earlier(ps, i)) <= Cardinality(Earlier(ps, j))
      /\ Cardinality(Earlier(ps, i)) # Cardinality(Earlier(ps, j))
  <2>1. Earlier(ps, i) \in SUBSET Earlier(ps, j) /\ Earlier(ps, i) # Earlier(ps, j)
    BY <1>3
  <2> QED BY <2>1, <1>4, FS_Subset
<1> QED BY <1>4, <1>5, FS_CardinalityType

LEMMA KeysDiffer ==
    ASSUME NEW ps, GoodProductions(ps), NEW i \in DOMAIN ps, NEW j \in DOMAIN ps,
           KeyOf(ps, i) = KeyOf(ps, j)
    PROVE  i = j
<1>1. Named(ps, i) = Named(ps, j) /\ Cardinality(Earlier(ps, i)) = Cardinality(Earlier(ps, j))
  <2>1. KeyOf(ps, i).production = KeyOf(ps, j).production /\ KeyOf(ps, i).occurrence = KeyOf(ps, j).occurrence
    OBVIOUS
  <2> QED BY <2>1 DEF KeyOf
<1>2. PICK n \in Nat : DOMAIN ps = 0..n
  BY DEF GoodProductions
<1>3. i \in Nat /\ j \in Nat
  BY <1>2
<1>4. ASSUME NEW id \in DOMAIN ps PROVE Cardinality(Earlier(ps, id)) \in Nat
  <2>1. 0 \in Int /\ id - 1 \in Int
    BY <1>2
  <2>2. IsFiniteSet(0..(id - 1))
    BY <2>1, FS_Interval
  <2>3. Earlier(ps, id) \subseteq 0..(id - 1)
    BY DEF Earlier
  <2> QED BY <2>2, <2>3, FS_Subset, FS_CardinalityType
<1>5. ~(i < j)
  BY <1>1, <1>4, EarlierIsSmaller
<1>6. ~(j < i)
  BY <1>1, <1>4, EarlierIsSmaller
<1> QED BY <1>3, <1>5, <1>6

LEMMA IdsOfKeys ==
    ASSUME NEW ps, GoodProductions(ps), NEW id \in DOMAIN ps
    PROVE  IdOf(ps, KeyOf(ps, id)) = id
<1> DEFINE found == CHOOSE i \in DOMAIN ps : KeyOf(ps, i) = KeyOf(ps, id)
<1>1. found \in DOMAIN ps /\ KeyOf(ps, found) = KeyOf(ps, id)
  BY Zenon
<1>2. IdOf(ps, KeyOf(ps, id)) = found
  BY Zenon DEF IdOf
<1> HIDE DEF found
<1> QED BY <1>1, <1>2, KeysDiffer

LEMMA CoresDiffer ==
    ASSUME NEW ps, GoodProductions(ps), NEW c \in CoresOf(ps), NEW d \in CoresOf(ps),
           EncCore(ps, c) = EncCore(ps, d)
    PROVE  c = d
<1>1. c = <<c[1], c[2]>> /\ d = <<d[1], d[2]>> /\ c[1] \in DOMAIN ps /\ d[1] \in DOMAIN ps
  BY DEF CoresOf
<1>2. KeyOf(ps, c[1]) = KeyOf(ps, d[1]) /\ c[2] = d[2]
  BY DEF EncCore
<1> QED BY <1>1, <1>2, KeysDiffer

\* What is decoded is what was encoded.
LEMMA DecodedIsEncoded ==
    ASSUME NEW ps, GoodProductions(ps), NEW W, NEW items \in ItemsIn(ps, W)
    PROVE  Dec(ps, Enc(ps, items)) = items
<1>1. ASSUME NEW c \in CoresOf(ps) PROVE <<IdOf(ps, EncCore(ps, c)[1]), EncCore(ps, c)[2]>> = c
  <2>1. c = <<c[1], c[2]>> /\ c[1] \in DOMAIN ps
    BY DEF CoresOf
  <2>2. EncCore(ps, c)[1] = KeyOf(ps, c[1]) /\ EncCore(ps, c)[2] = c[2]
    BY DEF EncCore
  <2> QED BY <2>1, <2>2, IdsOfKeys
<1>2. items.cores \subseteq CoresOf(ps) /\ items.windows \subseteq CoresOf(ps) \X W
      /\ items = [cores |-> items.cores, windows |-> items.windows]
  BY DEF ItemsIn
<1>3. Enc(ps, items).cores = {EncCore(ps, c) : c \in items.cores}
      /\ Enc(ps, items).windows = {<<EncCore(ps, x[1]), x[2]>> : x \in items.windows}
  BY DEF Enc
<1>4. {<<IdOf(ps, c[1]), c[2]>> : c \in Enc(ps, items).cores} = items.cores
  BY <1>1, <1>2, <1>3
<1>5. {<<<<IdOf(ps, x[1][1]), x[1][2]>>, x[2]>> : x \in Enc(ps, items).windows} = items.windows
  <2> DEFINE back(x) == <<<<IdOf(ps, x[1][1]), x[1][2]>>, x[2]>>
             there(x) == <<EncCore(ps, x[1]), x[2]>>
  <2>1. ASSUME NEW x \in items.windows PROVE back(there(x)) = x
    <3>1. x = <<x[1], x[2]>> /\ x[1] \in CoresOf(ps)
      BY <1>2
    <3>2. there(x)[1] = EncCore(ps, x[1]) /\ there(x)[2] = x[2]
      OBVIOUS
    <3>3. <<IdOf(ps, EncCore(ps, x[1])[1]), EncCore(ps, x[1])[2]>> = x[1]
      BY <3>1, <1>1
    <3> HIDE DEF there
    <3> QED BY <3>1, <3>2, <3>3
  <2>2. Enc(ps, items).windows = {there(x) : x \in items.windows}
    BY <1>3
  <2> HIDE DEF back, there
  <2>3. {back(y) : y \in Enc(ps, items).windows} = items.windows
    BY <2>1, <2>2
  <2> QED BY <2>3 DEF back
<1> QED BY <1>2, <1>4, <1>5 DEF Dec

-----------------------------------------------------------------------------
(* A closure depends on its key alone: on the encoded kernel, on the       *)
(* alternatives the key names and on the FIRST sets in it.                 *)

SuffixOf(ps, c) == SubSeq(ps[c[1]].rhs, c[2] + 2, Len(ps[c[1]].rhs))
LaterOf(A, visited) == (UNION {Range(SuffixOf(A.productions, c)) : c \in visited}) \cap LeftSides(A.productions)

StampIn(A, visited) ==
    [alternatives |-> [name \in NextOf(A, visited) |-> {KeyOf(A.productions, id) : id \in ProductionsOf(A, name)}],
     first |-> [name \in LaterOf(A, visited) |-> A.first[name]]]

KeyIn(A, items) == [items |-> Enc(A.productions, items), stamp |-> StampIn(A, VisitedIn(A, items))]

LEMMA ClosureKeyIs ==
    ASSUME NEW items
    PROVE  ClosureKey(items) = KeyIn(analysis, items)
<1>1. Visited(items) = VisitedIn(analysis, items)
  BY ExpansionIsThat, Zenon DEF Visited, VisitedIn
<1>2. ASSUME NEW visited PROVE StampOf(visited) = StampIn(analysis, visited)
  BY KeysAreThose, Zenon DEF StampOf, StampIn, NextOf, LaterOf, SuffixOf, Productions
<1>3. DependencyStamp(items) = StampIn(analysis, VisitedIn(analysis, items))
  BY <1>1, <1>2, WorkedOutIs, Zenon DEF DependencyStamp
<1>4. EncodeItems(items) = Enc(analysis.productions, items)
  BY KeysAreThose DEF Productions
<1> QED BY <1>3, <1>4 DEF ClosureKey, KeyIn

\* The rules of the closure, read off the key.
KeyAtEnd(c) == c[2] >= Len(c[1].production.rhs)
KeyNext(c) == c[1].production.rhs[c[2] + 1]
KeySuffix(c) == SubSeq(c[1].production.rhs, c[2] + 2, Len(c[1].production.rhs))
KeyChildren(key, c) == key.stamp.alternatives[KeyNext(c)] \X {0}
KeyFollowed(key, c, windows) ==
    UNION {Concatenate(FirstOfString(key.stamp.first, 1, KeySuffix(c)), {w}, 1) : w \in windows}

KeyClosedAt(key, entry, c) ==
    /\ KeyChildren(key, c) \subseteq entry.cores
    /\ KeyChildren(key, c) \X KeyFollowed(key, c, Lookaheads(entry, c)) \subseteq entry.windows

KeyClosed(key, entry) ==
    /\ Within(key.items, entry)
    /\ \A c \in entry.cores :
          ~KeyAtEnd(c) /\ KeyNext(c) \in DOMAIN key.stamp.alternatives => KeyClosedAt(key, entry, c)

Paired(entry) == \A x \in entry.windows : x = <<x[1], x[2]>>

\* The least entry closed under the rules of the key.
KeyLeast(key, entry) ==
    /\ KeyClosed(key, entry)
    /\ \A other : Paired(other) /\ KeyClosed(key, other) => Within(entry, other)

LEMMA EncodedParts ==
    ASSUME NEW ps, NEW items
    PROVE  /\ Enc(ps, items).cores = {EncCore(ps, c) : c \in items.cores}
           /\ Enc(ps, items).windows = {<<EncCore(ps, x[1]), x[2]>> : x \in items.windows}
           /\ Paired(Enc(ps, items))
BY DEF Enc, Paired

LEMMA EncodedWithin ==
    ASSUME NEW ps, NEW small, NEW big, Within(small, big)
    PROVE  Within(Enc(ps, small), Enc(ps, big))
BY EncodedParts DEF Within

LEMMA EncodedHas ==
    ASSUME NEW ps, GoodProductions(ps), NEW W, NEW items \in ItemsIn(ps, W), NEW c \in CoresOf(ps), NEW w
    PROVE  /\ EncCore(ps, c) \in Enc(ps, items).cores <=> c \in items.cores
           /\ <<EncCore(ps, c), w>> \in Enc(ps, items).windows <=> <<c, w>> \in items.windows
<1>1. items.cores \subseteq CoresOf(ps) /\ items.windows \subseteq CoresOf(ps) \X W
  BY DEF ItemsIn
<1>2. ASSUME EncCore(ps, c) \in Enc(ps, items).cores PROVE c \in items.cores
  <2>1. PICK d \in items.cores : EncCore(ps, c) = EncCore(ps, d)
    BY <1>2, EncodedParts
  <2> QED BY <2>1, <1>1, CoresDiffer
<1>3. ASSUME <<EncCore(ps, c), w>> \in Enc(ps, items).windows PROVE <<c, w>> \in items.windows
  <2>1. PICK x \in items.windows : <<EncCore(ps, c), w>> = <<EncCore(ps, x[1]), x[2]>>
    BY <1>3, EncodedParts
  <2>2. EncCore(ps, c) = EncCore(ps, x[1]) /\ w = x[2] /\ x = <<x[1], x[2]>> /\ x[1] \in CoresOf(ps)
    BY <2>1, <1>1
  <2>3. c = x[1]
    BY <2>2, CoresDiffer
  <2> QED BY <2>2, <2>3
<1>4. c \in items.cores => EncCore(ps, c) \in Enc(ps, items).cores
  BY EncodedParts
<1>5. ASSUME <<c, w>> \in items.windows PROVE <<EncCore(ps, c), w>> \in Enc(ps, items).windows
  <2> DEFINE x == <<c, w>>
  <2>1. x \in items.windows /\ x[1] = c /\ x[2] = w
    BY <1>5
  <2>2. <<EncCore(ps, x[1]), x[2]>> \in Enc(ps, items).windows
    BY <2>1, EncodedParts
  <2> HIDE DEF x
  <2> QED BY <2>1, <2>2
<1> QED BY <1>2, <1>3, <1>4, <1>5

LEMMA EncodedLookaheads ==
    ASSUME NEW ps, GoodProductions(ps), NEW W, NEW items \in ItemsIn(ps, W), NEW c \in CoresOf(ps)
    PROVE  Lookaheads(Enc(ps, items), EncCore(ps, c)) = Lookaheads(items, c)
<1>1. ASSUME NEW w \in Lookaheads(Enc(ps, items), EncCore(ps, c)) PROVE w \in Lookaheads(items, c)
  <2>1. PICK x \in Enc(ps, items).windows : x[1] = EncCore(ps, c) /\ x[2] = w
    BY DEF Lookaheads
  <2>2. <<EncCore(ps, c), w>> \in Enc(ps, items).windows
    <3>1. x = <<x[1], x[2]>>
      BY EncodedParts DEF Paired
    <3> QED BY <2>1, <3>1
  <2>3. <<c, w>> \in items.windows /\ <<c, w>>[1] = c /\ <<c, w>>[2] = w
    BY <2>2, EncodedHas
  <2> QED BY <2>3 DEF Lookaheads
<1>2. ASSUME NEW w \in Lookaheads(items, c) PROVE w \in Lookaheads(Enc(ps, items), EncCore(ps, c))
  <2>1. PICK x \in items.windows : x[1] = c /\ x[2] = w
    BY DEF Lookaheads
  <2>2. <<EncCore(ps, x[1]), x[2]>> \in Enc(ps, items).windows
    BY EncodedParts
  <2>3. <<EncCore(ps, c), w>> \in Enc(ps, items).windows /\ <<EncCore(ps, c), w>>[1] = EncCore(ps, c) /\ <<EncCore(ps, c), w>>[2] = w
    BY <2>1, <2>2
  <2> QED BY <2>3 DEF Lookaheads
<1> QED BY <1>1, <1>2

\* What the key says of an item the closure looks at is what the grammar says.
LEMMA KeySays ==
    ASSUME NEW A, GoodAnalysis(A), NEW kernel, kernel.cores \subseteq CoresOf(A.productions),
           NEW c \in VisitedIn(A, kernel)
    PROVE  LET ps == A.productions  key == KeyIn(A, kernel)  k == EncCore(ps, c)
           IN  /\ c \in CoresOf(ps) /\ ~KeyAtEnd(k) /\ KeyNext(k) = NextSymbol(A, c)
               /\ KeyNext(k) \in DOMAIN key.stamp.alternatives <=> NextSymbol(A, c) \in LeftSides(ps)
               /\ NextSymbol(A, c) \in LeftSides(ps) =>
                     KeyChildren(key, k) = {EncCore(ps, x) : x \in Children(A, c)}
               /\ \A windows : KeyFollowed(key, k, windows) = FollowedBy(A, c, windows)
<1> DEFINE ps == A.productions
           visited == VisitedIn(A, kernel)
           key == KeyIn(A, kernel)
           k == EncCore(ps, c)
           rhs == ps[c[1]].rhs
           suffix == SuffixOf(ps, c)
<1>1. c \in CoresOf(ps) /\ ~AtEnd(A, c)
  BY ExpansionIs DEF VisitedIn
<1>2. k[1].production.rhs = rhs /\ k[2] = c[2]
  BY DEF EncCore, KeyOf, Named
<1>3. ~KeyAtEnd(k) /\ KeyNext(k) = NextSymbol(A, c) /\ KeySuffix(k) = suffix
  <2> HIDE DEF k
  <2> QED BY <1>1, <1>2 DEF KeyAtEnd, AtEnd, KeyNext, NextSymbol, KeySuffix, SuffixOf
<1>4. key.stamp = StampIn(A, visited)
  BY DEF KeyIn
<1>5. /\ DOMAIN key.stamp.alternatives = NextOf(A, visited)
      /\ \A name \in NextOf(A, visited) : key.stamp.alternatives[name] = {KeyOf(ps, id) : id \in ProductionsOf(A, name)}
      /\ key.stamp.first = [name \in LaterOf(A, visited) |-> A.first[name]]
  <2> HIDE DEF key, visited
  <2> QED BY <1>4 DEF StampIn
<1>6. NextSymbol(A, c) \in NextOf(A, visited) <=> NextSymbol(A, c) \in LeftSides(ps)
  <2>1. NextSymbol(A, c) \in {NextSymbol(A, d) : d \in visited}
    OBVIOUS
  <2> HIDE DEF visited
  <2> QED BY <2>1 DEF NextOf
<1> HIDE DEF key, visited, k
<1>7. ASSUME NextSymbol(A, c) \in LeftSides(ps)
      PROVE  KeyChildren(key, k) = {EncCore(ps, x) : x \in Children(A, c)}
  <2>1. KeyChildren(key, k) = {KeyOf(ps, id) : id \in ProductionsOf(A, NextSymbol(A, c))} \X {0}
    BY <1>3, <1>5, <1>6, <1>7 DEF KeyChildren
  <2>2. ASSUME NEW y \in KeyChildren(key, k) PROVE y \in {EncCore(ps, x) : x \in Children(A, c)}
    <3>1. PICK id \in ProductionsOf(A, NextSymbol(A, c)) : y = <<KeyOf(ps, id), 0>>
      BY <2>1
    <3>2. <<id, 0>> \in Children(A, c)
      BY DEF Children
    <3>3. EncCore(ps, <<id, 0>>) = <<KeyOf(ps, id), 0>>
      BY DEF EncCore
    <3> QED BY <3>1, <3>2, <3>3
  <2>3. ASSUME NEW x \in Children(A, c) PROVE EncCore(ps, x) \in KeyChildren(key, k)
    <3>1. x[1] \in ProductionsOf(A, NextSymbol(A, c)) /\ x[2] = 0
      BY DEF Children
    <3>2. EncCore(ps, x) = <<KeyOf(ps, x[1]), 0>>
      BY <3>1 DEF EncCore
    <3> QED BY <2>1, <3>1, <3>2
  <2> QED BY <2>2, <2>3
<1>8. GoodProductions(ps) /\ TypedFirst(ps, A.first) /\ A.k = 1
  BY DEF GoodAnalysis
<1>9. c[1] \in DOMAIN ps /\ c[2] \in Nat /\ rhs \in Seq(STRING) /\ c[2] < Len(rhs) /\ Len(rhs) \in Nat
  <2>1. c[1] \in DOMAIN ps /\ c[2] \in Nat /\ rhs \in Seq(STRING)
    BY <1>1, <1>8 DEF CoresOf, GoodProductions
  <2> QED BY <1>1, <2>1 DEF AtEnd
<1>10. suffix \in Seq(STRING) /\ Range(suffix) \subseteq Range(rhs)
  <2>1. suffix = SubSeq(rhs, c[2] + 2, Len(rhs)) /\ c[2] + 2 \in Nat \ {0}
    BY <1>9 DEF SuffixOf
  <2> HIDE DEF rhs, suffix
  <2> QED BY <1>9, <2>1, SuffixSymbols
<1>11. FirstWithin(ps, A.first, suffix)
  <2>1. FirstWithin(ps, A.first, rhs)
    BY <1>8, <1>9, SymbolsHaveFirst
  <2> QED BY <1>10, <2>1 DEF FirstWithin
<1>12. ASSUME NEW s \in Range(suffix) PROVE FirstOfSymbol(key.stamp.first, s) = FirstOfSymbol(A.first, s)
  <2>1. DOMAIN A.first = LeftSides(ps)
    BY <1>8 DEF TypedFirst
  <2>2. s \in LaterOf(A, visited) <=> s \in LeftSides(ps)
    <3>1. c \in visited
      BY DEF visited
    <3>2. s \in UNION {Range(SuffixOf(ps, d)) : d \in visited}
      BY <3>1
    <3> HIDE DEF suffix
    <3> QED BY <3>2 DEF LaterOf
  <2> HIDE DEF suffix, ps
  <2> QED BY <1>5, <2>1, <2>2 DEF FirstOfSymbol
<1>13. FirstOfString(key.stamp.first, 1, suffix) = FirstOfString(A.first, 1, suffix)
  <2> HIDE DEF suffix, ps
  <2> QED BY <1>10, <1>11, <1>12, FirstAgrees
<1>14. ASSUME NEW windows PROVE KeyFollowed(key, k, windows) = FollowedBy(A, c, windows)
  <2>1. ASSUME NEW w
        PROVE  FirstOfSuffix(A, c[1], c[2] + 1, w) = Concatenate(FirstOfString(A.first, 1, suffix), {w}, 1)
    <3>1. (c[2] + 1) + 1 = c[2] + 2
      BY <1>9
    <3> QED BY <1>8, <3>1 DEF FirstOfSuffix, SuffixOf
  <2>2. KeyFollowed(key, k, windows) = UNION {Concatenate(FirstOfString(A.first, 1, suffix), {w}, 1) : w \in windows}
    BY <1>3, <1>13, Zenon DEF KeyFollowed
  <2> QED BY <2>1, <2>2, Zenon DEF FollowedBy
<1>15. /\ c \in CoresOf(ps) /\ ~KeyAtEnd(k) /\ KeyNext(k) = NextSymbol(A, c)
       /\ KeyNext(k) \in DOMAIN key.stamp.alternatives <=> NextSymbol(A, c) \in LeftSides(ps)
  BY <1>1, <1>3, <1>5, <1>6
<1> QED BY <1>7, <1>14, <1>15 DEF key, k

\* The key and the grammar close an item alike.
LEMMA ClosedAlike ==
    ASSUME NEW A, GoodAnalysis(A), NEW kernel, kernel.cores \subseteq CoresOf(A.productions),
           NEW c \in VisitedIn(A, kernel), NextSymbol(A, c) \in LeftSides(A.productions),
           NEW W, NEW items \in ItemsIn(A.productions, W)
    PROVE  KeyClosedAt(KeyIn(A, kernel), Enc(A.productions, items), EncCore(A.productions, c))
              <=> ClosedAt(A, items, c)
<1> DEFINE ps == A.productions
           key == KeyIn(A, kernel)
           k == EncCore(ps, c)
           e == Enc(ps, items)
           after == FollowedBy(A, c, Lookaheads(items, c))
<1>1. GoodProductions(ps) /\ c \in CoresOf(ps)
  BY KeySays DEF GoodAnalysis
<1>2. KeyChildren(key, k) = {EncCore(ps, x) : x \in Children(A, c)}
  BY KeySays
<1>3. KeyFollowed(key, k, Lookaheads(e, k)) = after
  <2>1. Lookaheads(e, k) = Lookaheads(items, c)
    BY <1>1, EncodedLookaheads
  <2>2. KeyFollowed(key, k, Lookaheads(items, c)) = after
    BY KeySays
  <2> HIDE DEF key, k, e, after
  <2> QED BY <2>1, <2>2
<1>4. Children(A, c) \subseteq CoresOf(ps)
  BY ChildrenAreItems
<1>5. ASSUME NEW x \in Children(A, c), NEW w
      PROVE  /\ EncCore(ps, x) \in e.cores <=> x \in items.cores
             /\ <<EncCore(ps, x), w>> \in e.windows <=> <<x, w>> \in items.windows
  BY <1>1, <1>4, EncodedHas
<1> HIDE DEF ps, key, k, e, after
<1>6. KeyClosedAt(key, e, k) <=> KeyChildren(key, k) \subseteq e.cores /\ KeyChildren(key, k) \X after \subseteq e.windows
  BY <1>3 DEF KeyClosedAt
<1>7. ClosedAt(A, items, c) <=> Children(A, c) \subseteq items.cores /\ Children(A, c) \X after \subseteq items.windows
  BY DEF ClosedAt, after
<1>8. KeyChildren(key, k) \subseteq e.cores <=> Children(A, c) \subseteq items.cores
  BY <1>2, <1>5
<1>9. KeyChildren(key, k) \X after \subseteq e.windows <=> Children(A, c) \X after \subseteq items.windows
  <2>1. ASSUME KeyChildren(key, k) \X after \subseteq e.windows, NEW x \in Children(A, c), NEW w \in after
        PROVE  <<x, w>> \in items.windows
    <3>1. EncCore(ps, x) \in KeyChildren(key, k)
      BY <1>2
    <3>2. <<EncCore(ps, x), w>> \in e.windows
      BY <2>1, <3>1
    <3> QED BY <3>2, <1>5
  <2>2. ASSUME Children(A, c) \X after \subseteq items.windows, NEW y \in KeyChildren(key, k), NEW w \in after
        PROVE  <<y, w>> \in e.windows
    <3>1. PICK x \in Children(A, c) : y = EncCore(ps, x)
      BY <1>2
    <3>2. <<x, w>> \in items.windows
      BY <2>2
    <3> QED BY <3>1, <3>2, <1>5
  <2> QED BY <2>1, <2>2
<1>10. KeyClosedAt(key, e, k) <=> ClosedAt(A, items, c)
  BY <1>6, <1>7, <1>8, <1>9
<1> QED BY <1>10 DEF key, e, k, ps

\* The items that an entry stands for, among those the closure can reach.
Pulled(A, kernel, entry) ==
    LET reached == ExpansionIn(A, kernel.cores)
    IN  [cores |-> {c \in reached : EncCore(A.productions, c) \in entry.cores},
         windows |-> {x \in reached \X {y[2] : y \in entry.windows} :
                         <<EncCore(A.productions, x[1]), x[2]>> \in entry.windows}]

LEMMA PulledIsClosed ==
    ASSUME NEW A, GoodAnalysis(A), NEW kernel, NEW T, KernelIn(A, kernel, T), NEW entry, Paired(entry),
           KeyClosed(KeyIn(A, kernel), entry)
    PROVE  ClosedItems(A, Pulled(A, kernel, entry)) /\ Within(kernel, Pulled(A, kernel, entry))
<1> DEFINE ps == A.productions
           key == KeyIn(A, kernel)
           reached == ExpansionIn(A, kernel.cores)
           X == Pulled(A, kernel, entry)
           tails == {y[2] : y \in entry.windows}
<1>1. /\ GoodProductions(ps) /\ kernel.cores \subseteq CoresOf(ps) /\ kernel.windows \subseteq CoresOf(ps) \X Short(T)
      /\ \A x \in kernel.windows : x[1] \in kernel.cores
  BY DEF GoodAnalysis, KernelIn, ItemsIn, Matched
<1>2. /\ kernel.cores \subseteq reached /\ reached \subseteq CoresOf(ps)
      /\ \A c \in reached : ~AtEnd(A, c) => Children(A, c) \subseteq reached
  BY <1>1, ExpansionIs
<1>3. /\ X.cores = {c \in reached : EncCore(ps, c) \in entry.cores}
      /\ X.windows = {x \in reached \X tails : <<EncCore(ps, x[1]), x[2]>> \in entry.windows}
  BY DEF Pulled
<1>4. key.items = Enc(ps, kernel)
  BY DEF KeyIn
<1> HIDE DEF X, tails, reached, ps, key
<1>5. ASSUME NEW k, NEW w, <<k, w>> \in entry.windows PROVE w \in tails
  <2> DEFINE y == <<k, w>>
  <2>1. y \in entry.windows /\ y[2] = w
    BY <1>5
  <2> HIDE DEF y
  <2> QED BY <2>1 DEF tails
<1>6. Within(kernel, X)
  <2>1. Within(Enc(ps, kernel), entry)
    BY <1>4 DEF KeyClosed, key
  <2>2. ASSUME NEW c \in kernel.cores PROVE c \in X.cores
    <3>1. EncCore(ps, c) \in entry.cores
      BY <2>1, EncodedParts DEF Within
    <3> QED BY <3>1, <1>2, <1>3
  <2>3. ASSUME NEW x \in kernel.windows PROVE x \in X.windows
    <3>1. <<EncCore(ps, x[1]), x[2]>> \in entry.windows
      BY <2>1, EncodedParts DEF Within
    <3>2. x = <<x[1], x[2]>> /\ x[1] \in reached
      BY <1>1, <1>2
    <3>3. x[2] \in tails
      BY <3>1, <1>5
    <3>4. x \in reached \X tails
      BY <3>2, <3>3
    <3> QED BY <3>1, <3>4, <1>3
  <2> QED BY <2>2, <2>3 DEF Within
<1>7. ASSUME NEW c \in X.cores, ~AtEnd(A, c) PROVE ClosedAt(A, X, c)
  <2> DEFINE k == EncCore(ps, c)
  <2>1. c \in reached /\ k \in entry.cores /\ c \in VisitedIn(A, kernel)
    BY <1>3, <1>7 DEF VisitedIn, reached
  <2>2. Children(A, c) \subseteq reached
    BY <1>2, <1>7, <2>1
  <2>3. CASE NextSymbol(A, c) \notin LeftSides(ps)
    <3>1. Children(A, c) = {}
      BY <2>3 DEF Children, ProductionsOf, LeftSides, ps
    <3> QED BY <3>1 DEF ClosedAt
  <2>4. CASE NextSymbol(A, c) \in LeftSides(ps)
    <3>1. ~KeyAtEnd(k) /\ KeyNext(k) \in DOMAIN key.stamp.alternatives
      BY <1>1, <2>1, <2>4, KeySays DEF key, ps
    <3>2. KeyChildren(key, k) = {EncCore(ps, x) : x \in Children(A, c)}
      BY <1>1, <2>1, <2>4, KeySays DEF key, ps
    <3>3. \A windows : KeyFollowed(key, k, windows) = FollowedBy(A, c, windows)
      BY <1>1, <2>1, KeySays DEF key, ps
    <3>4. KeyClosedAt(key, entry, k)
      BY <2>1, <3>1 DEF KeyClosed, key
    <3> HIDE DEF k
    <3>5. Lookaheads(X, c) \subseteq Lookaheads(entry, k)
      <4>1. ASSUME NEW w \in Lookaheads(X, c) PROVE w \in Lookaheads(entry, k)
        <5>1. PICK x \in X.windows : x[1] = c /\ x[2] = w
          BY DEF Lookaheads
        <5>2. <<k, w>> \in entry.windows
          BY <5>1, <1>3 DEF k
        <5>3. <<k, w>>[1] = k /\ <<k, w>>[2] = w
          OBVIOUS
        <5> QED BY <5>2, <5>3 DEF Lookaheads
      <4> QED BY <4>1
    <3>6. FollowedBy(A, c, Lookaheads(X, c)) \subseteq KeyFollowed(key, k, Lookaheads(entry, k))
      <4>1. FollowedBy(A, c, Lookaheads(X, c)) \subseteq FollowedBy(A, c, Lookaheads(entry, k))
        BY <3>5 DEF FollowedBy
      <4> QED BY <4>1, <3>3
    <3>7. ASSUME NEW x \in Children(A, c) PROVE x \in X.cores
      <4>1. EncCore(ps, x) \in entry.cores
        BY <3>2, <3>4 DEF KeyClosedAt
      <4> QED BY <4>1, <2>2, <1>3
    <3>8. ASSUME NEW x \in Children(A, c), NEW w \in FollowedBy(A, c, Lookaheads(X, c)) PROVE <<x, w>> \in X.windows
      <4>1. EncCore(ps, x) \in KeyChildren(key, k)
        BY <3>2
      <4>2. <<EncCore(ps, x), w>> \in entry.windows
        BY <3>4, <3>6, <4>1 DEF KeyClosedAt
      <4>3. w \in tails /\ x \in reached
        BY <4>2, <1>5, <2>2
      <4>4. <<x, w>> \in reached \X tails /\ <<x, w>>[1] = x /\ <<x, w>>[2] = w
        BY <4>3
      <4> QED BY <1>3, <4>2, <4>4
    <3> QED BY <3>7, <3>8 DEF ClosedAt
  <2> QED BY <2>3, <2>4
<1>8. ClosedItems(A, X)
  BY <1>7 DEF ClosedItems
<1> QED BY <1>6, <1>8 DEF X

\* The closure is inside every entry closed under its key.
LEMMA ClosureIsNeeded ==
    ASSUME NEW A, GoodAnalysis(A), NEW kernel, NEW T, KernelIn(A, kernel, T), NEW entry, Paired(entry),
           KeyClosed(KeyIn(A, kernel), entry)
    PROVE  Within(Enc(A.productions, Closure(A, kernel)), entry)
<1> DEFINE ps == A.productions
           R == Closure(A, kernel)
           X == Pulled(A, kernel, entry)
<1>1. Within(R, X)
  BY PulledIsClosed, ClosureIs DEF Needed
<1>2. /\ \A c \in X.cores : EncCore(ps, c) \in entry.cores
      /\ \A x \in X.windows : <<EncCore(ps, x[1]), x[2]>> \in entry.windows
  BY DEF Pulled
<1> HIDE DEF R, X, ps
<1>3. Within(Enc(ps, R), entry)
  BY <1>1, <1>2, EncodedParts DEF Within
<1> QED BY <1>3 DEF R, ps

\* A closure in which every item has a lookahead is the least of its key.
LEMMA ClosureIsLeast ==
    ASSUME NEW A, GoodAnalysis(A), NEW kernel, NEW T, KernelIn(A, kernel, T),
           EmptyLookaheads(Enc(A.productions, Closure(A, kernel))) = {}
    PROVE  KeyLeast(KeyIn(A, kernel), Enc(A.productions, Closure(A, kernel)))
<1> DEFINE ps == A.productions
           R == Closure(A, kernel)
           e == Enc(ps, R)
           key == KeyIn(A, kernel)
<1>1. /\ GoodProductions(ps) /\ kernel.cores \subseteq CoresOf(ps)
      /\ R \in ItemsIn(ps, Short(T)) /\ Matched(R) /\ Settled(A, R) /\ Within(kernel, R)
      /\ R.cores \subseteq ExpansionIn(A, kernel.cores)
  <2>1. KernelIn(A, R, T) /\ Settled(A, R) /\ Within(kernel, R)
    BY ClosureIs
  <2>2. R.cores \subseteq ExpansionIn(A, kernel.cores)
    BY ClosureIsReached
  <2> HIDE DEF R
  <2> QED BY <2>1, <2>2 DEF GoodAnalysis, KernelIn, ItemsIn
<1>2. Within(key.items, e)
  <2>1. key.items = Enc(ps, kernel)
    BY DEF KeyIn
  <2> HIDE DEF key, R, e
  <2>2. Within(Enc(ps, kernel), Enc(ps, R))
    BY <1>1, EncodedWithin
  <2> QED BY <2>1, <2>2 DEF e
<1>3. ASSUME NEW k \in e.cores, ~KeyAtEnd(k), KeyNext(k) \in DOMAIN key.stamp.alternatives
      PROVE  KeyClosedAt(key, e, k)
  <2>1. PICK c \in R.cores : k = EncCore(ps, c)
    BY EncodedParts
  <2>2. c \in CoresOf(ps) /\ c \in ExpansionIn(A, kernel.cores)
    BY <1>1, <2>1 DEF ItemsIn
  <2>3. ~AtEnd(A, c)
    <3>1. k[1].production.rhs = ps[c[1]].rhs /\ k[2] = c[2]
      BY <2>1 DEF EncCore, KeyOf, Named
    <3> QED BY <3>1, <1>3 DEF KeyAtEnd, AtEnd
  <2>4. c \in VisitedIn(A, kernel)
    BY <2>2, <2>3 DEF VisitedIn
  <2>5. NextSymbol(A, c) \in LeftSides(ps)
    BY <1>1, <1>3, <2>1, <2>4, KeySays
  <2>6. Lookaheads(R, c) # {}
    <3>1. Lookaheads(e, k) # {}
      BY DEF EmptyLookaheads
    <3>2. Lookaheads(e, k) = Lookaheads(R, c)
      <4> HIDE DEF R
      <4> QED BY <1>1, <2>1, <2>2, EncodedLookaheads
    <3> QED BY <3>1, <3>2
  <2>7. ClosedAt(A, R, c)
    <3> HIDE DEF R
    <3> QED BY <1>1, <2>1, <2>3, <2>6 DEF Settled
  <2> HIDE DEF R
  <2> QED BY <1>1, <2>1, <2>4, <2>5, <2>7, ClosedAlike
<1>4. KeyClosed(key, e)
  <2> HIDE DEF key, e
  <2> QED BY <1>2, <1>3 DEF KeyClosed
<1>5. ASSUME NEW other, Paired(other), KeyClosed(key, other) PROVE Within(e, other)
  BY <1>5, ClosureIsNeeded
<1> HIDE DEF key, e
<1>6. KeyLeast(key, e)
  BY <1>4, <1>5 DEF KeyLeast
<1> QED BY <1>6 DEF key, e

EntryOK(entry) == entry = [cores |-> entry.cores, windows |-> entry.windows] /\ Paired(entry)

\* An entry saved under a key stands for the closure of every kernel of the key,
\* in whatever version of the grammar.
THEOREM ReuseIsExact ==
    ASSUME NEW A, GoodAnalysis(A), NEW kernel, NEW T, KernelIn(A, kernel, T),
           NEW entry, EntryOK(entry), KeyLeast(KeyIn(A, kernel), entry), EmptyLookaheads(entry) = {}
    PROVE  entry = Enc(A.productions, Closure(A, kernel))
<1> DEFINE ps == A.productions
           R == Closure(A, kernel)
           e == Enc(ps, R)
           key == KeyIn(A, kernel)
           Z == [cores |-> entry.cores, windows |-> e.windows]
<1>1. /\ GoodProductions(ps) /\ kernel.cores \subseteq CoresOf(ps)
      /\ R \in ItemsIn(ps, Short(T)) /\ Matched(R) /\ Settled(A, R) /\ Within(kernel, R)
      /\ R.cores \subseteq ExpansionIn(A, kernel.cores)
  <2>1. KernelIn(A, R, T) /\ Settled(A, R) /\ Within(kernel, R)
    BY ClosureIs
  <2>2. R.cores \subseteq ExpansionIn(A, kernel.cores)
    BY ClosureIsReached
  <2> HIDE DEF R
  <2> QED BY <2>1, <2>2 DEF GoodAnalysis, KernelIn, ItemsIn
<1>2. KeyClosed(key, entry) /\ Paired(entry)
  BY DEF KeyLeast, EntryOK
<1>3. Within(e, entry)
  BY <1>2, ClosureIsNeeded
<1>4. key.items = Enc(ps, kernel)
  BY DEF KeyIn
<1>5. Within(key.items, Z)
  <2>1. Within(Enc(ps, kernel), Enc(ps, R))
    BY <1>1, EncodedWithin
  <2>2. Within(key.items, e)
    BY <2>1, <1>4
  <2>3. Within(key.items, entry)
    BY <1>2 DEF KeyClosed
  <2> HIDE DEF key, e
  <2> QED BY <2>2, <2>3 DEF Within
<1> HIDE DEF R
<1>6. /\ e.cores = {EncCore(ps, c) : c \in R.cores} /\ Paired(e)
      /\ e.windows = {<<EncCore(ps, x[1]), x[2]>> : x \in R.windows}
  BY EncodedParts
<1>7. Paired(Z)
  BY <1>6 DEF Paired
<1>8. ASSUME NEW k \in entry.cores, ~KeyAtEnd(k), KeyNext(k) \in DOMAIN key.stamp.alternatives
      PROVE  KeyClosedAt(key, Z, k)
  <2>1. KeyChildren(key, k) \subseteq entry.cores
    BY <1>2, <1>8 DEF KeyClosed, KeyClosedAt
  <2>2. Lookaheads(Z, k) = Lookaheads(e, k)
    <3> HIDE DEF e
    <3> QED BY DEF Lookaheads
  <2>3. CASE Lookaheads(e, k) = {}
    <3>1. KeyFollowed(key, k, {}) = {}
      BY Zenon DEF KeyFollowed
    <3>2. KeyFollowed(key, k, Lookaheads(Z, k)) = {}
      BY <2>2, <2>3, <3>1
    <3> HIDE DEF key, e
    <3> QED BY <2>1, <3>2 DEF KeyClosedAt
  <2>4. CASE Lookaheads(e, k) # {}
    <3>1. PICK x \in R.windows : EncCore(ps, x[1]) = k
      <4>1. PICK y \in e.windows : y[1] = k
        BY <2>4 DEF Lookaheads
      <4>2. PICK x \in R.windows : y = <<EncCore(ps, x[1]), x[2]>>
        BY <1>6
      <4> QED BY <4>1, <4>2
    <3> DEFINE c == x[1]
    <3>2. c \in R.cores /\ c \in CoresOf(ps) /\ k = EncCore(ps, c) /\ c \in ExpansionIn(A, kernel.cores)
      BY <1>1, <3>1 DEF Matched, ItemsIn
    <3> HIDE DEF c
    <3>3. ~AtEnd(A, c)
      <4>1. k[1].production.rhs = ps[c[1]].rhs /\ k[2] = c[2]
        BY <3>2 DEF EncCore, KeyOf, Named
      <4> QED BY <4>1, <1>8 DEF KeyAtEnd, AtEnd
    <3>4. c \in VisitedIn(A, kernel)
      BY <3>2, <3>3 DEF VisitedIn
    <3>5. NextSymbol(A, c) \in LeftSides(ps)
      BY <1>1, <1>8, <3>2, <3>4, KeySays
    <3>6. Lookaheads(R, c) # {}
      BY <1>1, <2>4, <3>2, EncodedLookaheads
    <3>7. ClosedAt(A, R, c)
      BY <1>1, <3>2, <3>3, <3>6 DEF Settled
    <3>8. KeyClosedAt(key, e, k)
      BY <1>1, <3>2, <3>4, <3>5, <3>7, ClosedAlike
    <3> HIDE DEF key, e
    <3> QED BY <2>1, <2>2, <3>8 DEF KeyClosedAt
  <2> QED BY <2>3, <2>4
<1>9. KeyClosed(key, Z)
  <2> HIDE DEF key, e
  <2> QED BY <1>5, <1>8 DEF KeyClosed
<1>10. Within(entry, Z)
  <2> HIDE DEF Z
  <2> QED BY <1>7, <1>9 DEF KeyLeast
<1>11. entry.windows = e.windows
  <2> HIDE DEF e
  <2> QED BY <1>3, <1>10 DEF Within
<1>12. ASSUME NEW k \in entry.cores PROVE k \in e.cores
  <2>1. Lookaheads(entry, k) # {}
    BY DEF EmptyLookaheads
  <2>2. PICK y \in entry.windows : y[1] = k
    BY <2>1 DEF Lookaheads
  <2>3. PICK x \in R.windows : y = <<EncCore(ps, x[1]), x[2]>>
    BY <1>6, <1>11, <2>2
  <2>4. x[1] \in R.cores
    BY <1>1 DEF Matched
  <2> HIDE DEF e
  <2> QED BY <1>6, <2>2, <2>3, <2>4
<1>13. entry.cores = e.cores
  <2> HIDE DEF e
  <2> QED BY <1>3, <1>12 DEF Within
<1>14. entry = [cores |-> entry.cores, windows |-> entry.windows] /\ e = [cores |-> e.cores, windows |-> e.windows]
  BY DEF EntryOK, Enc
<1> HIDE DEF e
<1>15. entry = e
  BY <1>11, <1>13, <1>14
<1> QED BY <1>15 DEF e, R

-----------------------------------------------------------------------------
(* What a build finds under a key is the closure it looks for, and the      *)
(* traversal makes the same states as without any snapshot.                 *)

\* An entry with a lookahead for every item is the least of its key.
EntriesOK(entries) ==
    \A key \in DOMAIN entries :
        /\ EntryOK(entries[key])
        /\ EmptyLookaheads(entries[key]) = {} => KeyLeast(key, entries[key])

LEMMA ClosureIsGood ==
    ASSUME NEW A, GoodAnalysis(A), NEW items, GoodItems(A, items)
    PROVE  /\ GoodItems(A, Closure(A, items))
           /\ Dec(A.productions, Enc(A.productions, Closure(A, items))) = Closure(A, items)
<1> DEFINE R == Closure(A, items)
<1>1. KernelIn(A, R, SymbolsOf(A.productions))
  BY ClosureIs DEF GoodItems
<1> HIDE DEF R
<1>2. GoodProductions(A.productions) /\ R \in ItemsIn(A.productions, Short(SymbolsOf(A.productions)))
  BY <1>1 DEF GoodAnalysis, KernelIn
<1>3. Dec(A.productions, Enc(A.productions, R)) = R
  BY <1>2, DecodedIsEncoded
<1> QED BY <1>1, <1>3 DEF R, GoodItems

\* A kernel found is a closure, wherever it was found.
LEMMA FoundIs ==
    ASSUME GoodAnalysis(analysis), EntriesOK(current), EntriesOK(cached.closures),
           NEW kernel, GoodItems(analysis, kernel), ~Unusable(Look(kernel, ClosureKey(kernel)))
    PROVE  /\ Look(kernel, ClosureKey(kernel)).entry = Enc(analysis.productions, Closure(analysis, kernel))
           /\ DecodeItems(Look(kernel, ClosureKey(kernel)).entry) = Closure(analysis, kernel)
<1> DEFINE A == analysis
           key == ClosureKey(kernel)
           found == Look(kernel, key)
           e == Enc(A.productions, Closure(A, kernel))
<1>1. key = KeyIn(A, kernel)
  BY ClosureKeyIs
<1>2. KernelIn(A, kernel, SymbolsOf(A.productions))
  BY DEF GoodItems
<1>3. ASSUME NEW entry, EntryOK(entry), EmptyLookaheads(entry) = {}, KeyLeast(key, entry)
      PROVE  entry = e
  BY <1>1, <1>2, <1>3, ReuseIsExact
<1>4. ASSUME key \in DOMAIN current PROVE found.entry = e
  <2>1. found.from = "traversal" /\ found.entry = current[key]
    BY <1>4 DEF Look
  <2>2. Decodable(found.entry)
    BY <2>1 DEF Unusable
  <2>3. EmptyLookaheads(current[key]) = {}
    BY <2>1, <2>2, Zenon DEF Decodable
  <2> HIDE DEF e, key, found
  <2> QED BY <1>3, <1>4, <2>1, <2>3 DEF EntriesOK
<1>5. ASSUME key \notin DOMAIN current /\ key \in DOMAIN cached.closures /\ Decodable(cached.closures[key])
      PROVE  found.entry = e
  <2>1. found.entry = cached.closures[key]
    BY <1>5 DEF Look
  <2>2. EmptyLookaheads(cached.closures[key]) = {}
    BY <1>5, Zenon DEF Decodable
  <2> HIDE DEF e, key, found
  <2> QED BY <1>3, <1>5, <2>1, <2>2 DEF EntriesOK
<1>6. ASSUME key \notin DOMAIN current /\ ~(key \in DOMAIN cached.closures /\ Decodable(cached.closures[key]))
      PROVE  found.entry = e
  <2>1. found.entry = EncodeItems(Closure(A, kernel))
    BY <1>6, Zenon DEF Look
  <2> QED BY <2>1, KeysAreThose DEF Productions
<1>7. found.entry = e
  BY <1>4, <1>5, <1>6
<1>8. DecodeItems(found.entry) = Dec(A.productions, e)
  BY <1>7, KeysAreThose DEF Productions
<1>9. Dec(A.productions, e) = Closure(A, kernel)
  BY ClosureIsGood
<1> QED BY <1>7, <1>8, <1>9

\* A map with one more entry, which is the one it had if it had one.
Extends(g, f, key, value) ==
    /\ DOMAIN g = DOMAIN f \cup {key}
    /\ \A k \in DOMAIN f \cup {key} : g[k] = IF k = key THEN value ELSE f[k]
    /\ (key \in DOMAIN f => f[key] = value) => Range(g) = Range(f) \cup {value}

LEMMA StoredIs ==
    ASSUME NEW f, NEW key, NEW value
    PROVE  Extends(Stored(f, key, value), f, key, value)
<1>1. /\ DOMAIN Stored(f, key, value) = DOMAIN f \cup {key}
      /\ \A k \in DOMAIN f \cup {key} : Stored(f, key, value)[k] = IF k = key THEN value ELSE f[k]
  BY DEF Stored
<1>2. ASSUME key \in DOMAIN f => f[key] = value
      PROVE  Range(Stored(f, key, value)) = Range(f) \cup {value}
  <2> DEFINE g == Stored(f, key, value)
  <2> HIDE DEF g
  <2>1. DOMAIN g = DOMAIN f \cup {key} /\ \A k \in DOMAIN f \cup {key} : g[k] = IF k = key THEN value ELSE f[k]
    BY <1>1 DEF g
  <2>2. ASSUME NEW v \in Range(g) PROVE v \in Range(f) \cup {value}
    BY <2>1 DEF Range
  <2>3. ASSUME NEW v \in Range(f) PROVE v \in Range(g)
    <3>1. PICK k \in DOMAIN f : v = f[k]
      BY DEF Range
    <3>2. g[k] = v /\ k \in DOMAIN g
      BY <1>2, <2>1, <3>1
    <3> QED BY <3>2 DEF Range
  <2>4. value \in Range(g)
    <3>1. key \in DOMAIN g /\ g[key] = value
      BY <2>1
    <3> QED BY <3>1 DEF Range
  <2> QED BY <2>2, <2>3, <2>4 DEF g
<1> QED BY <1>1, <1>2 DEF Extends

\* A closure that is remembered is the one its key stands for.
LEMMA RememberedIs ==
    ASSUME GoodAnalysis(analysis), EntriesOK(current), EntriesOK(cached.closures),
           NEW kernel, GoodItems(analysis, kernel),
           Remember(ClosureKey(kernel), Look(kernel, ClosureKey(kernel)))
    PROVE  /\ EntriesOK(current')
           /\ Range(current') = Range(current) \cup {Enc(analysis.productions, Closure(analysis, kernel))}
           /\ DecodeItems(Look(kernel, ClosureKey(kernel)).entry) = Closure(analysis, kernel)
<1> DEFINE A == analysis
           key == ClosureKey(kernel)
           found == Look(kernel, key)
           e == Enc(A.productions, Closure(A, kernel))
<1>1. ~Unusable(found) /\ current' = Stored(current, key, found.entry)
  BY DEF Remember
<1>2. found.entry = e /\ DecodeItems(found.entry) = Closure(A, kernel)
  BY <1>1, FoundIs
<1>3. key \in DOMAIN current => current[key] = e
  BY <1>2 DEF Look
<1>4. key = KeyIn(A, kernel)
  BY ClosureKeyIs
<1>5. EmptyLookaheads(e) = {} => KeyLeast(key, e)
  BY <1>4, ClosureIsLeast DEF GoodItems
<1>6. EntryOK(e)
  BY EncodedParts DEF Enc, EntryOK, Paired
<1> HIDE DEF e, key, found
<1>7. /\ DOMAIN current' = DOMAIN current \cup {key}
      /\ \A k \in DOMAIN current \cup {key} : current'[k] = IF k = key THEN e ELSE current[k]
      /\ Range(current') = Range(current) \cup {e}
  <2>1. current' = Stored(current, key, e)
    BY <1>1, <1>2
  <2>2. Extends(current', current, key, e)
    BY <2>1, StoredIs
  <2> QED BY <1>3, <2>2 DEF Extends
<1>8. ASSUME NEW k \in DOMAIN current'
      PROVE  EntryOK(current'[k]) /\ (EmptyLookaheads(current'[k]) = {} => KeyLeast(k, current'[k]))
  <2>1. CASE k = key
    BY <2>1, <1>5, <1>6, <1>7
  <2>2. CASE k # key
    <3>1. k \in DOMAIN current /\ current'[k] = current[k]
      BY <2>2, <1>7
    <3> QED BY <3>1 DEF EntriesOK
  <2> QED BY <2>1, <2>2
<1>9. EntriesOK(current')
  BY <1>8 DEF EntriesOK
<1> QED BY <1>2, <1>7, <1>9 DEF e, key, found

-----------------------------------------------------------------------------
(* What is remembered and what is saved. *)

Begun == {"first", "start", "states", "merge", "table", "restore", "resolve", "save", "done"}
Merged == {"table", "restore", "resolve", "save", "done"}

AnalysisOK ==
    phase \in Begun =>
        GoodAnalysis(analysis) /\ analysis = Analysis(PrepareProductions(Source), 1, analysis.first)

ClosuresOK == EntriesOK(current) /\ EntriesOK(cached.closures) /\ EntriesOK(snapshot.closures)

EncodedStates == {Enc(analysis.productions, s) : s \in Range(automaton.states)}

\* What the traversal remembers are the states it has found.
TraversalOK ==
    /\ phase \in {"first", "start"} => current = <<>> /\ automaton = NoStates
    /\ phase \in {"states", "merge"} \cup Merged =>
          AllGood(analysis, automaton.states) /\ Distinct(automaton.states)
    /\ phase \in {"states", "merge"} => Range(current) = EncodedStates
    /\ phase \in Merged => {e.cores : e \in Range(current)} = {e.cores : e \in EncodedStates}

RowKeysOf(A, states, rows, n) ==
    /\ IsFiniteSet(DOMAIN rows) /\ Cardinality(DOMAIN rows) = n
    /\ \A key \in DOMAIN rows : \E i \in 1..n : key.state = Enc(A.productions, states[i])

RowsOK ==
    /\ phase \in Begun \ Merged => currentRows = <<>>
    /\ phase \in Merged => RowKeysOf(analysis, automaton.states, currentRows, Len(table))
    /\ phase \in Merged \ {"table"} => Len(table) = Len(automaton.states)

SavedOK == phase = "done" => snapshot.closures = current /\ snapshot.rows = currentRows

Sound == Shape /\ AnalysisOK /\ ClosuresOK /\ TraversalOK /\ RowsOK /\ SavedOK

LEMMA NoEntries == EntriesOK(<<>>) /\ Range(<<>>) = {}
<1>1. DOMAIN <<>> = {}
  OBVIOUS
<1> QED BY <1>1 DEF EntriesOK, Range

LEMMA SoundInit == Init => Sound
<1> SUFFICES ASSUME Init PROVE Sound
  OBVIOUS
<1>1. phase = "load" /\ current = <<>> /\ cached = NoCache /\ snapshot = NoCache
  BY DEF Init
<1>2. NoCache.closures = <<>>
  BY DEF NoCache
<1>3. ClosuresOK
  BY <1>1, <1>2, NoEntries DEF ClosuresOK
<1> QED BY <1>1, <1>3, ShapeInit DEF Sound, AnalysisOK, TraversalOK, RowsOK, SavedOK, Begun, Merged

LEMMA ProductionsOfBuild ==
    ASSUME request \in Requests
    PROVE  /\ GoodProductions(PrepareProductions(Source)) /\ 0 \in DOMAIN PrepareProductions(Source)
           /\ TypedFirst(PrepareProductions(Source), NoFirst(PrepareProductions(Source)))
<1>1. IsGrammar(Source)
  BY RequestsAssumption DEF Source
<1>2. GoodProductions(PrepareProductions(Source))
  BY <1>1, PreparedAreGood
<1>3. 0 \in DOMAIN PrepareProductions(Source)
  BY <1>2 DEF GoodProductions
<1>4. TypedFirst(PrepareProductions(Source), NoFirst(PrepareProductions(Source)))
  BY DEF TypedFirst, NoFirst
<1> QED BY <1>2, <1>3, <1>4

LEMMA SoundLoad == Sound /\ Load => AnalysisOK' /\ ClosuresOK' /\ TraversalOK' /\ RowsOK' /\ SavedOK'
<1> SUFFICES ASSUME Sound, Load PROVE AnalysisOK' /\ ClosuresOK' /\ TraversalOK' /\ RowsOK' /\ SavedOK'
  OBVIOUS
<1>1. /\ current' = <<>> /\ automaton' = NoStates /\ currentRows' = <<>>
      /\ cached' \in {snapshot, NoCache} /\ snapshot' = snapshot /\ request' = request
      /\ phase' \in {"failed", "first"}
  BY Zenon DEF Load, Fail, Proceed
<1>2. phase' = "first" => \E ps \in {PrepareProductions(Source)} : analysis' = Analysis(ps, K, NoFirst(ps))
  BY Zenon DEF Load, Fail, Proceed
<1>3. AnalysisOK'
  <2>1. ASSUME phase' = "first"
        PROVE  GoodAnalysis(analysis') /\ analysis' = Analysis(PrepareProductions(Source), 1, analysis'.first)
    <3> DEFINE ps == PrepareProductions(Source)
    <3>1. analysis' = Analysis(ps, 1, NoFirst(ps))
      BY <1>2, <2>1 DEF K
    <3>2. GoodProductions(ps) /\ TypedFirst(ps, NoFirst(ps))
      BY ProductionsOfBuild DEF Sound, Shape, PhasesOK
    <3> HIDE DEF ps
    <3>3. GoodAnalysis(Analysis(ps, 1, NoFirst(ps))) /\ analysis'.first = NoFirst(ps)
      BY <3>1, <3>2, AnalysisIsGood, AnalysisHas
    <3> QED BY <3>1, <3>3 DEF ps
  <2>2. Source' = Source
    BY <1>1 DEF Source
  <2> QED BY <1>1, <2>1, <2>2 DEF AnalysisOK, Begun
<1>4. ClosuresOK'
  <2>1. EntriesOK(snapshot.closures) /\ EntriesOK(NoCache.closures)
    BY NoEntries DEF Sound, ClosuresOK, NoCache
  <2>2. EntriesOK(cached'.closures)
    BY <1>1, <2>1
  <2> QED BY <1>1, <2>1, <2>2, NoEntries DEF ClosuresOK
<1> QED BY <1>1, <1>3, <1>4 DEF TraversalOK, RowsOK, SavedOK, Begun, Merged

LEMMA SoundFirstRound == Sound /\ FirstRound => AnalysisOK' /\ ClosuresOK' /\ TraversalOK' /\ RowsOK' /\ SavedOK'
<1> SUFFICES ASSUME Sound, FirstRound PROVE AnalysisOK' /\ ClosuresOK' /\ TraversalOK' /\ RowsOK' /\ SavedOK'
  OBVIOUS
<1>1. /\ phase = "first" /\ phase' \in {"first", "start"}
      /\ analysis' = [analysis EXCEPT !.first = FirstSweep(Productions, K, analysis.first)]
      /\ UNCHANGED <<request, snapshot, cached, current, tablesVars>>
  BY DEF FirstRound, Proceed
<1> DEFINE ps == PrepareProductions(Source)
           swept == FirstSweep(analysis.productions, 1, analysis.first)
<1>2. GoodAnalysis(analysis) /\ analysis = Analysis(ps, 1, analysis.first) /\ analysis.productions = ps
  BY <1>1, AnalysisHas DEF Sound, AnalysisOK, Begun
<1>3. GoodProductions(ps) /\ TypedFirst(ps, swept)
  BY <1>2, SweepStaysTyped DEF GoodAnalysis
<1>4. analysis' = [analysis EXCEPT !.first = swept]
  BY <1>1 DEF Productions, K
<1> HIDE DEF swept, ps
<1>5. analysis' = Analysis(ps, 1, swept) /\ analysis'.first = swept
  BY <1>2, <1>4, AnalysisHas
<1>6. AnalysisOK'
  <2>1. Source' = Source
    BY <1>1 DEF Source
  <2>2. GoodAnalysis(analysis')
    BY <1>3, <1>5, AnalysisIsGood
  <2> QED BY <2>1, <2>2, <1>5 DEF AnalysisOK, ps
<1> QED BY <1>1, <1>6 DEF Sound, ClosuresOK, TraversalOK, RowsOK, SavedOK, Begun, Merged, tablesVars

LEMMA EncodedStatesGrow ==
    ASSUME NEW ps, NEW known, NEW states, NEW items, NEW entries,
           entries = {Enc(ps, s) : s \in known}, states = known \cup {items}
    PROVE  entries \cup {Enc(ps, items)} = {Enc(ps, s) : s \in states}
OBVIOUS

LEMMA SoundFirstState == Sound /\ FirstState => AnalysisOK' /\ ClosuresOK' /\ TraversalOK' /\ RowsOK' /\ SavedOK'
<1> SUFFICES ASSUME Sound, FirstState PROVE AnalysisOK' /\ ClosuresOK' /\ TraversalOK' /\ RowsOK' /\ SavedOK'
  OBVIOUS
<1> DEFINE kernel == StartKernel(1)
           R == Closure(analysis, kernel)
<1>1. /\ phase = "start"
      /\ UNCHANGED <<request, snapshot, cached, analysis, table, currentRows>>
  BY DEF FirstState
<1>2. \/ GiveUp(Look(kernel, ClosureKey(kernel)))
      \/ /\ Remember(ClosureKey(kernel), Look(kernel, ClosureKey(kernel)))
         /\ automaton' = [states |-> <<DecodeItems(Look(kernel, ClosureKey(kernel)).entry)>>, moves |-> {}]
         /\ Proceed("states")
  BY DEF FirstState, K
<1>3. /\ GoodAnalysis(analysis) /\ analysis = Analysis(PrepareProductions(Source), 1, analysis.first)
      /\ analysis.productions = PrepareProductions(Source)
  BY <1>1, AnalysisHas DEF Sound, AnalysisOK, Begun
<1>4. GoodItems(analysis, kernel)
  <2>1. 0 \in DOMAIN analysis.productions
    BY <1>3, ProductionsOfBuild DEF Sound, Shape, PhasesOK
  <2> QED BY <2>1, <1>3, StartIsGood
<1>5. AnalysisOK'
  <2>1. Source' = Source
    BY <1>1 DEF Source
  <2> QED BY <1>1, <1>3, <2>1 DEF AnalysisOK
<1>6. EntriesOK(current) /\ EntriesOK(cached.closures) /\ current = <<>> /\ currentRows = <<>>
  BY <1>1 DEF Sound, ClosuresOK, TraversalOK, RowsOK, Begun, Merged
<1>7. CASE GiveUp(Look(kernel, ClosureKey(kernel)))
  <2>1. phase' = "failed" /\ current' = current
    BY <1>7, Zenon DEF GiveUp, Fail
  <2> QED BY <2>1, <1>1, <1>5 DEF Sound, ClosuresOK, TraversalOK, RowsOK, SavedOK, Begun, Merged
<1>8. CASE /\ Remember(ClosureKey(kernel), Look(kernel, ClosureKey(kernel)))
           /\ automaton' = [states |-> <<DecodeItems(Look(kernel, ClosureKey(kernel)).entry)>>, moves |-> {}]
           /\ Proceed("states")
  <2>1. /\ EntriesOK(current') /\ Range(current') = Range(current) \cup {Enc(analysis.productions, R)}
        /\ DecodeItems(Look(kernel, ClosureKey(kernel)).entry) = R
    BY <1>3, <1>4, <1>6, <1>8, RememberedIs
  <2>2. automaton' = [states |-> <<R>>, moves |-> {}] /\ phase' = "states"
    BY <2>1, <1>8 DEF Proceed
  <2>3. GoodItems(analysis, R)
    BY <1>3, <1>4, ClosureStaysGood
  <2> HIDE DEF R, kernel
  <2>4. automaton'.states = <<R>> /\ DOMAIN <<R>> = {1} /\ <<R>>[1] = R /\ Range(<<R>>) = {R}
    <3>1. DOMAIN <<R>> = {1} /\ <<R>>[1] = R
      OBVIOUS
    <3>2. Range(<<R>>) = {R}
      BY <3>1 DEF Range
    <3> QED BY <2>2, <3>1, <3>2
  <2>5. AllGood(analysis, <<R>>) /\ Distinct(<<R>>)
    BY <2>3, <2>4 DEF AllGood, Distinct
  <2>6. Range(current') = {Enc(analysis.productions, s) : s \in Range(<<R>>)}
    BY <2>1, <2>4, <1>6, NoEntries
  <2>7. TraversalOK'
    BY <1>1, <2>2, <2>4, <2>5, <2>6 DEF TraversalOK, EncodedStates, Merged
  <2>8. RowsOK' /\ SavedOK'
    BY <1>1, <2>2, <1>6 DEF RowsOK, SavedOK, Merged
  <2> QED BY <2>1, <2>7, <2>8, <1>1, <1>5 DEF Sound, ClosuresOK
<1> QED BY <1>2, <1>7, <1>8

LEMMA SoundNextState == Sound /\ NextState => AnalysisOK' /\ ClosuresOK' /\ TraversalOK' /\ RowsOK' /\ SavedOK'
<1> SUFFICES ASSUME Sound, NextState PROVE AnalysisOK' /\ ClosuresOK' /\ TraversalOK' /\ RowsOK' /\ SavedOK'
  OBVIOUS
<1>1. /\ phase = "states" /\ phase' \in {"states", "merge"}
      /\ UNCHANGED <<request, snapshot, cached, analysis, current, automaton, table, currentRows>>
  BY DEF NextState, Proceed
<1>2. Source' = Source /\ EncodedStates' = EncodedStates
  BY <1>1 DEF Source, EncodedStates
<1> QED BY <1>1, <1>2
        DEF Sound, AnalysisOK, ClosuresOK, TraversalOK, RowsOK, SavedOK, Begun, Merged

LEMMA SoundGoTo == Sound /\ GoTo => AnalysisOK' /\ ClosuresOK' /\ TraversalOK' /\ RowsOK' /\ SavedOK'
<1> SUFFICES ASSUME Sound, GoTo PROVE AnalysisOK' /\ ClosuresOK' /\ TraversalOK' /\ RowsOK' /\ SavedOK'
  OBVIOUS
<1> DEFINE kernel == Kernel(analysis, automaton.states[expanded], Head(awaiting))
           R == Closure(analysis, kernel)
           found == Look(kernel, ClosureKey(kernel))
           d == AddTransition(automaton, expanded - 1, Head(awaiting), R)
<1>1. /\ phase = "states" /\ awaiting # <<>>
      /\ UNCHANGED <<request, snapshot, cached, analysis, table, currentRows>>
  BY DEF GoTo
<1>2. \/ GiveUp(found)
      \/ /\ Remember(ClosureKey(kernel), found)
         /\ automaton' = AddTransition(automaton, expanded - 1, Head(awaiting), DecodeItems(found.entry))
         /\ UNCHANGED phase
  BY DEF GoTo
<1>3. GoodAnalysis(analysis) /\ analysis = Analysis(PrepareProductions(Source), 1, analysis.first)
  BY <1>1 DEF Sound, AnalysisOK, Begun
<1>4. /\ AllGood(analysis, automaton.states) /\ Distinct(automaton.states) /\ Range(current) = EncodedStates
      /\ EntriesOK(current) /\ EntriesOK(cached.closures) /\ EntriesOK(snapshot.closures)
  BY <1>1 DEF Sound, ClosuresOK, TraversalOK
<1>5. IsSequence(automaton.states) /\ expanded \in DOMAIN automaton.states
  <2>1. IsSequence(automaton.states) /\ expanded \in Nat /\ expanded <= Len(automaton.states) /\ expanded >= 1
    BY <1>1 DEF Sound, Shape, StatesOK
  <2>2. PICK S : automaton.states \in Seq(S)
    BY <2>1 DEF IsSequence
  <2> QED BY <2>1, <2>2
<1>6. GoodItems(analysis, kernel)
  <2>1. GoodItems(analysis, automaton.states[expanded])
    BY <1>4, <1>5 DEF AllGood
  <2> QED BY <2>1, <1>3, KernelIsGood
<1>7. AnalysisOK'
  <2>1. Source' = Source
    BY <1>1 DEF Source
  <2> QED BY <1>1, <1>3, <2>1 DEF AnalysisOK
<1>8. CASE GiveUp(found)
  <2>1. phase' = "failed" /\ current' = current
    BY <1>8, Zenon DEF GiveUp, Fail
  <2> QED BY <2>1, <1>1, <1>7 DEF Sound, ClosuresOK, TraversalOK, RowsOK, SavedOK, Begun, Merged
<1>9. CASE /\ Remember(ClosureKey(kernel), found)
           /\ automaton' = AddTransition(automaton, expanded - 1, Head(awaiting), DecodeItems(found.entry))
           /\ UNCHANGED phase
  <2>1. /\ EntriesOK(current') /\ Range(current') = Range(current) \cup {Enc(analysis.productions, R)}
        /\ DecodeItems(found.entry) = R
    BY <1>3, <1>4, <1>6, <1>9, RememberedIs
  <2>2. GoodItems(analysis, R)
    BY <1>3, <1>6, ClosureStaysGood
  <2>3. automaton' = d /\ phase' = phase
    BY <2>1, <1>9
  <2> HIDE DEF R, kernel, found
  <2>4. /\ IsSequence(d.states) /\ Range(d.states) = Range(automaton.states) \cup {R}
        /\ Distinct(d.states)
    <3>1. Moved(d, automaton, expanded - 1, Head(awaiting), R)
      BY <1>5, TransitionIs
    <3> QED BY <3>1, <1>4 DEF Moved
  <2> HIDE DEF d
  <2>5. AllGood(analysis, d.states)
    <3>1. ASSUME NEW i \in DOMAIN d.states PROVE GoodItems(analysis, d.states[i])
      <4>1. d.states[i] \in Range(automaton.states) \cup {R}
        BY <2>4 DEF Range
      <4>2. d.states[i] = R \/ \E j \in DOMAIN automaton.states : d.states[i] = automaton.states[j]
        BY <4>1 DEF Range
      <4> QED BY <4>2, <2>2, <1>4 DEF AllGood
    <3> QED BY <3>1 DEF AllGood
  <2>6. Range(current') = {Enc(analysis.productions, s) : s \in Range(d.states)}
    BY <2>1, <2>4, <1>4, EncodedStatesGrow DEF EncodedStates
  <2>7. TraversalOK'
    BY <1>1, <2>3, <2>4, <2>5, <2>6 DEF TraversalOK, EncodedStates, Merged
  <2>8. RowsOK' /\ SavedOK'
    BY <1>1, <2>3 DEF Sound, RowsOK, SavedOK, Begun, Merged
  <2> QED BY <2>1, <2>7, <2>8, <1>1, <1>4, <1>7 DEF ClosuresOK
<1> QED BY <1>2, <1>8, <1>9

LEMMA SameCores ==
    ASSUME NEW ps, NEW S, NEW T, {s.cores : s \in S} = {s.cores : s \in T}
    PROVE  {e.cores : e \in {Enc(ps, s) : s \in S}} = {e.cores : e \in {Enc(ps, s) : s \in T}}
<1> DEFINE of(U) == {e.cores : e \in {Enc(ps, s) : s \in U}}
<1>1. ASSUME NEW U, NEW V, \A u \in U : \E v \in V : v.cores = u.cores, NEW x \in of(U) PROVE x \in of(V)
  <2>1. PICK u \in U : x = Enc(ps, u).cores
    OBVIOUS
  <2>2. PICK v \in V : v.cores = u.cores
    BY <1>1
  <2>3. Enc(ps, v).cores = Enc(ps, u).cores
    <3>1. Enc(ps, v).cores = {EncCore(ps, c) : c \in v.cores}
      BY EncodedParts
    <3>2. Enc(ps, u).cores = {EncCore(ps, c) : c \in u.cores}
      BY EncodedParts
    <3> QED BY <2>2, <3>1, <3>2, Zenon
  <2> QED BY <2>1, <2>2, <2>3
<1>2. /\ \A s \in S : \E t \in T : t.cores = s.cores
      /\ \A t \in T : \E s \in S : s.cores = t.cores
  <2>1. ASSUME NEW s \in S PROVE \E t \in T : t.cores = s.cores
    <3>1. s.cores \in {t.cores : t \in T}
      OBVIOUS
    <3> QED BY <3>1
  <2>2. ASSUME NEW t \in T PROVE \E s \in S : s.cores = t.cores
    <3>1. t.cores \in {s.cores : s \in S}
      OBVIOUS
    <3> QED BY <3>1
  <2> QED BY <2>1, <2>2
<1>3. of(S) \subseteq of(T) /\ of(T) \subseteq of(S)
  <2> HIDE DEF of
  <2> QED BY <1>1, <1>2
<1> QED BY <1>3

LEMMA SoundMerge == Sound /\ MergeStates => AnalysisOK' /\ ClosuresOK' /\ TraversalOK' /\ RowsOK' /\ SavedOK'
<1> SUFFICES ASSUME Sound, MergeStates PROVE AnalysisOK' /\ ClosuresOK' /\ TraversalOK' /\ RowsOK' /\ SavedOK'
  OBVIOUS
<1>1. /\ phase = "merge"
      /\ UNCHANGED <<request, snapshot, cached, analysis, current, table, currentRows>>
  BY DEF MergeStates
<1>2. phase' = "failed" \/ (phase' = "table" /\ automaton' \in {automaton, MergeLR0Cores(automaton)})
  BY Zenon DEF MergeStates, Fail, Proceed, CollectionOf
<1>3. GoodAnalysis(analysis) /\ analysis = Analysis(PrepareProductions(Source), 1, analysis.first)
  BY <1>1 DEF Sound, AnalysisOK, Begun
<1>4. AnalysisOK' /\ ClosuresOK'
  <2>1. Source' = Source
    BY <1>1 DEF Source
  <2> QED BY <1>1, <1>3, <2>1 DEF AnalysisOK, Sound, ClosuresOK
<1>5. CASE phase' = "failed"
  BY <1>4, <1>5 DEF TraversalOK, RowsOK, SavedOK, Begun, Merged
<1>6. CASE phase' = "table" /\ automaton' \in {automaton, MergeLR0Cores(automaton)}
  <2>1. /\ AllGood(analysis, automaton.states) /\ Distinct(automaton.states) /\ Range(current) = EncodedStates
        /\ IsSequence(automaton.states) /\ currentRows = <<>> /\ table = <<>>
    BY <1>1 DEF Sound, TraversalOK, RowsOK, Shape, StatesOK, TableOK, Begun, Merged
  <2>2. /\ AllGood(analysis, MergeLR0Cores(automaton).states) /\ Distinct(MergeLR0Cores(automaton).states)
        /\ {s.cores : s \in Range(MergeLR0Cores(automaton).states)} = {s.cores : s \in Range(automaton.states)}
    BY <2>1, <1>3, MergeIsGood
  <2>3. /\ AllGood(analysis, automaton'.states) /\ Distinct(automaton'.states)
        /\ {s.cores : s \in Range(automaton'.states)} = {s.cores : s \in Range(automaton.states)}
    BY <2>1, <2>2, <1>6
  <2>4. {e.cores : e \in {Enc(analysis.productions, s) : s \in Range(automaton.states)}} =
            {e.cores : e \in {Enc(analysis.productions, s) : s \in Range(automaton'.states)}}
    <3>1. {s.cores : s \in Range(automaton.states)} = {s.cores : s \in Range(automaton'.states)}
      BY <2>3
    <3> QED BY <3>1, SameCores
  <2>5. {e.cores : e \in Range(current)} = {e.cores : e \in EncodedStates'}
    BY <2>1, <2>4, <1>1 DEF EncodedStates
  <2>6. TraversalOK'
    BY <1>1, <1>6, <2>3, <2>5 DEF TraversalOK
  <2>7. RowsOK'
    <3>1. DOMAIN <<>> = {} /\ Len(<<>>) = 0
      OBVIOUS
    <3>2. RowKeysOf(analysis, automaton'.states, <<>>, 0)
      BY <3>1, FS_EmptySet DEF RowKeysOf
    <3> QED BY <1>1, <1>6, <2>1, <3>1, <3>2 DEF RowsOK, Begun, Merged
  <2> QED BY <1>4, <1>6, <2>6, <2>7 DEF SavedOK
<1> QED BY <1>2, <1>5, <1>6

\* Row keys name the states, which are all different.
LEMMA RowKeyIsNew ==
    ASSUME NEW A, GoodAnalysis(A), NEW states, AllGood(A, states), Distinct(states),
           NEW i \in DOMAIN states, NEW j \in DOMAIN states,
           Enc(A.productions, states[i]) = Enc(A.productions, states[j])
    PROVE  i = j
<1>1. \A m \in DOMAIN states : Dec(A.productions, Enc(A.productions, states[m])) = states[m]
  <2>1. ASSUME NEW m \in DOMAIN states PROVE Dec(A.productions, Enc(A.productions, states[m])) = states[m]
    <3>1. states[m] \in ItemsIn(A.productions, Short(SymbolsOf(A.productions))) /\ GoodProductions(A.productions)
      BY GoodItemsAre DEF AllGood, GoodAnalysis
    <3> QED BY <3>1, DecodedIsEncoded
  <2> QED BY <2>1
<1>2. states[i] = states[j]
  BY <1>1
<1> QED BY <1>2 DEF Distinct

LEMMA StateKeyIs == ASSUME NEW state PROVE StateKey(state) = Enc(analysis.productions, automaton.states[state + 1])
BY KeysAreThose DEF StateKey, Productions

LEMMA SoundBuildRow == Sound /\ BuildRow => AnalysisOK' /\ ClosuresOK' /\ TraversalOK' /\ RowsOK' /\ SavedOK'
<1> SUFFICES ASSUME Sound, BuildRow PROVE AnalysisOK' /\ ClosuresOK' /\ TraversalOK' /\ RowsOK' /\ SavedOK'
  OBVIOUS
<1> DEFINE key == RowKey(Len(table))
           states == automaton.states
           n == Len(table)
<1>1. /\ phase = "table" /\ Len(table) < Len(automaton.states) /\ phase' = phase
      /\ UNCHANGED <<request, snapshot, cached, analysis, current, automaton>>
  BY DEF BuildRow
<1>2. PICK row, proposals : table' = Append(table, row) /\ currentRows' = Stored(currentRows, key, proposals)
  BY DEF BuildRow
<1>3. GoodAnalysis(analysis) /\ analysis = Analysis(PrepareProductions(Source), 1, analysis.first)
  BY <1>1 DEF Sound, AnalysisOK, Begun
<1>4. AnalysisOK' /\ ClosuresOK' /\ TraversalOK' /\ SavedOK'
  <2>1. Source' = Source /\ EncodedStates' = EncodedStates
    BY <1>1 DEF Source, EncodedStates
  <2> QED BY <1>1, <1>3, <2>1 DEF AnalysisOK, Sound, ClosuresOK, TraversalOK, SavedOK, Begun, Merged
<1>5. n \in Nat /\ n + 1 \in DOMAIN states /\ Len(table') = n + 1 /\ \A i \in 1..n : i \in DOMAIN states
  <2>1. PICK S : table \in Seq(S)
    BY DEF Sound, Shape, TableOK, IsSequence
  <2>2. PICK T : states \in Seq(T)
    BY DEF Sound, Shape, StatesOK, IsSequence
  <2>3. table \in Seq(S \cup {row})
    BY <2>1
  <2>4. Len(Append(table, row)) = Len(table) + 1
    BY <2>3
  <2> QED BY <2>1, <2>2, <2>4, <1>1, <1>2
<1>6. RowKeysOf(analysis, states, currentRows, n) /\ AllGood(analysis, states) /\ Distinct(states)
  BY <1>1 DEF Sound, RowsOK, TraversalOK, Merged
<1>7. key.state = Enc(analysis.productions, states[n + 1])
  BY StateKeyIs DEF RowKey
<1> HIDE DEF key, n, states
<1>8. key \notin DOMAIN currentRows
  <2> SUFFICES ASSUME key \in DOMAIN currentRows PROVE FALSE
    OBVIOUS
  <2>1. PICK i \in 1..n : key.state = Enc(analysis.productions, states[i])
    BY <1>6 DEF RowKeysOf
  <2>2. i \in DOMAIN states /\ i # n + 1
    BY <1>5
  <2> QED BY <2>1, <2>2, <1>3, <1>5, <1>6, <1>7, RowKeyIsNew
<1>9. DOMAIN currentRows' = DOMAIN currentRows \cup {key}
  BY <1>2, StoredIs DEF Extends
<1>10. RowKeysOf(analysis, states, currentRows', n + 1)
  <2>1. IsFiniteSet(DOMAIN currentRows') /\ Cardinality(DOMAIN currentRows') = n + 1
    BY <1>6, <1>8, <1>9, FS_AddElement DEF RowKeysOf
  <2>2. ASSUME NEW k \in DOMAIN currentRows' PROVE \E i \in 1..(n + 1) : k.state = Enc(analysis.productions, states[i])
    <3>1. CASE k = key
      <4>1. n + 1 \in 1..(n + 1)
        BY <1>5
      <4> QED BY <4>1, <3>1, <1>7
    <3>2. CASE k # key
      <4>1. PICK i \in 1..n : k.state = Enc(analysis.productions, states[i])
        BY <3>2, <1>6, <1>9 DEF RowKeysOf
      <4>2. i \in 1..(n + 1)
        BY <1>5
      <4> QED BY <4>1, <4>2
    <3> QED BY <3>1, <3>2
  <2> QED BY <2>1, <2>2 DEF RowKeysOf
<1>11. RowsOK'
  BY <1>1, <1>5, <1>10 DEF RowsOK, Merged, Begun, n, states
<1> QED BY <1>4, <1>11

LEMMA SoundLater ==
    Sound /\ (RowsDone \/ Restore \/ ResolveDepth \/ Save \/ Rebuild \/ UNCHANGED vars)
        => AnalysisOK' /\ ClosuresOK' /\ TraversalOK' /\ RowsOK' /\ SavedOK'
<1> SUFFICES ASSUME Sound, RowsDone \/ Restore \/ ResolveDepth \/ Save \/ Rebuild \/ UNCHANGED vars
             PROVE  AnalysisOK' /\ ClosuresOK' /\ TraversalOK' /\ RowsOK' /\ SavedOK'
  OBVIOUS
<1>1. CASE Rebuild
  <2>1. phase' = "load" /\ UNCHANGED <<snapshot, cached, current>>
    BY <1>1 DEF Rebuild
  <2> QED BY <2>1 DEF Sound, AnalysisOK, ClosuresOK, TraversalOK, RowsOK, SavedOK, Begun, Merged
<1>2. CASE UNCHANGED vars
  <2>1. UNCHANGED <<request, snapshot, cached, analysis, current, automaton, table, currentRows, phase>>
    BY <1>2 DEF vars, tablesVars
  <2>2. Source' = Source /\ EncodedStates' = EncodedStates
    BY <2>1 DEF Source, EncodedStates
  <2> QED BY <2>1, <2>2 DEF Sound, AnalysisOK, ClosuresOK, TraversalOK, RowsOK, SavedOK, Begun, Merged
<1>3. CASE RowsDone \/ Restore \/ ResolveDepth \/ Save
  <2>1. /\ UNCHANGED <<request, cached, analysis, current, automaton, table, currentRows>>
        /\ phase \in Merged /\ phase' \in Merged \ {"table"}
        /\ (phase' = "done" => snapshot'.closures = current /\ snapshot'.rows = currentRows)
        /\ snapshot' = snapshot \/ snapshot'.closures = current
        /\ phase = "table" => Len(table) = Len(automaton.states)
    <3>1. CASE RowsDone
      BY <3>1 DEF RowsDone, Proceed, Merged
    <3>2. CASE Restore
      BY <3>2 DEF Restore, Proceed, Merged
    <3>3. CASE ResolveDepth
      BY <3>3 DEF ResolveDepth, Proceed, Merged
    <3>4. CASE Save
      <4>1. snapshot' = SaveCache
        BY <3>4 DEF Save
      <4>2. snapshot'.closures = current /\ snapshot'.rows = currentRows
        BY <4>1 DEF SaveCache, SnapshotWith
      <4> QED BY <3>4, <4>2 DEF Save, Proceed, Merged, tablesVars
    <3> QED BY <1>3, <3>1, <3>2, <3>3, <3>4
  <2>2. Source' = Source /\ EncodedStates' = EncodedStates
    BY <2>1 DEF Source, EncodedStates
  <2>3. AnalysisOK' /\ SavedOK'
    BY <2>1, <2>2 DEF Sound, AnalysisOK, SavedOK, Begun, Merged
  <2>4. ClosuresOK'
    BY <2>1 DEF Sound, ClosuresOK
  <2>5. TraversalOK'
    BY <2>1, <2>2 DEF Sound, TraversalOK, Merged
  <2>6. RowsOK'
    BY <2>1 DEF Sound, RowsOK, Merged, Begun
  <2> QED BY <2>3, <2>4, <2>5, <2>6
<1> QED BY <1>1, <1>2, <1>3

LEMMA SoundNext == Sound /\ [Next]_vars => Sound'
<1> SUFFICES ASSUME Sound, [Next]_vars PROVE Sound'
  OBVIOUS
<1>1. Shape'
  BY ShapeNext DEF Sound
<1>2. \/ Load \/ FirstRound \/ FirstState \/ NextState \/ GoTo \/ MergeStates \/ BuildRow
      \/ (RowsDone \/ Restore \/ ResolveDepth \/ Save \/ Rebuild \/ UNCHANGED vars)
  BY Zenon DEF Next, Step, Done
<1>3. AnalysisOK' /\ ClosuresOK' /\ TraversalOK' /\ RowsOK' /\ SavedOK'
  BY <1>2, SoundLoad, SoundFirstRound, SoundFirstState, SoundNextState, SoundGoTo, SoundMerge,
     SoundBuildRow, SoundLater
<1> QED BY <1>1, <1>3 DEF Sound

\* A snapshot holds the closures and the rows of the states of its own build,
\* however many builds went before it: it does not grow with the edits.  Each
\* closure of the traversal is a state it found, two states never share a row
\* key, and a merge keeps the cores.  (Remember, AddTransition, mergeLR0Cores,
\* saveCache.)
THEOREM SnapshotsDoNotGrow == Spec => []SnapshotIsOfThisBuild
<1>1. Sound => SnapshotIsOfThisBuild
  <2> SUFFICES ASSUME Sound, phase = "done" PROVE SnapshotIsOfThisBuild
    BY DEF SnapshotIsOfThisBuild
  <2>1. snapshot.closures = current /\ snapshot.rows = currentRows /\ IsSequence(automaton.states)
    BY DEF Sound, SavedOK, Shape, StatesOK
  <2>2. Cardinality(DOMAIN snapshot.rows) = Len(automaton.states)
    BY <2>1 DEF Sound, RowsOK, RowKeysOf, Merged
  <2>3. {e.cores : e \in Range(current)} = {e.cores : e \in EncodedStates}
    BY DEF Sound, TraversalOK, Merged
  <2>4. \A i \in DOMAIN automaton.states : StateKey(i - 1) = Enc(analysis.productions, automaton.states[i])
    <3>1. PICK S : automaton.states \in Seq(S)
      BY <2>1 DEF IsSequence
    <3>2. \A i \in DOMAIN automaton.states : (i - 1) + 1 = i
      BY <3>1
    <3> QED BY <3>2, StateKeyIs
  <2>5. {e.cores : e \in EncodedStates} = {StateKey(i - 1).cores : i \in DOMAIN automaton.states}
    BY <2>4 DEF EncodedStates, Range
  <2> QED BY <2>1, <2>2, <2>3, <2>5 DEF SnapshotIsOfThisBuild
<1> QED BY <1>1, SoundInit, SoundNext, PTL DEF Spec

-----------------------------------------------------------------------------
(* A build with a snapshot finds the FIRST sets and the states of a build   *)
(* without one.                                                             *)

CanonicalOK ==
    /\ phase = "first" =>
          FirstLoop(PrepareProductions(Source), 1)[analysis.first] = ComputeFirstK(PrepareProductions(Source), 1)
    /\ phase \in Begun \ {"first"} => analysis.first = ComputeFirstK(PrepareProductions(Source), 1)
    /\ phase = "states" => Underway(Source, analysis, automaton, expanded, awaiting)
    /\ phase = "merge" => automaton = Canonical(Source, analysis)
    /\ phase \in Merged => automaton = CollectionOf(Canonical(Source, analysis), request.family)

LEMMA CanonicalFirst == Sound /\ CanonicalOK /\ (Load \/ FirstRound) => CanonicalOK'
<1> SUFFICES ASSUME Sound, CanonicalOK, Load \/ FirstRound PROVE CanonicalOK'
  OBVIOUS
<1> DEFINE ps == PrepareProductions(Source)
<1>1. GoodProductions(ps) /\ TypedFirst(ps, NoFirst(ps))
  BY ProductionsOfBuild DEF Sound, Shape, PhasesOK
<1>2. CASE Load
  <2>1. phase' \in {"failed", "first"} /\ request' = request
    BY <1>2, Zenon DEF Load, Fail, Proceed
  <2>2. phase' = "first" => analysis' = Analysis(ps, 1, NoFirst(ps))
    BY <1>2, Zenon DEF Load, Fail, Proceed, K
  <2>3. Source' = Source
    BY <2>1 DEF Source
  <2> HIDE DEF ps
  <2>4. phase' = "first" => FirstLoop(ps, 1)[analysis'.first] = ComputeFirstK(ps, 1)
    <3>1. ComputeFirstK(ps, 1) = FirstLoop(ps, 1)[NoFirst(ps)]
      BY <1>1, FirstLoopIs
    <3> QED BY <2>2, <3>1, AnalysisHas
  <2> QED BY <2>1, <2>3, <2>4 DEF CanonicalOK, Begun, Merged, ps
<1>3. CASE FirstRound
  <2> DEFINE swept == FirstSweep(analysis.productions, 1, analysis.first)
  <2>1. /\ phase = "first" /\ request' = request
        /\ analysis' = [analysis EXCEPT !.first = swept]
        /\ IF swept = analysis.first THEN phase' = "start" ELSE phase' = phase
    BY <1>3 DEF FirstRound, Proceed, Productions, K
  <2>2. GoodAnalysis(analysis) /\ analysis = Analysis(ps, 1, analysis.first) /\ analysis.productions = ps
    BY <2>1, AnalysisHas DEF Sound, AnalysisOK, Begun
  <2>3. FirstLoop(ps, 1)[analysis.first] = ComputeFirstK(ps, 1)
    BY <2>1 DEF CanonicalOK
  <2>4. Source' = Source
    BY <2>1 DEF Source
  <2>5. swept = FirstSweep(ps, 1, analysis.first)
    BY <2>2
  <2> HIDE DEF swept, ps
  <2>6. analysis'.first = swept
    BY <2>1, <2>2, AnalysisHas
  <2>7. WideFirst(ps, analysis.first)
    BY <1>1, <2>2, TypedIsWide DEF GoodAnalysis
  <2>8. FirstLoop(ps, 1)[analysis.first] = IF swept = analysis.first THEN analysis.first ELSE FirstLoop(ps, 1)[swept]
    BY <1>1, <2>5, <2>7, FirstLoopIs
  <2>9. CASE swept = analysis.first
    <3>1. phase' = "start" /\ analysis'.first = ComputeFirstK(ps, 1)
      BY <2>1, <2>3, <2>6, <2>8, <2>9
    <3> QED BY <3>1, <2>4 DEF CanonicalOK, Begun, Merged, ps
  <2>10. CASE swept # analysis.first
    <3>1. phase' = "first" /\ FirstLoop(ps, 1)[analysis'.first] = ComputeFirstK(ps, 1)
      BY <2>1, <2>3, <2>6, <2>8, <2>10
    <3> QED BY <3>1, <2>4 DEF CanonicalOK, Begun, Merged, ps
  <2> QED BY <2>9, <2>10
<1> QED BY <1>2, <1>3

LEMMA CanonicalFirstState == Sound /\ CanonicalOK /\ FirstState => CanonicalOK'
<1> SUFFICES ASSUME Sound, CanonicalOK, FirstState PROVE CanonicalOK'
  OBVIOUS
<1> DEFINE kernel == StartKernel(1)
           found == Look(kernel, ClosureKey(kernel))
           R == Closure(analysis, kernel)
<1>1. phase = "start" /\ request' = request /\ analysis' = analysis /\ Source' = Source
  BY DEF FirstState, Source
<1>2. \/ GiveUp(found)
      \/ /\ Remember(ClosureKey(kernel), found)
         /\ automaton' = [states |-> <<DecodeItems(found.entry)>>, moves |-> {}]
         /\ Proceed("states") /\ UNCHANGED <<awaiting, expanded>>
  BY DEF FirstState, K
<1>3. GoodAnalysis(analysis) /\ 0 \in DOMAIN analysis.productions /\ IsGrammar(Source)
  <2>1. GoodAnalysis(analysis) /\ analysis.productions = PrepareProductions(Source)
    BY <1>1, AnalysisHas DEF Sound, AnalysisOK, Begun
  <2>2. request \in Requests
    BY DEF Sound, Shape, PhasesOK
  <2> QED BY <2>1, <2>2, ProductionsOfBuild, RequestsAssumption DEF Source
<1>4. GoodItems(analysis, kernel)
  BY <1>3, StartIsGood
<1>5. EntriesOK(current) /\ EntriesOK(cached.closures)
  BY DEF Sound, ClosuresOK
<1>6. awaiting = <<>> /\ expanded = 0 /\ analysis.first = ComputeFirstK(PrepareProductions(Source), 1)
  BY <1>1 DEF Sound, Shape, StatesOK, CanonicalOK, Begun
<1>7. CASE GiveUp(found)
  <2>1. phase' = "failed"
    BY <1>7, Zenon DEF GiveUp, Fail
  <2> QED BY <2>1 DEF CanonicalOK, Begun, Merged
<1>8. CASE /\ Remember(ClosureKey(kernel), found)
           /\ automaton' = [states |-> <<DecodeItems(found.entry)>>, moves |-> {}]
           /\ Proceed("states") /\ UNCHANGED <<awaiting, expanded>>
  <2>1. DecodeItems(found.entry) = R
    BY <1>3, <1>4, <1>5, <1>8, RememberedIs
  <2>2. automaton' = [states |-> <<R>>, moves |-> {}] /\ phase' = "states" /\ awaiting' = <<>> /\ expanded' = 0
    BY <1>6, <1>8, <2>1 DEF Proceed
  <2>3. Underway(Source, analysis, [states |-> <<R>>, moves |-> {}], 0, <<>>)
    BY <1>3, UnderwayStarts
  <2> HIDE DEF R
  <2> QED BY <1>1, <1>6, <2>2, <2>3 DEF CanonicalOK, Merged
<1> QED BY <1>2, <1>7, <1>8

LEMMA CanonicalStates == Sound /\ CanonicalOK /\ (NextState \/ GoTo) => CanonicalOK'
<1> SUFFICES ASSUME Sound, CanonicalOK, NextState \/ GoTo PROVE CanonicalOK'
  OBVIOUS
<1> DEFINE kernel == Kernel(analysis, automaton.states[expanded], Head(awaiting))
           R == Closure(analysis, kernel)
           found == Look(kernel, ClosureKey(kernel))
           d == AddTransition(automaton, expanded - 1, Head(awaiting), R)
<1>1. phase = "states" /\ request' = request /\ analysis' = analysis /\ Source' = Source
  BY DEF NextState, GoTo, Source
<1>2. GoodAnalysis(analysis) /\ IsGrammar(Source)
  <2>1. request \in Requests
    BY DEF Sound, Shape, PhasesOK
  <2> QED BY <1>1, <2>1, RequestsAssumption DEF Sound, AnalysisOK, Begun, Source
<1>3. /\ analysis.first = ComputeFirstK(PrepareProductions(Source), 1)
      /\ Underway(Source, analysis, automaton, expanded, awaiting)
  BY <1>1 DEF CanonicalOK, Begun
<1>4. /\ expanded \in Nat /\ expanded <= Len(automaton.states)
      /\ awaiting # <<>> => expanded \in DOMAIN automaton.states
      /\ AllGood(analysis, automaton.states)
  <2>1. /\ IsSequence(automaton.states) /\ expanded \in Nat /\ expanded <= Len(automaton.states)
        /\ awaiting # <<>> => expanded >= 1
    BY <1>1 DEF Sound, Shape, StatesOK
  <2>2. PICK S : automaton.states \in Seq(S)
    BY <2>1 DEF IsSequence
  <2>3. AllGood(analysis, automaton.states)
    BY <1>1 DEF Sound, TraversalOK
  <2> QED BY <2>1, <2>2, <2>3
<1>5. Len(automaton.states) \in Nat
  <2>1. automaton \in Collections(analysis)
    BY <1>3 DEF Underway
  <2> QED BY <2>1, CollectionsAre
<1>6. CASE NextState
  <2>1. /\ awaiting = <<>> /\ automaton' = automaton
        /\ \/ expanded = Len(automaton.states) /\ phase' = "merge"
           \/ /\ expanded # Len(automaton.states) /\ phase' = phase
              /\ awaiting' = SymbolsAfter(Source, analysis, automaton.states[expanded + 1])
              /\ expanded' = expanded + 1
    BY <1>6 DEF NextState, Proceed
  <2>2. /\ expanded >= Len(automaton.states) => automaton = Canonical(Source, analysis)
        /\ expanded < Len(automaton.states) =>
              Underway(Source, analysis, automaton, expanded + 1,
                       SymbolsAfter(Source, analysis, automaton.states[expanded + 1]))
    BY <1>2, <1>3, <1>4, <2>1, UnderwayEnds
  <2>3. CASE expanded = Len(automaton.states) /\ phase' = "merge"
    BY <1>1, <1>3, <1>5, <2>1, <2>2, <2>3 DEF CanonicalOK, Merged
  <2>4. CASE /\ expanded # Len(automaton.states) /\ phase' = phase
             /\ awaiting' = SymbolsAfter(Source, analysis, automaton.states[expanded + 1])
             /\ expanded' = expanded + 1
    <3>1. expanded < Len(automaton.states)
      BY <1>4, <1>5, <2>4
    <3> QED BY <1>1, <1>3, <2>1, <2>2, <2>4, <3>1 DEF CanonicalOK, Merged
  <2> QED BY <2>1, <2>3, <2>4
<1>7. CASE GoTo
  <2>1. /\ awaiting # <<>>
        /\ \/ GiveUp(found)
           \/ /\ Remember(ClosureKey(kernel), found)
              /\ automaton' = AddTransition(automaton, expanded - 1, Head(awaiting), DecodeItems(found.entry))
              /\ awaiting' = Tail(awaiting) /\ UNCHANGED <<expanded, phase>>
    BY <1>7 DEF GoTo
  <2>2. GoodItems(analysis, kernel)
    <3>1. GoodItems(analysis, automaton.states[expanded])
      BY <1>4, <2>1 DEF AllGood
    <3> QED BY <3>1, <1>2, KernelIsGood
  <2>3. CASE GiveUp(found)
    <3>1. phase' = "failed"
      BY <2>3, Zenon DEF GiveUp, Fail
    <3> QED BY <3>1 DEF CanonicalOK, Begun, Merged
  <2>4. CASE /\ Remember(ClosureKey(kernel), found)
             /\ automaton' = AddTransition(automaton, expanded - 1, Head(awaiting), DecodeItems(found.entry))
             /\ awaiting' = Tail(awaiting) /\ UNCHANGED <<expanded, phase>>
    <3>1. EntriesOK(current) /\ EntriesOK(cached.closures)
      BY DEF Sound, ClosuresOK
    <3>2. DecodeItems(found.entry) = R
      BY <1>2, <2>2, <2>4, <3>1, RememberedIs
    <3>3. automaton' = d /\ awaiting' = Tail(awaiting) /\ expanded' = expanded /\ phase' = phase
      BY <2>4, <3>2
    <3>4. Underway(Source, analysis, d, expanded, Tail(awaiting))
      BY <1>2, <1>3, <1>4, <2>1, UnderwayGoes
    <3> HIDE DEF d
    <3> QED BY <1>1, <1>3, <3>3, <3>4 DEF CanonicalOK, Merged
  <2> QED BY <2>1, <2>3, <2>4
<1> QED BY <1>6, <1>7

LEMMA LaterPhases ==
    ASSUME BuildRow \/ RowsDone \/ Restore \/ ResolveDepth \/ Save
    PROVE  UNCHANGED <<request, analysis, automaton>> /\ phase \in Merged /\ phase' \in Merged
<1>1. CASE BuildRow
  BY <1>1 DEF BuildRow, Merged
<1>2. CASE RowsDone
  BY <1>2 DEF RowsDone, Proceed, Merged
<1>3. CASE Restore
  BY <1>3 DEF Restore, Proceed, Merged
<1>4. CASE ResolveDepth
  BY <1>4 DEF ResolveDepth, Proceed, Merged
<1>5. CASE Save
  BY <1>5 DEF Save, Proceed, Merged, tablesVars
<1> QED BY <1>1, <1>2, <1>3, <1>4, <1>5

LEMMA CanonicalLater ==
    Sound /\ CanonicalOK /\ (MergeStates \/ BuildRow \/ RowsDone \/ Restore \/ ResolveDepth \/ Save \/ Rebuild
                             \/ UNCHANGED vars) => CanonicalOK'
<1> SUFFICES ASSUME CanonicalOK, MergeStates \/ BuildRow \/ RowsDone \/ Restore \/ ResolveDepth \/ Save \/ Rebuild
                                 \/ UNCHANGED vars
             PROVE  CanonicalOK'
  OBVIOUS
<1>1. CASE Rebuild
  <2>1. phase' = "load"
    BY <1>1 DEF Rebuild
  <2> QED BY <2>1 DEF CanonicalOK, Begun, Merged
<1>2. CASE MergeStates
  <2>1. /\ phase = "merge" /\ request' = request /\ analysis' = analysis /\ Source' = Source
        /\ phase' = "failed" \/ (phase' = "table" /\ automaton' = CollectionOf(automaton, request.family))
    BY <1>2, Zenon DEF MergeStates, Fail, Proceed, Source
  <2>2. automaton = Canonical(Source, analysis) /\ analysis.first = ComputeFirstK(PrepareProductions(Source), 1)
    BY <2>1 DEF CanonicalOK, Begun
  <2>3. CASE phase' = "failed"
    BY <2>3 DEF CanonicalOK, Begun, Merged
  <2>4. CASE phase' = "table" /\ automaton' = CollectionOf(automaton, request.family)
    BY <2>1, <2>2, <2>4 DEF CanonicalOK
  <2> QED BY <2>1, <2>3, <2>4
<1>3. CASE UNCHANGED vars
  <2>1. UNCHANGED <<request, analysis, automaton, awaiting, expanded, phase>>
    BY <1>3 DEF vars, tablesVars
  <2>2. Source' = Source
    BY <2>1 DEF Source
  <2> QED BY <2>1, <2>2 DEF CanonicalOK
<1>4. CASE BuildRow \/ RowsDone \/ Restore \/ ResolveDepth \/ Save
  <2>1. /\ UNCHANGED <<request, analysis, automaton>> /\ phase \in Merged /\ phase' \in Merged
    BY <1>4, LaterPhases
  <2>2. Source' = Source
    BY <2>1 DEF Source
  <2> QED BY <2>1, <2>2 DEF CanonicalOK, Merged, Begun
<1> QED BY <1>1, <1>2, <1>3, <1>4

LEMMA CanonicalNext == Sound /\ CanonicalOK /\ [Next]_vars => CanonicalOK'
<1> SUFFICES ASSUME Sound, CanonicalOK, [Next]_vars PROVE CanonicalOK'
  OBVIOUS
<1>1. \/ Load \/ FirstRound \/ FirstState \/ NextState \/ GoTo
      \/ (MergeStates \/ BuildRow \/ RowsDone \/ Restore \/ ResolveDepth \/ Save \/ Rebuild \/ UNCHANGED vars)
  BY Zenon DEF Next, Step, Done
<1> QED BY <1>1, CanonicalFirst, CanonicalFirstState, CanonicalStates, CanonicalLater

\* The FIRST sets and the states of a build without a snapshot.
FreshStates ==
    LET ps == PrepareProductions(Source)
    IN  CollectionOf(Canonical(Source, Analysis(ps, K, ComputeFirstK(ps, K))), request.family)

\* Whatever closures the snapshot and the traversal supply, and whatever was
\* built before, a build has the states and the transitions that a build
\* without a snapshot has, and numbers them the same.  (computeFirstK,
\* buildCanonical, mergeLR0Cores.)
THEOREM StatesAreFresh == Spec => [](phase \in Merged => automaton = FreshStates)
<1>1. Init => CanonicalOK
  BY DEF Init, CanonicalOK, Begun, Merged
<1>2. Sound /\ CanonicalOK => (phase \in Merged => automaton = FreshStates)
  <2> SUFFICES ASSUME Sound, CanonicalOK, phase \in Merged PROVE automaton = FreshStates
    OBVIOUS
  <2>1. /\ analysis = Analysis(PrepareProductions(Source), 1, analysis.first)
        /\ analysis.first = ComputeFirstK(PrepareProductions(Source), 1)
        /\ automaton = CollectionOf(Canonical(Source, analysis), request.family)
    BY DEF Sound, AnalysisOK, CanonicalOK, Begun, Merged
  <2>2. analysis = Analysis(PrepareProductions(Source), 1, ComputeFirstK(PrepareProductions(Source), 1))
    BY <2>1
  <2> QED BY <2>1, <2>2 DEF FreshStates, K
<1> QED BY <1>1, <1>2, SoundInit, SoundNext, CanonicalNext, PTL DEF Spec

-----------------------------------------------------------------------------
(* The transitions of a build, as it finds them and after the merge.        *)

MovesOK ==
    /\ phase \in Begun => ~Malformed(Source)
    /\ phase \in {"states", "merge"} => MovesLead(analysis, automaton)
    /\ phase = "states" => Followed(Source, analysis, automaton, expanded, awaiting)
    /\ phase \in {"merge"} \cup Merged => AllMoves(Source, analysis, automaton)
    /\ phase \in Merged => OneTarget(automaton)

LEMMA MovesNext == Sound /\ CanonicalOK /\ MovesOK /\ [Next]_vars => MovesOK'
<1> SUFFICES ASSUME Sound, CanonicalOK, MovesOK, [Next]_vars PROVE MovesOK'
  OBVIOUS
<1> DEFINE A == analysis
<1>1. CASE Load
  <2>1. phase' \in {"first", "failed"} /\ request' = request /\ (phase' = "first" => ~Malformed(Source))
    BY <1>1, Zenon DEF Load, Fail, Proceed
  <2>2. phase' \in {"first", "failed"} /\ Source' = Source
    BY <1>1, Zenon DEF Load, Fail, Proceed, Source
  <2> QED BY <1>1, <2>1, <2>2 DEF MovesOK, Begun, Merged, Load
<1>2. CASE FirstRound
  <2>1. phase = "first" /\ phase' \in {"first", "start"} /\ Source' = Source
    BY <1>2 DEF FirstRound, Proceed, Source
  <2> QED BY <2>1 DEF MovesOK, Begun, Merged
<1>3. CASE FirstState
  <2>1. phase = "start" /\ Source' = Source /\ expanded = 0
    BY <1>3 DEF FirstState, Source, Sound, Shape, StatesOK
  <2>2. phase' = "failed" \/ (phase' = "states" /\ automaton'.moves = {} /\ expanded' = expanded)
    <3>1. phase' = "failed" \/ (phase' = "states" /\ expanded' = expanded
                                 /\ \E items : automaton' = [states |-> <<items>>, moves |-> {}])
      BY <1>3, Zenon DEF FirstState, GiveUp, Fail, Proceed
    <3>2. \A items : [states |-> <<items>>, moves |-> {}].moves = {}
      OBVIOUS
    <3> QED BY <3>1, <3>2
  <2>3. 1..0 = {}
    OBVIOUS
  <2> QED BY <2>1, <2>2, <2>3 DEF MovesOK, Begun, Merged, MovesLead, Followed
<1>4. CASE NextState \/ GoTo
  <2>1. phase = "states" /\ Source' = Source /\ analysis' = analysis
    BY <1>4 DEF NextState, GoTo, Source
  <2>2. /\ IsSequence(automaton.states) /\ MovesWithin(automaton) /\ expanded \in Nat
        /\ expanded <= Len(automaton.states) /\ (awaiting # <<>> => expanded >= 1)
    BY <2>1 DEF Sound, Shape, StatesOK
  <2>3. /\ MovesLead(A, automaton) /\ Followed(Source, A, automaton, expanded, awaiting) /\ ~Malformed(Source)
    BY <2>1 DEF MovesOK, Begun
  <2>4. GoodAnalysis(A) /\ IsGrammar(Source) /\ AllGood(A, automaton.states) /\ awaiting \in Seq(STRING)
    <3>1. request \in Requests
      BY DEF Sound, Shape, PhasesOK
    <3> QED BY <2>1, <3>1, RequestsAssumption
            DEF Sound, AnalysisOK, TraversalOK, Begun, Source, CanonicalOK, Underway
  <2>5. CASE NextState
    <3>1. /\ awaiting = <<>> /\ automaton' = automaton
          /\ \/ expanded = Len(automaton.states) /\ phase' = "merge"
             \/ /\ expanded # Len(automaton.states) /\ phase' = phase
                /\ awaiting' = SymbolsAfter(Source, A, automaton.states[expanded + 1])
                /\ expanded' = expanded + 1
      BY <2>5 DEF NextState, Proceed
    <3>2. /\ expanded = Len(automaton.states) => AllMoves(Source, A, automaton)
          /\ expanded # Len(automaton.states) =>
                Followed(Source, A, automaton, expanded + 1, SymbolsAfter(Source, A, automaton.states[expanded + 1]))
      BY <2>2, <2>3, <2>4, <3>1, MovesFollow
    <3>3. CASE expanded = Len(automaton.states) /\ phase' = "merge"
      BY <2>1, <2>3, <3>1, <3>2, <3>3 DEF MovesOK, Merged
    <3>4. CASE /\ expanded # Len(automaton.states) /\ phase' = phase
               /\ awaiting' = SymbolsAfter(Source, A, automaton.states[expanded + 1])
               /\ expanded' = expanded + 1
      BY <2>1, <2>3, <3>1, <3>2, <3>4 DEF MovesOK, Merged
    <3> QED BY <3>1, <3>3, <3>4
  <2>6. CASE GoTo
    <3> DEFINE kernel == Kernel(A, automaton.states[expanded], Head(awaiting))
               found == Look(kernel, ClosureKey(kernel))
               d == AddTransition(automaton, expanded - 1, Head(awaiting), Closure(A, kernel))
    <3>1. /\ awaiting # <<>>
          /\ \/ GiveUp(found)
             \/ /\ Remember(ClosureKey(kernel), found)
                /\ automaton' = AddTransition(automaton, expanded - 1, Head(awaiting), DecodeItems(found.entry))
                /\ awaiting' = Tail(awaiting) /\ UNCHANGED <<expanded, phase>>
      BY <2>6 DEF GoTo
    <3>2. expanded \in DOMAIN automaton.states
      <4>1. PICK S : automaton.states \in Seq(S)
        BY <2>2 DEF IsSequence
      <4> QED BY <2>2, <3>1, <4>1
    <3>3. GoodItems(A, kernel)
      <4>1. GoodItems(A, automaton.states[expanded])
        BY <2>4, <3>2 DEF AllGood
      <4> QED BY <4>1, <2>4, KernelIsGood
    <3>4. CASE GiveUp(found)
      <4>1. phase' = "failed"
        BY <3>4, Zenon DEF GiveUp, Fail
      <4> QED BY <4>1 DEF MovesOK, Begun, Merged
    <3>5. CASE /\ Remember(ClosureKey(kernel), found)
               /\ automaton' = AddTransition(automaton, expanded - 1, Head(awaiting), DecodeItems(found.entry))
               /\ awaiting' = Tail(awaiting) /\ UNCHANGED <<expanded, phase>>
      <4>1. EntriesOK(current) /\ EntriesOK(cached.closures)
        BY DEF Sound, ClosuresOK
      <4>2. DecodeItems(found.entry) = Closure(A, kernel)
        BY <2>4, <3>3, <3>5, <4>1, RememberedIs
      <4>3. automaton' = d /\ awaiting' = Tail(awaiting) /\ expanded' = expanded /\ phase' = phase
        BY <3>5, <4>2
      <4>4. MovesLead(A, d) /\ Followed(Source, A, d, expanded, Tail(awaiting))
        BY <2>2, <2>3, <2>4, <3>1, <3>2, MovesAdded
      <4> HIDE DEF d
      <4> QED BY <2>1, <2>3, <4>3, <4>4 DEF MovesOK, Merged
    <3> QED BY <3>1, <3>4, <3>5
  <2> QED BY <1>4, <2>5, <2>6
<1>5. CASE MergeStates
  <2>1. /\ phase = "merge" /\ analysis' = analysis /\ Source' = Source
        /\ \/ phase' = "failed"
           \/ /\ phase' = "table" /\ automaton' = CollectionOf(automaton, request.family)
              /\ request.family = "LALR" => ~InconsistentMerge(automaton)
    BY <1>5, Zenon DEF MergeStates, Fail, Proceed, Source
  <2>2. /\ IsSequence(automaton.states) /\ MovesWithin(automaton) /\ Distinct(automaton.states)
        /\ MovesLead(A, automaton) /\ AllMoves(Source, A, automaton) /\ ~Malformed(Source)
    BY <2>1 DEF Sound, Shape, StatesOK, TraversalOK, MovesOK, Begun
  <2>3. CASE phase' = "failed"
    BY <2>3 DEF MovesOK, Begun, Merged
  <2>4. CASE /\ phase' = "table" /\ automaton' = CollectionOf(automaton, request.family)
             /\ request.family = "LALR" => ~InconsistentMerge(automaton)
    <3>1. CASE request.family = "LALR"
      <4>1. automaton' = MergeLR0Cores(automaton)
        BY <2>4, <3>1 DEF CollectionOf
      <4>2. AllMoves(Source, A, MergeLR0Cores(automaton)) /\ OneTarget(MergeLR0Cores(automaton))
        BY <2>2, <2>4, <3>1, MergedMovesAre
      <4> QED BY <2>1, <2>2, <2>4, <4>1, <4>2 DEF MovesOK
    <3>2. CASE request.family # "LALR"
      <4>1. automaton' = automaton
        BY <2>4, <3>2 DEF CollectionOf
      <4>2. OneTarget(automaton)
        BY <2>2, OneTargetOf
      <4> QED BY <2>1, <2>2, <2>4, <4>1, <4>2 DEF MovesOK
    <3> QED BY <3>1, <3>2
  <2> QED BY <2>1, <2>3, <2>4
<1>6. CASE Rebuild
  <2>1. phase' = "load"
    BY <1>6 DEF Rebuild
  <2> QED BY <2>1 DEF MovesOK, Begun, Merged
<1>7. CASE UNCHANGED vars
  <2>1. UNCHANGED <<request, analysis, automaton, awaiting, expanded, phase>>
    BY <1>7 DEF vars, tablesVars
  <2>2. Source' = Source
    BY <2>1 DEF Source
  <2> QED BY <2>1, <2>2 DEF MovesOK
<1>8. CASE BuildRow \/ RowsDone \/ Restore \/ ResolveDepth \/ Save
  <2>1. /\ UNCHANGED <<request, analysis, automaton>> /\ phase \in Merged /\ phase' \in Merged
    BY <1>8, LaterPhases
  <2>2. Source' = Source
    BY <2>1 DEF Source
  <2> QED BY <2>1, <2>2 DEF MovesOK, Merged, Begun
<1> QED BY <1>1, <1>2, <1>3, <1>4, <1>5, <1>6, <1>7, <1>8, Zenon DEF Next, Step, Done

-----------------------------------------------------------------------------
(* A row depends on its key alone: on the encoded state, on the FIRST sets  *)
(* in its stamp and on the states its transitions lead to.                  *)

RowKeyIn(A, c, state) ==
    [state |-> Enc(A.productions, c.states[state + 1]),
     stamp |-> StampIn(A, VisitedIn(A, c.states[state + 1])),
     moves |-> {<<m.symbol, Enc(A.productions, c.states[m.to + 1])>> : m \in {m \in c.moves : m.from = state}}]

EncAction(A, c, action) ==
    [type |-> action.type,
     target |-> CASE action.type = "shift" -> Enc(A.productions, c.states[action.state + 1])
                  [] action.type = "reduce" -> KeyOf(A.productions, action.state + 1)
                  [] OTHER -> [none |-> TRUE]]

EncProposal(A, c, p) ==
    [window |-> p.window, action |-> EncAction(A, c, p.action), item |-> EncCore(A.productions, p.item)]

\* The row of a key.
KeyAfter(key, k, w) == Concatenate({<<KeyNext(k)>>}, KeyFollowed(key, k, {w}), 1)
StartKey == [production |-> [lhs |-> Augmented, rhs |-> <<Main>>, gaps |-> {}], occurrence |-> 0]
KeyTarget(key, symbol) == CHOOSE target : <<symbol, target>> \in key.moves
KeyOnToken(key, k) == ~KeyAtEnd(k) /\ KeyNext(k) \notin DOMAIN key.stamp.alternatives

KeyRow(key) ==
    (UNION {UNION {{[window |-> v, action |-> [type |-> "shift", target |-> KeyTarget(key, KeyNext(k))], item |-> k] :
                       v \in KeyAfter(key, k, w)} : w \in Lookaheads(key.state, k)} :
               k \in {k \in key.state.cores : KeyOnToken(key, k)}})
    \cup
    {[window |-> x[2], action |-> [type |-> "reduce", target |-> x[1][1]], item |-> x[1]] :
        x \in {y \in key.state.windows : KeyAtEnd(y[1]) /\ y[1][1] # StartKey}}
    \cup
    {[window |-> x[2], action |-> [type |-> "accept", target |-> [none |-> TRUE]], item |-> x[1]] :
        x \in {y \in key.state.windows :
                  KeyAtEnd(y[1]) /\ y[1][1] = StartKey /\ y[2] = EndWindow(1)}}

AKeyShift(key, r) ==
    \E k \in key.state.cores : \E w \in Lookaheads(key.state, k) : \E v \in KeyAfter(key, k, w) :
        /\ KeyOnToken(key, k)
        /\ r = [window |-> v, action |-> [type |-> "shift", target |-> KeyTarget(key, KeyNext(k))], item |-> k]

AKeyReduction(key, r) ==
    \E x \in key.state.windows :
        /\ KeyAtEnd(x[1]) /\ x[1][1] # StartKey
        /\ r = [window |-> x[2], action |-> [type |-> "reduce", target |-> x[1][1]], item |-> x[1]]

AKeyAccept(key, r) ==
    \E x \in key.state.windows :
        /\ KeyAtEnd(x[1]) /\ x[1][1] = StartKey /\ x[2] = EndWindow(1)
        /\ r = [window |-> x[2], action |-> [type |-> "accept", target |-> [none |-> TRUE]], item |-> x[1]]

LEMMA KeyRowIs ==
    ASSUME NEW key, NEW r
    PROVE  r \in KeyRow(key) <=> AKeyShift(key, r) \/ AKeyReduction(key, r) \/ AKeyAccept(key, r)
<1> DEFINE shift(k, v) == [window |-> v, action |-> [type |-> "shift", target |-> KeyTarget(key, KeyNext(k))], item |-> k]
           reduction(x) == [window |-> x[2], action |-> [type |-> "reduce", target |-> x[1][1]], item |-> x[1]]
           accept(x) == [window |-> x[2], action |-> [type |-> "accept", target |-> [none |-> TRUE]], item |-> x[1]]
<1> HIDE DEF shift, reduction, accept
<1> DEFINE first == UNION {UNION {{shift(k, v) : v \in KeyAfter(key, k, w)} : w \in Lookaheads(key.state, k)} :
                              k \in {k \in key.state.cores : KeyOnToken(key, k)}}
           second == {reduction(x) :
                         x \in {y \in key.state.windows : KeyAtEnd(y[1]) /\ y[1][1] # StartKey}}
           third == {accept(x) :
                        x \in {y \in key.state.windows :
                                  KeyAtEnd(y[1]) /\ y[1][1] = StartKey /\ y[2] = EndWindow(1)}}
<1>1. KeyRow(key) = first \cup second \cup third
  BY Zenon DEF KeyRow, shift, reduction, accept
<1>2. r \in first <=> AKeyShift(key, r)
  <2>1. AKeyShift(key, r) <=>
          \E k \in key.state.cores : \E w \in Lookaheads(key.state, k) : \E v \in KeyAfter(key, k, w) :
              KeyOnToken(key, k) /\ r = shift(k, v)
    BY Zenon DEF AKeyShift, shift
  <2> DEFINE of(k) == UNION {{shift(k, v) : v \in KeyAfter(key, k, w)} : w \in Lookaheads(key.state, k)}
  <2>2. \A k : r \in of(k) <=> \E w \in Lookaheads(key.state, k) : \E v \in KeyAfter(key, k, w) : r = shift(k, v)
    OBVIOUS
  <2>3. first = UNION {of(k) : k \in {k \in key.state.cores : KeyOnToken(key, k)}}
    OBVIOUS
  <2> HIDE DEF first, of
  <2> QED BY <2>1, <2>2, <2>3
<1>3. r \in second <=> AKeyReduction(key, r)
  <2>1. AKeyReduction(key, r) <=>
          \E x \in key.state.windows : KeyAtEnd(x[1]) /\ x[1][1] # StartKey /\ r = reduction(x)
    BY Zenon DEF AKeyReduction, reduction
  <2> QED BY <2>1
<1>4. r \in third <=> AKeyAccept(key, r)
  <2>1. AKeyAccept(key, r) <=>
          \E x \in key.state.windows :
             KeyAtEnd(x[1]) /\ x[1][1] = StartKey /\ x[2] = EndWindow(1) /\ r = accept(x)
    BY Zenon DEF AKeyAccept, accept
  <2> QED BY <2>1
<1> HIDE DEF first, second, third
<1> QED BY <1>1, <1>2, <1>3, <1>4

-----------------------------------------------------------------------------
(* The proposals of a state, encoded, are the row of its key.               *)

LEMMA StartKeyIs ==
    ASSUME NEW ps, StartsWell(ps), NEW id \in DOMAIN ps
    PROVE  KeyOf(ps, id) = StartKey <=> id = 0
<1>1. KeyOf(ps, 0) = StartKey
  <2>1. Earlier(ps, 0) = {}
    BY DEF Earlier
  <2>2. Cardinality({}) = 0
    BY FS_EmptySet
  <2>3. Named(ps, 0) = [lhs |-> Augmented, rhs |-> <<Main>>, gaps |-> {}]
    BY DEF Named, StartsWell
  <2> QED BY <2>1, <2>2, <2>3, Zenon DEF KeyOf, StartKey
<1> QED BY <1>1, KeysDiffer DEF StartsWell

LEMMA TargetIs ==
    ASSUME NEW A, NEW c, NEW state \in Int, OneTarget(c), NEW s, HasMove(c, state + 1, s)
    PROVE  KeyTarget(RowKeyIn(A, c, state), s) = Enc(A.productions, c.states[GotoOf(c, state, s) + 1])
<1> DEFINE enc(n) == Enc(A.productions, c.states[n + 1])
           key == RowKeyIn(A, c, state)
           target == CHOOSE t : <<s, t>> \in key.moves
<1>3. PICK m \in c.moves : m.from = state /\ m.symbol = s /\ GotoOf(c, state, s) = m.to
  BY GotoIs
<1>5. key.moves = {<<x.symbol, enc(x.to)>> : x \in {y \in c.moves : y.from = state}}
  BY DEF RowKeyIn
<1> HIDE DEF enc, key
<1>6. <<s, enc(m.to)>> \in key.moves
  BY <1>3, <1>5
<1>7. <<s, target>> \in key.moves
  BY <1>6, Zenon
<1>8. PICK x \in c.moves : x.from = state /\ <<s, target>> = <<x.symbol, enc(x.to)>>
  <2> HIDE DEF target
  <2> QED BY <1>5, <1>7
<1>9. x.symbol = s /\ target = enc(x.to)
  <2> HIDE DEF target
  <2> QED BY <1>8
<1>10. x.to = m.to
  BY <1>3, <1>8, <1>9 DEF OneTarget
<1>11. KeyTarget(key, s) = target
  BY DEF KeyTarget
<1> HIDE DEF target
<1>13. KeyTarget(key, s) = enc(GotoOf(c, state, s))
  BY <1>3, <1>9, <1>10, <1>11
<1> QED BY <1>13 DEF enc, key

LEMMA KeyAtEndIs ==
    ASSUME NEW A, NEW c
    PROVE  KeyAtEnd(EncCore(A.productions, c)) <=> AtEnd(A, c)
<1>1. EncCore(A.productions, c)[1].production.rhs = A.productions[c[1]].rhs /\ EncCore(A.productions, c)[2] = c[2]
  BY DEF EncCore, KeyOf, Named
<1> QED BY <1>1 DEF KeyAtEnd, AtEnd

\* A key says all of an item that its proposals depend on.
ShiftsAlike(A, items, key, core) ==
    /\ KeyOnToken(key, EncCore(A.productions, core)) <=> OnToken(A, core)
    /\ OnToken(A, core) =>
          /\ KeyNext(EncCore(A.productions, core)) = NextSymbol(A, core)
          /\ \A w : KeyAfter(key, EncCore(A.productions, core), w) = After(A, core, w)
    /\ Lookaheads(key.state, EncCore(A.productions, core)) = Lookaheads(items, core)

LEMMA ShiftsAre ==
    ASSUME NEW A, NEW c, NEW state, RowReady(A, c, state), NEW core \in c.states[state + 1].cores
    PROVE  ShiftsAlike(A, c.states[state + 1], RowKeyIn(A, c, state), core)
<1> DEFINE items == c.states[state + 1]
           ps == A.productions
           key == RowKeyIn(A, c, state)
           k == EncCore(ps, core)
<1>1. GoodAnalysis(A) /\ GoodProductions(ps) /\ A.k = 1
  BY DEF RowReady, GoodAnalysis
<1>2. items \in ItemsIn(ps, Short(SymbolsOf(ps))) /\ items.cores \subseteq CoresOf(ps) /\ core \in CoresOf(ps)
  <2>1. items \in ItemsIn(ps, Short(SymbolsOf(ps)))
    BY DEF RowReady, GoodItems, KernelIn
  <2> QED BY <2>1 DEF ItemsIn
<1>3. key.state = Enc(ps, items) /\ key.stamp = StampIn(A, VisitedIn(A, items)) /\ key.stamp = KeyIn(A, items).stamp
  BY DEF RowKeyIn, KeyIn
<1>4. Lookaheads(key.state, k) = Lookaheads(items, core)
  BY <1>1, <1>2, <1>3, EncodedLookaheads
<1>5. KeyAtEnd(k) <=> AtEnd(A, core)
  BY KeyAtEndIs
<1>6. ASSUME ~AtEnd(A, core)
      PROVE  /\ KeyNext(k) = NextSymbol(A, core)
             /\ KeyNext(k) \in DOMAIN key.stamp.alternatives <=> NextSymbol(A, core) \in LeftSides(ps)
             /\ \A w : KeyAfter(key, k, w) = After(A, core, w)
  <2>1. core \in VisitedIn(A, items)
    BY <1>1, <1>2, <1>6, ExpansionIs DEF VisitedIn
  <2>2. /\ KeyNext(k) = NextSymbol(A, core)
        /\ KeyNext(k) \in DOMAIN KeyIn(A, items).stamp.alternatives <=> NextSymbol(A, core) \in LeftSides(ps)
        /\ \A windows : KeyFollowed(KeyIn(A, items), k, windows) = FollowedBy(A, core, windows)
    BY <1>1, <1>2, <2>1, KeySays
  <2>3. ASSUME NEW w PROVE KeyAfter(key, k, w) = After(A, core, w)
    <3>1. KeyFollowed(key, k, {w}) = KeyFollowed(KeyIn(A, items), k, {w})
      BY <1>3, Zenon DEF KeyFollowed
    <3>2. FollowedBy(A, core, {w}) = FirstOfSuffix(A, core[1], core[2] + 1, w)
      <4>1. \A x : FollowedBy(A, core, {w}) = UNION {FirstOfSuffix(A, core[1], core[2] + 1, y) : y \in {w}}
        BY Zenon DEF FollowedBy
      <4> DEFINE F(y) == FirstOfSuffix(A, core[1], core[2] + 1, y)
      <4> HIDE DEF F
      <4>2. UNION {F(y) : y \in {w}} = F(w)
        OBVIOUS
      <4> QED BY <4>1, <4>2, Zenon DEF F
    <3>3. KeyFollowed(key, k, {w}) = FirstOfSuffix(A, core[1], core[2] + 1, w)
      BY <2>2, <3>1, <3>2
    <3> QED BY <1>1, <2>2, <3>3, Zenon DEF KeyAfter, After
  <2> QED BY <1>3, <2>2, <2>3
<1>7. KeyOnToken(key, k) <=> OnToken(A, core)
  BY <1>5, <1>6 DEF KeyOnToken, OnToken
<1>8. OnToken(A, core) => KeyNext(k) = NextSymbol(A, core) /\ \A w : KeyAfter(key, k, w) = After(A, core, w)
  BY <1>6 DEF OnToken
<1> QED BY <1>4, <1>7, <1>8, Zenon DEF ShiftsAlike

LEMMA ShiftIsKeyShift ==
    ASSUME NEW A, NEW c, NEW state, RowReady(A, c, state), NEW r
    PROVE  AKeyShift(RowKeyIn(A, c, state), r) <=>
              \E p : AShift(A, c, state, p) /\ r = EncProposal(A, c, p)
<1> DEFINE items == c.states[state + 1]
           ps == A.productions
           key == RowKeyIn(A, c, state)
           shift(core, v) == [window |-> v, item |-> core,
                              action |-> Shift(GotoOf(c, state, NextSymbol(A, core)))]
           keyShift(k, v) == [window |-> v, action |-> [type |-> "shift", target |-> KeyTarget(key, KeyNext(k))],
                              item |-> k]
<1>1. key.state.cores = {EncCore(ps, core) : core \in items.cores}
  BY EncodedParts DEF RowKeyIn
<1>2. \A core \in items.cores : ShiftsAlike(A, items, key, core)
  BY ShiftsAre
<1>3. ASSUME NEW core \in items.cores, OnToken(A, core), NEW v
      PROVE  EncProposal(A, c, shift(core, v)) = keyShift(EncCore(ps, core), v)
  <2> DEFINE s == NextSymbol(A, core)
             n == GotoOf(c, state, s)
             k == EncCore(ps, core)
  <2>1. s \in NextSymbols(A, items)
    BY <1>3 DEF NextSymbols, OnToken
  <2>2. HasMove(c, state + 1, s) /\ state \in Int /\ OneTarget(c)
    BY <1>3, <2>1 DEF RowReady, OnToken
  <2>3. KeyTarget(key, s) = Enc(ps, c.states[n + 1])
    BY <2>2, TargetIs
  <2>4. KeyNext(k) = s
    BY <1>2, <1>3 DEF ShiftsAlike
  <2>5. EncAction(A, c, Shift(n)) = [type |-> "shift", target |-> Enc(ps, c.states[n + 1])]
    <3>1. Shift(n).type = "shift" /\ Shift(n).state = n
      BY DEF Shift
    <3> QED BY <3>1 DEF EncAction
  <2> HIDE DEF n, s, k, key, ps
  <2>6. shift(core, v).window = v /\ shift(core, v).item = core /\ shift(core, v).action = Shift(n)
    BY DEF n, s
  <2>7. EncProposal(A, c, shift(core, v)) = [window |-> v, action |-> EncAction(A, c, Shift(n)), item |-> k]
    BY <2>6, Zenon DEF EncProposal, k, ps
  <2> QED BY <2>3, <2>4, <2>5, <2>7 DEF k, ps
<1> HIDE DEF key, shift, keyShift
<1>4. AKeyShift(key, r) <=>
        \E k \in key.state.cores : \E w \in Lookaheads(key.state, k) : \E v \in KeyAfter(key, k, w) :
            KeyOnToken(key, k) /\ r = keyShift(k, v)
  BY Zenon DEF AKeyShift, keyShift
<1>5. \A p : AShift(A, c, state, p) <=>
        \E core \in items.cores : \E w \in Lookaheads(items, core) : \E v \in After(A, core, w) :
            OnToken(A, core) /\ p = shift(core, v)
  BY Zenon DEF AShift, shift
<1> HIDE DEF items
<1>6. ASSUME AKeyShift(key, r) PROVE \E p : AShift(A, c, state, p) /\ r = EncProposal(A, c, p)
  <2>1. PICK core \in items.cores : \E w \in Lookaheads(key.state, EncCore(ps, core)) :
            \E v \in KeyAfter(key, EncCore(ps, core), w) :
               KeyOnToken(key, EncCore(ps, core)) /\ r = keyShift(EncCore(ps, core), v)
    BY <1>1, <1>4, <1>6
  <2>2. PICK w \in Lookaheads(key.state, EncCore(ps, core)) :
            \E v \in KeyAfter(key, EncCore(ps, core), w) :
               KeyOnToken(key, EncCore(ps, core)) /\ r = keyShift(EncCore(ps, core), v)
    BY <2>1
  <2>3. PICK v \in KeyAfter(key, EncCore(ps, core), w) :
               KeyOnToken(key, EncCore(ps, core)) /\ r = keyShift(EncCore(ps, core), v)
    BY <2>2
  <2>4. OnToken(A, core) /\ w \in Lookaheads(items, core) /\ v \in After(A, core, w)
    BY <1>2, <2>2, <2>3 DEF ShiftsAlike
  <2>5. AShift(A, c, state, shift(core, v))
    BY <1>5, <2>4
  <2>6. r = EncProposal(A, c, shift(core, v))
    BY <1>3, <2>3, <2>4
  <2> QED BY <2>5, <2>6
<1>7. ASSUME NEW p, AShift(A, c, state, p), r = EncProposal(A, c, p) PROVE AKeyShift(key, r)
  <2>1. PICK core \in items.cores : \E w \in Lookaheads(items, core) : \E v \in After(A, core, w) :
            OnToken(A, core) /\ p = shift(core, v)
    BY <1>5, <1>7
  <2>2. PICK w \in Lookaheads(items, core) : \E v \in After(A, core, w) : OnToken(A, core) /\ p = shift(core, v)
    BY <2>1
  <2>3. PICK v \in After(A, core, w) : OnToken(A, core) /\ p = shift(core, v)
    BY <2>2
  <2>4. /\ KeyOnToken(key, EncCore(ps, core)) /\ w \in Lookaheads(key.state, EncCore(ps, core))
        /\ v \in KeyAfter(key, EncCore(ps, core), w) /\ EncCore(ps, core) \in key.state.cores
    BY <1>1, <1>2, <2>2, <2>3 DEF ShiftsAlike
  <2>5. r = keyShift(EncCore(ps, core), v)
    BY <1>3, <1>7, <2>3
  <2> QED BY <1>4, <2>4, <2>5
<1>8. AKeyShift(key, r) <=> \E p : AShift(A, c, state, p) /\ r = EncProposal(A, c, p)
  BY <1>6, <1>7
<1> QED BY <1>8 DEF key

LEMMA EndIsKeyEnd ==
    ASSUME NEW A, NEW c, NEW state, RowReady(A, c, state), NEW r
    PROVE  /\ AKeyReduction(RowKeyIn(A, c, state), r) <=>
                 \E p : AReduction(A, c, state, p) /\ r = EncProposal(A, c, p)
           /\ AKeyAccept(RowKeyIn(A, c, state), r) <=>
                 \E p : AnAccept(A, c, state, p) /\ r = EncProposal(A, c, p)
<1> DEFINE items == c.states[state + 1]
           ps == A.productions
           key == RowKeyIn(A, c, state)
           reduction(x) == [window |-> x[2], item |-> x[1], action |-> Reduce(x[1][1])]
           accept(x) == [window |-> x[2], item |-> x[1], action |-> AcceptAction]
           keyReduction(y) == [window |-> y[2], action |-> [type |-> "reduce", target |-> y[1][1]], item |-> y[1]]
           keyAccept(y) == [window |-> y[2], action |-> [type |-> "accept", target |-> [none |-> TRUE]],
                            item |-> y[1]]
           enc(x) == <<EncCore(ps, x[1]), x[2]>>
<1>1. key.state.windows = {enc(x) : x \in items.windows}
  BY EncodedParts DEF RowKeyIn
<1>2. ASSUME NEW x \in items.windows
      PROVE  /\ x[1] \in items.cores /\ x[1][1] \in DOMAIN ps /\ x[1][1] \in Int
             /\ enc(x)[1] = EncCore(ps, x[1]) /\ enc(x)[2] = x[2] /\ enc(x)[1][1] = KeyOf(ps, x[1][1])
  <2>1. items \in ItemsIn(ps, Short(SymbolsOf(ps))) /\ Matched(items) /\ GoodProductions(ps)
    BY DEF RowReady, GoodItems, KernelIn, StartsWell
  <2>2. x[1] \in items.cores /\ x[1] \in CoresOf(ps)
    BY <2>1 DEF ItemsIn, Matched
  <2>3. x[1][1] \in DOMAIN ps
    BY <2>2 DEF CoresOf
  <2>4. x[1][1] \in Int
    BY <2>1, <2>3 DEF GoodProductions
  <2> QED BY <2>2, <2>3, <2>4 DEF EncCore
<1>3. ASSUME NEW x \in items.windows
      PROVE  /\ KeyAtEnd(enc(x)[1]) <=> AtEnd(A, x[1])
             /\ enc(x)[1][1] = StartKey <=> x[1][1] = 0
  <2>1. StartsWell(ps)
    BY DEF RowReady
  <2> QED BY <1>2, <2>1, KeyAtEndIs, StartKeyIs
<1>4. A.k = 1
  BY DEF RowReady, GoodAnalysis
<1>5. ASSUME NEW x \in items.windows PROVE EncProposal(A, c, reduction(x)) = keyReduction(enc(x))
  <2>1. EncAction(A, c, Reduce(x[1][1])) = [type |-> "reduce", target |-> KeyOf(ps, x[1][1])]
    <3>1. Reduce(x[1][1]).type = "reduce" /\ Reduce(x[1][1]).state + 1 = x[1][1]
      BY <1>2 DEF Reduce
    <3> QED BY <3>1 DEF EncAction
  <2>2. reduction(x).window = x[2] /\ reduction(x).item = x[1] /\ reduction(x).action = Reduce(x[1][1])
    OBVIOUS
  <2> HIDE DEF reduction, enc
  <2>3. EncProposal(A, c, reduction(x)) =
          [window |-> x[2], action |-> EncAction(A, c, Reduce(x[1][1])), item |-> EncCore(ps, x[1])]
    BY <2>2, Zenon DEF EncProposal
  <2> QED BY <1>2, <2>1, <2>3
<1>6. ASSUME NEW x \in items.windows PROVE EncProposal(A, c, accept(x)) = keyAccept(enc(x))
  <2>1. EncAction(A, c, AcceptAction) = [type |-> "accept", target |-> [none |-> TRUE]]
    <3>1. AcceptAction.type = "accept"
      BY DEF AcceptAction
    <3> QED BY <3>1 DEF EncAction
  <2>2. accept(x).window = x[2] /\ accept(x).item = x[1] /\ accept(x).action = AcceptAction
    OBVIOUS
  <2> HIDE DEF accept, enc
  <2>3. EncProposal(A, c, accept(x)) =
          [window |-> x[2], action |-> EncAction(A, c, AcceptAction), item |-> EncCore(ps, x[1])]
    BY <2>2, Zenon DEF EncProposal
  <2> QED BY <1>2, <2>1, <2>3
<1> HIDE DEF key, reduction, accept, keyReduction, keyAccept
<1>7. AKeyReduction(key, r) <=>
        \E y \in key.state.windows : KeyAtEnd(y[1]) /\ y[1][1] # StartKey /\ r = keyReduction(y)
  BY Zenon DEF AKeyReduction, keyReduction
<1>8. AKeyAccept(key, r) <=>
        \E y \in key.state.windows : KeyAtEnd(y[1]) /\ y[1][1] = StartKey /\ y[2] = EndWindow(1) /\ r = keyAccept(y)
  BY Zenon DEF AKeyAccept, keyAccept
<1>9. \A p : AReduction(A, c, state, p) <=>
        \E x \in items.windows : x[1] \in items.cores /\ AtEnd(A, x[1]) /\ x[1][1] # 0 /\ p = reduction(x)
  BY Zenon DEF AReduction, reduction
<1>10. \A p : AnAccept(A, c, state, p) <=>
         \E x \in items.windows :
            x[1] \in items.cores /\ AtEnd(A, x[1]) /\ x[1][1] = 0 /\ x[2] = EndWindow(A.k) /\ p = accept(x)
  BY Zenon DEF AnAccept, accept
<1> HIDE DEF items, enc
<1>11. AKeyReduction(key, r) <=> \E p : AReduction(A, c, state, p) /\ r = EncProposal(A, c, p)
  <2>1. AKeyReduction(key, r) <=>
          \E x \in items.windows : KeyAtEnd(enc(x)[1]) /\ enc(x)[1][1] # StartKey /\ r = keyReduction(enc(x))
    BY <1>1, <1>7
  <2>2. AKeyReduction(key, r) <=>
          \E x \in items.windows : x[1] \in items.cores /\ AtEnd(A, x[1]) /\ x[1][1] # 0
                                   /\ r = EncProposal(A, c, reduction(x))
    BY <1>2, <1>3, <1>5, <2>1
  <2> QED BY <1>9, <2>2
<1>12. AKeyAccept(key, r) <=> \E p : AnAccept(A, c, state, p) /\ r = EncProposal(A, c, p)
  <2>1. AKeyAccept(key, r) <=>
          \E x \in items.windows : KeyAtEnd(enc(x)[1]) /\ enc(x)[1][1] = StartKey /\ enc(x)[2] = EndWindow(1)
                                   /\ r = keyAccept(enc(x))
    BY <1>1, <1>8
  <2>2. AKeyAccept(key, r) <=>
          \E x \in items.windows : x[1] \in items.cores /\ AtEnd(A, x[1]) /\ x[1][1] = 0 /\ x[2] = EndWindow(A.k)
                                   /\ r = EncProposal(A, c, accept(x))
    BY <1>2, <1>3, <1>4, <1>6, <2>1
  <2> QED BY <1>10, <2>2
<1> QED BY <1>11, <1>12 DEF key

LEMMA RowIsOfKey ==
    ASSUME NEW A, NEW c, NEW state, RowReady(A, c, state)
    PROVE  {EncProposal(A, c, p) : p \in Proposals(A, c, state)} = KeyRow(RowKeyIn(A, c, state))
<1> DEFINE key == RowKeyIn(A, c, state)
<1>1. ASSUME NEW r
      PROVE  r \in KeyRow(key) <=> \E p \in Proposals(A, c, state) : r = EncProposal(A, c, p)
  <2>1. r \in KeyRow(key) <=> AKeyShift(key, r) \/ AKeyReduction(key, r) \/ AKeyAccept(key, r)
    BY KeyRowIs
  <2>2. AKeyShift(key, r) <=> \E p : AShift(A, c, state, p) /\ r = EncProposal(A, c, p)
    BY ShiftIsKeyShift
  <2>3. /\ AKeyReduction(key, r) <=> \E p : AReduction(A, c, state, p) /\ r = EncProposal(A, c, p)
        /\ AKeyAccept(key, r) <=> \E p : AnAccept(A, c, state, p) /\ r = EncProposal(A, c, p)
    BY EndIsKeyEnd
  <2>4. \A p : p \in Proposals(A, c, state) <=>
                  AShift(A, c, state, p) \/ AReduction(A, c, state, p) \/ AnAccept(A, c, state, p)
    BY ProposalsAre
  <2> HIDE DEF key
  <2> QED BY <2>1, <2>2, <2>3, <2>4, Zenon
<1> HIDE DEF key
<1>2. {EncProposal(A, c, p) : p \in Proposals(A, c, state)} = KeyRow(key)
  BY <1>1
<1> QED BY <1>2 DEF key

-----------------------------------------------------------------------------
(* A row that was encoded decodes to what it was.                          *)

IdIn(A, c, key) == (CHOOSE i \in DOMAIN c.states : Enc(A.productions, c.states[i]) = key) - 1

DecAction(A, c, action) ==
    CASE action.type = "shift" -> Shift(IdIn(A, c, action.target))
      [] action.type = "reduce" -> Reduce(IdOf(A.productions, action.target))
      [] OTHER -> AcceptAction

DecProposal(A, c, r) ==
    [window |-> r.window, action |-> DecAction(A, c, r.action), item |-> <<IdOf(A.productions, r.item[1]), r.item[2]>>]

LEMMA IdInIs ==
    ASSUME NEW A, GoodAnalysis(A), NEW c, AllGood(A, c.states), Distinct(c.states), NEW i \in DOMAIN c.states
    PROVE  IdIn(A, c, Enc(A.productions, c.states[i])) = i - 1
<1> DEFINE key == Enc(A.productions, c.states[i])
           n == CHOOSE m \in DOMAIN c.states : Enc(A.productions, c.states[m]) = key
<1>1. n \in DOMAIN c.states /\ Enc(A.productions, c.states[n]) = key
  BY Zenon
<1>2. IdIn(A, c, key) = n - 1
  BY Zenon DEF IdIn
<1> HIDE DEF n
<1>3. n = i
  BY <1>1, RowKeyIsNew
<1> QED BY <1>2, <1>3

LEMMA CoreIsBack ==
    ASSUME NEW ps, GoodProductions(ps), NEW core \in CoresOf(ps)
    PROVE  <<IdOf(ps, EncCore(ps, core)[1]), EncCore(ps, core)[2]>> = core
<1>1. core = <<core[1], core[2]>> /\ core[1] \in DOMAIN ps
  BY DEF CoresOf
<1>2. EncCore(ps, core)[1] = KeyOf(ps, core[1]) /\ EncCore(ps, core)[2] = core[2]
  BY DEF EncCore
<1> QED BY <1>1, <1>2, IdsOfKeys

LEMMA ProposalIsBack ==
    ASSUME NEW A, NEW c, NEW state, RowReady(A, c, state), AllGood(A, c.states), Distinct(c.states),
           MovesWithin(c), IsSequence(c.states), NEW p \in Proposals(A, c, state)
    PROVE  DecProposal(A, c, EncProposal(A, c, p)) = p
<1> DEFINE items == c.states[state + 1]
           ps == A.productions
<1>1. GoodAnalysis(A) /\ GoodProductions(ps)
  BY DEF RowReady, StartsWell
<1>2. items.cores \subseteq CoresOf(ps)
  <2>1. items \in ItemsIn(ps, Short(SymbolsOf(ps)))
    BY DEF RowReady, GoodItems, KernelIn
  <2> QED BY <2>1 DEF ItemsIn
<1>3. ASSUME NEW w, NEW core \in items.cores, NEW action, p = [window |-> w, item |-> core, action |-> action],
             DecAction(A, c, EncAction(A, c, action)) = action
      PROVE  DecProposal(A, c, EncProposal(A, c, p)) = p
  <2>1. p.window = w /\ p.item = core /\ p.action = action
    BY <1>3
  <2>2. EncProposal(A, c, p) = [window |-> w, action |-> EncAction(A, c, action), item |-> EncCore(ps, core)]
    BY <2>1, Zenon DEF EncProposal
  <2>3. /\ EncProposal(A, c, p).window = w /\ EncProposal(A, c, p).action = EncAction(A, c, action)
        /\ EncProposal(A, c, p).item = EncCore(ps, core)
    BY <2>2
  <2>4. <<IdOf(ps, EncCore(ps, core)[1]), EncCore(ps, core)[2]>> = core
    BY <1>1, <1>2, CoreIsBack
  <2>5. DecProposal(A, c, EncProposal(A, c, p)) = [window |-> w, action |-> action, item |-> core]
    BY <1>3, <2>3, <2>4, Zenon DEF DecProposal
  <2> QED BY <1>3, <2>5
<1>4. AShift(A, c, state, p) \/ AReduction(A, c, state, p) \/ AnAccept(A, c, state, p)
  BY ProposalsAre
<1>5. CASE AShift(A, c, state, p)
  <2>0. PICK core \in items.cores : \E w :
            OnToken(A, core) /\ p = [window |-> w, item |-> core, action |-> Shift(GotoOf(c, state, NextSymbol(A, core)))]
    BY <1>5, Zenon DEF AShift
  <2>1. PICK w :
            OnToken(A, core) /\ p = [window |-> w, item |-> core, action |-> Shift(GotoOf(c, state, NextSymbol(A, core)))]
    BY <2>0
  <2> DEFINE s == NextSymbol(A, core)
             n == GotoOf(c, state, s)
  <2>2. HasMove(c, state + 1, s) /\ state \in Int /\ OneTarget(c)
    <3>1. s \in NextSymbols(A, items)
      BY <2>1 DEF NextSymbols, OnToken
    <3> QED BY <2>1, <3>1 DEF RowReady, OnToken
  <2>3. PICK m \in c.moves : n = m.to
    <3>1. ASSUME NEW x, HasMove(c, state + 1, x), state \in Int
          PROVE  \E m \in c.moves : m.from = state /\ m.symbol = x /\ GotoOf(c, state, x) = m.to
      BY <3>1, GotoIs
    <3> HIDE DEF s
    <3>2. \E m \in c.moves : GotoOf(c, state, s) = m.to
      BY <2>2, <3>1
    <3> QED BY <3>2
  <2>4. n \in Int /\ n + 1 \in DOMAIN c.states
    <3>1. PICK T : c.states \in Seq(T)
      BY DEF IsSequence
    <3>2. m.to \in 0..(Len(c.states) - 1) /\ Len(c.states) \in Nat /\ DOMAIN c.states = 1..Len(c.states)
      BY <3>1 DEF MovesWithin
    <3> HIDE DEF n
    <3> QED BY <2>3, <3>2
  <2>5. EncAction(A, c, Shift(n)) = [type |-> "shift", target |-> Enc(ps, c.states[n + 1])]
    <3>1. Shift(n).type = "shift" /\ Shift(n).state = n
      BY DEF Shift
    <3> QED BY <3>1 DEF EncAction
  <2>6. IdIn(A, c, Enc(ps, c.states[n + 1])) = n
    <3>1. IdIn(A, c, Enc(ps, c.states[n + 1])) = (n + 1) - 1
      BY <1>1, <2>4, IdInIs
    <3> HIDE DEF n
    <3> QED BY <3>1, <2>4
  <2> HIDE DEF n
  <2>7. DecAction(A, c, EncAction(A, c, Shift(n))) = Shift(n)
    <3>1. EncAction(A, c, Shift(n)).type = "shift" /\ EncAction(A, c, Shift(n)).target = Enc(ps, c.states[n + 1])
      BY <2>5
    <3> QED BY <2>6, <3>1 DEF DecAction
  <2>8. p = [window |-> w, item |-> core, action |-> Shift(n)]
    BY <2>1 DEF n
  <2> QED BY <1>3, <2>7, <2>8
<1>6. CASE AReduction(A, c, state, p)
  <2>1. PICK x \in items.windows :
            x[1] \in items.cores /\ p = [window |-> x[2], item |-> x[1], action |-> Reduce(x[1][1])]
    BY <1>6, Zenon DEF AReduction
  <2> DEFINE id == x[1][1]
  <2>2. id \in DOMAIN ps /\ id \in Int
    <3>1. id \in DOMAIN ps
      BY <1>2, <2>1 DEF CoresOf
    <3> QED BY <1>1, <3>1 DEF GoodProductions
  <2> HIDE DEF id
  <2>3. EncAction(A, c, Reduce(id)) = [type |-> "reduce", target |-> KeyOf(ps, id)]
    <3>1. Reduce(id).type = "reduce" /\ Reduce(id).state + 1 = id
      BY <2>2 DEF Reduce
    <3> QED BY <3>1 DEF EncAction
  <2>4. DecAction(A, c, EncAction(A, c, Reduce(id))) = Reduce(id)
    <3>1. EncAction(A, c, Reduce(id)).type = "reduce" /\ EncAction(A, c, Reduce(id)).target = KeyOf(ps, id)
      BY <2>3
    <3>2. IdOf(ps, KeyOf(ps, id)) = id
      BY <1>1, <2>2, IdsOfKeys
    <3> QED BY <3>1, <3>2 DEF DecAction
  <2>5. p = [window |-> x[2], item |-> x[1], action |-> Reduce(id)]
    BY <2>1 DEF id
  <2> QED BY <1>3, <2>1, <2>4, <2>5
<1>7. CASE AnAccept(A, c, state, p)
  <2>1. PICK x \in items.windows :
            x[1] \in items.cores /\ p = [window |-> x[2], item |-> x[1], action |-> AcceptAction]
    BY <1>7, Zenon DEF AnAccept
  <2>2. EncAction(A, c, AcceptAction).type = "accept"
    <3>1. AcceptAction.type = "accept"
      BY DEF AcceptAction
    <3> QED BY <3>1 DEF EncAction
  <2>3. DecAction(A, c, EncAction(A, c, AcceptAction)) = AcceptAction
    BY <2>2 DEF DecAction
  <2> QED BY <1>3, <2>1, <2>3
<1> QED BY <1>4, <1>5, <1>6, <1>7

LEMMA RowIsBack ==
    ASSUME NEW A, NEW c, NEW state, RowReady(A, c, state), AllGood(A, c.states), Distinct(c.states),
           MovesWithin(c), IsSequence(c.states)
    PROVE  {DecProposal(A, c, r) : r \in {EncProposal(A, c, p) : p \in Proposals(A, c, state)}}
               = Proposals(A, c, state)
<1>1. \A p \in Proposals(A, c, state) : DecProposal(A, c, EncProposal(A, c, p)) = p
  BY ProposalIsBack
<1> DEFINE P == Proposals(A, c, state)
           there(p) == EncProposal(A, c, p)
           back(r) == DecProposal(A, c, r)
<1> HIDE DEF P, there, back
<1>2. \A p \in P : back(there(p)) = p
  BY <1>1 DEF P, there, back
<1>3. {back(r) : r \in {there(p) : p \in P}} = P
  BY <1>2
<1> QED BY <1>3 DEF P, there, back

LEMMA RowsAreCoded ==
    ASSUME TRUE
    PROVE  /\ \A state : RowKey(state) = RowKeyIn(analysis, automaton, state)
           /\ \A P : EncodeRow(P) = {EncProposal(analysis, automaton, p) : p \in P}
           /\ IsSequence(automaton.states) => \A E : DecodeRow(E) = {DecProposal(analysis, automaton, r) : r \in E}
           /\ \A action : EncodeAction(action) = EncAction(analysis, automaton, action)
           /\ IsSequence(automaton.states) =>
                 /\ \A key : StateId(key) = IdIn(analysis, automaton, key)
                 /\ \A action : DecodeAction(action) = DecAction(analysis, automaton, action)
<1>1. \A state : StateKey(state) = Enc(analysis.productions, automaton.states[state + 1])
  BY StateKeyIs
<1>2. \A items : DependencyStamp(items) = StampIn(analysis, VisitedIn(analysis, items))
  BY ClosureKeyIs DEF ClosureKey, KeyIn
<1>3. ASSUME NEW state PROVE RowKey(state) = RowKeyIn(analysis, automaton, state)
  BY <1>1, <1>2, Zenon DEF RowKey, RowKeyIn
<1>4. ASSUME NEW action PROVE EncodeAction(action) = EncAction(analysis, automaton, action)
  BY <1>1, KeysAreThose, Zenon DEF EncodeAction, EncAction, Productions
<1>5. ASSUME NEW P PROVE EncodeRow(P) = {EncProposal(analysis, automaton, p) : p \in P}
  BY <1>4, KeysAreThose, Zenon DEF EncodeRow, EncProposal, EncCore, Productions
<1>6. ASSUME IsSequence(automaton.states), NEW key PROVE StateId(key) = IdIn(analysis, automaton, key)
  <2>1. PICK T : automaton.states \in Seq(T)
    BY <1>6 DEF IsSequence
  <2>2. ASSUME NEW i \in DOMAIN automaton.states
        PROVE  StateKey(i - 1) = Enc(analysis.productions, automaton.states[i])
    <3>1. (i - 1) + 1 = i
      BY <2>1
    <3> QED BY <1>1, <3>1
  <2> QED BY <2>2, Zenon DEF StateId, IdIn
<1>7. ASSUME IsSequence(automaton.states), NEW action
      PROVE  DecodeAction(action) = DecAction(analysis, automaton, action)
  BY <1>6, <1>7, KeysAreThose, Zenon DEF DecodeAction, DecAction, Productions
<1>8. ASSUME IsSequence(automaton.states), NEW E
      PROVE  DecodeRow(E) = {DecProposal(analysis, automaton, r) : r \in E}
  BY <1>7, <1>8, KeysAreThose, Zenon DEF DecodeRow, DecProposal, Productions
<1> QED BY <1>3, <1>4, <1>5, <1>6, <1>7, <1>8

-----------------------------------------------------------------------------
(* Every row there is, of this build or of the snapshot, is that of its key. *)

RowEntriesOK(rows) == \A key \in DOMAIN rows : rows[key] = KeyRow(key)

RowsFresh ==
    /\ RowEntriesOK(currentRows) /\ RowEntriesOK(cached.rows) /\ RowEntriesOK(snapshot.rows)
    /\ phase \in Merged => \A i \in DOMAIN table : table[i] = Proposals(analysis, automaton, i - 1)

LEMMA RowsAreReady ==
    ASSUME Sound, MovesOK, phase \in Merged, NEW state, state + 1 \in DOMAIN automaton.states, state \in Int
    PROVE  /\ RowReady(analysis, automaton, state)
           /\ AllGood(analysis, automaton.states) /\ Distinct(automaton.states)
           /\ MovesWithin(automaton) /\ IsSequence(automaton.states)
<1> DEFINE A == analysis
           items == automaton.states[state + 1]
<1>1. /\ GoodAnalysis(A) /\ A = Analysis(PrepareProductions(Source), 1, A.first)
      /\ AllGood(A, automaton.states) /\ Distinct(automaton.states)
      /\ MovesWithin(automaton) /\ IsSequence(automaton.states)
      /\ request \in Requests
  BY DEF Sound, AnalysisOK, TraversalOK, Shape, StatesOK, PhasesOK, Begun, Merged
<1>2. ~Malformed(Source) /\ AllMoves(Source, A, automaton) /\ OneTarget(automaton)
  BY DEF MovesOK, Begun, Merged
<1>3. A.productions = PrepareProductions(Source)
  BY <1>1, AnalysisHas
<1>4. IsGrammar(Source)
  BY <1>1, RequestsAssumption DEF Source
<1>5. StartsWell(A.productions)
  BY <1>3, <1>4, PreparedAreGood DEF StartsWell, GoodProductions
<1>6. GoodItems(A, items)
  BY <1>1 DEF AllGood
<1>7. items.cores \subseteq CoresOf(A.productions)
  BY <1>6 DEF GoodItems, KernelIn, ItemsIn
<1>8. \A s \in NextSymbols(A, items) : s \notin LeftSides(A.productions) => HasMove(automaton, state + 1, s)
  BY <1>2, <1>3, <1>4, <1>7, TokensAreFollowed
<1>9. RowReady(A, automaton, state)
  BY <1>1, <1>2, <1>5, <1>6, <1>8 DEF RowReady
<1> QED BY <1>1, <1>9

LEMMA RowsBuildRow == Sound /\ MovesOK /\ RowsFresh /\ BuildRow => RowsFresh'
<1> SUFFICES ASSUME Sound, MovesOK, RowsFresh, BuildRow PROVE RowsFresh'
  OBVIOUS
<1> DEFINE n == Len(table)
           key == RowKey(n)
           entry == cached.rows[key]
           P == Proposals(analysis, automaton, n)
<1>1. /\ phase = "table" /\ phase' = phase /\ n < Len(automaton.states)
      /\ UNCHANGED <<snapshot, cached, analysis, automaton>>
  BY DEF BuildRow
<1>2. \/ /\ key \in DOMAIN cached.rows
         /\ table' = Append(table, DecodeRow(entry)) /\ currentRows' = Stored(currentRows, key, entry)
      \/ table' = Append(table, P) /\ currentRows' = Stored(currentRows, key, EncodeRow(P))
  BY Zenon DEF BuildRow
<1>3. IsSequence(table) /\ IsSequence(automaton.states)
  BY DEF Sound, Shape, TableOK, StatesOK
<1>4. n \in Int /\ n \in Nat /\ n + 1 \in DOMAIN automaton.states
  <2>1. PICK S : table \in Seq(S)
    BY <1>3 DEF IsSequence
  <2>2. PICK T : automaton.states \in Seq(T)
    BY <1>3 DEF IsSequence
  <2> QED BY <2>1, <2>2, <1>1
<1> HIDE DEF n
<1>5. /\ RowReady(analysis, automaton, n)
      /\ AllGood(analysis, automaton.states) /\ Distinct(automaton.states)
      /\ MovesWithin(automaton) /\ IsSequence(automaton.states)
  BY <1>1, <1>4, RowsAreReady DEF Merged
<1>6. key = RowKeyIn(analysis, automaton, n)
  BY RowsAreCoded
<1>7. EncodeRow(P) = {EncProposal(analysis, automaton, p) : p \in P}
  BY RowsAreCoded
<1>8. EncodeRow(P) = KeyRow(key)
  BY <1>5, <1>6, <1>7, RowIsOfKey
<1>9. DecodeRow(EncodeRow(P)) = P
  <2>1. DecodeRow(EncodeRow(P)) = {DecProposal(analysis, automaton, r) : r \in EncodeRow(P)}
    BY <1>3, RowsAreCoded
  <2> QED BY <2>1, <1>5, <1>7, RowIsBack
<1> HIDE DEF P, key, entry
<1>10. key \in DOMAIN cached.rows => entry = EncodeRow(P)
  BY <1>8 DEF RowsFresh, RowEntriesOK, entry
<1>11. table' = Append(table, P) /\ currentRows' = Stored(currentRows, key, KeyRow(key))
  BY <1>2, <1>8, <1>9, <1>10
<1>12. RowEntriesOK(currentRows')
  <2>1. Extends(currentRows', currentRows, key, KeyRow(key))
    BY <1>11, StoredIs
  <2> QED BY <2>1 DEF Extends, RowsFresh, RowEntriesOK
<1>13. \A i \in DOMAIN table' : table'[i] = Proposals(analysis, automaton, i - 1)
  <2>1. PICK S : table \in Seq(S)
    BY <1>3 DEF IsSequence
  <2>2. table \in Seq(S \cup {P})
    BY <2>1
  <2>3. /\ DOMAIN table = 1..n /\ DOMAIN table' = 1..(n + 1)
        /\ table'[n + 1] = P /\ \A i \in 1..n : table'[i] = table[i]
    BY <1>11, <2>2 DEF n
  <2>4. \A i \in 1..n : table[i] = Proposals(analysis, automaton, i - 1)
    BY <1>1, <2>3 DEF RowsFresh, Merged
  <2>5. (n + 1) - 1 = n
    BY <1>4
  <2>6. ASSUME NEW i \in DOMAIN table' PROVE table'[i] = Proposals(analysis, automaton, i - 1)
    <3>1. CASE i = n + 1
      BY <3>1, <2>3, <2>5 DEF P
    <3>2. CASE i # n + 1
      <4>1. i \in 1..n
        BY <3>2, <2>3, <1>4
      <4> QED BY <4>1, <2>3, <2>4
    <3> QED BY <3>1, <3>2
  <2> QED BY <2>6
<1> QED BY <1>1, <1>12, <1>13 DEF RowsFresh

LEMMA RowsNext == Sound /\ MovesOK /\ RowsFresh /\ [Next]_vars => RowsFresh'
<1> SUFFICES ASSUME Sound, MovesOK, RowsFresh, [Next]_vars PROVE RowsFresh'
  OBVIOUS
<1>0. RowEntriesOK(<<>>) /\ RowEntriesOK(NoCache.rows)
  <2>1. DOMAIN <<>> = {}
    OBVIOUS
  <2>2. NoCache.rows = <<>>
    BY DEF NoCache
  <2> QED BY <2>1, <2>2 DEF RowEntriesOK
<1>1. CASE Load
  <2>1. /\ currentRows' = <<>> /\ cached' \in {snapshot, NoCache} /\ snapshot' = snapshot
        /\ phase' \in {"failed", "first"}
    BY <1>1, Zenon DEF Load, Fail, Proceed
  <2> QED BY <1>0, <2>1 DEF RowsFresh, Merged
<1>2. CASE FirstRound \/ FirstState \/ NextState \/ GoTo
  <2>1. /\ UNCHANGED <<snapshot, cached, currentRows>> /\ phase' \notin Merged
    <3>1. CASE FirstRound
      BY <3>1 DEF FirstRound, Proceed, Merged, tablesVars
    <3>2. CASE FirstState
      BY <3>2, Zenon DEF FirstState, GiveUp, Fail, Proceed, Merged
    <3>3. CASE NextState
      BY <3>3 DEF NextState, Proceed, Merged
    <3>4. CASE GoTo
      BY <3>4, Zenon DEF GoTo, GiveUp, Fail, Merged
    <3> QED BY <1>2, <3>1, <3>2, <3>3, <3>4
  <2> QED BY <2>1 DEF RowsFresh
<1>3. CASE MergeStates
  <2>1. UNCHANGED <<snapshot, cached, currentRows, table>> /\ phase = "merge"
    BY <1>3 DEF MergeStates
  <2>2. table = <<>>
    BY <2>1 DEF Sound, Shape, TableOK
  <2>3. DOMAIN <<>> = {}
    OBVIOUS
  <2> QED BY <2>1, <2>2, <2>3 DEF RowsFresh
<1>4. CASE BuildRow
  BY <1>4, RowsBuildRow
<1>5. CASE RowsDone \/ Restore \/ ResolveDepth \/ Save
  <2>1. /\ UNCHANGED <<cached, analysis, automaton, table, currentRows>>
        /\ phase \in Merged
        /\ snapshot' = snapshot \/ snapshot'.rows = currentRows
    <3>1. CASE RowsDone
      BY <3>1 DEF RowsDone, Merged
    <3>2. CASE Restore
      BY <3>2 DEF Restore, Merged
    <3>3. CASE ResolveDepth
      BY <3>3 DEF ResolveDepth, Merged
    <3>4. CASE Save
      <4>1. snapshot' = SaveCache
        BY <3>4 DEF Save
      <4>2. snapshot'.rows = currentRows
        BY <4>1 DEF SaveCache, SnapshotWith
      <4> QED BY <3>4, <4>2 DEF Save, Merged, tablesVars
    <3> QED BY <1>5, <3>1, <3>2, <3>3, <3>4
  <2> QED BY <2>1 DEF RowsFresh
<1>6. CASE Rebuild
  <2>1. phase' = "load" /\ UNCHANGED <<snapshot, cached, currentRows>>
    BY <1>6 DEF Rebuild, tablesVars
  <2> QED BY <2>1 DEF RowsFresh, Merged
<1>7. CASE UNCHANGED vars
  BY <1>7 DEF RowsFresh, vars, tablesVars
<1>8. \/ Load \/ (FirstRound \/ FirstState \/ NextState \/ GoTo) \/ MergeStates \/ BuildRow
      \/ (RowsDone \/ Restore \/ ResolveDepth \/ Save) \/ Rebuild \/ UNCHANGED vars
  BY Zenon DEF Next, Step, Done
<1> QED BY <1>1, <1>2, <1>3, <1>4, <1>5, <1>6, <1>7, <1>8

\* The proposals of a build without a snapshot.
FreshAnalysis ==
    LET ps == PrepareProductions(Source) IN Analysis(ps, K, ComputeFirstK(ps, K))
FreshRows == RowsOf(FreshAnalysis, FreshStates)

LEMMA RowsInit == Init => MovesOK /\ RowsFresh /\ CanonicalOK
<1> SUFFICES ASSUME Init PROVE MovesOK /\ RowsFresh /\ CanonicalOK
  OBVIOUS
<1>1. phase = "load" /\ currentRows = <<>> /\ cached = NoCache /\ snapshot = NoCache
  BY DEF Init
<1>2. NoCache.rows = <<>> /\ DOMAIN <<>> = {}
  BY DEF NoCache
<1> QED BY <1>1, <1>2 DEF MovesOK, RowsFresh, RowEntriesOK, CanonicalOK, Begun, Merged

LEMMA TableIsFresh ==
    ASSUME Sound, CanonicalOK, RowsFresh, phase \in Merged,
           phase = "table" => Len(table) = Len(automaton.states)
    PROVE  /\ analysis = FreshAnalysis /\ automaton = FreshStates /\ table = FreshRows
<1>1. analysis = FreshAnalysis
  <2>1. /\ analysis = Analysis(PrepareProductions(Source), 1, analysis.first)
        /\ analysis.first = ComputeFirstK(PrepareProductions(Source), 1)
    BY DEF Sound, AnalysisOK, CanonicalOK, Begun, Merged
  <2> QED BY <2>1 DEF FreshAnalysis, K
<1>2. automaton = FreshStates
  <2>1. automaton = CollectionOf(Canonical(Source, analysis), request.family)
    BY DEF CanonicalOK
  <2> QED BY <1>1, <2>1 DEF FreshStates, FreshAnalysis
<1>3. table = [i \in DOMAIN automaton.states |-> Proposals(analysis, automaton, i - 1)]
  <2>1. IsSequence(table) /\ IsSequence(automaton.states) /\ Len(table) = Len(automaton.states)
    BY DEF Sound, Shape, TableOK, StatesOK, RowsOK
  <2>2. PICK S : table \in Seq(S)
    BY <2>1 DEF IsSequence
  <2>3. PICK T : automaton.states \in Seq(T)
    BY <2>1 DEF IsSequence
  <2>4. DOMAIN table = DOMAIN automaton.states /\ table = [i \in DOMAIN table |-> table[i]]
    BY <2>1, <2>2, <2>3
  <2>5. \A i \in DOMAIN table : table[i] = Proposals(analysis, automaton, i - 1)
    BY DEF RowsFresh, Merged
  <2> QED BY <2>4, <2>5
<1> QED BY <1>1, <1>2, <1>3 DEF FreshRows, RowsOf

\* Whatever rows the snapshot supplies, a build has, state for state, the
\* proposals that a build without a snapshot has.  (buildTables, decodeRow.)
THEOREM RowsAreFresh == Spec => [](phase \in Merged \ {"table"} => table = FreshRows)
<1>1. Sound /\ CanonicalOK /\ RowsFresh => (phase \in Merged \ {"table"} => table = FreshRows)
  BY TableIsFresh
<1> QED BY <1>1, RowsInit, SoundInit, SoundNext, CanonicalNext, MovesNext, RowsNext, PTL DEF Spec

-----------------------------------------------------------------------------
(* Another version with the same productions is traversed in the same       *)
(* order.                                                                   *)

\* The names of two versions of the grammar are in the same order.
LEMMA VocabulariesAgree ==
    ASSUME NEW id1 \in DOMAIN Grammars, NEW id2 \in DOMAIN Grammars
    PROVE  Agree(Vocabulary(Grammars[id1]), Vocabulary(Grammars[id2]))
<1> DEFINE one == Vocabulary(Grammars[id1])
           other == Vocabulary(Grammars[id2])
<1>1. \A i, j \in DOMAIN one : \A m, n \in DOMAIN other :
          i < j /\ one[i] = other[m] /\ one[j] = other[n] => m < n
  BY OrderAssumption, Zenon
<1>2. one \in Seq(STRING) /\ other \in Seq(STRING)
  BY RequestsAssumption, SymbolsFollowed
<1> HIDE DEF one, other
<1>3. ASSUME NEW x, NEW y, Precedes(one, x, y), Precedes(other, y, x) PROVE FALSE
  <2>1. PICK i \in DOMAIN one, j \in DOMAIN one : i < j /\ one[i] = x /\ one[j] = y
    BY <1>3 DEF Precedes
  <2>2. PICK m \in DOMAIN other, n \in DOMAIN other : m < n /\ other[m] = y /\ other[n] = x
    BY <1>3 DEF Precedes
  <2>3. n < m
    BY <1>1, <2>1, <2>2
  <2>4. m \in Int /\ n \in Int
    BY <1>2
  <2> QED BY <2>2, <2>3, <2>4
<1> QED BY <1>3 DEF Agree, one, other

LEMMA SameSymbols ==
    ASSUME NEW id1 \in DOMAIN Grammars, NEW id2 \in DOMAIN Grammars, NEW A,
           ~Malformed(Grammars[id1]), ~Malformed(Grammars[id2]),
           A.productions = PrepareProductions(Grammars[id1]), A.productions = PrepareProductions(Grammars[id2]),
           NEW items, items.cores \subseteq CoresOf(A.productions)
    PROVE  SymbolsAfter(Grammars[id1], A, items) = SymbolsAfter(Grammars[id2], A, items)
<1> DEFINE g == Grammars[id1]
           h == Grammars[id2]
           s == SymbolsAfter(g, A, items)
           t == SymbolsAfter(h, A, items)
           N == NextSymbols(A, items)
<1>1. IsGrammar(g) /\ IsGrammar(h)
  BY RequestsAssumption
<1>2. /\ Agree(Vocabulary(g), Vocabulary(h)) /\ Agree(Vocabulary(g), Vocabulary(g))
      /\ Agree(Vocabulary(h), Vocabulary(h))
  BY VocabulariesAgree
<1>3. /\ s \in Seq(STRING) /\ Range(s) = Range(Vocabulary(g)) \cap N
      /\ t \in Seq(STRING) /\ Range(t) = Range(Vocabulary(h)) \cap N
  BY <1>1, SymbolsFollowed
<1>4. OrderedBy(s, Vocabulary(g)) /\ OrderedBy(t, Vocabulary(h))
  BY <1>1, SymbolsInOrder
<1>5. \A x \in N : (x \in Range(Vocabulary(g)) <=> x # Augmented) /\ (x \in Range(Vocabulary(h)) <=> x # Augmented)
  BY <1>1, NamesOfProductions
<1>6. Range(s) = Range(t)
  BY <1>3, <1>5
<1> HIDE DEF s, t
<1>7. s = t
  BY <1>2, <1>3, <1>4, <1>6, OneOrder
<1> QED BY <1>7 DEF s, t

\* Grammars with the same productions have the same states, numbered the same.
LEMMA SameStates ==
    ASSUME NEW id1 \in DOMAIN Grammars, NEW id2 \in DOMAIN Grammars, NEW A, GoodAnalysis(A),
           ~Malformed(Grammars[id1]), ~Malformed(Grammars[id2]),
           A.productions = PrepareProductions(Grammars[id1]), A.productions = PrepareProductions(Grammars[id2])
    PROVE  Canonical(Grammars[id1], A) = Canonical(Grammars[id2], A)
<1>0. \A items : items.cores \subseteq CoresOf(A.productions) =>
          SymbolsAfter(Grammars[id1], A, items) = SymbolsAfter(Grammars[id2], A, items)
  BY SameSymbols, Zenon
<1> DEFINE g == Grammars[id1]
           h == Grammars[id2]
           S == Nat \X Collections(A)
           turn(v, x, f) == IF x[1] >= Len(x[2].states) THEN x[2]
                            ELSE f[<<x[1] + 1, ExpandState(v, A, x[2], x[1])>>]
           start == <<0, [states |-> <<Closure(A, StartKernel(A.k))>>, moves |-> {}]>>
<1>1. ASSUME NEW x \in S, ~(x[1] >= Len(x[2].states))
      PROVE  ExpandState(g, A, x[2], x[1]) = ExpandState(h, A, x[2], x[1])
  <2> DEFINE c == x[2]
             items == c.states[x[1] + 1]
  <2>1. x[1] \in Nat /\ c \in Collections(A) /\ ~(x[1] >= Len(c.states))
    BY <1>1
  <2>2. /\ c = [states |-> c.states, moves |-> c.moves]
        /\ c.states \in Seq(StateSets(A)) /\ IsSequence(c.states)
        /\ DOMAIN c.states = 1..Len(c.states) /\ Len(c.states) \in Nat
    BY <2>1, CollectionsAre
  <2> HIDE DEF c
  <2>3. x[1] + 1 \in DOMAIN c.states
    BY <2>1, <2>2
  <2>4. items \in StateSets(A)
    BY <2>2, <2>3
  <2>5. GoodItems(A, items)
    BY <2>4, StateSetsAre
  <2>6. items.cores \subseteq CoresOf(A.productions)
    BY <2>5 DEF GoodItems, KernelIn, ItemsIn
  <2> HIDE DEF items
  <2>7. SymbolsAfter(g, A, items) = SymbolsAfter(h, A, items)
    BY <1>0, <2>6, Zenon
  <2> HIDE DEF g, h
  <2> QED BY <2>7, Zenon DEF ExpandState, c, items
<1>2. ASSUME NEW f PROVE [x \in S |-> turn(g, x, f)] = [x \in S |-> turn(h, x, f)]
  <2>1. ASSUME NEW x \in S PROVE turn(g, x, f) = turn(h, x, f)
    <3> HIDE DEF S, g, h
    <3> QED BY <1>1
  <2> HIDE DEF S, turn
  <2> QED BY <2>1
<1> HIDE DEF turn
<1>3. (CHOOSE f : f = [x \in S |-> turn(g, x, f)]) = (CHOOSE f : f = [x \in S |-> turn(h, x, f)])
  <2> HIDE DEF S, g, h
  <2> QED BY <1>2
<1>4. ASSUME NEW v PROVE Canonical(v, A) = (CHOOSE f : f = [x \in S |-> turn(v, x, f)])[start]
  BY Zenon DEF Canonical, turn
<1> HIDE DEF S, start, g, h
<1>5. Canonical(g, A) = Canonical(h, A)
  BY <1>3, <1>4
<1> QED BY <1>5 DEF g, h

-----------------------------------------------------------------------------
(* What a build without a snapshot makes of a version of the grammar.       *)

AnalysisFor(g) == LET ps == PrepareProductions(g) IN Analysis(ps, K, ComputeFirstK(ps, K))
StatesFor(g, family) == CollectionOf(Canonical(g, AnalysisFor(g)), family)
RowsFor(g, family) == RowsOf(AnalysisFor(g), StatesFor(g, family))
ConflictsFor(g, family) == ConflictsOf(RowsFor(g, family))
VerdictFor(g, family, n) == ResolveConflicts(PrepareProductions(g), K, n, ConflictsFor(g, family))

LEMMA CompileIs ==
    ASSUME NEW g, NEW family, NEW n
    PROVE  Compile(g, family, K, n) =
               Emit(g, PrepareProductions(g), StatesFor(g, family), EntriesOf(RowsFor(g, family)),
                    VerdictFor(g, family, n))
<1> DEFINE ps == PrepareProductions(g)
           A == AnalysisFor(g)
           c == StatesFor(g, family)
           rows == RowsFor(g, family)
<1>1. A.productions = ps /\ A.k = K
  BY DEF AnalysisFor, Analysis
<1>2. Compile(g, family, K, n) = Build(g, ps, family, K, n)
  BY WorkedOutIs, Zenon DEF Compile
<1>3. Build(g, ps, family, K, n) = BuildStates(g, A, family, n)
  BY WorkedOutIs, Zenon DEF Build, AnalysisFor
<1>4. BuildStates(g, A, family, n) = BuildTables(g, A, c, n)
  BY WorkedOutIs, Zenon DEF BuildStates, StatesFor
<1>5. BuildTables(g, A, c, n) = TablesOf(g, A, c, rows, n)
  BY WorkedOutIs, Zenon DEF BuildTables, RowsFor
<1>6. TablesOf(g, A, c, rows, n) =
          Emit(g, A.productions, c, EntriesOf(rows),
               ResolveConflicts(A.productions, A.k, n, ConflictsOf(rows)))
  BY Zenon DEF TablesOf
<1>7. VerdictFor(g, family, n) = ResolveConflicts(ps, K, n, ConflictsOf(rows))
  BY Zenon DEF VerdictFor, ConflictsFor
<1> HIDE DEF A, ps, c, rows
<1>8. TablesOf(g, A, c, rows, n) = Emit(g, ps, c, EntriesOf(rows), VerdictFor(g, family, n))
  BY <1>1, <1>6, <1>7
<1> QED BY <1>2, <1>3, <1>4, <1>5, <1>8, Zenon DEF ps, c, rows

KeyFor(g, depth) ==
    LET ps == PrepareProductions(g)
    IN  [max |-> depth, skips |-> SkipsWhitespace(g),
         productions |-> [i \in 1..Cardinality(DOMAIN ps) |-> KeyOf(ps, i - 1)]]

LEMMA KeyFields ==
    ASSUME NEW m, NEW s, NEW p, NEW n, NEW t, NEW q,
           [max |-> m, skips |-> s, productions |-> p] = [max |-> n, skips |-> t, productions |-> q]
    PROVE  m = n /\ p = q
<1> DEFINE one == [max |-> m, skips |-> s, productions |-> p]
           two == [max |-> n, skips |-> t, productions |-> q]
<1>1. one.max = m /\ one.productions = p /\ two.max = n /\ two.productions = q
  OBVIOUS
<1>2. one = two
  OBVIOUS
<1> HIDE DEF one, two
<1> QED BY <1>1, <1>2

\* A resolution key tells the productions and the depth.
LEMMA KeyTellsAll ==
    ASSUME NEW g, IsGrammar(g), NEW h, IsGrammar(h), NEW d1, NEW d2, KeyFor(g, d1) = KeyFor(h, d2)
    PROVE  d1 = d2 /\ PrepareProductions(g) = PrepareProductions(h)
<1> DEFINE ps == PrepareProductions(g)
           qs == PrepareProductions(h)
           keys(v) == [i \in 1..Cardinality(DOMAIN v) |-> KeyOf(v, i - 1)]
<1>1. d1 = d2 /\ keys(ps) = keys(qs)
  <2>1. [max |-> d1, skips |-> SkipsWhitespace(g), productions |-> keys(ps)] =
            [max |-> d2, skips |-> SkipsWhitespace(h), productions |-> keys(qs)]
    BY Zenon DEF KeyFor
  <2> QED BY <2>1, KeyFields, Zenon
<1>2. GoodProductions(ps) /\ GoodProductions(qs)
  BY PreparedAreGood
<1>3. /\ \A id \in DOMAIN ps : ps[id] = Triple(ps[id].lhs, ps[id].rhs, ps[id].gaps)
      /\ \A id \in DOMAIN qs : qs[id] = Triple(qs[id].lhs, qs[id].rhs, qs[id].gaps)
  BY PreparedAreGood
<1>4. ps = [id \in DOMAIN ps |-> ps[id]] /\ qs = [id \in DOMAIN qs |-> qs[id]]
  <2>1. ASSUME NEW v PROVE PrepareProductions(v) = [id \in DOMAIN PrepareProductions(v) |-> PrepareProductions(v)[id]]
    <3> DEFINE kept == ProperRules(v)
               of(rule) == [a \in DOMAIN rule.alts |-> Production(v, rule, rule.alts[a])]
               rows == FlattenSeq([r \in DOMAIN kept |-> of(kept[r])])
               row(id) == IF id = 0 THEN [lhs |-> Augmented, rhs |-> <<Main>>, gaps |-> {}] ELSE rows[id]
    <3>1. PrepareProductions(v) = [id \in 0..Len(rows) |-> row(id)]
      BY Zenon DEF PrepareProductions
    <3> HIDE DEF rows, row
    <3> QED BY <3>1
  <2> QED BY <2>1
<1> HIDE DEF ps, qs
<1>5. PICK n \in Nat : DOMAIN ps = 0..n
  BY <1>2 DEF GoodProductions
<1>6. PICK m \in Nat : DOMAIN qs = 0..m
  BY <1>2 DEF GoodProductions
<1>7. Cardinality(0..n) = n + 1 /\ Cardinality(0..m) = m + 1
  BY FS_Interval
<1>8. DOMAIN keys(ps) = 1..(n + 1) /\ DOMAIN keys(qs) = 1..(m + 1)
  BY <1>5, <1>6, <1>7
<1>9. n = m
  <2>1. 1..(n + 1) = 1..(m + 1)
    BY <1>1, <1>8
  <2> QED BY <2>1
<1>10. ASSUME NEW id \in 0..n PROVE ps[id] = qs[id]
  <2>1. id + 1 \in 1..(n + 1) /\ (id + 1) - 1 = id
    OBVIOUS
  <2>2. keys(ps)[id + 1] = KeyOf(ps, id) /\ keys(qs)[id + 1] = KeyOf(qs, id)
    <3> DEFINE one(i) == KeyOf(ps, i - 1)
               two(i) == KeyOf(qs, i - 1)
    <3>1. keys(ps) = [i \in 1..(n + 1) |-> one(i)] /\ keys(qs) = [i \in 1..(n + 1) |-> two(i)]
      BY <1>5, <1>6, <1>7, <1>9
    <3>2. one(id + 1) = KeyOf(ps, id) /\ two(id + 1) = KeyOf(qs, id)
      BY <2>1
    <3> HIDE DEF one, two, keys
    <3> QED BY <3>1, <3>2, <2>1
  <2>3. KeyOf(ps, id) = KeyOf(qs, id)
    <3> HIDE DEF keys
    <3> QED BY <1>1, <2>2
  <2>4. Named(ps, id) = Named(qs, id)
    <3>1. KeyOf(ps, id).production = Named(ps, id) /\ KeyOf(qs, id).production = Named(qs, id)
      BY DEF KeyOf
    <3> QED BY <2>3, <3>1
  <2>5. ps[id].lhs = qs[id].lhs /\ ps[id].rhs = qs[id].rhs /\ ps[id].gaps = qs[id].gaps
    BY <2>4 DEF Named
  <2> QED BY <2>5, <1>3, <1>5, <1>6, <1>9
<1>11. ps = qs
  BY <1>4, <1>5, <1>6, <1>9, <1>10
<1> QED BY <1>1, <1>11 DEF ps, qs

\* Builds with the same resolution key come to the same conflicts.
LEMMA SameBuilds ==
    ASSUME NEW id1 \in DOMAIN Grammars, NEW id2 \in DOMAIN Grammars, NEW family,
           ~Malformed(Grammars[id1]), ~Malformed(Grammars[id2]), GoodAnalysis(AnalysisFor(Grammars[id1])),
           NEW d1, NEW d2, KeyFor(Grammars[id1], d1) = KeyFor(Grammars[id2], d2)
    PROVE  /\ d1 = d2
           /\ PrepareProductions(Grammars[id1]) = PrepareProductions(Grammars[id2])
           /\ AnalysisFor(Grammars[id1]) = AnalysisFor(Grammars[id2])
           /\ StatesFor(Grammars[id1], family) = StatesFor(Grammars[id2], family)
           /\ ConflictsFor(Grammars[id1], family) = ConflictsFor(Grammars[id2], family)
<1> DEFINE g == Grammars[id1]
           h == Grammars[id2]
<1>1. IsGrammar(g) /\ IsGrammar(h)
  BY RequestsAssumption
<1>2. d1 = d2 /\ PrepareProductions(g) = PrepareProductions(h)
  BY <1>1, KeyTellsAll
<1>3. AnalysisFor(g) = AnalysisFor(h)
  BY <1>2, Zenon DEF AnalysisFor
<1>4. AnalysisFor(g).productions = PrepareProductions(g)
  BY DEF AnalysisFor, Analysis
<1>5. Canonical(g, AnalysisFor(g)) = Canonical(h, AnalysisFor(g))
  BY <1>2, <1>4, SameStates
<1> HIDE DEF g, h
<1>6. StatesFor(g, family) = StatesFor(h, family)
  BY <1>3, <1>5, Zenon DEF StatesFor
<1>7. ConflictsFor(g, family) = ConflictsFor(h, family)
  BY <1>3, <1>6, Zenon DEF ConflictsFor, RowsFor
<1> QED BY <1>2, <1>3, <1>6, <1>7 DEF g, h

-----------------------------------------------------------------------------
(* How deep the resolution goes.                                            *)

Fits(ps, n) == n = K \/ ~(EntriesAt(ps, n, ComputeFirstK(ps, n)) > EntryLimit)
DeepEnough(ps, max, n) == (\A m \in 1..n : Fits(ps, m)) /\ (n = max \/ ~Fits(ps, n + 1))

LEMMA ReachedIs ==
    ASSUME NEW ps, NEW max \in Nat, NEW n \in 1..max, DeepEnough(ps, max, n)
    PROVE  Reached(ps, max) = n
<1>1. Reached(ps, max) = CHOOSE i \in 1..max : DeepEnough(ps, max, i)
  BY Zenon DEF Reached, DeepEnough, Fits, K
<1> DEFINE r == CHOOSE i \in 1..max : DeepEnough(ps, max, i)
<1>2. r \in 1..max /\ DeepEnough(ps, max, r)
  BY Zenon
<1> HIDE DEF r
<1>3. ASSUME NEW i \in 1..max, NEW j \in 1..max, DeepEnough(ps, max, i), DeepEnough(ps, max, j), i < j PROVE FALSE
  <2>1. i + 1 \in 1..j /\ i # max
    BY <1>3
  <2>2. Fits(ps, i + 1)
    BY <1>3, <2>1 DEF DeepEnough
  <2> QED BY <1>3, <2>1, <2>2 DEF DeepEnough
<1>4. r = n
  <2>1. ~(r < n) /\ ~(n < r)
    BY <1>2, <1>3
  <2> QED BY <1>2, <2>1
<1> QED BY <1>1, <1>4 DEF r

LEMMA ReachedExists ==
    ASSUME NEW ps, NEW max \in Nat, NEW n \in 1..max, \A m \in 1..n : Fits(ps, m)
    PROVE  Reached(ps, max) \in n..max
<1> DEFINE S == {m \in n..max : m = max \/ ~Fits(ps, m + 1)}
<1>1. S \subseteq Nat /\ S # {}
  <2>1. max \in S
    OBVIOUS
  <2> QED BY <2>1
<1>2. PICK m \in S : \A j \in S : m <= j
  <2> HIDE DEF S
  <2> QED BY <1>1, HasLeast
<1>3. m \in n..max /\ (m = max \/ ~Fits(ps, m + 1))
  OBVIOUS
<1>4. ASSUME NEW i \in 1..m PROVE Fits(ps, i)
  <2>1. CASE i <= n
    BY <2>1
  <2>2. CASE ~(i <= n)
    <3>1. i - 1 \in n..max /\ i - 1 # max /\ (i - 1) + 1 = i /\ ~(m <= i - 1)
      BY <2>2, <1>3
    <3>2. i - 1 \notin S
      <4> HIDE DEF S
      <4> QED BY <1>2, <3>1
    <3> QED BY <3>1, <3>2
  <2> QED BY <2>1, <2>2
<1> HIDE DEF S
<1>5. m \in 1..max /\ DeepEnough(ps, max, m)
  BY <1>3, <1>4 DEF DeepEnough
<1>6. Reached(ps, max) = m
  BY <1>5, ReachedIs
<1> QED BY <1>3, <1>6

-----------------------------------------------------------------------------
(* The verdict of a build is that of a build without a snapshot.           *)

ResolvedFor(g, family, depth) == VerdictFor(g, family, Reached(PrepareProductions(g), depth))

VerdictOK ==
    LET ps == PrepareProductions(Source)
        C == ConflictsFor(Source, request.family)
    IN  /\ phase = "restore" => verdict = Unresolved(1, C)
        /\ phase = "resolve" =>
              /\ reach \in 1..request.depth
              /\ verdict = ResolveConflicts(ps, 1, reach, C)
              /\ \A m \in 1..reach : Fits(ps, m)
        /\ phase \in {"save", "done"} =>
              verdict = IF request.auto THEN ResolvedFor(Source, request.family, request.depth)
                        ELSE Unresolved(1, C)

LEMMA ResolvedForIs ==
    ASSUME NEW g, NEW family, NEW n
    PROVE  VerdictFor(g, family, n) = ResolveConflicts(PrepareProductions(g), 1, n, ConflictsFor(g, family))
BY Zenon DEF VerdictFor, K

\* The depth at which the loop of resolveConflicts ends is the one reached.
LEMMA EndsWhereReached ==
    ASSUME NEW ps, NEW C, NEW max \in Nat, NEW n \in 1..max, \A m \in 1..n : Fits(ps, m),
           \/ ResolveConflicts(ps, 1, n, C).open = {}
           \/ n >= max
           \/ ~Fits(ps, n + 1)
    PROVE  ResolveConflicts(ps, 1, n, C) = ResolveConflicts(ps, 1, Reached(ps, max), C)
<1>1. Reached(ps, max) \in n..max
  BY ReachedExists
<1> DEFINE r == Reached(ps, max)
<1>2. r \in Nat /\ n \in Nat /\ n >= 1 /\ n <= r
  <2> HIDE DEF r
  <2>1. r \in n..max
    BY <1>1 DEF r
  <2> QED BY <2>1
<1>3. CASE ResolveConflicts(ps, 1, n, C).open = {}
  <2> HIDE DEF r
  <2>1. ResolveConflicts(ps, 1, r, C) = ResolveConflicts(ps, 1, n, C)
    BY <1>2, <1>3, NothingLeft
  <2> QED BY <2>1 DEF r
<1>4. CASE n >= max \/ ~Fits(ps, n + 1)
  <2>1. DeepEnough(ps, max, n)
    <3>1. n >= max => n = max
      OBVIOUS
    <3> QED BY <1>4, <3>1 DEF DeepEnough
  <2>2. r = n
    BY <2>1, ReachedIs
  <2> QED BY <2>2
<1> QED BY <1>3, <1>4

LEMMA VerdictRowsDone == Sound /\ CanonicalOK /\ RowsFresh /\ RowsDone => VerdictOK'
<1> SUFFICES ASSUME Sound, CanonicalOK, RowsFresh, RowsDone PROVE VerdictOK'
  OBVIOUS
<1>1. /\ phase = "table" /\ Len(table) = Len(automaton.states)
      /\ verdict' = Unresolved(1, ConflictsOf(table)) /\ request' = request
      /\ phase' = IF request.auto THEN "restore" ELSE "save"
  BY DEF RowsDone, Proceed, K
<1>2. Source' = Source
  BY <1>1 DEF Source
<1>3. table = FreshRows
  BY <1>1, TableIsFresh DEF Merged
<1>4. FreshRows = RowsFor(Source, request.family)
  BY Zenon DEF FreshRows, RowsFor, FreshAnalysis, FreshStates, AnalysisFor, StatesFor
<1>5. verdict' = Unresolved(1, ConflictsFor(Source, request.family))
  BY <1>1, <1>3, <1>4 DEF ConflictsFor
<1>6. CASE request.auto
  <2>1. phase' = "restore"
    BY <1>1, <1>6
  <2> QED BY <1>1, <1>2, <1>5, <2>1 DEF VerdictOK
<1>7. CASE ~request.auto
  <2>1. phase' = "save"
    BY <1>1, <1>7
  <2> QED BY <1>1, <1>2, <1>5, <1>7, <2>1 DEF VerdictOK
<1> QED BY <1>6, <1>7

LEMMA VerdictResolveDepth == Sound /\ CanonicalOK /\ RowsFresh /\ VerdictOK /\ ResolveDepth => VerdictOK'
<1> SUFFICES ASSUME Sound, CanonicalOK, RowsFresh, VerdictOK, ResolveDepth PROVE VerdictOK'
  OBVIOUS
<1> DEFINE ps == PrepareProductions(Source)
           C == ConflictsFor(Source, request.family)
           first == ComputeFirstK(ps, reach + 1)
           stop == verdict.open = {} \/ reach >= request.depth \/ EntriesAt(ps, reach + 1, first) > EntryLimit
<1>1. phase = "resolve" /\ request' = request
  BY DEF ResolveDepth
<1>2. Productions = ps
  <2>1. analysis = Analysis(PrepareProductions(Source), 1, analysis.first)
    BY <1>1 DEF Sound, AnalysisOK, Begun
  <2> QED BY <2>1, AnalysisHas DEF Productions
<1>3. IF stop
      THEN phase' = "save" /\ verdict' = verdict /\ reach' = reach
      ELSE /\ verdict' = Extended(verdict, reach + 1, DecidedWith(ps, reach + 1, first, verdict.open))
           /\ reach' = reach + 1 /\ phase' = phase
  BY <1>2, Zenon DEF ResolveDepth, Proceed
<1>4. /\ reach \in 1..request.depth /\ verdict = ResolveConflicts(ps, 1, reach, C)
      /\ \A m \in 1..reach : Fits(ps, m)
  BY <1>1 DEF VerdictOK
<1>5. request.auto /\ request.depth \in Nat /\ request \in Requests
  <2>1. request \in Requests /\ request.auto
    BY <1>1 DEF Sound, Shape, PhasesOK, DecisionsOK
  <2> QED BY <2>1, ARequest
<1>6. Source' = Source
  BY <1>1 DEF Source
<1>7. reach + 1 # K
  BY <1>4 DEF K
<1>8. Fits(ps, reach + 1) <=> ~(EntriesAt(ps, reach + 1, first) > EntryLimit)
  BY <1>7, Zenon DEF Fits
<1>9. CASE stop
  <2>1. ResolveConflicts(ps, 1, reach, C) = ResolveConflicts(ps, 1, Reached(ps, request.depth), C)
    <3>1. \/ ResolveConflicts(ps, 1, reach, C).open = {}
          \/ reach >= request.depth
          \/ ~Fits(ps, reach + 1)
      <4> HIDE DEF ps, C, first
      <4> QED BY <1>4, <1>8, <1>9
    <3> HIDE DEF ps, C
    <3> QED BY <1>4, <1>5, <3>1, EndsWhereReached
  <2>2. ResolvedFor(Source, request.family, request.depth) = ResolveConflicts(ps, 1, Reached(ps, request.depth), C)
    BY ResolvedForIs DEF ResolvedFor
  <2>3. verdict' = ResolvedFor(Source, request.family, request.depth) /\ phase' = "save"
    <3> HIDE DEF ps, C
    <3> QED BY <1>3, <1>4, <1>9, <2>1, <2>2
  <2> QED BY <1>1, <1>5, <1>6, <2>3 DEF VerdictOK
<1>10. CASE ~stop
  <2>1. /\ verdict' = Extended(verdict, reach + 1, DecidedWith(ps, reach + 1, first, verdict.open))
        /\ reach' = reach + 1 /\ phase' = "resolve"
    <3> HIDE DEF stop
    <3> QED BY <1>1, <1>3, <1>10
  <2>2. DecidedWith(ps, reach + 1, first, verdict.open) = FoundAt(ps, reach + 1, verdict.open)
    <3>1. FoundAt(ps, reach + 1, verdict.open) = ResolveAt(ps, reach + 1, verdict.open)
      BY <1>10 DEF FoundAt
    <3>2. ResolveAt(ps, reach + 1, verdict.open) = DecidedWith(ps, reach + 1, first, verdict.open)
      BY WorkedOutIs, Zenon DEF ResolveAt
    <3> QED BY <3>1, <3>2
  <2>3. verdict' = Deeper(ps, reach + 1, verdict)
    BY <2>1, <2>2, Zenon DEF Deeper
  <2>4. reach + 1 \in 1..request.depth /\ reach \in Nat /\ reach >= 1 /\ Fits(ps, reach + 1)
    <3>1. ~(reach >= request.depth) /\ ~(EntriesAt(ps, reach + 1, first) > EntryLimit)
      BY <1>10
    <3> HIDE DEF ps, first, stop
    <3> QED BY <1>4, <1>5, <1>8, <3>1
  <2> HIDE DEF ps, C, stop, first
  <2>5. verdict' = ResolveConflicts(ps, 1, reach + 1, C)
    BY <1>4, <2>3, <2>4, ResolutionGoesOn
  <2>6. \A m \in 1..(reach + 1) : Fits(ps, m)
    <3>1. \A m \in 1..(reach + 1) : m \in 1..reach \/ m = reach + 1
      BY <2>4
    <3> QED BY <1>4, <2>4, <3>1
  <2> QED BY <1>1, <1>6, <2>1, <2>4, <2>5, <2>6 DEF VerdictOK, ps, C
<1> QED BY <1>9, <1>10

-----------------------------------------------------------------------------
(* A verdict that was encoded decodes to what it was.                       *)

EncCell(A, c, x) == [state |-> Enc(A.productions, c.states[x.state + 1]), window |-> x.window]

EncDecision(A, c, d) ==
    [state |-> Enc(A.productions, c.states[d.state + 1]), window |-> d.window, action |-> EncAction(A, c, d.action)]

EncVerdict(A, c, key, v) ==
    [key |-> key, k |-> v.k, open |-> {EncCell(A, c, x) : x \in v.open},
     decisions |-> {EncDecision(A, c, d) : d \in v.decisions}]

DecDecision(A, c, d) ==
    [state |-> IdIn(A, c, d.state), window |-> d.window, action |-> DecAction(A, c, d.action)]

DecVerdict(A, c, C, saved) ==
    [k |-> saved.k, open |-> {x \in C : EncCell(A, c, x) \in saved.open},
     decisions |-> {DecDecision(A, c, d) : d \in saved.decisions}]

LEMMA ActionIsBack ==
    ASSUME NEW A, NEW c, BuildReady(A, c), NEW i \in DOMAIN c.states, NEW p \in Proposals(A, c, i - 1)
    PROVE  DecAction(A, c, EncAction(A, c, p.action)) = p.action
<1>1. DecProposal(A, c, EncProposal(A, c, p)) = p
  BY ProposalIsBack DEF BuildReady
<1>2. EncProposal(A, c, p).action = EncAction(A, c, p.action)
  BY DEF EncProposal
<1>3. DecProposal(A, c, EncProposal(A, c, p)).action = DecAction(A, c, EncProposal(A, c, p).action)
  BY DEF DecProposal
<1> QED BY <1>1, <1>2, <1>3

LEMMA ConflictCells ==
    ASSUME NEW A, NEW c, BuildReady(A, c), NEW x \in ConflictsOf(RowsOf(A, c))
    PROVE  /\ x = Cell(x.state, x.window, Proposals(A, c, x.state))
           /\ x.state \in Int /\ x.state + 1 \in DOMAIN c.states
           /\ \A origin \in x.origins : DecAction(A, c, EncAction(A, c, origin.action)) = origin.action
<1> DEFINE rows == RowsOf(A, c)
<1>1. x \in CellsOf(rows)
  BY DEF ConflictsOf
<1>2. PICK i \in DOMAIN rows : \E w : x = Cell(i - 1, w, rows[i])
  <2> HIDE DEF rows
  <2> QED BY <1>1 DEF CellsOf
<1>3. PICK w : x = Cell(i - 1, w, rows[i])
  BY <1>2
<1>4. i \in DOMAIN c.states /\ rows[i] = Proposals(A, c, i - 1)
  <2>1. DOMAIN rows = DOMAIN c.states
    BY DEF RowsOf
  <2>2. i \in DOMAIN c.states
    BY <2>1
  <2> QED BY <2>2 DEF RowsOf
<1> DEFINE P == Proposals(A, c, i - 1)
           here == {p \in P : p.window = w}
<1> HIDE DEF rows
<1>5. x = Cell(i - 1, w, P)
  BY <1>3, <1>4
<1>6. x.state = i - 1 /\ x.window = w /\ x.origins = {[action |-> p.action, item |-> p.item] : p \in here}
  <2> HIDE DEF P
  <2> QED BY <1>5 DEF Cell
<1>7. i \in Int
  <2>1. PICK T : c.states \in Seq(T)
    BY DEF BuildReady, IsSequence
  <2> QED BY <1>4, <2>1
<1>8. ASSUME NEW origin \in x.origins PROVE DecAction(A, c, EncAction(A, c, origin.action)) = origin.action
  <2>1. PICK p \in P : origin = [action |-> p.action, item |-> p.item]
    <3> HIDE DEF P
    <3> QED BY <1>6
  <2>2. origin.action = p.action
    BY <2>1
  <2>3. DecAction(A, c, EncAction(A, c, p.action)) = p.action
    BY <1>4, ActionIsBack
  <2> QED BY <2>2, <2>3
<1>9. x.state + 1 = i
  BY <1>6, <1>7
<1> HIDE DEF P, here
<1>10. x = Cell(x.state, x.window, Proposals(A, c, x.state))
  BY <1>5, <1>6 DEF P
<1> QED BY <1>4, <1>6, <1>7, <1>8, <1>9, <1>10

LEMMA CellsDiffer ==
    ASSUME NEW A, NEW c, BuildReady(A, c), NEW x \in ConflictsOf(RowsOf(A, c)),
           NEW y \in ConflictsOf(RowsOf(A, c)), EncCell(A, c, x) = EncCell(A, c, y)
    PROVE  x = y
<1>1. /\ x = Cell(x.state, x.window, Proposals(A, c, x.state)) /\ x.state \in Int /\ x.state + 1 \in DOMAIN c.states
      /\ y = Cell(y.state, y.window, Proposals(A, c, y.state)) /\ y.state \in Int /\ y.state + 1 \in DOMAIN c.states
  BY ConflictCells
<1>2. Enc(A.productions, c.states[x.state + 1]) = Enc(A.productions, c.states[y.state + 1]) /\ x.window = y.window
  BY DEF EncCell
<1>3. x.state + 1 = y.state + 1
  BY <1>1, <1>2, RowKeyIsNew DEF BuildReady
<1>4. x.state = y.state
  BY <1>1, <1>3
<1> QED BY <1>1, <1>2, <1>4

LEMMA DecisionIsBack ==
    ASSUME NEW A, NEW c, BuildReady(A, c), NEW d, DecisionFor(ConflictsOf(RowsOf(A, c)), d)
    PROVE  DecDecision(A, c, EncDecision(A, c, d)) = d
<1>1. PICK x \in ConflictsOf(RowsOf(A, c)) : \E origin \in x.origins :
          d = [state |-> x.state, window |-> d.window, action |-> origin.action]
  BY DEF DecisionFor
<1>2. PICK origin \in x.origins : d = [state |-> x.state, window |-> d.window, action |-> origin.action]
  BY <1>1
<1> DEFINE w == d.window
           e == [state |-> Enc(A.productions, c.states[x.state + 1]), window |-> w,
                 action |-> EncAction(A, c, origin.action)]
<1> HIDE DEF w
<1>3. d.state = x.state /\ d.action = origin.action /\ d = [state |-> x.state, window |-> w, action |-> origin.action]
  BY <1>2 DEF w
<1>4. EncDecision(A, c, d) = e
  BY <1>3, Zenon DEF EncDecision, w
<1>5. /\ e.state = Enc(A.productions, c.states[x.state + 1]) /\ e.window = w
      /\ e.action = EncAction(A, c, origin.action)
  OBVIOUS
<1> HIDE DEF e
<1>6. /\ x.state \in Int /\ x.state + 1 \in DOMAIN c.states
      /\ DecAction(A, c, EncAction(A, c, origin.action)) = origin.action
  BY ConflictCells
<1>7. IdIn(A, c, e.state) = x.state
  <2>1. IdIn(A, c, e.state) = (x.state + 1) - 1
    BY <1>5, <1>6, IdInIs DEF BuildReady
  <2> QED BY <1>6, <2>1
<1>8. DecDecision(A, c, e) = [state |-> IdIn(A, c, e.state), window |-> e.window, action |-> DecAction(A, c, e.action)]
  BY Zenon DEF DecDecision
<1> QED BY <1>3, <1>4, <1>5, <1>6, <1>7, <1>8

LEMMA VerdictIsBack ==
    ASSUME NEW A, NEW c, BuildReady(A, c), NEW C, C = ConflictsOf(RowsOf(A, c)), NEW v, GoodVerdict(C, v), NEW key
    PROVE  DecVerdict(A, c, C, EncVerdict(A, c, key, v)) = v
<1> DEFINE cell(x) == EncCell(A, c, x)
           there(d) == EncDecision(A, c, d)
           back(e) == DecDecision(A, c, e)
           s == [key |-> key, k |-> v.k, open |-> {cell(x) : x \in v.open}, decisions |-> {there(d) : d \in v.decisions}]
<1>1. EncVerdict(A, c, key, v) = s
  BY Zenon DEF EncVerdict
<1>2. s.k = v.k /\ s.open = {cell(x) : x \in v.open} /\ s.decisions = {there(d) : d \in v.decisions}
  BY Zenon
<1>3. DecVerdict(A, c, C, s) = [k |-> s.k, open |-> {x \in C : cell(x) \in s.open}, decisions |-> {back(e) : e \in s.decisions}]
  BY Zenon DEF DecVerdict
<1>4. v.open \subseteq C /\ v = [open |-> v.open, decisions |-> v.decisions, k |-> v.k]
  BY DEF GoodVerdict
<1>5. \A x, y \in C : cell(x) = cell(y) => x = y
  BY CellsDiffer
<1>6. \A d \in v.decisions : back(there(d)) = d
  BY DecisionIsBack DEF GoodVerdict
<1> HIDE DEF s, cell, there, back
<1>7. {x \in C : cell(x) \in s.open} = v.open
  BY <1>2, <1>4, <1>5
<1>8. {back(e) : e \in s.decisions} = v.decisions
  BY <1>2, <1>6
<1>9. DecVerdict(A, c, C, s) = [k |-> v.k, open |-> v.open, decisions |-> v.decisions]
  BY <1>2, <1>3, <1>7, <1>8
<1> QED BY <1>1, <1>4, <1>9

-----------------------------------------------------------------------------
(* The decisions of a snapshot are those of a build without one.           *)

SavedFor(asked) ==
    LET g == Grammars[asked.grammar]
    IN  EncVerdict(AnalysisFor(g), StatesFor(g, asked.family), KeyFor(g, asked.depth),
                   ResolvedFor(g, asked.family, asked.depth))

DecisionsFrom(kind, decisions) ==
    \A saved \in decisions : \E asked \in Requests :
        asked.family = kind /\ ~Malformed(Grammars[asked.grammar]) /\ saved = SavedFor(asked)

DecisionsFresh ==
    DecisionsFrom(snapshot.kind, snapshot.decisions) /\ DecisionsFrom(cached.kind, cached.decisions)

LEMMA VerdictsAreCoded ==
    ASSUME Productions = PrepareProductions(Source)
    PROVE  /\ ResolutionKey = KeyFor(Source, request.depth)
           /\ EncodeDecisions = {EncVerdict(analysis, automaton, KeyFor(Source, request.depth), verdict)}
           /\ IsSequence(automaton.states) =>
                 \A saved : DecodeDecisions(saved) = DecVerdict(analysis, automaton, verdict.open, saved)
<1> DEFINE ps == PrepareProductions(Source)
<1>1. \A id : ProductionKey(id) = KeyOf(ps, id)
  BY KeysAreThose DEF Productions
<1>2. ResolutionKey = KeyFor(Source, request.depth)
  BY <1>1, Zenon DEF ResolutionKey, KeyFor
<1>3. \A state : StateKey(state) = Enc(analysis.productions, automaton.states[state + 1])
  BY StateKeyIs
<1>4. \A x : CellId(x) = EncCell(analysis, automaton, x)
  BY <1>3, Zenon DEF CellId, EncCell
<1>5. \A action : EncodeAction(action) = EncAction(analysis, automaton, action)
  BY RowsAreCoded
<1>6. EncodeDecisions = {EncVerdict(analysis, automaton, KeyFor(Source, request.depth), verdict)}
  BY <1>2, <1>3, <1>4, <1>5, Zenon DEF EncodeDecisions, EncVerdict, EncDecision
<1>7. ASSUME IsSequence(automaton.states), NEW saved
      PROVE  DecodeDecisions(saved) = DecVerdict(analysis, automaton, verdict.open, saved)
  <2>1. /\ \A key : StateId(key) = IdIn(analysis, automaton, key)
        /\ \A action : DecodeAction(action) = DecAction(analysis, automaton, action)
    BY <1>7, RowsAreCoded
  <2> QED BY <1>4, <2>1, Zenon DEF DecodeDecisions, DecVerdict, DecDecision
<1> QED BY <1>2, <1>6, <1>7

\* What a build has when its rows are there.
LEMMA BuildIs ==
    ASSUME Sound, CanonicalOK, MovesOK, RowsFresh, phase \in Merged \ {"table"}
    PROVE  /\ analysis = AnalysisFor(Source) /\ automaton = StatesFor(Source, request.family)
           /\ table = RowsFor(Source, request.family)
           /\ Productions = PrepareProductions(Source)
           /\ BuildReady(analysis, automaton) /\ IsSequence(automaton.states)
           /\ request \in Requests /\ request.grammar \in DOMAIN Grammars /\ ~Malformed(Source)
           /\ GoodAnalysis(AnalysisFor(Source))
<1>1. analysis = FreshAnalysis /\ automaton = FreshStates /\ table = FreshRows
  BY TableIsFresh
<1>2. /\ FreshAnalysis = AnalysisFor(Source) /\ FreshStates = StatesFor(Source, request.family)
      /\ FreshRows = RowsFor(Source, request.family)
  BY Zenon DEF FreshRows, RowsFor, FreshAnalysis, FreshStates, AnalysisFor, StatesFor
<1>3. /\ GoodAnalysis(analysis) /\ analysis = Analysis(PrepareProductions(Source), 1, analysis.first)
      /\ AllGood(analysis, automaton.states) /\ Distinct(automaton.states)
      /\ MovesWithin(automaton) /\ IsSequence(automaton.states)
      /\ request \in Requests
  BY DEF Sound, AnalysisOK, TraversalOK, Shape, StatesOK, PhasesOK, Begun, Merged
<1>4. Productions = PrepareProductions(Source)
  BY <1>3, AnalysisHas DEF Productions
<1>5. request.grammar \in DOMAIN Grammars
  BY <1>3, ARequest
<1>6. ~Malformed(Source)
  BY DEF MovesOK, Begun, Merged
<1>7. ASSUME NEW i \in DOMAIN automaton.states PROVE RowReady(analysis, automaton, i - 1)
  <2>1. PICK T : automaton.states \in Seq(T)
    BY <1>3 DEF IsSequence
  <2>2. i - 1 \in Int /\ (i - 1) + 1 = i
    BY <2>1
  <2> QED BY <2>2, RowsAreReady
<1>8. BuildReady(analysis, automaton)
  BY <1>3, <1>7 DEF BuildReady
<1> QED BY <1>1, <1>2, <1>3, <1>4, <1>5, <1>6, <1>8

\* The resolution never leaves the range of depths.
LEMMA ResolvedIsGood ==
    ASSUME NEW g, NEW family, NEW depth \in Nat \ {0}
    PROVE  /\ GoodVerdict(ConflictsFor(g, family), ResolvedFor(g, family, depth))
           /\ \E n \in Nat : DecidedBy(PrepareProductions(g), ConflictsFor(g, family), n, ResolvedFor(g, family, depth))
<1> DEFINE ps == PrepareProductions(g)
           C == ConflictsFor(g, family)
           r == Reached(ps, depth)
<1>1. 1 \in 1..depth /\ \A m \in 1..1 : Fits(ps, m)
  <2>1. \A m \in 1..1 : m = 1
    OBVIOUS
  <2> QED BY <2>1 DEF Fits, K
<1>2. r \in 1..depth
  BY <1>1, ReachedExists
<1>3. ResolvedFor(g, family, depth) = ResolveConflicts(ps, 1, r, C)
  BY ResolvedForIs, Zenon DEF ResolvedFor
<1> HIDE DEF ps, C, r
<1>4. \E f : ResolveConflicts(ps, 1, r, C) = f[r] /\ GoodVerdict(C, f[r]) /\ DecidedBy(ps, C, r, f[r])
  BY <1>2, ResolveIs
<1>5. GoodVerdict(C, ResolveConflicts(ps, 1, r, C)) /\ DecidedBy(ps, C, r, ResolveConflicts(ps, 1, r, C))
  BY <1>4
<1>6. r \in Nat
  BY <1>2
<1>7. \E n \in Nat : DecidedBy(ps, C, n, ResolvedFor(g, family, depth))
  BY <1>3, <1>5, <1>6
<1> QED BY <1>3, <1>5, <1>7 DEF C, ps

LEMMA VerdictRestore ==
    Sound /\ CanonicalOK /\ MovesOK /\ RowsFresh /\ VerdictOK /\ DecisionsFresh /\ Restore => VerdictOK'
<1> SUFFICES ASSUME Sound, CanonicalOK, MovesOK, RowsFresh, VerdictOK, DecisionsFresh, Restore PROVE VerdictOK'
  OBVIOUS
<1> DEFINE ps == PrepareProductions(Source)
           C == ConflictsFor(Source, request.family)
           usable == {saved \in cached.decisions : saved.key = ResolutionKey}
<1>1. phase = "restore" /\ request' = request
  BY DEF Restore
<1>2. /\ analysis = AnalysisFor(Source) /\ automaton = StatesFor(Source, request.family)
      /\ Productions = PrepareProductions(Source)
      /\ BuildReady(analysis, automaton) /\ IsSequence(automaton.states)
      /\ request \in Requests /\ request.grammar \in DOMAIN Grammars /\ ~Malformed(Source)
      /\ GoodAnalysis(AnalysisFor(Source))
  BY <1>1, BuildIs DEF Merged
<1>3. verdict = Unresolved(1, C) /\ verdict.open = C
  <2>1. verdict = Unresolved(1, C)
    BY <1>1 DEF VerdictOK
  <2> QED BY <2>1 DEF Unresolved
<1>4. Source' = Source
  BY <1>1 DEF Source
<1>5. request.auto /\ request.depth \in Nat \ {0} /\ cached.kind \in {"none", request.family}
  <2>1. request.auto /\ cached.kind \in {"none", request.family}
    BY <1>1 DEF Sound, Shape, DecisionsOK
  <2> QED BY <1>2, <2>1, ARequest
<1>6. \/ phase' = "resolve" /\ reach' = 1 /\ verdict' = verdict
      \/ phase' = "save" /\ \E saved \in usable : verdict' = DecodeDecisions(saved)
  BY Zenon DEF Restore, Proceed, K
<1>7. CASE phase' = "resolve" /\ reach' = 1 /\ verdict' = verdict
  <2>1. verdict' = ResolveConflicts(ps, 1, 1, C)
    <3>1. ResolveConflicts(ps, 1, 1, C) = Unresolved(1, C)
      <4> HIDE DEF ps, C
      <4> QED BY ResolutionGoesOn
    <3> QED BY <1>3, <1>7, <3>1
  <2>2. 1 \in 1..request.depth /\ \A m \in 1..1 : Fits(ps, m)
    <3>1. \A m \in 1..1 : m = 1
      OBVIOUS
    <3> QED BY <1>5, <3>1 DEF Fits, K
  <2> QED BY <1>1, <1>4, <1>7, <2>1, <2>2 DEF VerdictOK
<1>8. CASE phase' = "save" /\ \E saved \in usable : verdict' = DecodeDecisions(saved)
  <2>1. PICK saved \in usable : verdict' = DecodeDecisions(saved)
    BY <1>8
  <2>2. saved \in cached.decisions /\ saved.key = KeyFor(Source, request.depth)
    BY <1>2, <2>1, VerdictsAreCoded
  <2>3. PICK asked \in Requests :
            asked.family = cached.kind /\ ~Malformed(Grammars[asked.grammar]) /\ saved = SavedFor(asked)
    BY <2>2 DEF DecisionsFresh, DecisionsFrom
  <2>4. asked.family \in {"LR", "LALR"} /\ asked.grammar \in DOMAIN Grammars
    BY ARequest
  <2>5. asked.family = request.family
    BY <1>5, <2>3, <2>4
  <2> DEFINE h == Grammars[asked.grammar]
             family == request.family
             key == KeyFor(h, asked.depth)
             v == ResolvedFor(h, family, asked.depth)
  <2>6. saved = EncVerdict(AnalysisFor(h), StatesFor(h, family), key, v)
    BY <2>3, <2>5, Zenon DEF SavedFor
  <2>7. saved.key = key
    <3> HIDE DEF h, family, key, v
    <3> QED BY <2>6 DEF EncVerdict
  <2>8. /\ request.depth = asked.depth /\ PrepareProductions(Source) = PrepareProductions(h)
        /\ AnalysisFor(Source) = AnalysisFor(h)
        /\ StatesFor(Source, family) = StatesFor(h, family)
        /\ ConflictsFor(Source, family) = ConflictsFor(h, family)
    <3>1. KeyFor(Grammars[request.grammar], request.depth) = KeyFor(Grammars[asked.grammar], asked.depth)
      BY <2>2, <2>7 DEF Source
    <3>2. /\ request.depth = asked.depth
          /\ PrepareProductions(Grammars[request.grammar]) = PrepareProductions(h)
          /\ AnalysisFor(Grammars[request.grammar]) = AnalysisFor(h)
          /\ StatesFor(Grammars[request.grammar], family) = StatesFor(h, family)
          /\ ConflictsFor(Grammars[request.grammar], family) = ConflictsFor(h, family)
      <4>1. /\ ~Malformed(Grammars[request.grammar]) /\ ~Malformed(Grammars[asked.grammar])
            /\ GoodAnalysis(AnalysisFor(Grammars[request.grammar]))
        BY <1>2, <2>3 DEF Source
      <4> QED BY <1>2, <2>4, <3>1, <4>1, SameBuilds
    <3> QED BY <3>2 DEF Source
  <2>9. v = ResolvedFor(Source, family, request.depth)
    <3>1. \A g : ResolvedFor(g, family, asked.depth) =
              ResolveConflicts(PrepareProductions(g), 1, Reached(PrepareProductions(g), asked.depth), ConflictsFor(g, family))
      BY ResolvedForIs, Zenon DEF ResolvedFor
    <3> HIDE DEF h, family
    <3> QED BY <2>8, <3>1
  <2> HIDE DEF h, family, key, v
  <2>10. saved = EncVerdict(analysis, automaton, key, v)
    BY <1>2, <2>6, <2>8 DEF family
  <2>11. GoodVerdict(C, v)
    <3>1. GoodVerdict(ConflictsFor(Source, family), ResolvedFor(Source, family, request.depth))
      BY <1>5, ResolvedIsGood
    <3> QED BY <2>9, <3>1 DEF family
  <2>12. C = ConflictsOf(RowsOf(analysis, automaton))
    BY <1>2, Zenon DEF ConflictsFor, RowsFor
  <2>13. verdict' = DecVerdict(analysis, automaton, C, saved)
    BY <1>2, <1>3, <2>1, VerdictsAreCoded
  <2>14. DecVerdict(analysis, automaton, C, saved) = v
    <3> HIDE DEF C
    <3> QED BY <1>2, <2>10, <2>11, <2>12, VerdictIsBack
  <2>15. verdict' = ResolvedFor(Source, request.family, request.depth)
    BY <2>9, <2>13, <2>14 DEF family
  <2> QED BY <1>1, <1>4, <1>5, <1>8, <2>15 DEF VerdictOK
<1> QED BY <1>6, <1>7, <1>8

LEMMA VerdictNext ==
    Sound /\ CanonicalOK /\ MovesOK /\ RowsFresh /\ VerdictOK /\ DecisionsFresh /\ [Next]_vars => VerdictOK'
<1> SUFFICES ASSUME Sound, CanonicalOK, MovesOK, RowsFresh, VerdictOK, DecisionsFresh, [Next]_vars PROVE VerdictOK'
  OBVIOUS
<1>1. CASE RowsDone
  BY <1>1, VerdictRowsDone
<1>2. CASE ResolveDepth
  BY <1>2, VerdictResolveDepth
<1>3. CASE Restore
  BY <1>3, VerdictRestore
<1>4. CASE Save
  <2>1. phase = "save" /\ phase' = "done" /\ request' = request /\ verdict' = verdict
    BY <1>4 DEF Save, Proceed, tablesVars
  <2>2. Source' = Source
    BY <2>1 DEF Source
  <2> QED BY <2>1, <2>2 DEF VerdictOK
<1>5. CASE UNCHANGED vars
  <2>1. UNCHANGED <<request, verdict, reach, phase>>
    BY <1>5 DEF vars, tablesVars
  <2>2. Source' = Source
    BY <2>1 DEF Source
  <2> QED BY <2>1, <2>2 DEF VerdictOK
<1>6. CASE Load \/ FirstRound \/ FirstState \/ NextState \/ GoTo \/ MergeStates \/ BuildRow \/ Rebuild
  <2>1. phase' \in {"load", "failed", "first", "start", "states", "merge", "table"}
    <3>1. CASE Load \/ FirstRound
      BY <3>1, Zenon DEF Load, FirstRound, Fail, Proceed
    <3>2. CASE FirstState \/ NextState
      BY <3>2, Zenon DEF FirstState, NextState, GiveUp, Fail, Proceed
    <3>3. CASE GoTo \/ MergeStates
      BY <3>3, Zenon DEF GoTo, MergeStates, GiveUp, Fail, Proceed
    <3>4. CASE BuildRow \/ Rebuild
      BY <3>4, Zenon DEF BuildRow, Rebuild
    <3> QED BY <1>6, <3>1, <3>2, <3>3, <3>4
  <2>2. phase' \notin {"restore", "resolve", "save", "done"}
    BY <2>1
  <2> QED BY <2>2 DEF VerdictOK
<1>7. \/ Load \/ FirstRound \/ FirstState \/ NextState \/ GoTo \/ MergeStates \/ BuildRow \/ Rebuild
      \/ RowsDone \/ Restore \/ ResolveDepth \/ Save \/ UNCHANGED vars
  BY Zenon DEF Next, Step, Done
<1> QED BY <1>1, <1>2, <1>3, <1>4, <1>5, <1>6, <1>7

LEMMA DecisionsSave ==
    Sound /\ CanonicalOK /\ MovesOK /\ RowsFresh /\ VerdictOK /\ DecisionsFresh /\ Save => DecisionsFresh'
<1> SUFFICES ASSUME Sound, CanonicalOK, MovesOK, RowsFresh, VerdictOK, DecisionsFresh, Save PROVE DecisionsFresh'
  OBVIOUS
<1>1. phase = "save" /\ snapshot' = SaveCache /\ cached' = cached
  BY DEF Save
<1>2. /\ snapshot'.kind = request.family
      /\ snapshot'.decisions = IF request.auto THEN EncodeDecisions ELSE cached.decisions
  BY <1>1 DEF SaveCache, SnapshotWith
<1>3. /\ analysis = AnalysisFor(Source) /\ automaton = StatesFor(Source, request.family)
      /\ Productions = PrepareProductions(Source) /\ request \in Requests /\ ~Malformed(Source)
  BY <1>1, BuildIs DEF Merged
<1>4. CASE request.auto
  <2>1. EncodeDecisions = {EncVerdict(analysis, automaton, KeyFor(Source, request.depth), verdict)}
    BY <1>3, VerdictsAreCoded
  <2>2. verdict = ResolvedFor(Source, request.family, request.depth)
    BY <1>1, <1>4 DEF VerdictOK
  <2>3. EncVerdict(analysis, automaton, KeyFor(Source, request.depth), verdict) = SavedFor(request)
    <3>1. SavedFor(request) = EncVerdict(AnalysisFor(Source), StatesFor(Source, request.family),
                                         KeyFor(Source, request.depth),
                                         ResolvedFor(Source, request.family, request.depth))
      BY Zenon DEF SavedFor, Source
    <3> QED BY <1>3, <2>2, <3>1
  <2>4. snapshot'.decisions = {SavedFor(request)}
    BY <1>2, <1>4, <2>1, <2>3
  <2>5. DecisionsFrom(snapshot'.kind, snapshot'.decisions)
    BY <1>2, <1>3, <2>4 DEF DecisionsFrom, Source
  <2> QED BY <1>1, <2>5 DEF DecisionsFresh
<1>5. CASE ~request.auto
  <2>1. snapshot'.decisions = cached.decisions
    BY <1>2, <1>5
  <2>2. cached.kind \in {"none", request.family}
    BY <1>1 DEF Sound, Shape, DecisionsOK
  <2>3. ASSUME NEW saved \in cached.decisions
        PROVE  \E asked \in Requests :
                  asked.family = request.family /\ ~Malformed(Grammars[asked.grammar]) /\ saved = SavedFor(asked)
    <3>1. PICK asked \in Requests :
              asked.family = cached.kind /\ ~Malformed(Grammars[asked.grammar]) /\ saved = SavedFor(asked)
      BY DEF DecisionsFresh, DecisionsFrom
    <3>2. asked.family # "none"
      BY ARequest
    <3> QED BY <2>2, <3>1, <3>2
  <2>4. DecisionsFrom(snapshot'.kind, snapshot'.decisions)
    BY <1>2, <2>1, <2>3 DEF DecisionsFrom
  <2> QED BY <1>1, <2>4 DEF DecisionsFresh
<1> QED BY <1>4, <1>5

LEMMA DecisionsNext ==
    Sound /\ CanonicalOK /\ MovesOK /\ RowsFresh /\ VerdictOK /\ DecisionsFresh /\ [Next]_vars => DecisionsFresh'
<1> SUFFICES ASSUME Sound, CanonicalOK, MovesOK, RowsFresh, VerdictOK, DecisionsFresh, [Next]_vars
             PROVE  DecisionsFresh'
  OBVIOUS
<1>1. CASE Load
  <2>1. cached' \in {snapshot, NoCache} /\ snapshot' = snapshot
    BY <1>1, Zenon DEF Load
  <2>2. DecisionsFrom(NoCache.kind, NoCache.decisions)
    BY DEF DecisionsFrom, NoCache
  <2> QED BY <2>1, <2>2 DEF DecisionsFresh
<1>2. CASE Save
  BY <1>2, DecisionsSave
<1>3. CASE UNCHANGED vars
  BY <1>3 DEF vars, DecisionsFresh
<1>4. CASE FirstRound \/ FirstState \/ NextState \/ GoTo \/ MergeStates \/ BuildRow \/ RowsDone \/ Restore
           \/ ResolveDepth \/ Rebuild
  <2>1. UNCHANGED <<snapshot, cached>>
    BY <1>4 DEF FirstRound, FirstState, NextState, GoTo, MergeStates, BuildRow, RowsDone, Restore, ResolveDepth, Rebuild
  <2> QED BY <2>1 DEF DecisionsFresh
<1>5. \/ Load \/ Save \/ UNCHANGED vars
      \/ (FirstRound \/ FirstState \/ NextState \/ GoTo \/ MergeStates \/ BuildRow \/ RowsDone \/ Restore
          \/ ResolveDepth \/ Rebuild)
  BY Zenon DEF Next, Step, Done
<1> QED BY <1>1, <1>2, <1>3, <1>4, <1>5

\* The tables of a request, built without a snapshot.
LEMMA FreshIs ==
    ASSUME NEW asked \in Requests, ~Malformed(Grammars[asked.grammar])
    PROVE  LET g == Grammars[asked.grammar]
           IN  Fresh[asked] = Emit(g, PrepareProductions(g), StatesFor(g, asked.family),
                                   EntriesOf(RowsFor(g, asked.family)),
                                   IF asked.auto THEN ResolvedFor(g, asked.family, asked.depth)
                                   ELSE Unresolved(1, ConflictsFor(g, asked.family)))
<1> DEFINE g == Grammars[asked.grammar]
           n == IF asked.auto THEN Reached(PrepareProductions(g), asked.depth) ELSE 1
           known == {r \in Requests : ~Malformed(Grammars[r.grammar])}
           emitted(v) == Emit(g, PrepareProductions(g), StatesFor(g, asked.family), EntriesOf(RowsFor(g, asked.family)), v)
           fresh == IF asked.auto THEN ResolvedFor(g, asked.family, asked.depth)
                    ELSE Unresolved(1, ConflictsFor(g, asked.family))
<1>1. Fresh[asked] = ColdTables(asked)
  <2>1. Fresh = [r \in known |-> ColdTables(r)]
    BY WorkedOutIs, Zenon DEF Fresh
  <2>2. asked \in known
    OBVIOUS
  <2> HIDE DEF known
  <2> QED BY <2>1, <2>2
<1>2. ColdTables(asked) = Compile(g, asked.family, K, n)
  BY Zenon DEF ColdTables, K
<1>3. Compile(g, asked.family, K, n) = emitted(VerdictFor(g, asked.family, n))
  BY CompileIs
<1>4. VerdictFor(g, asked.family, n) = fresh
  <2>1. CASE asked.auto
    BY <2>1, Zenon DEF ResolvedFor
  <2>2. CASE ~asked.auto
    <3>1. VerdictFor(g, asked.family, 1) = ResolveConflicts(PrepareProductions(g), 1, 1, ConflictsFor(g, asked.family))
      BY ResolvedForIs
    <3>2. 1 \in Nat /\ 1 >= 1
      OBVIOUS
    <3>3. ResolveConflicts(PrepareProductions(g), 1, 1, ConflictsFor(g, asked.family)) =
              Unresolved(1, ConflictsFor(g, asked.family))
      <4> HIDE DEF g
      <4> QED BY <3>2, ResolutionGoesOn
    <3>4. n = 1
      BY <2>2
    <3> QED BY <2>2, <3>1, <3>3, <3>4, Zenon
  <2> QED BY <2>1, <2>2
<1> HIDE DEF g, n, fresh, known
<1>5. Fresh[asked] = emitted(fresh)
  BY <1>1, <1>2, <1>3, <1>4, Zenon
<1> QED BY <1>5, Zenon DEF g, fresh

Incremental == Sound /\ CanonicalOK /\ MovesOK /\ RowsFresh /\ VerdictOK /\ DecisionsFresh

LEMMA IncrementalInit == Init => Incremental
<1> SUFFICES ASSUME Init PROVE Incremental
  OBVIOUS
<1>1. phase = "load" /\ cached = NoCache /\ snapshot = NoCache
  BY DEF Init
<1>2. DecisionsFrom(NoCache.kind, NoCache.decisions)
  BY DEF DecisionsFrom, NoCache
<1> QED BY <1>1, <1>2, SoundInit, RowsInit DEF Incremental, VerdictOK, DecisionsFresh

LEMMA IncrementalNext == Incremental /\ [Next]_vars => Incremental'
BY SoundNext, CanonicalNext, MovesNext, RowsNext, VerdictNext, DecisionsNext DEF Incremental

LEMMA IncrementalIsCold == Incremental => WarmIsCold
<1> SUFFICES ASSUME Incremental, phase = "done"
             PROVE  Emit(Source, Productions, automaton, EntriesOf(table), verdict) = Fresh[request]
  BY DEF WarmIsCold
<1> DEFINE C == ConflictsFor(Source, request.family)
           fresh == IF request.auto THEN ResolvedFor(Source, request.family, request.depth) ELSE Unresolved(1, C)
<1>1. /\ automaton = StatesFor(Source, request.family) /\ table = RowsFor(Source, request.family)
      /\ Productions = PrepareProductions(Source) /\ request \in Requests /\ ~Malformed(Source)
  BY BuildIs DEF Incremental, Merged
<1>2. verdict = fresh
  BY Zenon DEF Incremental, VerdictOK
<1>3. Fresh[request] = Emit(Source, PrepareProductions(Source), StatesFor(Source, request.family),
                            EntriesOf(RowsFor(Source, request.family)), fresh)
  BY <1>1, FreshIs, Zenon DEF Source
<1> HIDE DEF fresh
<1> QED BY <1>1, <1>2, <1>3

\* The promise of the cache: whatever the builds before were of, however they
\* ended and whatever they left in the snapshot, a build that succeeds writes
\* out exactly the tables that a build without any snapshot writes out for the
\* same grammar, parser family and lookahead.  (buildLR, loadCache, closure,
\* buildTables, resolveConflicts, saveCache.)
THEOREM WarmBuildsAreCold == Spec => []WarmIsCold
BY IncrementalInit, IncrementalNext, IncrementalIsCold, PTL DEF Spec

-----------------------------------------------------------------------------
(* Every item of the automaton of a build is there for a reason.            *)

MachineOK ==
    /\ phase \in {"states", "merge"} \cup Merged => Machine(analysis, automaton)
    /\ phase = "states" /\ awaiting # <<>> =>
          Range(awaiting) \subseteq NextSymbols(analysis, automaton.states[expanded])

LEMMA ReservedNow ==
    ASSUME Sound, phase \in Begun
    PROVE  GoodAnalysis(analysis) /\ Reserved(analysis.productions)
<1>1. GoodAnalysis(analysis) /\ analysis = Analysis(PrepareProductions(Source), 1, analysis.first)
  BY DEF Sound, AnalysisOK
<1>2. \A ps, f : Analysis(ps, 1, f).productions = ps
  BY DEF Analysis
<1>3. analysis.productions = PrepareProductions(Source)
  BY <1>1, <1>2
<1>4. IsGrammar(Source)
  <2>1. request \in Requests
    BY DEF Sound, Shape, PhasesOK
  <2> QED BY <2>1, RequestsAssumption DEF Source
<1> QED BY <1>1, <1>3, <1>4, PreparedIsReserved

LEMMA MachineNext == Sound /\ CanonicalOK /\ MovesOK /\ MachineOK /\ [Next]_vars => MachineOK'
<1> SUFFICES ASSUME Sound, CanonicalOK, MovesOK, MachineOK, [Next]_vars PROVE MachineOK'
  OBVIOUS
<1> DEFINE A == analysis
<1>1. CASE Load
  <2>1. phase' \in {"first", "failed"}
    BY <1>1, Zenon DEF Load, Fail, Proceed
  <2> QED BY <2>1 DEF MachineOK, Merged
<1>2. CASE FirstRound
  <2>1. phase' \in {"first", "start"}
    BY <1>2 DEF FirstRound, Proceed
  <2> QED BY <2>1 DEF MachineOK, Merged
<1>3. CASE FirstState
  <2> DEFINE found == Look(StartKernel(1), ClosureKey(StartKernel(1)))
  <2>1. phase = "start" /\ awaiting = <<>> /\ analysis' = analysis
    BY <1>3 DEF FirstState, Sound, Shape, StatesOK
  <2>2. GoodAnalysis(A) /\ Reserved(A.productions)
    BY <2>1, ReservedNow DEF Begun
  <2>3. GiveUp(found) \/ (/\ Remember(ClosureKey(StartKernel(1)), found)
                          /\ automaton' = [states |-> <<DecodeItems(found.entry)>>, moves |-> {}]
                          /\ Proceed("states") /\ UNCHANGED <<awaiting, expanded>>)
    BY <1>3, Zenon DEF FirstState, K
  <2>4. CASE GiveUp(found)
    <3>1. phase' = "failed"
      BY <2>4, Zenon DEF GiveUp, Fail
    <3> QED BY <3>1 DEF MachineOK, Merged
  <2>5. CASE /\ Remember(ClosureKey(StartKernel(1)), found)
             /\ automaton' = [states |-> <<DecodeItems(found.entry)>>, moves |-> {}]
             /\ Proceed("states") /\ UNCHANGED <<awaiting, expanded>>
    <3>1. EntriesOK(current) /\ EntriesOK(cached.closures)
      BY DEF Sound, ClosuresOK
    <3>2. 0 \in DOMAIN A.productions
      BY <2>2 DEF Reserved, StartsWell
    <3>3. GoodItems(A, StartKernel(1))
      BY <2>2, <3>2, StartIsGood
    <3>4. DecodeItems(found.entry) = Closure(A, StartKernel(1))
      BY <2>2, <2>5, <3>1, <3>3, RememberedIs
    <3>5. automaton' = [states |-> <<Closure(A, StartKernel(1))>>, moves |-> {}]
      BY <2>5, <3>4
    <3>6. Machine(A, automaton')
      BY <2>2, <3>5, MachineStarts
    <3>7. awaiting' = <<>>
      BY <2>1, <2>5
    <3> QED BY <2>1, <3>6, <3>7 DEF MachineOK
  <2> QED BY <2>3, <2>4, <2>5
<1>4. CASE NextState \/ GoTo
  <2>1. phase = "states" /\ analysis' = analysis
    BY <1>4 DEF NextState, GoTo
  <2>2. /\ IsSequence(automaton.states) /\ MovesWithin(automaton) /\ expanded \in Nat
        /\ expanded <= Len(automaton.states) /\ (awaiting # <<>> => expanded >= 1)
        /\ Distinct(automaton.states)
    BY <2>1 DEF Sound, Shape, StatesOK, TraversalOK
  <2>3. /\ Machine(A, automaton)
        /\ awaiting # <<>> => Range(awaiting) \subseteq NextSymbols(A, automaton.states[expanded])
    BY <2>1 DEF MachineOK
  <2>4. /\ GoodAnalysis(A) /\ Reserved(A.productions) /\ IsGrammar(Source) /\ AllGood(A, automaton.states)
        /\ awaiting \in Seq(STRING)
    <3>1. request \in Requests
      BY DEF Sound, Shape, PhasesOK
    <3>2. Reserved(A.productions)
      BY <2>1, ReservedNow DEF Begun
    <3> QED BY <2>1, <3>1, <3>2, RequestsAssumption
            DEF Sound, AnalysisOK, TraversalOK, Begun, Source, CanonicalOK, Underway
  <2>5. CASE NextState
    <3>1. /\ automaton' = automaton
          /\ \/ phase' = "merge"
             \/ /\ phase' = phase
                /\ awaiting' = SymbolsAfter(Source, A, automaton.states[expanded + 1])
                /\ expanded' = expanded + 1
      BY <2>5 DEF NextState, Proceed
    <3>2. Range(SymbolsAfter(Source, A, automaton.states[expanded + 1])) \subseteq NextSymbols(A, automaton.states[expanded + 1])
      BY <2>4, SymbolsFollowed
    <3>3. CASE phase' = "merge"
      BY <2>1, <2>3, <3>1, <3>3 DEF MachineOK
    <3>4. CASE /\ phase' = phase
               /\ awaiting' = SymbolsAfter(Source, A, automaton.states[expanded + 1])
               /\ expanded' = expanded + 1
      BY <2>1, <2>3, <3>1, <3>2, <3>4 DEF MachineOK
    <3> QED BY <3>1, <3>3, <3>4
  <2>6. CASE GoTo
    <3> DEFINE kernel == Kernel(A, automaton.states[expanded], Head(awaiting))
               found == Look(kernel, ClosureKey(kernel))
               d == AddTransition(automaton, expanded - 1, Head(awaiting), Closure(A, kernel))
    <3>1. /\ awaiting # <<>>
          /\ \/ GiveUp(found)
             \/ /\ Remember(ClosureKey(kernel), found)
                /\ automaton' = AddTransition(automaton, expanded - 1, Head(awaiting), DecodeItems(found.entry))
                /\ awaiting' = Tail(awaiting) /\ UNCHANGED <<expanded, phase>>
      BY <2>6 DEF GoTo
    <3>2. expanded \in DOMAIN automaton.states
      <4>1. PICK S : automaton.states \in Seq(S)
        BY <2>2 DEF IsSequence
      <4> QED BY <2>2, <3>1, <4>1
    <3>3. GoodItems(A, kernel)
      <4>1. GoodItems(A, automaton.states[expanded])
        BY <2>4, <3>2 DEF AllGood
      <4> QED BY <4>1, <2>4, KernelIsGood
    <3>4. CASE GiveUp(found)
      <4>1. phase' = "failed"
        BY <3>4, Zenon DEF GiveUp, Fail
      <4> QED BY <4>1 DEF MachineOK, Merged
    <3>5. CASE /\ Remember(ClosureKey(kernel), found)
               /\ automaton' = AddTransition(automaton, expanded - 1, Head(awaiting), DecodeItems(found.entry))
               /\ awaiting' = Tail(awaiting) /\ UNCHANGED <<expanded, phase>>
      <4>1. EntriesOK(current) /\ EntriesOK(cached.closures)
        BY DEF Sound, ClosuresOK
      <4>2. DecodeItems(found.entry) = Closure(A, kernel)
        BY <2>4, <3>3, <3>5, <4>1, RememberedIs
      <4>3. automaton' = d /\ awaiting' = Tail(awaiting) /\ expanded' = expanded /\ phase' = phase
        BY <3>5, <4>2
      <4>4. Head(awaiting) \in Range(awaiting) /\ Range(Tail(awaiting)) \subseteq Range(awaiting)
        BY <2>4, <3>1, TailOfSome
      <4>5. Head(awaiting) \in NextSymbols(A, automaton.states[expanded])
        BY <2>3, <3>1, <4>4
      <4>6. Machine(A, d)
        BY <2>2, <2>3, <2>4, <3>2, <4>5, MachineAdded
      <4>7. d.states[expanded] = automaton.states[expanded]
        <5>1. Moved(d, automaton, expanded - 1, Head(awaiting), Closure(A, kernel))
          BY <2>2, TransitionIs
        <5> HIDE DEF d, kernel
        <5> QED BY <5>1, <3>2, Zenon DEF Moved
      <4> HIDE DEF d
      <4> QED BY <2>1, <2>3, <3>1, <4>3, <4>4, <4>6, <4>7 DEF MachineOK, Merged
    <3> QED BY <3>1, <3>4, <3>5
  <2> QED BY <1>4, <2>5, <2>6
<1>5. CASE MergeStates
  <2>1. /\ phase = "merge" /\ analysis' = analysis
        /\ \/ phase' = "failed"
           \/ phase' = "table" /\ automaton' = CollectionOf(automaton, request.family)
    BY <1>5, Zenon DEF MergeStates, Fail, Proceed
  <2>2. IsSequence(automaton.states) /\ MovesWithin(automaton) /\ Machine(A, automaton)
    BY <2>1 DEF Sound, Shape, StatesOK, MachineOK
  <2>3. CASE phase' = "failed"
    BY <2>3 DEF MachineOK, Merged
  <2>4. CASE phase' = "table" /\ automaton' = CollectionOf(automaton, request.family)
    <3>1. Machine(A, MergeLR0Cores(automaton))
      BY <2>2, MachineMerged
    <3>2. Machine(A, automaton')
      BY <2>2, <2>4, <3>1 DEF CollectionOf
    <3> QED BY <2>1, <2>4, <3>2 DEF MachineOK
  <2> QED BY <2>1, <2>3, <2>4
<1>6. CASE Rebuild
  <2>1. phase' = "load"
    BY <1>6 DEF Rebuild
  <2> QED BY <2>1 DEF MachineOK, Merged
<1>7. CASE UNCHANGED vars
  <2>1. UNCHANGED <<analysis, automaton, awaiting, expanded, phase>>
    BY <1>7 DEF vars, tablesVars
  <2> QED BY <2>1 DEF MachineOK
<1>8. CASE BuildRow \/ RowsDone \/ Restore \/ ResolveDepth \/ Save
  <2>1. /\ UNCHANGED <<analysis, automaton>> /\ phase \in Merged /\ phase' \in Merged
    BY <1>8, LaterPhases
  <2> QED BY <2>1 DEF MachineOK, Merged
<1> QED BY <1>1, <1>2, <1>3, <1>4, <1>5, <1>6, <1>7, <1>8, Zenon DEF Next, Step, Done

LEMMA BuiltIsFinished ==
    ASSUME Incremental, MachineOK, phase = "done"
    PROVE  Finished(Source, analysis, automaton)
<1>1. phase \in Merged /\ phase # "table" /\ phase \in Begun
  BY DEF Merged, Begun
<1>2. Sound /\ CanonicalOK /\ MovesOK /\ RowsFresh
  BY DEF Incremental
<1>3. /\ Productions = PrepareProductions(Source) /\ BuildReady(analysis, automaton)
      /\ request \in Requests /\ ~Malformed(Source)
  BY <1>1, <1>2, BuildIs
<1>4. IsGrammar(Source)
  BY <1>3, ARequest, RequestsAssumption DEF Source
<1>5. Reserved(analysis.productions)
  BY <1>1, <1>2, ReservedNow
<1>6. AllMoves(Source, analysis, automaton) /\ OneTarget(automaton)
  BY <1>1, <1>2 DEF MovesOK
<1>7. Machine(analysis, automaton)
  BY <1>1 DEF MachineOK
<1> QED BY <1>3, <1>4, <1>5, <1>6, <1>7 DEF Finished, Productions

LEMMA BuiltIsCoherent == Incremental /\ MachineOK => TablesAreCoherent
<1> SUFFICES ASSUME Incremental, MachineOK, phase = "done",
                    NEW P, P = Emit(Source, Productions, automaton, EntriesOf(table), verdict)
             PROVE  Gen!Coherent(P) /\ Gen!OpenCellsSound(P)
  BY DEF TablesAreCoherent
<1> DEFINE C == ConflictsOf(RowsOf(analysis, automaton))
<1>1. Finished(Source, analysis, automaton)
  BY BuiltIsFinished
<1>2. phase \in Merged \ {"table"} /\ Sound /\ CanonicalOK /\ MovesOK /\ RowsFresh
  BY DEF Incremental, Merged
<1>3. /\ analysis = AnalysisFor(Source) /\ automaton = StatesFor(Source, request.family)
      /\ table = RowsFor(Source, request.family) /\ Productions = PrepareProductions(Source)
      /\ request \in Requests
  BY <1>2, BuildIs
<1>4. table = RowsOf(analysis, automaton) /\ ConflictsFor(Source, request.family) = C
  BY <1>3, Zenon DEF RowsFor, ConflictsFor
<1>5. verdict.k \in Nat \ {0}
  <2>1. verdict.k \in 1..(IF request.auto THEN request.depth ELSE 1)
    BY <1>2 DEF Sound, Shape, DecisionsOK, K
  <2>2. request.depth \in Nat
    BY <1>3, ARequest
  <2> QED BY <2>1, <2>2
<1>6. /\ verdict.open \subseteq C /\ \E n \in Nat : DecidedBy(Productions, C, n, verdict)
  <2>1. verdict = IF request.auto THEN ResolvedFor(Source, request.family, request.depth)
                  ELSE Unresolved(1, ConflictsFor(Source, request.family))
    BY Zenon DEF Incremental, VerdictOK
  <2>2. CASE request.auto
    <3>1. verdict = ResolvedFor(Source, request.family, request.depth)
      BY <2>1, <2>2
    <3>2. request.depth \in Nat \ {0}
      BY <1>3, ARequest
    <3> DEFINE v == ResolvedFor(Source, request.family, request.depth)
               D == ConflictsFor(Source, request.family)
    <3>3. GoodVerdict(D, v) /\ \E n \in Nat : DecidedBy(PrepareProductions(Source), D, n, v)
      BY <3>2, ResolvedIsGood
    <3> HIDE DEF v
    <3>4. v.open \subseteq D
      BY <3>3 DEF GoodVerdict
    <3>5. verdict = v
      BY <3>1 DEF v
    <3> QED BY <1>3, <1>4, <3>3, <3>4, <3>5
  <2>3. CASE ~request.auto
    <3>1. verdict = Unresolved(1, C)
      BY <1>4, <2>1, <2>3
    <3>2. verdict.open = C /\ verdict.decisions = {}
      BY <3>1 DEF Unresolved
    <3>3. DecidedBy(Productions, C, 1, verdict)
      BY <3>2, Zenon DEF DecidedBy
    <3> HIDE DEF C
    <3> QED BY <3>2, <3>3
  <2> QED BY <2>2, <2>3
<1>7. PICK n \in Nat : DecidedBy(Productions, C, n, verdict)
  BY <1>6
<1>8. P = Emit(Source, analysis.productions, automaton, EntriesOf(RowsOf(analysis, automaton)), verdict)
  BY <1>4 DEF Productions
<1>9. DecidedBy(analysis.productions, C, n, verdict)
  BY <1>7 DEF Productions
<1> QED BY <1>1, <1>5, <1>6, <1>8, <1>9, EmittedIsCoherent

LEMMA MachineInit == Init => MachineOK
BY Zenon DEF Init, MachineOK, Merged

\* What the drivers take for granted of their tables is so for every grammar,
\* parser family and lookahead, and whatever was built before: transitions move
\* the dot, every rule that can begin has its transition, and every cell of the
\* table, every decision and every candidate of an open conflict shifts along a
\* transition, reduces a finished item or accepts at the end of the input.  It is
\* the assumption under which lr_parse and the generalized driver are proved
\* never to stop on a table fault.  (prepareProductions, computeFirstK, closure,
\* buildCanonical, mergeLR0Cores, buildTables, resolveConflicts.)
THEOREM EmittedTablesAreCoherent == Spec => []TablesAreCoherent
<1>1. Init => Incremental /\ MachineOK
  BY IncrementalInit, MachineInit
<1>2. Incremental /\ MachineOK /\ [Next]_vars => (Incremental /\ MachineOK)'
  BY IncrementalNext, MachineNext DEF Incremental
<1>3. Incremental /\ MachineOK => TablesAreCoherent
  BY BuiltIsCoherent
<1> QED BY <1>1, <1>2, <1>3, PTL DEF Spec

\* Nothing is in an emitted state without a reason, for every grammar, parser
\* family and lookahead: no state is empty, and an item that has read nothing is
\* there because of another that expects its rule, back to an item that a
\* transition put there or to the start.  The drivers' viable prefixes, and the
\* early discovery of errors, rest on it.  (closure, buildCanonical,
\* mergeLR0Cores.)
THEOREM EmittedTablesAreRooted ==
    Spec => [](phase = "done" =>
                 Begins!Rooted(Emit(Source, Productions, automaton, EntriesOf(table), verdict)))
<1> DEFINE Emitted == Emit(Source, Productions, automaton, EntriesOf(table), verdict)
           Built == phase = "done" => Begins!Rooted(Emitted)
<1>1. Init => Incremental /\ MachineOK
  BY IncrementalInit, MachineInit
<1>2. Incremental /\ MachineOK /\ [Next]_vars => (Incremental /\ MachineOK)'
  BY IncrementalNext, MachineNext DEF Incremental
<1>3. Incremental /\ MachineOK => Built
  <2> SUFFICES ASSUME Incremental, MachineOK, phase = "done"
               PROVE  Begins!Rooted(Emitted)
    OBVIOUS
  <2>1. Finished(Source, analysis, automaton)
    BY BuiltIsFinished
  <2>2. Emitted = Emit(Source, analysis.productions, automaton, EntriesOf(table), verdict)
    BY DEF Productions
  <2> HIDE DEF Emitted
  <2> QED BY <2>1, <2>2, EmittedIsRooted
<1> HIDE DEF Built
<1>4. Spec => []Built
  BY <1>1, <1>2, <1>3, PTL DEF Spec
<1> QED BY <1>4 DEF Built

-----------------------------------------------------------------------------
(* FIRST, and the grammars in which every rule begins with something.       *)

\* The first tokens are what their name says: what the texts begin with.
FirstTokensAreThose ==
    \A asked \in Requests :
        LET ps == PrepareProductions(Grammars[asked.grammar])
        IN  ~Malformed(Grammars[asked.grammar]) =>
                \A name \in LeftSides(ps) \ {Augmented} :
                    /\ name \in DOMAIN FirstTokens[asked.grammar]
                    /\ FirstTokens[asked.grammar][name] = {Truncate(t, K) : t \in DerivedTexts(ps)[name]}

LEMMA PreparedForRequest ==
    ASSUME NEW asked \in Requests
    PROVE  LET ps == PrepareProductions(Grammars[asked.grammar])
           IN  IsGrammar(Grammars[asked.grammar]) /\ Reserved(ps) /\ GoodProductions(ps) /\ StartsWell(ps)
<1>1. IsGrammar(Grammars[asked.grammar])
  BY RequestsAssumption, ARequest
<1>2. Reserved(PrepareProductions(Grammars[asked.grammar]))
  BY <1>1, PreparedIsReserved
<1> QED BY <1>1, <1>2 DEF Reserved, StartsWell

\* What computeFirstK makes of the grammar of a request.
LEMMA FirstFor ==
    ASSUME FirstTokensAreThose, NEW asked \in Requests, ~Malformed(Grammars[asked.grammar]),
           NEW name \in LeftSides(PrepareProductions(Grammars[asked.grammar])) \ {Augmented}
    PROVE  /\ name \in DOMAIN FirstTokens[asked.grammar]
           /\ ComputeFirstK(PrepareProductions(Grammars[asked.grammar]), 1)[name] = FirstTokens[asked.grammar][name]
<1> DEFINE ps == PrepareProductions(Grammars[asked.grammar])
<1>1. GoodProductions(ps)
  BY PreparedForRequest
<1>2. /\ name \in DOMAIN FirstTokens[asked.grammar]
      /\ FirstTokens[asked.grammar][name] = {Truncate(t, 1) : t \in DerivedTexts(ps)[name]}
  BY DEF FirstTokensAreThose, K
<1>3. name \in LeftSides(ps)
  OBVIOUS
<1> HIDE DEF ps
<1>4. ComputeFirstK(ps, 1) = [lhs \in LeftSides(ps) |-> {Truncate(t, 1) : t \in DerivedTexts(ps)[lhs]}]
  BY <1>1, FirstIsThoseOfTexts
<1>5. ComputeFirstK(ps, 1)[name] = {Truncate(t, 1) : t \in DerivedTexts(ps)[name]}
  BY <1>3, <1>4
<1> QED BY <1>2, <1>5 DEF ps

\* computeFirstK finds exactly the tokens that the strings of a rule begin
\* with, in every version of every grammar: the rounds of the loop are the
\* rounds of the build, and the loop ends.
LEMMA StartIsExact == FirstTokensAreThose /\ Sound /\ CanonicalOK /\ MovesOK => FirstIsExact
<1> SUFFICES ASSUME FirstTokensAreThose, Sound, CanonicalOK, MovesOK, phase = "start",
                    NEW name \in LeftSides(Productions) \ {Augmented}
             PROVE  analysis.first[name] = FirstTokens[request.grammar][name]
  BY DEF FirstIsExact
<1>1. request \in Requests
  BY DEF Sound, Shape, PhasesOK
<1>2. /\ analysis = Analysis(PrepareProductions(Source), 1, analysis.first)
      /\ analysis.first = ComputeFirstK(PrepareProductions(Source), 1) /\ ~Malformed(Source)
  BY DEF Sound, AnalysisOK, CanonicalOK, MovesOK, Begun
<1>3. Productions = PrepareProductions(Source)
  BY <1>2, AnalysisHas DEF Productions
<1> QED BY <1>1, <1>2, <1>3, FirstFor DEF Source

\* A rule all of whose alternatives begin with something does.
LEMMA ProductiveIsFilled ==
    ASSUME FirstTokensAreThose, NEW asked \in Requests, ~Malformed(Grammars[asked.grammar]),
           \A windows \in Range(FirstTokens[asked.grammar]) : windows # {}
    PROVE  Filled(AnalysisFor(Grammars[asked.grammar]))
<1> DEFINE ps == PrepareProductions(Grammars[asked.grammar])
           first == ComputeFirstK(ps, 1)
           A == AnalysisFor(Grammars[asked.grammar])
<1>1. GoodProductions(ps) /\ StartsWell(ps) /\ Reserved(ps)
  BY PreparedForRequest
<1>2. A.productions = ps /\ A.first = first
  <2>1. A = Analysis(ps, 1, first)
    BY Zenon DEF AnalysisFor, K
  <2> HIDE DEF A, ps, first
  <2> QED BY <2>1, AnalysisHas
<1>3. ASSUME NEW name \in LeftSides(ps) \ {Augmented} PROVE first[name] # {}
  BY <1>3, FirstFor DEF Range
<1>4. WideFirst(ps, first) /\ FirstSweep(ps, 1, first) = first
  <2> HIDE DEF ps
  <2> QED BY <1>1, FirstEnds DEF BegunWith
<1>5. first[Augmented] # {}
  <2>1. 0 \in DOMAIN ps /\ ps[0].lhs = Augmented /\ ps[0].rhs = <<Main>> /\ Main # Augmented
    <3>1. 0 \in DOMAIN ps /\ ps[0].lhs = Augmented /\ ps[0].rhs = <<Main>>
      BY <1>1 DEF StartsWell
    <3>2. Augmented \notin Range(<<Main>>)
      BY <1>1, <3>1, Zenon DEF Reserved
    <3>3. Main \in Range(<<Main>>)
      BY DEF Range
    <3> QED BY <3>1, <3>2, <3>3
  <2> HIDE DEF ps, first
  <2>2. FirstOfString(first, 1, <<Main>>) \subseteq first[Augmented]
    BY <1>1, <1>4, <2>1, SettledFirst
  <2>3. FirstOfSymbol(first, Main) # {}
    <3>1. DOMAIN first = LeftSides(ps)
      BY <1>4 DEF WideFirst
    <3> QED BY <1>3, <2>1, <3>1 DEF FirstOfSymbol
  <2>4. FirstOfString(first, 1, <<Main>>) # {}
    <3>1. TypedFirst(ps, first)
      BY FirstIsTyped, <1>1 DEF first
    <3>2. FirstWithin(ps, first, <<Main>>)
      BY <1>1, <2>1, <3>1, SymbolsHaveFirst
    <3>3. <<Main>> \in Seq({Main}) /\ \A s \in Range(<<Main>>) : s = Main
      BY DEF Range
    <3>4. \A s \in Range(<<Main>>) : FirstOfSymbol(first, s) # {}
      BY <2>3, <3>3
    <3> QED BY <3>2, <3>3, <3>4, FirstIsSome
  <2> QED BY <2>2, <2>4
<1> QED BY <1>2, <1>3, <1>5 DEF Filled

\* computeFirstK ends with exactly the tokens with which the strings of a rule
\* begin, whatever was built before.  (prepareProductions, computeFirstK.)
THEOREM FirstSetsAreExact ==
    ASSUME FirstTokensAreThose
    PROVE  Spec => []FirstIsExact
<1>1. Init => Incremental
  BY IncrementalInit
<1>2. Incremental /\ [Next]_vars => Incremental'
  BY IncrementalNext
<1>3. Incremental => FirstIsExact
  BY StartIsExact DEF Incremental
<1> QED BY <1>1, <1>2, <1>3, PTL DEF Spec
-----------------------------------------------------------------------------
(* The states of a build are those of the LR(0) automaton.                  *)

CoresIn(c) == {s.cores : s \in Range(c.states)}

\* All states are LR(0) states, and the first is there.
InLR0(A, c) == CoresIn(c) \subseteq LR0In(A) /\ ExpansionIn(A, {<<0, 0>>}) \in CoresIn(c)

LEMMA LR0Starts ==
    ASSUME NEW A, GoodAnalysis(A), 0 \in DOMAIN A.productions, Filled(A),
           NEW c, c = [states |-> <<Closure(A, StartKernel(1))>>, moves |-> {}]
    PROVE  AllFull(c.states) /\ InLR0(A, c)
<1> DEFINE items == Closure(A, StartKernel(1))
<1>1. Full(items) /\ items.cores = ExpansionIn(A, {<<0, 0>>})
  BY FullFirst
<1>2. ExpansionIn(A, {<<0, 0>>}) \in LR0In(A)
  BY LR0Is
<1> HIDE DEF items
<1>3. c.states = <<items>>
  BY DEF items
<1>4. DOMAIN c.states = {1} /\ c.states[1] = items
  BY <1>3
<1>5. CoresIn(c) = {items.cores}
  BY <1>4 DEF CoresIn, Range
<1> QED BY <1>1, <1>2, <1>4, <1>5 DEF AllFull, InLR0

LEMMA LR0Goes ==
    ASSUME NEW A, GoodAnalysis(A), 0 \in DOMAIN A.productions, Filled(A),
           NEW c, IsSequence(c.states), AllGood(A, c.states), AllFull(c.states), InLR0(A, c),
           NEW n, n \in DOMAIN c.states, NEW symbol \in NextSymbols(A, c.states[n]),
           NEW d, d = AddTransition(c, n - 1, symbol, Closure(A, Kernel(A, c.states[n], symbol)))
    PROVE  AllFull(d.states) /\ InLR0(A, d)
<1> DEFINE from == c.states[n]
           to == Closure(A, Kernel(A, from, symbol))
<1>1. Moved(d, c, n - 1, symbol, to)
  BY TransitionIs
<1>2. GoodItems(A, from) /\ Full(from)
  BY DEF AllGood, AllFull
<1>3. Full(to) /\ to.cores = TargetCores(A, from.cores, symbol)
  BY <1>2, FullTarget
<1>4. LeadsWithin(A, LR0In(A))
  BY LR0Is
<1>5. from.cores \in LR0In(A)
  BY DEF InLR0, CoresIn, Range
<1>6. to.cores \in StatesAfterIn(A, from.cores)
  BY <1>3 DEF NextSymbols, StatesAfterIn
<1> HIDE DEF to
<1>7. to.cores \in LR0In(A)
  BY <1>4, <1>5, <1>6 DEF LeadsWithin
<1>8. Range(d.states) = Range(c.states) \cup {to}
  BY <1>1 DEF Moved
<1>9. AllFull(d.states)
  BY <1>3, <1>8 DEF AllFull, Range
<1>10. CoresIn(d) = CoresIn(c) \cup {to.cores}
  BY <1>8 DEF CoresIn
<1> QED BY <1>7, <1>9, <1>10 DEF InLR0

\* The traversal follows a symbol that the state it expands expects.
LEMMA Expanding ==
    ASSUME Sound, CanonicalOK, MachineOK, phase = "states", awaiting # <<>>
    PROVE  /\ IsSequence(automaton.states) /\ expanded \in DOMAIN automaton.states
           /\ GoodAnalysis(analysis) /\ 0 \in DOMAIN analysis.productions
           /\ AllGood(analysis, automaton.states)
           /\ Head(awaiting) \in NextSymbols(analysis, automaton.states[expanded])
<1>1. /\ IsSequence(automaton.states) /\ expanded \in Nat
      /\ expanded <= Len(automaton.states) /\ expanded >= 1
  BY DEF Sound, Shape, StatesOK
<1>2. GoodAnalysis(analysis) /\ Reserved(analysis.productions)
  BY ReservedNow DEF Begun
<1>3. awaiting \in Seq(STRING) /\ AllGood(analysis, automaton.states)
  BY DEF CanonicalOK, Underway, Sound, TraversalOK
<1>4. Head(awaiting) \in Range(awaiting)
  BY <1>3, TailOfSome
<1>5. Head(awaiting) \in NextSymbols(analysis, automaton.states[expanded])
  BY <1>4 DEF MachineOK
<1>6. expanded \in DOMAIN automaton.states
  <2>1. PICK S : automaton.states \in Seq(S)
    BY <1>1 DEF IsSequence
  <2> QED BY <1>1, <2>1
<1>7. 0 \in DOMAIN analysis.productions
  BY <1>2 DEF Reserved, StartsWell
<1> QED BY <1>1, <1>2, <1>3, <1>5, <1>6, <1>7

LR0OK ==
    Filled(analysis) =>
        /\ phase \in {"states", "merge"} => AllFull(automaton.states)
        /\ phase \in {"states", "merge"} \cup Merged => InLR0(analysis, automaton)
        /\ phase \in Merged => CoresLead(analysis, automaton)
        /\ phase \in Merged /\ request.family = "LALR" =>
              Len(automaton.states) = Cardinality(CoresIn(automaton))

LEMMA LR0Next ==
    Sound /\ CanonicalOK /\ MovesOK /\ MachineOK /\ LR0OK /\ [Next]_vars => LR0OK'
<1> SUFFICES ASSUME Sound, CanonicalOK, MovesOK, MachineOK, LR0OK, [Next]_vars PROVE LR0OK'
  OBVIOUS
<1> DEFINE A == analysis
<1>1. CASE Load
  <2>1. phase' \in {"first", "failed"}
    BY <1>1, Zenon DEF Load, Fail, Proceed
  <2> QED BY <2>1 DEF LR0OK, Merged
<1>2. CASE FirstRound
  <2>1. phase' \in {"first", "start"}
    BY <1>2 DEF FirstRound, Proceed
  <2> QED BY <2>1 DEF LR0OK, Merged
<1>3. CASE FirstState
  <2> DEFINE found == Look(StartKernel(1), ClosureKey(StartKernel(1)))
  <2>1. phase = "start" /\ analysis' = analysis
    BY <1>3 DEF FirstState
  <2>2. GoodAnalysis(A) /\ Reserved(A.productions)
    BY <2>1, ReservedNow DEF Begun
  <2>3. GiveUp(found) \/ (/\ Remember(ClosureKey(StartKernel(1)), found)
                          /\ automaton' = [states |-> <<DecodeItems(found.entry)>>, moves |-> {}]
                          /\ Proceed("states"))
    BY <1>3, Zenon DEF FirstState, K
  <2>4. CASE GiveUp(found)
    <3>1. phase' = "failed"
      BY <2>4, Zenon DEF GiveUp, Fail
    <3> QED BY <3>1 DEF LR0OK, Merged
  <2>5. CASE /\ Remember(ClosureKey(StartKernel(1)), found)
             /\ automaton' = [states |-> <<DecodeItems(found.entry)>>, moves |-> {}]
             /\ Proceed("states")
    <3>1. EntriesOK(current) /\ EntriesOK(cached.closures)
      BY DEF Sound, ClosuresOK
    <3>2. 0 \in DOMAIN A.productions
      BY <2>2 DEF Reserved, StartsWell
    <3>3. GoodItems(A, StartKernel(1))
      BY <2>2, <3>2, StartIsGood
    <3>4. DecodeItems(found.entry) = Closure(A, StartKernel(1))
      BY <2>2, <2>5, <3>1, <3>3, RememberedIs
    <3>5. automaton' = [states |-> <<Closure(A, StartKernel(1))>>, moves |-> {}]
      BY <2>5, <3>4
    <3>6. Filled(A) => AllFull(automaton'.states) /\ InLR0(A, automaton')
      BY <2>2, <3>2, <3>5, LR0Starts
    <3>7. phase' = "states"
      BY <2>5 DEF Proceed
    <3> QED BY <2>1, <3>6, <3>7 DEF LR0OK, Merged
  <2> QED BY <2>3, <2>4, <2>5
<1>4. CASE NextState
  <2>1. phase = "states" /\ analysis' = analysis /\ automaton' = automaton /\ phase' \in {"states", "merge"}
    BY <1>4 DEF NextState, Proceed
  <2> QED BY <2>1 DEF LR0OK, Merged
<1>5. CASE GoTo
  <2> DEFINE kernel == Kernel(A, automaton.states[expanded], Head(awaiting))
             found == Look(kernel, ClosureKey(kernel))
             d == AddTransition(automaton, expanded - 1, Head(awaiting), Closure(A, kernel))
  <2>1. /\ phase = "states" /\ analysis' = analysis /\ awaiting # <<>>
        /\ \/ GiveUp(found)
           \/ /\ Remember(ClosureKey(kernel), found)
              /\ automaton' = AddTransition(automaton, expanded - 1, Head(awaiting), DecodeItems(found.entry))
              /\ UNCHANGED phase
    BY <1>5 DEF GoTo
  <2>2. /\ IsSequence(automaton.states) /\ expanded \in DOMAIN automaton.states
        /\ GoodAnalysis(A) /\ 0 \in DOMAIN A.productions /\ AllGood(A, automaton.states)
        /\ Head(awaiting) \in NextSymbols(A, automaton.states[expanded])
    BY <2>1, Expanding
  <2>3. GoodItems(A, kernel)
    <3>1. GoodItems(A, automaton.states[expanded])
      BY <2>2 DEF AllGood
    <3> QED BY <3>1, <2>2, KernelIsGood
  <2>4. CASE GiveUp(found)
    <3>1. phase' = "failed"
      BY <2>4, Zenon DEF GiveUp, Fail
    <3> QED BY <3>1 DEF LR0OK, Merged
  <2>5. CASE /\ Remember(ClosureKey(kernel), found)
             /\ automaton' = AddTransition(automaton, expanded - 1, Head(awaiting), DecodeItems(found.entry))
             /\ UNCHANGED phase
    <3>1. EntriesOK(current) /\ EntriesOK(cached.closures)
      BY DEF Sound, ClosuresOK
    <3>2. DecodeItems(found.entry) = Closure(A, kernel)
      BY <2>2, <2>3, <2>5, <3>1, RememberedIs
    <3>3. automaton' = d /\ phase' = phase
      BY <2>5, <3>2
    <3>4. Filled(A) => AllFull(automaton.states) /\ InLR0(A, automaton)
      BY <2>1 DEF LR0OK
    <3>5. Filled(A) => AllFull(d.states) /\ InLR0(A, d)
      BY <2>2, <3>4, LR0Goes
    <3> HIDE DEF d
    <3> QED BY <2>1, <3>3, <3>5 DEF LR0OK, Merged
  <2> QED BY <2>1, <2>4, <2>5
<1>6. CASE MergeStates
  <2>1. /\ phase = "merge" /\ analysis' = analysis /\ request' = request
        /\ \/ phase' = "failed"
           \/ phase' = "table" /\ automaton' = CollectionOf(automaton, request.family)
    BY <1>6, Zenon DEF MergeStates, Fail, Proceed
  <2>2. /\ GoodAnalysis(A) /\ IsSequence(automaton.states) /\ MovesWithin(automaton) /\ Machine(A, automaton)
        /\ AllGood(A, automaton.states) /\ MovesLead(A, automaton)
    BY <2>1 DEF Sound, Shape, StatesOK, MachineOK, AnalysisOK, TraversalOK, MovesOK, Begun
  <2>3. CASE phase' = "failed"
    BY <2>3 DEF LR0OK, Merged
  <2>4. CASE phase' = "table" /\ automaton' = CollectionOf(automaton, request.family)
    <3> SUFFICES ASSUME Filled(A)
                 PROVE  /\ InLR0(A, automaton') /\ CoresLead(A, automaton')
                        /\ request.family = "LALR" => Len(automaton'.states) = Cardinality(CoresIn(automaton'))
      BY <2>1, <2>4 DEF LR0OK
    <3>1. AllFull(automaton.states) /\ InLR0(A, automaton)
      BY <2>1 DEF LR0OK
    <3>2. CoresLead(A, automaton)
      BY <2>2, <3>1, MovesLeadCores
    <3>3. CASE request.family = "LALR"
      <4> DEFINE m == MergeLR0Cores(automaton)
      <4>1. automaton' = m
        BY <2>4, <3>3 DEF CollectionOf
      <4>2. CoresLead(A, m)
        BY <2>2, <3>2, MergedCoresLead
      <4>3. CoresIn(m) = CoresIn(automaton)
        BY <2>2, MergeIsGood DEF CoresIn
      <4>4. Len(m.states) = Cardinality(CoresIn(m))
        BY <2>2, MergedCount DEF CoresIn
      <4> HIDE DEF m
      <4> QED BY <3>1, <4>1, <4>2, <4>3, <4>4 DEF InLR0
    <3>4. CASE request.family # "LALR"
      <4>1. automaton' = automaton
        BY <2>4, <3>4 DEF CollectionOf
      <4> QED BY <3>1, <3>2, <3>4, <4>1
    <3> QED BY <3>3, <3>4
  <2> QED BY <2>1, <2>3, <2>4
<1>7. CASE Rebuild
  <2>1. phase' = "load"
    BY <1>7 DEF Rebuild
  <2> QED BY <2>1 DEF LR0OK, Merged
<1>8. CASE UNCHANGED vars
  <2>1. UNCHANGED <<request, analysis, automaton, phase>>
    BY <1>8 DEF vars, tablesVars
  <2> QED BY <2>1 DEF LR0OK
<1>9. CASE BuildRow \/ RowsDone \/ Restore \/ ResolveDepth \/ Save
  <2>1. /\ UNCHANGED <<request, analysis, automaton>> /\ phase \in Merged /\ phase' \in Merged
    BY <1>9, LaterPhases
  <2> QED BY <2>1 DEF LR0OK, Merged
<1> QED BY <1>1, <1>2, <1>3, <1>4, <1>5, <1>6, <1>7, <1>8, <1>9, Zenon DEF Next, Step, Done

LEMMA AnalysisIs ==
    ASSUME Sound, CanonicalOK, phase \in Begun \ {"first"}
    PROVE  analysis = AnalysisFor(Source) /\ GoodAnalysis(analysis) /\ Productions = PrepareProductions(Source)
<1>1. /\ analysis = Analysis(PrepareProductions(Source), 1, analysis.first) /\ GoodAnalysis(analysis)
      /\ analysis.first = ComputeFirstK(PrepareProductions(Source), 1)
  BY DEF Sound, AnalysisOK, CanonicalOK
<1>2. Productions = PrepareProductions(Source)
  BY <1>1, AnalysisHas DEF Productions
<1>3. analysis = Analysis(PrepareProductions(Source), 1, ComputeFirstK(PrepareProductions(Source), 1))
  BY <1>1, Zenon
<1> QED BY <1>1, <1>2, <1>3, Zenon DEF AnalysisFor, K

LEMMA ProductiveNow ==
    ASSUME FirstTokensAreThose, Sound, CanonicalOK, MovesOK, phase \in Begun \ {"first"}, Productive
    PROVE  Filled(analysis)
<1>1. request \in Requests /\ ~Malformed(Source)
  BY DEF Sound, Shape, PhasesOK, MovesOK
<1>2. Filled(AnalysisFor(Source))
  BY <1>1, ProductiveIsFilled DEF Productive, Source
<1> QED BY <1>2, AnalysisIs

\* The LR(0) states of the property, as operators of the grammar.
LEMMA LR0StatesAre ==
    /\ \A cores : StatesAfter(cores) = StatesAfterIn(analysis, cores)
    /\ LR0States = LR0In(analysis)
<1>1. \A cores : StatesAfter(cores) = StatesAfterIn(analysis, cores)
  BY Zenon DEF StatesAfter, StatesAfterIn, TargetCores, AfterSymbol, AfterIn, Expansion, ExpansionIn, Opened
<1>2. LR0States = LR0In(analysis)
  BY Zenon DEF LR0States, LR0In, LR0More, StatesAfter, StatesAfterIn, TargetCores, AfterSymbol, AfterIn,
               Expansion, ExpansionIn, Opened
<1> QED BY <1>1, <1>2

LEMMA FilledStatesAre ==
    ASSUME Sound, CanonicalOK, MovesOK, MachineOK, LR0OK, Filled(analysis)
    PROVE  StatesAreTheLR0States
<1> SUFFICES ASSUME phase = "table"
             PROVE  /\ CoresIn(automaton) = LR0States
                    /\ request.family = "LALR" => Len(automaton.states) = Cardinality(LR0States)
                    /\ \A i \in DOMAIN automaton.states :
                          {automaton.states[move.to + 1].cores : move \in {m \in automaton.moves : m.from = i - 1}}
                              = StatesAfter(automaton.states[i].cores)
  BY DEF StatesAreTheLR0States, CoresIn
<1> DEFINE A == analysis
<1>1. phase \in Merged /\ phase \in Begun /\ phase \in Begun \ {"first"}
  BY DEF Merged, Begun
<1>2. GoodAnalysis(A) /\ Reserved(A.productions) /\ A.productions = PrepareProductions(Source)
  BY <1>1, ReservedNow, AnalysisIs DEF Productions
<1>3. IsGrammar(Source) /\ ~Malformed(Source)
  <2>1. request \in Requests
    BY DEF Sound, Shape, PhasesOK
  <2> QED BY <2>1, <1>1, PreparedForRequest DEF MovesOK, Source
<1>4. IsSequence(automaton.states) /\ MovesWithin(automaton) /\ AllGood(A, automaton.states)
  BY <1>1 DEF Sound, Shape, StatesOK, TraversalOK
<1>5. AllMoves(Source, A, automaton)
  BY <1>1 DEF MovesOK
<1>6. /\ CoresLead(A, automaton) /\ InLR0(A, automaton)
      /\ request.family = "LALR" => Len(automaton.states) = Cardinality(CoresIn(automaton))
  BY <1>1 DEF LR0OK
<1>7. CoversLR0(A, automaton)
  BY <1>2, <1>3, <1>4, <1>5, <1>6, CollectionCovers DEF InLR0, CoresIn
<1>8. CoresIn(automaton) = LR0States
  BY <1>7, LR0StatesAre DEF CoversLR0, CoresIn
<1>9. ASSUME NEW i \in DOMAIN automaton.states
      PROVE  {automaton.states[move.to + 1].cores : move \in {m \in automaton.moves : m.from = i - 1}}
                 = StatesAfter(automaton.states[i].cores)
  BY <1>7, LR0StatesAre, Zenon DEF CoversLR0
<1> QED BY <1>6, <1>8, <1>9

LEMMA LR0Init == Init => LR0OK
BY Zenon DEF Init, LR0OK, Merged

Traversing == Incremental /\ MachineOK /\ LR0OK

LEMMA TraversingInvariant ==
    /\ Init => Traversing
    /\ Traversing /\ [Next]_vars => Traversing'
BY IncrementalInit, MachineInit, LR0Init, IncrementalNext, MachineNext, LR0Next DEF Traversing, Incremental

\* Reading lookaheads along, merging and reusing what a snapshot holds never
\* lose a state or add one: for a grammar all of whose rules have a string, the
\* states of every build have the items of the LR(0) states, every one of them
\* and no other, with their transitions, and a LALR build has one state for each.
\* (closure, buildCanonical, mergeLR0Cores.)
THEOREM StatesOfProductiveGrammars ==
    ASSUME FirstTokensAreThose
    PROVE  Spec => [](Productive => StatesAreTheLR0States)
<1>1. Traversing => (Productive => StatesAreTheLR0States)
  <2> SUFFICES ASSUME Traversing, Productive, phase = "table" PROVE StatesAreTheLR0States
    BY DEF StatesAreTheLR0States
  <2>1. phase \in Begun \ {"first"}
    BY DEF Begun
  <2>2. Filled(analysis)
    BY <2>1, ProductiveNow DEF Traversing, Incremental
  <2> QED BY <2>2, FilledStatesAre DEF Traversing, Incremental
<1> QED BY <1>1, TraversingInvariant, PTL DEF Spec
-----------------------------------------------------------------------------
(* A build of a grammar whose rules all have strings does not fail.         *)

\* An entry in which every item has a lookahead, of productions there are.
Usable(ps, entry) ==
    /\ \A c \in entry.cores : \E id \in DOMAIN ps : c[1] = KeyOf(ps, id)
    /\ EmptyLookaheads(entry) = {}

LEMMA DecodableIs ==
    ASSUME NEW entry
    PROVE  Decodable(entry) <=> Usable(Productions, entry)
<1>1. \A key : key \in Keys <=> \E id \in DOMAIN Productions : key = KeyOf(Productions, id)
  BY KeysAreThose DEF Keys
<1> QED BY <1>1 DEF Decodable, Usable

LEMMA FullIsUsable ==
    ASSUME NEW A, GoodAnalysis(A), NEW items, GoodItems(A, items), Full(items)
    PROVE  Usable(A.productions, Enc(A.productions, items))
<1> DEFINE ps == A.productions
           e == Enc(ps, items)
           W == Short(SymbolsOf(ps))
<1>1. GoodProductions(ps) /\ items \in ItemsIn(ps, W)
  BY DEF GoodAnalysis, GoodItems, KernelIn
<1>2. items.cores \subseteq CoresOf(ps)
  BY <1>1 DEF ItemsIn
<1>3. e.cores = {EncCore(ps, c) : c \in items.cores}
  BY EncodedParts
<1> HIDE DEF e, W
<1>4. ASSUME NEW c \in items.cores
      PROVE  /\ \E id \in DOMAIN ps : EncCore(ps, c)[1] = KeyOf(ps, id)
             /\ Lookaheads(e, EncCore(ps, c)) # {}
  <2>1. c \in CoresOf(ps)
    BY <1>2
  <2>2. c[1] \in DOMAIN ps
    BY <2>1 DEF CoresOf
  <2>3. EncCore(ps, c)[1] = KeyOf(ps, c[1])
    BY DEF EncCore
  <2>4. Lookaheads(e, EncCore(ps, c)) = Lookaheads(items, c)
    BY <1>1, <2>1, EncodedLookaheads DEF e
  <2>5. Lookaheads(items, c) # {}
    BY DEF Full
  <2> QED BY <2>2, <2>3, <2>4, <2>5
<1>5. EmptyLookaheads(e) = {}
  BY <1>3, <1>4 DEF EmptyLookaheads
<1>6. \A c \in e.cores : \E id \in DOMAIN ps : c[1] = KeyOf(ps, id)
  BY <1>3, <1>4
<1> QED BY <1>5, <1>6 DEF Usable, e

BuildsOK == phase = "failed" /\ ~Malformed(Source) => ~Filled(AnalysisFor(Source))

LEMMA GivesUp ==
    ASSUME NEW found, GiveUp(found)
    PROVE  /\ phase' = "failed" /\ Unusable(found)
BY Zenon DEF GiveUp, Fail

LEMMA BuildsNext ==
    Sound /\ CanonicalOK /\ MovesOK /\ MachineOK /\ LR0OK /\ BuildsOK /\ [Next]_vars => BuildsOK'
<1> SUFFICES ASSUME Sound, CanonicalOK, MovesOK, MachineOK, LR0OK, BuildsOK, [Next]_vars,
                    phase' = "failed", ~Malformed(Source')
             PROVE  ~Filled(AnalysisFor(Source'))
  BY DEF BuildsOK
<1> DEFINE A == analysis
<1>1. CASE Load
  <2>1. request' = request /\ (phase' = "first" \/ Malformed(Source))
    BY <1>1, Zenon DEF Load, Fail, Proceed
  <2>2. Source' = Source
    BY <2>1 DEF Source
  <2> QED BY <2>1, <2>2
<1>2. CASE FirstRound
  <2>1. phase' \in {"first", "start"}
    BY <1>2 DEF FirstRound, Proceed
  <2> QED BY <2>1
<1>3. CASE FirstState
  <2> DEFINE found == Look(StartKernel(1), ClosureKey(StartKernel(1)))
  <2>1. phase = "start" /\ current = <<>>
    BY <1>3 DEF FirstState, Sound, TraversalOK
  <2>2. GiveUp(found) \/ Proceed("states")
    BY <1>3, Zenon DEF FirstState, K
  <2>3. ~Unusable(found)
    <3>1. DOMAIN current = {}
      BY <2>1
    <3>2. found.from # "traversal"
      BY <3>1 DEF Look
    <3> QED BY <3>2 DEF Unusable
  <2> HIDE DEF found
  <2>4. phase' = "states"
    BY <2>2, <2>3, GivesUp DEF Proceed
  <2> QED BY <2>4
<1>4. CASE NextState
  <2>1. phase' \in {"states", "merge"}
    BY <1>4 DEF NextState, Proceed
  <2> QED BY <2>1
<1>5. CASE GoTo
  <2> DEFINE kernel == Kernel(A, automaton.states[expanded], Head(awaiting))
             key == ClosureKey(kernel)
             found == Look(kernel, key)
  <2>1. phase = "states" /\ request' = request /\ awaiting # <<>> /\ (GiveUp(found) \/ phase' = phase)
    BY <1>5 DEF GoTo
  <2>2. Source' = Source
    BY <2>1 DEF Source
  <2>3. phase \in Begun \ {"first"}
    BY <2>1 DEF Begun
  <2>4. A = AnalysisFor(Source) /\ GoodAnalysis(A)
    BY <2>3, AnalysisIs
  <2> HIDE DEF found
  <2>5. Unusable(found)
    BY <2>1, GivesUp
  <2>6. key \in DOMAIN current /\ found.entry = current[key]
    <3>1. found.from = "traversal"
      BY <2>5 DEF Unusable
    <3> HIDE DEF key, kernel
    <3> QED BY <3>1 DEF found, Look
  <2>7. AllGood(A, automaton.states) /\ Range(current) = EncodedStates
    BY <2>1 DEF Sound, TraversalOK
  <2>8. PICK s \in Range(automaton.states) : current[key] = Enc(A.productions, s)
    BY <2>6, <2>7 DEF EncodedStates, Range
  <2>9. ASSUME Filled(A) PROVE FALSE
    <3>1. AllFull(automaton.states)
      BY <2>1, <2>9 DEF LR0OK
    <3>2. GoodItems(A, s) /\ Full(s)
      BY <3>1, <2>7 DEF AllFull, AllGood, Range
    <3>3. Usable(A.productions, current[key])
      BY <3>2, <2>4, <2>8, FullIsUsable
    <3>4. Decodable(found.entry)
      BY <3>3, <2>6, DecodableIs DEF Productions
    <3> QED BY <3>4, <2>5 DEF Unusable
  <2> QED BY <2>2, <2>4, <2>9
<1>6. CASE MergeStates
  <2>1. /\ phase = "merge" /\ request' = request
        /\ phase' = "table" \/ InconsistentMerge(automaton)
    BY <1>6, Zenon DEF MergeStates, Fail, Proceed
  <2>2. Source' = Source
    BY <2>1 DEF Source
  <2>3. phase \in Begun \ {"first"}
    BY <2>1 DEF Begun
  <2>4. A = AnalysisFor(Source) /\ GoodAnalysis(A)
    BY <2>3, AnalysisIs
  <2>5. /\ IsSequence(automaton.states) /\ MovesWithin(automaton) /\ Machine(A, automaton)
        /\ AllGood(A, automaton.states) /\ MovesLead(A, automaton)
    BY <2>1 DEF Sound, Shape, StatesOK, MachineOK, TraversalOK, MovesOK
  <2>6. ASSUME Filled(A) PROVE FALSE
    <3>1. AllFull(automaton.states)
      BY <2>1, <2>6 DEF LR0OK
    <3>2. CoresLead(A, automaton)
      BY <2>4, <2>5, <2>6, <3>1, MovesLeadCores
    <3>3. ~InconsistentMerge(automaton)
      BY <2>5, <3>2, MergeIsConsistent
    <3> QED BY <2>1, <3>3
  <2> QED BY <2>2, <2>4, <2>6
<1>7. CASE Rebuild
  <2>1. phase' = "load"
    BY <1>7 DEF Rebuild
  <2> QED BY <2>1
<1>8. CASE UNCHANGED vars
  <2>1. phase' = phase /\ request' = request
    BY <1>8 DEF vars
  <2>2. Source' = Source
    BY <2>1 DEF Source
  <2> QED BY <2>1, <2>2 DEF BuildsOK
<1>9. CASE BuildRow \/ RowsDone \/ Restore \/ ResolveDepth \/ Save
  <2>1. phase' \in Merged
    BY <1>9, LaterPhases
  <2> QED BY <2>1 DEF Merged
<1> QED BY <1>1, <1>2, <1>3, <1>4, <1>5, <1>6, <1>7, <1>8, <1>9, Zenon DEF Next, Step, Done

\* A grammar all of whose rules have a string builds, whatever was built before
\* it and however those builds ended: no closure of the traversal is without a
\* lookahead it needs, and no merge finds two targets for one symbol.
\* (prepareProductions, closure, mergeLR0Cores.)
THEOREM ProductiveGrammarsBuild ==
    ASSUME FirstTokensAreThose
    PROVE  Spec => []GoodGrammarsBuild
<1>1. Init => Traversing /\ BuildsOK
  <2>1. Init => BuildsOK
    BY Zenon DEF Init, BuildsOK
  <2> QED BY <2>1, TraversingInvariant
<1>2. Traversing /\ BuildsOK /\ [Next]_vars => (Traversing /\ BuildsOK)'
  BY TraversingInvariant, BuildsNext DEF Traversing, Incremental
<1>3. Traversing /\ BuildsOK => GoodGrammarsBuild
  <2> SUFFICES ASSUME Traversing, BuildsOK, phase = "failed", ~Malformed(Source), Productive PROVE FALSE
    BY DEF GoodGrammarsBuild
  <2>1. request \in Requests
    BY DEF Traversing, Incremental, Sound, Shape, PhasesOK
  <2>2. Filled(AnalysisFor(Source))
    BY <2>1, ProductiveIsFilled DEF Productive, Source
  <2> QED BY <2>2 DEF BuildsOK
<1> QED BY <1>1, <1>2, <1>3, PTL DEF Spec
-----------------------------------------------------------------------------
(* What a snapshot holds is enough to build its grammar again from it.      *)

\* The closures of these states are there, and of whatever they lead to.
CoversWith(A, S, closures) ==
    /\ Closure(A, StartKernel(1)) \in S /\ KeyIn(A, StartKernel(1)) \in DOMAIN closures
    /\ \A items \in S : \A s \in NextSymbols(A, items) :
          /\ KeyIn(A, Kernel(A, items, s)) \in DOMAIN closures
          /\ Closure(A, Kernel(A, items, s)) \in S

AllUsable(ps, closures) == \A key \in DOMAIN closures : Usable(ps, closures[key])

CoversClosures(A, closures) == (\E S : CoversWith(A, S, closures)) /\ AllUsable(A.productions, closures)

CoversRows(A, c, rows, n) == \A i \in 1..n : RowKeyIn(A, c, i - 1) \in DOMAIN rows

\* A snapshot of a grammar whose rules all begin with something has all that a
\* build of it asks for.
Serves(snap) ==
    LET g == Grammars[snap.of]
        A == AnalysisFor(g)
        c == StatesFor(g, snap.kind)
    IN  snap.kind # "none" /\ Filled(A) =>
            CoversClosures(A, snap.closures) /\ CoversRows(A, c, snap.rows, Len(c.states))

\* The traversal remembers the closure of the first kernel and that of every
\* transition.
FoundKeys(A, c, closures) ==
    /\ KeyIn(A, StartKernel(1)) \in DOMAIN closures /\ Closure(A, StartKernel(1)) \in Range(c.states)
    /\ \A m \in c.moves : KeyIn(A, Kernel(A, c.states[m.from + 1], m.symbol)) \in DOMAIN closures

LEMMA KeysStart ==
    ASSUME NEW A, NEW c, c = [states |-> <<Closure(A, StartKernel(1))>>, moves |-> {}],
           NEW closures, KeyIn(A, StartKernel(1)) \in DOMAIN closures
    PROVE  FoundKeys(A, c, closures)
<1> DEFINE items == Closure(A, StartKernel(1))
<1> HIDE DEF items
<1>1. c.states = <<items>> /\ c.moves = {}
  BY DEF items
<1>2. DOMAIN c.states = {1} /\ c.states[1] = items
  BY <1>1
<1>3. items \in Range(c.states)
  BY <1>2 DEF Range
<1> QED BY <1>1, <1>3 DEF FoundKeys, items

LEMMA KeysAdded ==
    ASSUME NEW A, NEW c, IsSequence(c.states), MovesWithin(c), NEW closures, FoundKeys(A, c, closures),
           NEW n, n \in DOMAIN c.states, NEW symbol, NEW items,
           NEW d, d = AddTransition(c, n - 1, symbol, items),
           NEW more, DOMAIN more = DOMAIN closures \cup {KeyIn(A, Kernel(A, c.states[n], symbol))}
    PROVE  FoundKeys(A, d, more)
<1>1. Moved(d, c, n - 1, symbol, items)
  BY TransitionIs
<1>2. Range(d.states) = Range(c.states) \cup {items} /\ \A i \in DOMAIN c.states : d.states[i] = c.states[i]
  BY <1>1 DEF Moved
<1>3. PICK to : d.moves = c.moves \cup {[from |-> n - 1, symbol |-> symbol, to |-> to - 1]}
  BY <1>1 DEF Moved
<1>4. n \in Int
  <2>1. PICK S : c.states \in Seq(S)
    BY DEF IsSequence
  <2> QED BY <2>1
<1>5. ASSUME NEW m \in d.moves
      PROVE  KeyIn(A, Kernel(A, d.states[m.from + 1], m.symbol)) \in DOMAIN more
  <2>1. CASE m \in c.moves
    <3>1. m.from + 1 \in DOMAIN c.states
      BY <2>1, EndsOfMoves
    <3>2. d.states[m.from + 1] = c.states[m.from + 1]
      BY <1>2, <3>1
    <3>3. KeyIn(A, Kernel(A, c.states[m.from + 1], m.symbol)) \in DOMAIN closures
      BY <2>1 DEF FoundKeys
    <3> QED BY <3>2, <3>3
  <2>2. CASE m = [from |-> n - 1, symbol |-> symbol, to |-> to - 1]
    <3>1. m.from + 1 = n /\ m.symbol = symbol
      BY <1>4, <2>2
    <3>2. d.states[m.from + 1] = c.states[n]
      BY <1>2, <3>1
    <3> QED BY <3>1, <3>2
  <2> QED BY <1>3, <2>1, <2>2
<1> QED BY <1>2, <1>5 DEF FoundKeys

\* When every state has been expanded, its states are covered.
LEMMA KeysCover ==
    ASSUME NEW g, IsGrammar(g), ~Malformed(g), NEW A, GoodAnalysis(A), A.productions = PrepareProductions(g),
           Reserved(A.productions), NEW c, IsSequence(c.states), MovesWithin(c), AllGood(A, c.states),
           AllMoves(g, A, c), MovesLead(A, c), NEW closures, FoundKeys(A, c, closures)
    PROVE  CoversWith(A, Range(c.states), closures)
<1>1. ASSUME NEW items \in Range(c.states), NEW s \in NextSymbols(A, items)
      PROVE  /\ KeyIn(A, Kernel(A, items, s)) \in DOMAIN closures
             /\ Closure(A, Kernel(A, items, s)) \in Range(c.states)
  <2>1. PICK i \in DOMAIN c.states : items = c.states[i]
    BY DEF Range
  <2>2. items.cores \subseteq CoresOf(A.productions)
    BY <2>1 DEF AllGood, GoodItems, KernelIn, ItemsIn
  <2>3. s \in Range(Vocabulary(g))
    BY <2>2, AllAreNamed
  <2>4. HasMove(c, i, s)
    BY <2>1, <2>3 DEF AllMoves
  <2>5. PICK m \in c.moves : m.from = i - 1 /\ m.symbol = s
    BY <2>4 DEF HasMove
  <2>6. i \in Int
    <3>1. PICK S : c.states \in Seq(S)
      BY DEF IsSequence
    <3> QED BY <3>1
  <2>7. m.from + 1 = i
    BY <2>5, <2>6
  <2>8. c.states[m.to + 1] = Closure(A, Kernel(A, items, s))
    BY <2>1, <2>5, <2>7 DEF MovesLead
  <2>9. m.to + 1 \in DOMAIN c.states
    BY EndsOfMoves
  <2>10. KeyIn(A, Kernel(A, items, s)) \in DOMAIN closures
    BY <2>1, <2>5, <2>7 DEF FoundKeys
  <2> QED BY <2>8, <2>9, <2>10 DEF Range
<1> QED BY <1>1 DEF CoversWith, FoundKeys

LEMMA RememberedKeys ==
    ASSUME NEW key, NEW found, Remember(key, found)
    PROVE  /\ DOMAIN current' = DOMAIN current \cup {key}
           /\ built \in [closures : Nat, rows : Nat] /\ found.from # "computed" => built' = built
<1>1. current' = Stored(current, key, found.entry)
  BY Zenon DEF Remember
<1>2. DOMAIN current' = DOMAIN current \cup {key}
  BY <1>1, StoredIs DEF Extends
<1>3. ASSUME built \in [closures : Nat, rows : Nat], found.from # "computed" PROVE built' = built
  <2>1. built' = [built EXCEPT !.closures = @ + 0]
    BY <1>3 DEF Remember
  <2>2. built.closures \in Nat
    BY <1>3
  <2>3. built.closures + 0 = built.closures
    BY <2>2
  <2> QED BY <1>3, <2>1, <2>3
<1> QED BY <1>2, <1>3

KeptOK ==
    /\ phase \in {"states", "merge"} => FoundKeys(analysis, automaton, current)
    /\ phase \in Merged /\ Filled(analysis) => CoversClosures(analysis, current)
    /\ phase \in Merged => CoversRows(analysis, automaton, currentRows, Len(table))

LEMMA KeptTraversing ==
    ASSUME Sound, CanonicalOK, MovesOK, MachineOK, KeptOK, FirstState \/ GoTo
    PROVE  KeptOK'
<1> DEFINE A == analysis
<1>1. CASE FirstState
  <2> DEFINE found == Look(StartKernel(1), ClosureKey(StartKernel(1)))
  <2>1. phase = "start" /\ analysis' = analysis
    BY <1>1 DEF FirstState
  <2>2. GoodAnalysis(A) /\ Reserved(A.productions)
    BY <2>1, ReservedNow DEF Begun
  <2>3. GiveUp(found) \/ (/\ Remember(ClosureKey(StartKernel(1)), found)
                          /\ automaton' = [states |-> <<DecodeItems(found.entry)>>, moves |-> {}]
                          /\ Proceed("states"))
    BY <1>1, Zenon DEF FirstState, K
  <2>4. CASE GiveUp(found)
    <3> HIDE DEF found
    <3>1. phase' = "failed"
      BY <2>4, GivesUp
    <3> QED BY <3>1 DEF KeptOK, Merged
  <2>5. CASE /\ Remember(ClosureKey(StartKernel(1)), found)
             /\ automaton' = [states |-> <<DecodeItems(found.entry)>>, moves |-> {}]
             /\ Proceed("states")
    <3>1. EntriesOK(current) /\ EntriesOK(cached.closures)
      BY DEF Sound, ClosuresOK
    <3>2. 0 \in DOMAIN A.productions
      BY <2>2 DEF Reserved, StartsWell
    <3>3. GoodItems(A, StartKernel(1))
      BY <2>2, <3>2, StartIsGood
    <3>4. DecodeItems(found.entry) = Closure(A, StartKernel(1))
      BY <2>2, <2>5, <3>1, <3>3, RememberedIs
    <3>5. automaton' = [states |-> <<Closure(A, StartKernel(1))>>, moves |-> {}]
      BY <2>5, <3>4
    <3>6. ClosureKey(StartKernel(1)) \in DOMAIN current'
      <4>1. Remember(ClosureKey(StartKernel(1)), found)
        BY <2>5
      <4> HIDE DEF found
      <4> QED BY <4>1, RememberedKeys
    <3>7. FoundKeys(A, automaton', current')
      BY <3>5, <3>6, ClosureKeyIs, KeysStart
    <3>8. phase' = "states"
      BY <2>5 DEF Proceed
    <3> QED BY <2>1, <3>7, <3>8 DEF KeptOK, Merged
  <2> QED BY <2>3, <2>4, <2>5
<1>2. CASE GoTo
  <2> DEFINE kernel == Kernel(A, automaton.states[expanded], Head(awaiting))
             found == Look(kernel, ClosureKey(kernel))
             items == DecodeItems(found.entry)
             d == AddTransition(automaton, expanded - 1, Head(awaiting), items)
  <2>1. /\ phase = "states" /\ analysis' = analysis /\ awaiting # <<>>
        /\ \/ GiveUp(found)
           \/ /\ Remember(ClosureKey(kernel), found)
              /\ automaton' = d
              /\ UNCHANGED phase
    BY <1>2 DEF GoTo
  <2>2. IsSequence(automaton.states) /\ expanded \in DOMAIN automaton.states
    BY <2>1, Expanding
  <2>3. MovesWithin(automaton) /\ FoundKeys(A, automaton, current)
    BY <2>1 DEF Sound, Shape, StatesOK, KeptOK
  <2>4. CASE GiveUp(found)
    <3> HIDE DEF found
    <3>1. phase' = "failed"
      BY <2>4, GivesUp
    <3> QED BY <3>1 DEF KeptOK, Merged
  <2>5. CASE Remember(ClosureKey(kernel), found) /\ automaton' = d /\ UNCHANGED phase
    <3>1. DOMAIN current' = DOMAIN current \cup {KeyIn(A, kernel)}
      <4>1. Remember(ClosureKey(kernel), found)
        BY <2>5
      <4> HIDE DEF kernel, found
      <4>2. DOMAIN current' = DOMAIN current \cup {ClosureKey(kernel)}
        BY <4>1, RememberedKeys
      <4> QED BY <4>2, ClosureKeyIs
    <3> HIDE DEF items
    <3>2. FoundKeys(A, d, current')
      BY <2>2, <2>3, <3>1, KeysAdded
    <3> HIDE DEF d
    <3> QED BY <2>1, <2>5, <3>2 DEF KeptOK, Merged
  <2> QED BY <2>1, <2>4, <2>5
<1> QED BY <1>1, <1>2

LEMMA KeptMerge ==
    ASSUME Sound, CanonicalOK, MovesOK, LR0OK, KeptOK, MergeStates
    PROVE  KeptOK'
<1> DEFINE A == analysis
<1>1. /\ phase = "merge" /\ analysis' = analysis /\ phase' \in {"failed", "table"}
      /\ UNCHANGED <<current, table, currentRows>>
  BY Zenon DEF MergeStates, Fail, Proceed
<1>2. phase \in Begun \ {"first"}
  BY <1>1 DEF Begun
<1>3. GoodAnalysis(A) /\ Reserved(A.productions) /\ A.productions = PrepareProductions(Source)
  BY <1>2, ReservedNow, AnalysisIs DEF Productions
<1>4. IsGrammar(Source) /\ ~Malformed(Source)
  <2>1. request \in Requests
    BY DEF Sound, Shape, PhasesOK
  <2> QED BY <2>1, <1>2, PreparedForRequest DEF MovesOK, Source
<1>5. /\ IsSequence(automaton.states) /\ MovesWithin(automaton) /\ AllGood(A, automaton.states)
      /\ Range(current) = EncodedStates /\ Len(table) = 0
  <2>1. table = <<>>
    BY <1>1 DEF Sound, Shape, TableOK
  <2> QED BY <1>1, <2>1 DEF Sound, Shape, StatesOK, TraversalOK
<1>6. AllMoves(Source, A, automaton) /\ MovesLead(A, automaton) /\ FoundKeys(A, automaton, current)
  BY <1>1 DEF MovesOK, KeptOK
<1>7. CoversWith(A, Range(automaton.states), current)
  BY <1>3, <1>4, <1>5, <1>6, KeysCover
<1>8. ASSUME Filled(A) PROVE AllUsable(A.productions, current)
  <2>1. AllFull(automaton.states)
    BY <1>1, <1>8 DEF LR0OK
  <2>2. ASSUME NEW key \in DOMAIN current PROVE Usable(A.productions, current[key])
    <3>1. PICK s \in Range(automaton.states) : current[key] = Enc(A.productions, s)
      BY <1>5 DEF EncodedStates, Range
    <3>2. GoodItems(A, s) /\ Full(s)
      BY <1>5, <2>1 DEF AllFull, AllGood, Range
    <3> QED BY <1>3, <3>1, <3>2, FullIsUsable
  <2> QED BY <2>2 DEF AllUsable
<1>9. Filled(A) => CoversClosures(A, current)
  BY <1>7, <1>8 DEF CoversClosures
<1>10. \A c, rows : CoversRows(A, c, rows, 0)
  BY DEF CoversRows
<1> QED BY <1>1, <1>5, <1>9, <1>10 DEF KeptOK, Merged

LEMMA KeptBuildRow ==
    ASSUME Sound, KeptOK, BuildRow
    PROVE  KeptOK'
<1>1. /\ phase = "table" /\ UNCHANGED <<analysis, automaton, current, phase>>
      /\ \E value : currentRows' = Stored(currentRows, RowKey(Len(table)), value)
      /\ \E row : table' = Append(table, row)
  BY Zenon DEF BuildRow
<1>2. PICK T : table \in Seq(T)
  BY DEF Sound, Shape, TableOK, IsSequence
<1>3. Len(table') = Len(table) + 1 /\ Len(table) \in Nat
  BY <1>1, <1>2
<1>4. DOMAIN currentRows' = DOMAIN currentRows \cup {RowKeyIn(analysis, automaton, Len(table))}
  <2>1. PICK value : currentRows' = Stored(currentRows, RowKey(Len(table)), value)
    BY <1>1
  <2>2. Extends(currentRows', currentRows, RowKey(Len(table)), value)
    BY <2>1, StoredIs
  <2>3. RowKey(Len(table)) = RowKeyIn(analysis, automaton, Len(table))
    BY RowsAreCoded
  <2> QED BY <2>2, <2>3 DEF Extends
<1>5. CoversRows(analysis, automaton, currentRows, Len(table))
  BY <1>1 DEF KeptOK, Merged
<1>6. ASSUME NEW i \in 1..Len(table') PROVE RowKeyIn(analysis, automaton, i - 1) \in DOMAIN currentRows'
  <2>1. CASE i \in 1..Len(table)
    BY <1>4, <1>5, <2>1 DEF CoversRows
  <2>2. CASE i = Len(table) + 1
    <3>1. i - 1 = Len(table)
      BY <1>3, <2>2
    <3> QED BY <1>4, <3>1
  <2> QED BY <1>3, <2>1, <2>2
<1>7. CoversRows(analysis, automaton, currentRows', Len(table'))
  BY <1>6 DEF CoversRows
<1> QED BY <1>1, <1>7 DEF KeptOK, Merged

LEMMA KeptNext ==
    Sound /\ CanonicalOK /\ MovesOK /\ MachineOK /\ LR0OK /\ KeptOK /\ [Next]_vars => KeptOK'
<1> SUFFICES ASSUME Sound, CanonicalOK, MovesOK, MachineOK, LR0OK, KeptOK, [Next]_vars PROVE KeptOK'
  OBVIOUS
<1>1. CASE Load
  <2>1. phase' \in {"first", "failed"}
    BY <1>1, Zenon DEF Load, Fail, Proceed
  <2> QED BY <2>1 DEF KeptOK, Merged
<1>2. CASE FirstRound
  <2>1. phase' \in {"first", "start"}
    BY <1>2 DEF FirstRound, Proceed
  <2> QED BY <2>1 DEF KeptOK, Merged
<1>3. CASE FirstState \/ GoTo
  BY <1>3, KeptTraversing
<1>4. CASE NextState
  <2>1. phase = "states" /\ UNCHANGED <<analysis, automaton, current>> /\ phase' \in {"states", "merge"}
    BY <1>4 DEF NextState, Proceed
  <2> QED BY <2>1 DEF KeptOK, Merged
<1>5. CASE MergeStates
  BY <1>5, KeptMerge
<1>6. CASE BuildRow
  BY <1>6, KeptBuildRow
<1>7. CASE Rebuild
  <2>1. phase' = "load"
    BY <1>7 DEF Rebuild
  <2> QED BY <2>1 DEF KeptOK, Merged
<1>8. CASE UNCHANGED vars
  <2>1. UNCHANGED <<analysis, automaton, current, phase, table, currentRows>>
    BY <1>8 DEF vars, tablesVars
  <2> QED BY <2>1 DEF KeptOK
<1>9. CASE RowsDone \/ Restore \/ ResolveDepth \/ Save
  <2>1. UNCHANGED <<analysis, automaton>> /\ phase \in Merged /\ phase' \in Merged
    BY <1>9, LaterPhases
  <2>2. UNCHANGED <<current, table, currentRows>>
    BY <1>9 DEF RowsDone, Restore, ResolveDepth, Save, tablesVars
  <2> QED BY <2>1, <2>2 DEF KeptOK, Merged
<1> QED BY <1>1, <1>2, <1>3, <1>4, <1>5, <1>6, <1>7, <1>8, <1>9, Zenon DEF Next, Step, Done

LEMMA NothingServes == Serves(NoCache)
BY DEF Serves, NoCache

\* What a build saves serves the next build of its grammar.
LEMMA ServesSave ==
    ASSUME Sound, CanonicalOK, MovesOK, RowsFresh, KeptOK, Save
    PROVE  Serves(snapshot')
<1>1. phase = "save" /\ snapshot' = SnapshotWith(current, currentRows)
  BY DEF Save, SaveCache
<1>2. /\ snapshot'.kind = request.family /\ snapshot'.of = request.grammar
      /\ snapshot'.closures = current /\ snapshot'.rows = currentRows
  BY <1>1 DEF SnapshotWith
<1>3. phase \in Merged \ {"table"}
  BY <1>1 DEF Merged
<1>4. analysis = AnalysisFor(Source) /\ automaton = StatesFor(Source, request.family)
  BY <1>3, BuildIs
<1>5. Len(table) = Len(automaton.states)
  BY <1>3 DEF Sound, RowsOK
<1>6. /\ Filled(analysis) => CoversClosures(analysis, current)
      /\ CoversRows(analysis, automaton, currentRows, Len(automaton.states))
  BY <1>3, <1>5 DEF KeptOK
<1> QED BY <1>2, <1>4, <1>6 DEF Serves, Source

LEMMA ServesNext ==
    ASSUME Sound, CanonicalOK, MovesOK, RowsFresh, KeptOK, Serves(snapshot), Serves(cached), [Next]_vars
    PROVE  Serves(snapshot') /\ Serves(cached')
<1>1. CASE Load
  <2>1. snapshot' = snapshot /\ (cached' = snapshot \/ cached' = NoCache)
    BY <1>1 DEF Load
  <2> QED BY <2>1, NothingServes
<1>2. CASE Save
  <2>1. cached' = cached
    BY <1>2 DEF Save
  <2> QED BY <1>2, <2>1, ServesSave
<1>3. CASE FirstRound \/ FirstState \/ NextState \/ GoTo \/ MergeStates
  <2>1. UNCHANGED <<snapshot, cached>>
    BY <1>3 DEF FirstRound, FirstState, NextState, GoTo, MergeStates
  <2> QED BY <2>1
<1>4. CASE BuildRow \/ RowsDone \/ Restore \/ ResolveDepth \/ Rebuild
  <2>1. UNCHANGED <<snapshot, cached>>
    BY <1>4 DEF BuildRow, RowsDone, Restore, ResolveDepth, Rebuild
  <2> QED BY <2>1
<1>5. CASE UNCHANGED vars
  <2>1. UNCHANGED <<snapshot, cached>>
    BY <1>5 DEF vars
  <2> QED BY <2>1
<1> QED BY <1>1, <1>2, <1>3, <1>4, <1>5, Zenon DEF Next, Step, Done
-----------------------------------------------------------------------------
(* Building again what the snapshot was made of.                            *)

\* A proposal that decodeRow takes back.
UsableProposal(A, c, state, r) ==
    LET ps == A.productions
    IN  /\ \E id \in DOMAIN ps : r.item[1] = KeyOf(ps, id)
        /\ <<IdOf(ps, r.item[1]), r.item[2]>> \in c.states[state + 1].cores
        /\ r.action.type = "shift" => \E i \in DOMAIN c.states : r.action.target = Enc(ps, c.states[i])
        /\ r.action.type = "reduce" => \E id \in DOMAIN ps : r.action.target = KeyOf(ps, id)

LEMMA RowDecodableIs ==
    ASSUME IsSequence(automaton.states), NEW state, NEW entry,
           \A r \in entry : UsableProposal(analysis, automaton, state, r)
    PROVE  RowDecodable(state, entry)
<1>1. \A key : key \in Keys <=> \E id \in DOMAIN Productions : key = KeyOf(Productions, id)
  BY KeysAreThose DEF Keys
<1>2. \A key : ProductionId(key) = IdOf(Productions, key)
  BY KeysAreThose
<1>3. ASSUME NEW target, NEW i \in DOMAIN automaton.states, target = Enc(Productions, automaton.states[i])
      PROVE  target \in StateKeys
  <2>1. PICK S : automaton.states \in Seq(S)
    BY DEF IsSequence
  <2>2. i \in Int /\ (i - 1) + 1 = i
    BY <2>1
  <2>3. StateKey(i - 1) = target
    BY <1>3, <2>2, StateKeyIs DEF Productions
  <2> QED BY <2>3 DEF StateKeys
<1>4. ASSUME NEW r \in entry
      PROVE  /\ r.item[1] \in Keys
             /\ <<ProductionId(r.item[1]), r.item[2]>> \in automaton.states[state + 1].cores
             /\ r.action.type = "shift" => r.action.target \in StateKeys
             /\ r.action.type = "reduce" => r.action.target \in Keys
  BY <1>1, <1>2, <1>3 DEF UsableProposal, Productions
<1> QED BY <1>4, Zenon DEF RowDecodable

LEMMA ProposalIsUsable ==
    ASSUME NEW A, NEW c, NEW state, RowReady(A, c, state), MovesWithin(c), IsSequence(c.states),
           NEW p \in Proposals(A, c, state)
    PROVE  UsableProposal(A, c, state, EncProposal(A, c, p))
<1> DEFINE items == c.states[state + 1]
           ps == A.productions
           T(action) == /\ action.type = "shift" =>
                              \E i \in DOMAIN c.states : EncAction(A, c, action).target = Enc(ps, c.states[i])
                        /\ action.type = "reduce" =>
                              \E id \in DOMAIN ps : EncAction(A, c, action).target = KeyOf(ps, id)
<1>1. GoodProductions(ps)
  BY DEF RowReady, StartsWell
<1>2. items.cores \subseteq CoresOf(ps)
  <2>1. items \in ItemsIn(ps, Short(SymbolsOf(ps)))
    BY DEF RowReady, GoodItems, KernelIn
  <2> QED BY <2>1 DEF ItemsIn
<1>3. ASSUME NEW w, NEW core \in items.cores, NEW action, p = [window |-> w, item |-> core, action |-> action],
             T(action)
      PROVE  UsableProposal(A, c, state, EncProposal(A, c, p))
  <2>1. p.item = core /\ p.action = action
    BY <1>3
  <2> DEFINE r == EncProposal(A, c, p)
  <2>2. r.item = EncCore(ps, core) /\ r.action = EncAction(A, c, action)
    BY <2>1 DEF EncProposal
  <2>3. r.action.type = action.type
    BY <2>2 DEF EncAction
  <2>4. <<IdOf(ps, EncCore(ps, core)[1]), EncCore(ps, core)[2]>> = core
    BY <1>1, <1>2, CoreIsBack
  <2>5. EncCore(ps, core)[1] = KeyOf(ps, core[1]) /\ core[1] \in DOMAIN ps
    BY <1>2 DEF EncCore, CoresOf
  <2> HIDE DEF r
  <2>6. /\ \E id \in DOMAIN ps : r.item[1] = KeyOf(ps, id)
        /\ <<IdOf(ps, r.item[1]), r.item[2]>> \in items.cores
    BY <2>2, <2>4, <2>5
  <2>7. /\ r.action.type = "shift" => \E i \in DOMAIN c.states : r.action.target = Enc(ps, c.states[i])
        /\ r.action.type = "reduce" => \E id \in DOMAIN ps : r.action.target = KeyOf(ps, id)
    BY <1>3, <2>2, <2>3
  <2>8. UsableProposal(A, c, state, r)
    BY <2>6, <2>7 DEF UsableProposal
  <2> QED BY <2>8 DEF r
<1>4. AShift(A, c, state, p) \/ AReduction(A, c, state, p) \/ AnAccept(A, c, state, p)
  BY ProposalsAre
<1>5. CASE AShift(A, c, state, p)
  <2>0. PICK core \in items.cores : \E w :
            OnToken(A, core) /\ p = [window |-> w, item |-> core, action |-> Shift(GotoOf(c, state, NextSymbol(A, core)))]
    BY <1>5, Zenon DEF AShift
  <2>1. PICK w :
            OnToken(A, core) /\ p = [window |-> w, item |-> core, action |-> Shift(GotoOf(c, state, NextSymbol(A, core)))]
    BY <2>0
  <2> DEFINE s == NextSymbol(A, core)
             n == GotoOf(c, state, s)
  <2>2. HasMove(c, state + 1, s) /\ state \in Int
    <3>1. s \in NextSymbols(A, items)
      BY <2>1 DEF NextSymbols, OnToken
    <3> QED BY <2>1, <3>1 DEF RowReady, OnToken
  <2>3. PICK m \in c.moves : n = m.to
    <3>1. ASSUME NEW x, HasMove(c, state + 1, x), state \in Int
          PROVE  \E m \in c.moves : m.from = state /\ m.symbol = x /\ GotoOf(c, state, x) = m.to
      BY <3>1, GotoIs
    <3> HIDE DEF s
    <3>2. \E m \in c.moves : GotoOf(c, state, s) = m.to
      BY <2>2, <3>1
    <3> QED BY <3>2
  <2>4. n + 1 \in DOMAIN c.states
    BY <2>3, EndsOfMoves
  <2> HIDE DEF n
  <2>5. T(Shift(n))
    <3>1. Shift(n).type = "shift" /\ Shift(n).state = n
      BY DEF Shift
    <3>2. EncAction(A, c, Shift(n)).target = Enc(ps, c.states[n + 1])
      BY <3>1 DEF EncAction
    <3> QED BY <2>4, <3>1, <3>2
  <2>6. p = [window |-> w, item |-> core, action |-> Shift(n)]
    BY <2>1 DEF n
  <2> HIDE DEF T
  <2> QED BY <1>3, <2>5, <2>6
<1>6. CASE AReduction(A, c, state, p)
  <2>1. PICK x \in items.windows :
            x[1] \in items.cores /\ p = [window |-> x[2], item |-> x[1], action |-> Reduce(x[1][1])]
    BY <1>6, Zenon DEF AReduction
  <2> DEFINE id == x[1][1]
  <2>2. id \in DOMAIN ps /\ id \in Int
    <3>1. id \in DOMAIN ps
      BY <1>2, <2>1 DEF CoresOf
    <3> QED BY <1>1, <3>1 DEF GoodProductions
  <2> HIDE DEF id
  <2>3. T(Reduce(id))
    <3>1. Reduce(id).type = "reduce" /\ Reduce(id).state + 1 = id
      BY <2>2 DEF Reduce
    <3>2. EncAction(A, c, Reduce(id)).target = KeyOf(ps, id)
      BY <3>1 DEF EncAction
    <3> QED BY <2>2, <3>1, <3>2
  <2>4. p = [window |-> x[2], item |-> x[1], action |-> Reduce(id)]
    BY <2>1 DEF id
  <2> HIDE DEF T
  <2> QED BY <1>3, <2>1, <2>3, <2>4
<1>7. CASE AnAccept(A, c, state, p)
  <2>1. PICK x \in items.windows :
            x[1] \in items.cores /\ p = [window |-> x[2], item |-> x[1], action |-> AcceptAction]
    BY <1>7, Zenon DEF AnAccept
  <2>2. T(AcceptAction)
    <3>1. AcceptAction.type = "accept"
      BY DEF AcceptAction
    <3> QED BY <3>1
  <2> HIDE DEF T
  <2> QED BY <1>3, <2>1, <2>2
<1> QED BY <1>4, <1>5, <1>6, <1>7

\* A row of the snapshot with the key of a state is one that decodeRow takes.
LEMMA CachedRowIsUsable ==
    ASSUME Sound, MovesOK, RowsFresh, phase \in Merged, NEW state, state + 1 \in DOMAIN automaton.states, state \in Int,
           RowKey(state) \in DOMAIN cached.rows
    PROVE  RowDecodable(state, cached.rows[RowKey(state)])
<1> DEFINE key == RowKey(state)
<1>1. /\ RowReady(analysis, automaton, state) /\ MovesWithin(automaton) /\ IsSequence(automaton.states)
  BY RowsAreReady
<1>2. key = RowKeyIn(analysis, automaton, state)
  BY RowsAreCoded
<1>3. cached.rows[key] = KeyRow(key)
  BY DEF RowsFresh, RowEntriesOK
<1>4. KeyRow(key) = {EncProposal(analysis, automaton, p) : p \in Proposals(analysis, automaton, state)}
  BY <1>1, <1>2, RowIsOfKey
<1>5. \A r \in cached.rows[key] : UsableProposal(analysis, automaton, state, r)
  <2>1. \A p \in Proposals(analysis, automaton, state) :
            UsableProposal(analysis, automaton, state, EncProposal(analysis, automaton, p))
    BY <1>1, ProposalIsUsable
  <2> HIDE DEF key
  <2> QED BY <1>3, <1>4, <2>1
<1> HIDE DEF key
<1>6. RowDecodable(state, cached.rows[key])
  BY <1>1, <1>5, RowDecodableIs
<1> QED BY <1>6 DEF key

Reusing == cached.kind # "none" /\ cached.of = request.grammar /\ Filled(AnalysisFor(Source))

\* The states found are among those the snapshot covers.
ReusedOK ==
    phase \in Begun /\ Reusing =>
        /\ built = [closures |-> 0, rows |-> 0]
        /\ phase = "states" =>
              \E S : CoversWith(analysis, S, cached.closures) /\ Range(automaton.states) \subseteq S

\* What a build is served with when it reuses.
LEMMA ServedNow ==
    ASSUME Sound, CanonicalOK, Serves(cached), phase \in Begun \ {"first"}, Reusing
    PROVE  /\ \E S : CoversWith(analysis, S, cached.closures)
           /\ \A key \in DOMAIN cached.closures : Decodable(cached.closures[key])
           /\ CoversRows(analysis, StatesFor(Source, request.family), cached.rows,
                         Len(StatesFor(Source, request.family).states))
<1>1. analysis = AnalysisFor(Source) /\ Productions = PrepareProductions(Source)
  BY AnalysisIs
<1>2. phase # "load"
  BY DEF Begun
<1>3. cached.kind = request.family
  BY <1>2 DEF Reusing, Sound, Shape, DecisionsOK
<1>4. CoversClosures(analysis, cached.closures)
      /\ CoversRows(analysis, StatesFor(Source, request.family), cached.rows,
                    Len(StatesFor(Source, request.family).states))
  BY <1>1, <1>3 DEF Serves, Reusing, Source
<1>5. \A key \in DOMAIN cached.closures : Usable(Productions, cached.closures[key])
  BY <1>4 DEF CoversClosures, AllUsable, Productions
<1> QED BY <1>4, <1>5, DecodableIs DEF CoversClosures

\* A closure the snapshot has is not worked out again.
LEMMA ReadFromSnapshot ==
    ASSUME Sound, NEW kernel, ClosureKey(kernel) \in DOMAIN cached.closures,
           Decodable(cached.closures[ClosureKey(kernel)]),
           Remember(ClosureKey(kernel), Look(kernel, ClosureKey(kernel)))
    PROVE  built' = built
<1> DEFINE key == ClosureKey(kernel)
           found == Look(kernel, key)
<1>1. built \in [closures : Nat, rows : Nat]
  BY DEF Sound, Shape, CountsOK
<1>2. found.from \in {"traversal", "snapshot"}
  <2> HIDE DEF key
  <2>1. key \in DOMAIN cached.closures /\ Decodable(cached.closures[key])
    BY DEF key
  <2>2. CASE key \in DOMAIN current
    BY <2>2 DEF Look
  <2>3. CASE key \notin DOMAIN current
    BY <2>1, <2>3 DEF Look
  <2> QED BY <2>2, <2>3
<1>3. Remember(key, found)
  OBVIOUS
<1> HIDE DEF key, found
<1> QED BY <1>1, <1>2, <1>3, RememberedKeys

LEMMA ReusedTraversing ==
    ASSUME Sound, CanonicalOK, MovesOK, MachineOK, Serves(cached), ReusedOK, FirstState \/ GoTo
    PROVE  ReusedOK'
<1> DEFINE A == analysis
<1>1. UNCHANGED <<request, cached, analysis>> /\ phase \in {"start", "states"}
  BY Zenon DEF FirstState, GoTo
<1>2. phase \in Begun \ {"first"} /\ (Reusing' <=> Reusing)
  BY <1>1 DEF Begun, Reusing, Source
<1>3. SUFFICES ASSUME Reusing, phase' # "failed"
               PROVE  /\ built' = [closures |-> 0, rows |-> 0]
                      /\ \E S : CoversWith(A, S, cached.closures) /\ Range(automaton'.states) \subseteq S
  BY <1>1, <1>2 DEF ReusedOK, Begun
<1>4. built = [closures |-> 0, rows |-> 0]
  BY <1>2, <1>3 DEF ReusedOK
<1>5. /\ \E S : CoversWith(A, S, cached.closures)
      /\ \A key \in DOMAIN cached.closures : Decodable(cached.closures[key])
  BY <1>2, <1>3, ServedNow
<1>6. GoodAnalysis(A) /\ Reserved(A.productions)
  BY <1>2, ReservedNow
<1>7. EntriesOK(current) /\ EntriesOK(cached.closures)
  BY DEF Sound, ClosuresOK
<1>8. CASE FirstState
  <2> DEFINE found == Look(StartKernel(1), ClosureKey(StartKernel(1)))
  <2>1. GiveUp(found) \/ (/\ Remember(ClosureKey(StartKernel(1)), found)
                          /\ automaton' = [states |-> <<DecodeItems(found.entry)>>, moves |-> {}])
    BY <1>8, Zenon DEF FirstState, K
  <2>2. ~GiveUp(found)
    <3> HIDE DEF found
    <3> QED BY <1>3, GivesUp
  <2>3. Remember(ClosureKey(StartKernel(1)), found)
    BY <2>1, <2>2
  <2>4. 0 \in DOMAIN A.productions
    BY <1>6 DEF Reserved, StartsWell
  <2>5. GoodItems(A, StartKernel(1))
    BY <1>6, <2>4, StartIsGood
  <2>6. DecodeItems(found.entry) = Closure(A, StartKernel(1))
    BY <1>6, <1>7, <2>3, <2>5, RememberedIs
  <2>7. automaton' = [states |-> <<Closure(A, StartKernel(1))>>, moves |-> {}]
    BY <2>1, <2>2, <2>6
  <2>8. PICK S : CoversWith(A, S, cached.closures)
    BY <1>5
  <2>9. Range(automaton'.states) \subseteq S
    <3> DEFINE items == Closure(A, StartKernel(1))
    <3>1. items \in S
      BY <2>8 DEF CoversWith
    <3> HIDE DEF items
    <3>2. automaton'.states = <<items>>
      BY <2>7 DEF items
    <3> QED BY <3>1, <3>2 DEF Range
  <2>10. ClosureKey(StartKernel(1)) \in DOMAIN cached.closures
    BY <2>8, ClosureKeyIs DEF CoversWith
  <2>11. built' = built
    BY <1>5, <2>3, <2>10, ReadFromSnapshot
  <2> QED BY <1>4, <2>8, <2>9, <2>11
<1>9. CASE GoTo
  <2> DEFINE kernel == Kernel(A, automaton.states[expanded], Head(awaiting))
             found == Look(kernel, ClosureKey(kernel))
             d == AddTransition(automaton, expanded - 1, Head(awaiting), Closure(A, kernel))
  <2>1. /\ phase = "states" /\ awaiting # <<>>
        /\ \/ GiveUp(found)
           \/ /\ Remember(ClosureKey(kernel), found)
              /\ automaton' = AddTransition(automaton, expanded - 1, Head(awaiting), DecodeItems(found.entry))
    BY <1>9 DEF GoTo
  <2>2. ~GiveUp(found)
    <3> HIDE DEF found
    <3> QED BY <1>3, GivesUp
  <2>3. /\ IsSequence(automaton.states) /\ expanded \in DOMAIN automaton.states
        /\ AllGood(A, automaton.states)
        /\ Head(awaiting) \in NextSymbols(A, automaton.states[expanded])
    BY <2>1, Expanding
  <2>4. GoodItems(A, kernel)
    <3>1. GoodItems(A, automaton.states[expanded])
      BY <2>3 DEF AllGood
    <3> QED BY <3>1, <1>6, KernelIsGood
  <2>5. Remember(ClosureKey(kernel), found)
    BY <2>1, <2>2
  <2>6. DecodeItems(found.entry) = Closure(A, kernel)
    BY <1>6, <1>7, <2>4, <2>5, RememberedIs
  <2>7. automaton' = d
    BY <2>1, <2>2, <2>6
  <2>8. PICK S : CoversWith(A, S, cached.closures) /\ Range(automaton.states) \subseteq S
    BY <1>2, <1>3, <2>1 DEF ReusedOK
  <2>9. KeyIn(A, kernel) \in DOMAIN cached.closures /\ Closure(A, kernel) \in S
    <3>1. automaton.states[expanded] \in S
      BY <2>3, <2>8 DEF Range
    <3> QED BY <2>3, <2>8, <3>1 DEF CoversWith
  <2>10. Range(d.states) = Range(automaton.states) \cup {Closure(A, kernel)}
    <3>1. Moved(d, automaton, expanded - 1, Head(awaiting), Closure(A, kernel))
      BY <2>3, TransitionIs
    <3> HIDE DEF d, kernel
    <3> QED BY <3>1 DEF Moved
  <2>11. Range(automaton'.states) \subseteq S
    <3> HIDE DEF d, kernel
    <3> QED BY <2>7, <2>8, <2>9, <2>10
  <2>12. ClosureKey(kernel) \in DOMAIN cached.closures
    BY <2>9, ClosureKeyIs
  <2>13. Decodable(cached.closures[ClosureKey(kernel)])
    BY <1>5, <2>12
  <2>14. built' = built
    BY <2>5, <2>12, <2>13, ReadFromSnapshot
  <2> QED BY <1>4, <2>8, <2>11, <2>14
<1> QED BY <1>8, <1>9

LEMMA ReusedBuildRow ==
    ASSUME Sound, CanonicalOK, MovesOK, RowsFresh, Serves(cached), ReusedOK, BuildRow
    PROVE  ReusedOK'
<1> DEFINE key == RowKey(Len(table))
<1>1. /\ phase = "table" /\ phase' = phase /\ UNCHANGED <<request, cached, analysis, automaton>>
      /\ Len(table) < Len(automaton.states)
  BY DEF BuildRow
<1>2. phase \in Begun \ {"first"} /\ phase \in Merged /\ (Reusing' <=> Reusing)
  BY <1>1 DEF Begun, Merged, Reusing, Source
<1>3. SUFFICES ASSUME Reusing PROVE built' = [closures |-> 0, rows |-> 0]
  BY <1>1, <1>2 DEF ReusedOK
<1>4. built = [closures |-> 0, rows |-> 0]
  BY <1>2, <1>3 DEF ReusedOK
<1>5. CoversRows(analysis, automaton, cached.rows, Len(automaton.states))
  <2>1. analysis = AnalysisFor(Source)
    BY <1>2, AnalysisIs
  <2>2. automaton = StatesFor(Source, request.family)
    BY <1>2, <2>1 DEF CanonicalOK, StatesFor
  <2> QED BY <1>2, <1>3, <2>2, ServedNow
<1>6. Len(table) + 1 \in 1..Len(automaton.states) /\ Len(table) \in Int
      /\ Len(table) + 1 \in DOMAIN automaton.states
  <2>1. PICK T : table \in Seq(T)
    BY DEF Sound, Shape, TableOK, IsSequence
  <2>2. PICK S : automaton.states \in Seq(S)
    BY DEF Sound, Shape, StatesOK, IsSequence
  <2> QED BY <1>1, <2>1, <2>2
<1>7. key \in DOMAIN cached.rows
  <2>1. RowKeyIn(analysis, automaton, (Len(table) + 1) - 1) \in DOMAIN cached.rows
    BY <1>5, <1>6 DEF CoversRows
  <2>2. (Len(table) + 1) - 1 = Len(table)
    BY <1>6
  <2>3. key = RowKeyIn(analysis, automaton, Len(table))
    BY RowsAreCoded
  <2> QED BY <2>1, <2>2, <2>3
<1>8. RowDecodable(Len(table), cached.rows[key])
  BY <1>2, <1>6, <1>7, CachedRowIsUsable
<1>9. built' = built
  BY <1>7, <1>8, Zenon DEF BuildRow
<1> QED BY <1>4, <1>9

LEMMA ReusedNext ==
    Sound /\ CanonicalOK /\ MovesOK /\ MachineOK /\ RowsFresh /\ Serves(cached) /\ ReusedOK /\ [Next]_vars
        => ReusedOK'
<1> SUFFICES ASSUME Sound, CanonicalOK, MovesOK, MachineOK, RowsFresh, Serves(cached), ReusedOK, [Next]_vars
             PROVE  ReusedOK'
  OBVIOUS
<1>1. CASE Load
  <2>1. built' = [closures |-> 0, rows |-> 0] /\ phase' \in {"first", "failed"}
    BY <1>1, Zenon DEF Load, Fail, Proceed
  <2> QED BY <2>1 DEF ReusedOK
<1>2. CASE FirstRound \/ NextState
  <2>1. /\ UNCHANGED <<request, cached, built, automaton>>
        /\ \/ phase = "first" /\ phase' \in {"first", "start"}
           \/ phase = "states" /\ phase' \in {"states", "merge"} /\ analysis' = analysis
    BY <1>2 DEF FirstRound, NextState, Proceed, tablesVars
  <2>2. phase \in Begun /\ (Reusing' <=> Reusing)
    BY <2>1 DEF Begun, Reusing, Source
  <2> QED BY <2>1, <2>2 DEF ReusedOK
<1>3. CASE FirstState \/ GoTo
  BY <1>3, ReusedTraversing
<1>4. CASE MergeStates
  <2>1. phase = "merge" /\ UNCHANGED <<request, cached, built>> /\ phase' \in {"failed", "table"}
    BY <1>4, Zenon DEF MergeStates, Fail, Proceed
  <2>2. phase \in Begun /\ (Reusing' <=> Reusing)
    BY <2>1 DEF Begun, Reusing, Source
  <2> QED BY <2>1, <2>2 DEF ReusedOK
<1>5. CASE BuildRow
  BY <1>5, ReusedBuildRow
<1>6. CASE RowsDone \/ Restore \/ ResolveDepth \/ Save
  <2>1. phase \in Merged /\ phase' \in Merged
    BY <1>6, LaterPhases
  <2>2. UNCHANGED <<request, cached, built>>
    BY <1>6 DEF RowsDone, Restore, ResolveDepth, Save
  <2>3. phase \in Begun /\ phase' # "states" /\ (Reusing' <=> Reusing)
    BY <2>1, <2>2 DEF Begun, Merged, Reusing, Source
  <2> QED BY <2>2, <2>3 DEF ReusedOK
<1>7. CASE Rebuild
  <2>1. phase' = "load"
    BY <1>7 DEF Rebuild
  <2> QED BY <2>1 DEF ReusedOK, Begun
<1>8. CASE UNCHANGED vars
  <2>1. UNCHANGED <<request, cached, analysis, automaton, built, phase>>
    BY <1>8 DEF vars, tablesVars
  <2>2. Reusing' <=> Reusing
    BY <2>1 DEF Reusing, Source
  <2> QED BY <2>1, <2>2 DEF ReusedOK
<1> QED BY <1>1, <1>2, <1>3, <1>4, <1>5, <1>6, <1>7, <1>8, Zenon DEF Next, Step, Done

Keeping == Traversing /\ KeptOK /\ Serves(snapshot) /\ Serves(cached) /\ ReusedOK

LEMMA KeepingInit == Init => Keeping
<1> SUFFICES ASSUME Init PROVE Keeping
  OBVIOUS
<1>1. phase = "load" /\ snapshot = NoCache /\ cached = NoCache
  BY Zenon DEF Init
<1>2. KeptOK /\ ReusedOK
  BY <1>1 DEF KeptOK, ReusedOK, Begun, Merged
<1> QED BY <1>1, <1>2, NothingServes, TraversingInvariant DEF Keeping

LEMMA KeepingNext == Keeping /\ [Next]_vars => Keeping'
<1> SUFFICES ASSUME Keeping, [Next]_vars PROVE Keeping'
  OBVIOUS
<1>1. /\ Sound /\ CanonicalOK /\ MovesOK /\ MachineOK /\ RowsFresh /\ LR0OK
      /\ KeptOK /\ Serves(snapshot) /\ Serves(cached) /\ ReusedOK
  BY DEF Keeping, Traversing, Incremental
<1>2. KeptOK' /\ ReusedOK'
  BY <1>1, KeptNext, ReusedNext
<1>3. Serves(snapshot') /\ Serves(cached')
  BY <1>1, ServesNext
<1>4. Traversing'
  BY TraversingInvariant DEF Keeping
<1> QED BY <1>2, <1>3, <1>4 DEF Keeping, Serves

\* Building again what the snapshot was made of works out no closure and no row
\* again, however the builds before it went: every key the build asks for is in
\* the snapshot, the keys name everything they depend on, and what is stored
\* under them decodes.  (loadCache, closure, buildTables, saveCache.)
THEOREM UnchangedBuildsReuse ==
    ASSUME FirstTokensAreThose
    PROVE  Spec => []UnchangedBuildsNothing
<1>1. Keeping => UnchangedBuildsNothing
  <2> SUFFICES ASSUME Keeping, phase = "done", cached.kind # "none", cached.of = request.grammar, Productive
               PROVE  built = [closures |-> 0, rows |-> 0]
    BY DEF UnchangedBuildsNothing
  <2>1. phase \in Begun \ {"first"}
    BY DEF Begun
  <2>2. Filled(analysis) /\ analysis = AnalysisFor(Source)
    BY <2>1, ProductiveNow, AnalysisIs DEF Keeping, Traversing, Incremental
  <2> QED BY <2>1, <2>2 DEF Keeping, ReusedOK, Reusing
<1> QED BY <1>1, KeepingInit, KeepingNext, PTL DEF Spec
=============================================================================
