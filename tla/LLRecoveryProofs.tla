-------------------------- MODULE LLRecoveryProofs --------------------------
(***************************************************************************)
(* Proofs about a generated LL parser, for any parsers that fit            *)
(* GeneratedAssumption, any inputs and any budgets.                        *)
(***************************************************************************)
EXTENDS LLRecovery, WellFoundedInduction, TLAPS

-----------------------------------------------------------------------------
(* Sets of numbers. *)

LEMMA HasLeast ==
    ASSUME NEW S, S \subseteq Nat, S # {}
    PROVE  \E i \in S : \A j \in S : i <= j
<1>1. \E i \in S : \A j \in S : <<j, i>> \notin OpToRel(<, Nat)
  BY NatLessThanWellFounded, WFMin
<1>2. PICK i \in S : \A j \in S : <<j, i>> \notin OpToRel(<, Nat)
  BY <1>1
<1>3. ASSUME NEW j \in S PROVE i <= j
  <2>1. OpToRel(<, Nat) = {pair \in Nat \X Nat : pair[1] < pair[2]}
    BY Zenon DEF OpToRel
  <2>2. <<j, i>> \notin {pair \in Nat \X Nat : pair[1] < pair[2]}
    BY <1>2, <2>1, Zenon
  <2> QED BY <2>2
<1> QED BY <1>3

LEMMA MinOfNats ==
    ASSUME NEW S, S \subseteq Nat, S # {}
    PROVE  Min(S) \in S /\ \A j \in S : Min(S) <= j
BY HasLeast DEF Min

LEMMA MinOfTwo ==
    ASSUME NEW a \in Int, NEW b \in Int
    PROVE  /\ Min({a, b}) \in {a, b}
           /\ Min({a, b}) <= a
           /\ Min({a, b}) <= b
<1>1. \E x \in {a, b} : \A y \in {a, b} : x <= y
  <2>1. CASE a <= b
    BY <2>1
  <2>2. CASE b <= a
    BY <2>2
  <2> QED BY <2>1, <2>2
<1> QED BY <1>1 DEF Min

LEMMA MaxOfSome ==
    ASSUME NEW n \in Nat, NEW S, S \subseteq 1..n, S # {}
    PROVE  Max(S) \in S /\ \A j \in S : j <= Max(S)
<1> DEFINE T == {n - i : i \in S}
<1>1. T \subseteq Nat /\ T # {}
  <2>1. \A i \in S : n - i \in Nat
    OBVIOUS
  <2> QED BY <2>1
<1>2. PICK t \in T : \A u \in T : t <= u
  BY <1>1, HasLeast
<1>3. PICK i \in S : t = n - i
  BY <1>2
<1>4. ASSUME NEW j \in S PROVE j <= i
  <2>1. n - j \in T /\ t <= n - j
    BY <1>2
  <2> QED BY <2>1, <1>3
<1>5. \E x \in S : \A y \in S : x >= y
  <2>1. \A y \in S : i >= y
    BY <1>4
  <2> QED BY <2>1
<1>6. Max(S) \in S /\ \A y \in S : Max(S) >= y
  BY <1>5 DEF Max
<1> QED BY <1>6

-----------------------------------------------------------------------------
(* The stack of rule functions. *)

LEMMA TopOf ==
    ASSUME NEW S, NEW cs \in Seq(S), cs # <<>>
    PROVE  /\ Len(cs) \in Nat \ {0}
           /\ Last(cs) = cs[Len(cs)]
           /\ Last(cs) \in S
           /\ Front(cs) \in Seq(S)
           /\ Len(Front(cs)) = Len(cs) - 1
           /\ \A f \in 1..Len(cs) - 1 : Front(cs)[f] = cs[f]
<1>1. Len(cs) \in Nat \ {0}
  OBVIOUS
<1>2. Last(cs) = cs[Len(cs)] /\ Last(cs) \in S
  BY <1>1 DEF Last
<1>3. Len(cs) - 1 \in 0..Len(cs)
  BY <1>1
<1>4. \A n \in 0..Len(cs) : /\ SubSeq(cs, 1, n) \in Seq(S)
                             /\ Len(SubSeq(cs, 1, n)) = n
                             /\ \A f \in 1..n : SubSeq(cs, 1, n)[f] = cs[f]
  OBVIOUS
<1>5. Front(cs) = SubSeq(cs, 1, Len(cs) - 1)
  BY DEF Front
<1> QED BY <1>1, <1>2, <1>3, <1>4, <1>5

LEMMA PutOn ==
    ASSUME NEW S, NEW cs \in Seq(S), cs # <<>>, NEW c \in S
    PROVE  /\ PutTop(cs, c) \in Seq(S)
           /\ PutTop(cs, c) # <<>>
           /\ Len(PutTop(cs, c)) = Len(cs)
           /\ Last(PutTop(cs, c)) = c
           /\ PutTop(cs, c)[Len(cs)] = c
           /\ \A f \in 1..Len(cs) - 1 : PutTop(cs, c)[f] = cs[f]
BY DEF Last, PutTop

LEMMA Pushed ==
    ASSUME NEW S, NEW cs \in Seq(S), NEW c \in S
    PROVE  /\ Append(cs, c) \in Seq(S)
           /\ Append(cs, c) # <<>>
           /\ Len(Append(cs, c)) = Len(cs) + 1
           /\ Last(Append(cs, c)) = c
           /\ Append(cs, c)[Len(cs) + 1] = c
           /\ \A f \in 1..Len(cs) : Append(cs, c)[f] = cs[f]
BY DEF Last

-----------------------------------------------------------------------------
(* Positions in the input. *)

LEMMA InputIsSequence ==
    ASSUME TypeOK
    PROVE  input \in Seq(STRING) /\ Len(input) \in Nat
BY GeneratedAssumption DEF TypeOK, InputsAssumption

LEMMA RemainingType ==
    ASSUME TypeOK, NEW p \in Positions
    PROVE  /\ Remaining(p) \in Nat
           /\ p = Lost => Remaining(p) = 0
           /\ p # Lost => p + Remaining(p) = Len(input) + 1
           /\ \A k \in 0..Remaining(p) : /\ p + k \in Positions
                                         /\ Cursor(p + k) - Cursor(p) = k
           /\ Cursor(p) \in Positions /\ Cursor(p) \in Nat
BY InputIsSequence DEF Remaining, Positions, Lost, Cursor

LEMMA InsideInput ==
    ASSUME TypeOK, NEW p \in Positions, ~AtEnd(p)
    PROVE  /\ p \in 1..Len(input)
           /\ Remaining(p) >= 1
           /\ Kind(p) = input[p]
           /\ p + 1 \in Positions
           /\ Cursor(p + 1) = Cursor(p) + 1
BY InputIsSequence DEF Remaining, Positions, Lost, Cursor, AtEnd, Kind

LEMMA EndIsEnd ==
    ASSUME NEW p, Kind(p) # End
    PROVE  ~AtEnd(p)
BY DEF Kind

-----------------------------------------------------------------------------
(* What repairs drop. *)

\* More diagnostics and k more tokens skipped.
LEMMA CountedType ==
    ASSUME NEW n, NEW r \in RecoveryStates(n), NEW k \in Nat
    PROVE  LET counted == [r EXCEPT !.diagnostics = @ + 1, !.skipped = @ + k]
           IN  counted \in RecoveryStates(n) /\ counted.skipped = r.skipped + k /\ counted.unwind = r.unwind
<1> DEFINE d == r.diagnostics + 1
           s == r.skipped + k
           P == Positions \cup {Never}
           U == 0..n
<1>1. d \in Nat /\ s \in Nat
  BY DEF RecoveryStates
<1>2. r \in [diagnostics : Nat, skipped : Nat, lastResume : P, unwind : U,
             recovering : BOOLEAN, reported : BOOLEAN]
  BY DEF RecoveryStates
<1>3. [r EXCEPT !.diagnostics = @ + 1, !.skipped = @ + k] = [r EXCEPT !.diagnostics = d, !.skipped = s]
  BY <1>2
<1>4. RecoveryStates(n) = [diagnostics : Nat, skipped : Nat, lastResume : P, unwind : U,
                           recovering : BOOLEAN, reported : BOOLEAN]
  BY DEF RecoveryStates
<1> HIDE DEF d, P, U
<1>6. LET counted == [r EXCEPT !.diagnostics = d, !.skipped = s]
      IN  counted \in RecoveryStates(n) /\ counted.skipped = s /\ counted.unwind = r.unwind
  <2> HIDE DEF s
  <2> QED BY <1>1, <1>2, <1>4
<1> QED BY <1>3, <1>6


\* None of the k tokens from p on is claimed by a frame of the stack other
\* than its top.
Unclaimed(cs, p, k) ==
    \A j \in 0..k - 1 : \A f \in 1..Len(cs) - 1 : f \notin Claimants(cs, Kind(p + j))

LEMMA PanicDrops ==
    ASSUME TypeOK, NEW cs, NEW site, NEW p \in Positions, NEW room \in Nat
    PROVE  LET k == PanicLength(cs, site, p, room)
           IN  k \in 0..Remaining(p) /\ k <= room /\ Unclaimed(cs, p, k)
<1> DEFINE n == Remaining(p)
           Stops(k) == \/ k = room
                       \/ k = n
                       \/ Kind(p + k) \in site.expected \cup site.continuation \cup site.follow
                       \/ Claimants(cs, Kind(p + k)) # {}
           S == {k \in 0..n : Stops(k)}
           k == PanicLength(cs, site, p, room)
<1>1. n \in Nat
  BY RemainingType
<1>2. k = Min(S)
  BY DEF PanicLength
<1> HIDE DEF n, k
<1>3. n \in S /\ S \subseteq Nat
  BY <1>1
<1>4. room <= n => room \in S
  BY <1>1
<1> HIDE DEF Stops
<1>5. k \in S /\ \A j \in S : k <= j
  <2> HIDE DEF S
  <2> QED BY <1>2, <1>3, MinOfNats
<1>6. k \in 0..n /\ k <= n
  BY <1>1, <1>5
<1>7. k <= room
  <2>1. CASE room <= n
    BY <2>1, <1>4, <1>5
  <2>2. CASE ~(room <= n)
    BY <2>2, <1>6, <1>1
  <2> QED BY <2>1, <2>2
<1>8. ASSUME NEW j \in 0..k - 1, NEW f \in 1..Len(cs) - 1 PROVE f \notin Claimants(cs, Kind(p + j))
  <2>1. j \in 0..n /\ ~(k <= j)
    BY <1>6, <1>1
  <2>2. ~Stops(j)
    BY <2>1, <1>5
  <2> QED BY <2>2 DEF Stops
<1> QED BY <1>6, <1>7, <1>8 DEF Unclaimed, n, k

Modes == {"Retry", "PanicUntil", "Propagate", "Abort", "Delete", "Insert", "Replace", "Synchronize"}

\* recover() drops tokens no enclosing rule claims, and not more than are left
\* of the budget.
LEMMA RepairDrops ==
    ASSUME TypeOK, NEW cs, NEW site, NEW p \in Positions, NEW n, NEW r \in RecoveryStates(n)
    PROVE  LET repair == ChooseRepair(cs, site, p, r)
           IN  /\ repair.mode \in Modes
               /\ repair.dropped \in 0..Remaining(p)
               /\ repair.dropped > 0 => r.skipped + repair.dropped <= MaxTotalSkipped
               /\ Unclaimed(cs, p, repair.dropped)
<1> DEFINE repair == ChooseRepair(cs, site, p, r)
           at == Kind(p)
           spare == at # End /\ ~Protected(cs, site, at)
           Fine(x) == /\ x.mode \in Modes
                      /\ x.dropped \in 0..Remaining(p)
                      /\ x.dropped > 0 => r.skipped + x.dropped <= MaxTotalSkipped
                      /\ Unclaimed(cs, p, x.dropped)
           room == Min({MaxSkip, MaxTotalSkipped - r.skipped})
           k == PanicLength(cs, site, p, room)
<1>1. Remaining(p) \in Nat /\ r.skipped \in Nat /\ MaxTotalSkipped \in Nat \ {0} /\ MaxSkip \in Nat \ {0}
  BY RemainingType, BudgetsAssumption DEF RecoveryStates
<1>2. \A mode \in Modes : Fine(Repair(mode, 0))
  BY <1>1 DEF Repair, Unclaimed
<1>3. ASSUME spare, ~Exhausted(r), NEW mode \in Modes PROVE Fine(Repair(mode, 1))
  <2>1. ~AtEnd(p)
    BY <1>3, EndIsEnd
  <2>2. 1 \in 0..Remaining(p)
    BY <2>1, <1>1, InsideInput
  <2>3. r.skipped + 1 <= MaxTotalSkipped
    BY <1>1, <1>3 DEF Exhausted
  <2>4. Unclaimed(cs, p, 1)
    <3>1. p + 0 = p
      BY DEF Positions
    <3>2. Claimants(cs, Kind(p)) = {}
      BY <1>3 DEF Protected
    <3>3. ASSUME NEW j \in 0..0, NEW f PROVE f \notin Claimants(cs, Kind(p + j))
      <4>1. j = 0
        OBVIOUS
      <4> QED BY <4>1, <3>1, <3>2
    <3> QED BY <3>3 DEF Unclaimed
  <2> QED BY <2>2, <2>3, <2>4 DEF Repair
<1>4. ASSUME ~Exhausted(r) PROVE Fine(Panic(cs, site, p, r))
  <2>1. MaxTotalSkipped - r.skipped \in Nat
    BY <1>1, <1>4 DEF Exhausted
  <2>2. room \in Nat /\ room <= MaxTotalSkipped - r.skipped
    <3> DEFINE left == MaxTotalSkipped - r.skipped
    <3>1. left \in Nat /\ room = Min({MaxSkip, left})
      BY <2>1
    <3> HIDE DEF left, room
    <3>2. left \in Int /\ MaxSkip \in Int
      BY <3>1, <1>1
    <3>3. Min({MaxSkip, left}) \in {MaxSkip, left} /\ Min({MaxSkip, left}) <= left
      BY <3>2, MinOfTwo, Zenon
    <3>4. room \in Nat /\ room <= left
      BY <3>1, <3>3, <1>1
    <3> QED BY <3>4 DEF left
  <2>3. k \in 0..Remaining(p) /\ k <= room /\ Unclaimed(cs, p, k)
    BY <2>2, PanicDrops
  <2>4. k > 0 => r.skipped + k <= MaxTotalSkipped
    <3> HIDE DEF k, room
    <3> QED BY <2>2, <2>3, <1>1
  <2>5. Panic(cs, site, p, r) \in {Repair("Retry", k), Repair("PanicUntil", k), Repair("Propagate", k)}
    BY DEF Panic
  <2>6. \A mode : Repair(mode, k).dropped = k /\ Repair(mode, k).mode = mode
    BY DEF Repair
  <2> HIDE DEF k
  <2> QED BY <2>3, <2>4, <2>5, <2>6 DEF Modes
<1>5. \/ repair \in {Repair(mode, 0) : mode \in Modes}
      \/ ~Exhausted(r) /\ spare /\ repair \in {Repair(mode, 1) : mode \in Modes}
      \/ ~Exhausted(r) /\ repair = Panic(cs, site, p, r)
  BY DEF ChooseRepair, Modes
<1>6. Fine(repair)
  <2> HIDE DEF Fine, repair, spare
  <2> QED BY <1>2, <1>3, <1>4, <1>5
<1> QED BY <1>6

\* The search of context recovery: it ends at a token of a frame, or at the
\* end of the input, at most one token behind the limit.
LEMMA ResolveDrops ==
    ASSUME TypeOK, NEW cs \in Seq(Frames), cs # <<>>, NEW p \in Positions,
           NEW r \in RecoveryStates(Len(cs)), ~Exhausted(r),
           NEW found \in ResolveContext(cs, p, r)
    PROVE  /\ found.skip \in 0..Remaining(p)
           /\ r.skipped + found.skip <= MaxTotalSkipped + 1
           /\ found.frame \in 1..Len(cs)
           /\ Unclaimed(cs, p, found.skip)
<1> DEFINE n == Remaining(p)
           limit == SearchLimit(r)
           spots == {k \in 0..limit : k < n /\ Owners(cs, p, k, r) # {}}
<1>1. n \in Nat /\ r.skipped \in Nat /\ MaxTotalSkipped \in Nat \ {0} /\ ContextMaxSkip \in Nat
      /\ Len(cs) \in Nat \ {0}
  BY RemainingType, BudgetsAssumption, TopOf DEF RecoveryStates
<1>2. limit \in Nat /\ r.skipped + limit <= MaxTotalSkipped
  <2> DEFINE left == MaxTotalSkipped - r.skipped
  <2>1. left \in Nat /\ limit = Min({ContextMaxSkip, left})
    BY <1>1 DEF Exhausted, SearchLimit
  <2> HIDE DEF left, limit
  <2>2. left \in Int /\ ContextMaxSkip \in Int
    BY <2>1, <1>1
  <2>3. Min({ContextMaxSkip, left}) \in {ContextMaxSkip, left} /\ Min({ContextMaxSkip, left}) <= left
    BY <2>2, MinOfTwo, Zenon
  <2>4. limit \in Nat /\ limit <= left
    BY <2>1, <2>3, <1>1
  <2> QED BY <2>4, <1>1 DEF left
<1>3. \A k : Owners(cs, p, k, r) \subseteq 1..Len(cs)
  BY DEF Owners, Claimants
<1>4. ASSUME NEW j \in Nat, Owners(cs, p, j, r) = {}, NEW f \in 1..Len(cs) - 1
      PROVE  f \notin Claimants(cs, Kind(p + j))
  <2>1. f # Len(cs)
    BY <1>1
  <2> QED BY <2>1, <1>4 DEF Owners
<1> HIDE DEF n, limit
<1>5. CASE spots # {}
  <2> DEFINE k == Min(spots)
  <2>1. spots \subseteq Nat
    BY <1>2
  <2>2. k \in spots /\ \A j \in spots : k <= j
    <3> HIDE DEF spots
    <3> QED BY <1>5, <2>1, MinOfNats
  <2>3. found = [skip |-> k, frame |-> Max(Owners(cs, p, k, r)), claimed |-> TRUE]
    BY <1>5 DEF ResolveContext, n, limit
  <2>4. k \in 0..limit /\ k < n /\ Owners(cs, p, k, r) # {}
    BY <2>2
  <2> HIDE DEF k
  <2>5. Max(Owners(cs, p, k, r)) \in 1..Len(cs)
    BY <2>4, <1>1, <1>3, MaxOfSome
  <2>6. ASSUME NEW j \in 0..k - 1 PROVE Owners(cs, p, j, r) = {}
    <3>1. j \in 0..limit /\ j < n /\ ~(k <= j)
      BY <2>4, <1>1, <1>2
    <3> QED BY <3>1, <2>2
  <2>7. Unclaimed(cs, p, k)
    BY <2>6, <1>4, <2>4, <1>2 DEF Unclaimed
  <2>8. k \in 0..n /\ r.skipped + k <= MaxTotalSkipped + 1
    BY <2>4, <1>1, <1>2
  <2> QED BY <2>3, <2>5, <2>7, <2>8 DEF n
<1>6. CASE spots = {}
  <2>1. n <= limit + 1 /\ found = [skip |-> n, frame |-> 1, claimed |-> FALSE]
    BY <1>6 DEF ResolveContext, n, limit
  <2>2. ASSUME NEW j \in 0..n - 1 PROVE Owners(cs, p, j, r) = {}
    <3>1. j \in 0..limit /\ j < n
      BY <2>1, <1>1, <1>2
    <3> QED BY <3>1, <1>6
  <2>3. Unclaimed(cs, p, n)
    BY <2>2, <1>4, <1>1 DEF Unclaimed
  <2>4. n \in 0..n /\ r.skipped + n <= MaxTotalSkipped + 1
    BY <2>1, <1>1, <1>2
  <2> QED BY <2>1, <2>3, <2>4, <1>1 DEF n
<1> QED BY <1>5, <1>6

-----------------------------------------------------------------------------
(* Repairs seen from outside. *)

\* From position p and recovery state r to q and s, dropping tokens: they are
\* counted, within the budget, and no enclosing rule claims one.
Drops(cs, p, r, q, s) ==
    /\ q \in Positions
    /\ s \in RecoveryStates(Len(cs))
    /\ r.skipped <= s.skipped
    /\ r.skipped <= MaxTotalSkipped + 1 => s.skipped <= MaxTotalSkipped + 1
    /\ Cursor(q) - Cursor(p) <= s.skipped - r.skipped
    /\ p = Lost => q = Lost /\ s.skipped = r.skipped
    /\ p # Lost => p <= q /\ Unclaimed(cs, p, q - p)

LEMMA NothingDrops ==
    ASSUME TypeOK, NEW cs \in Seq(Frames), NEW p \in Positions, NEW r \in RecoveryStates(Len(cs))
    PROVE  Drops(cs, p, r, p, r)
<1>1. p \in Int /\ Cursor(p) \in Int /\ r.skipped \in Int /\ MaxTotalSkipped \in Int
  BY RemainingType, BudgetsAssumption DEF Positions, RecoveryStates
<1> QED BY <1>1 DEF Drops, Unclaimed

\* k tokens dropped from p on.
LEMMA SomeDropped ==
    ASSUME TypeOK, NEW cs \in Seq(Frames), NEW p \in Positions, NEW k \in 0..Remaining(p),
           NEW r \in RecoveryStates(Len(cs)), NEW s \in RecoveryStates(Len(cs)),
           s.skipped = r.skipped + k,
           k > 0 => r.skipped + k <= MaxTotalSkipped + 1,
           Unclaimed(cs, p, k)
    PROVE  Drops(cs, p, r, p + k, s)
<1>1. /\ p \in Nat /\ k \in Nat /\ r.skipped \in Nat /\ s.skipped \in Nat /\ MaxTotalSkipped \in Nat
      /\ p + k \in Positions /\ Cursor(p + k) - Cursor(p) = k
  BY RemainingType, BudgetsAssumption DEF Positions, RecoveryStates
<1>2. p = Lost => k = 0 /\ p + k = Lost /\ s.skipped = r.skipped
  <2>1. ASSUME p = Lost PROVE k = 0
    BY <2>1, RemainingType
  <2> QED BY <1>1, <2>1 DEF Lost
<1>3. (p + k) - p = k /\ p <= p + k
  BY <1>1
<1>4. /\ r.skipped <= s.skipped
      /\ Cursor(p + k) - Cursor(p) <= s.skipped - r.skipped
      /\ r.skipped <= MaxTotalSkipped + 1 => s.skipped <= MaxTotalSkipped + 1
  BY <1>1
<1> QED BY <1>1, <1>2, <1>3, <1>4 DEF Drops

LEMMA DropsCompose ==
    ASSUME TypeOK, NEW cs \in Seq(Frames), NEW p \in Positions, NEW q, NEW o,
           NEW r \in RecoveryStates(Len(cs)), NEW s, NEW t,
           Drops(cs, p, r, q, s), Drops(cs, q, s, o, t)
    PROVE  Drops(cs, p, r, o, t)
<1>1. /\ p \in Nat /\ q \in Nat /\ o \in Nat /\ r.skipped \in Nat /\ s.skipped \in Nat /\ t.skipped \in Nat
      /\ Cursor(p) \in Nat /\ Cursor(q) \in Nat /\ Cursor(o) \in Nat /\ MaxTotalSkipped \in Nat
  BY RemainingType, BudgetsAssumption DEF Positions, RecoveryStates, Drops
<1>2. ASSUME p # Lost PROVE p <= o /\ Unclaimed(cs, p, o - p)
  <2>1. p <= q /\ Unclaimed(cs, p, q - p)
    BY <1>2 DEF Drops
  <2>2. q # Lost
    BY <2>1, <1>1, <1>2 DEF Lost
  <2>3. q <= o /\ Unclaimed(cs, q, o - q)
    BY <2>2 DEF Drops
  <2>4. ASSUME NEW j \in 0..(o - p) - 1, NEW f \in 1..Len(cs) - 1
        PROVE  f \notin Claimants(cs, Kind(p + j))
    <3>1. CASE j < q - p
      <4>1. j \in 0..(q - p) - 1
        BY <3>1, <1>1
      <4> QED BY <4>1, <2>1 DEF Unclaimed
    <3>2. CASE ~(j < q - p)
      <4>1. j - (q - p) \in 0..(o - q) - 1 /\ q + (j - (q - p)) = p + j
        BY <3>2, <1>1, <2>1, <2>3
      <4>2. f \notin Claimants(cs, Kind(q + (j - (q - p))))
        BY <4>1, <2>3 DEF Unclaimed
      <4> QED BY <4>1, <4>2
    <3> QED BY <3>1, <3>2
  <2>5. p <= o
    BY <2>1, <2>3, <1>1
  <2> QED BY <2>4, <2>5 DEF Unclaimed
<1>3. /\ r.skipped <= t.skipped
      /\ r.skipped <= MaxTotalSkipped + 1 => t.skipped <= MaxTotalSkipped + 1
      /\ Cursor(o) - Cursor(p) <= t.skipped - r.skipped
  <2>1. /\ r.skipped <= s.skipped /\ s.skipped <= t.skipped
        /\ r.skipped <= MaxTotalSkipped + 1 => s.skipped <= MaxTotalSkipped + 1
        /\ s.skipped <= MaxTotalSkipped + 1 => t.skipped <= MaxTotalSkipped + 1
        /\ Cursor(q) - Cursor(p) <= s.skipped - r.skipped
        /\ Cursor(o) - Cursor(q) <= t.skipped - s.skipped
    BY DEF Drops
  <2> QED BY <2>1, <1>1
<1> QED BY <1>2, <1>3 DEF Drops

LEMMA HandlerDrops ==
    ASSUME TypeOK, NEW cs \in Seq(Frames), NEW site, NEW p \in Positions,
           NEW r \in RecoveryStates(Len(cs))
    PROVE  LET repair == ChooseRepair(cs, site, p, r)
           IN  /\ Drops(cs, p, r, p + repair.dropped, Counted(repair, r))
               /\ Counted(repair, r).unwind = r.unwind
<1> DEFINE repair == ChooseRepair(cs, site, p, r)
           k == repair.dropped
           s == Counted(repair, r)
<1>1. k \in 0..Remaining(p) /\ (k > 0 => r.skipped + k <= MaxTotalSkipped) /\ Unclaimed(cs, p, k)
  BY RepairDrops
<1>2. k \in Nat /\ r.skipped \in Nat /\ MaxTotalSkipped \in Nat
  BY <1>1, RemainingType, BudgetsAssumption DEF RecoveryStates
<1>3. s = [r EXCEPT !.diagnostics = @ + 1, !.skipped = @ + k]
  BY DEF Counted
<1> HIDE DEF k, s, repair
<1>4. s \in RecoveryStates(Len(cs)) /\ s.skipped = r.skipped + k /\ s.unwind = r.unwind
  BY <1>2, <1>3, CountedType
<1>5. k > 0 => r.skipped + k <= MaxTotalSkipped + 1
  BY <1>1, <1>2
<1>6. Drops(cs, p, r, p + k, s)
  BY <1>1, <1>4, <1>5, SomeDropped
<1> QED BY <1>4, <1>6 DEF k, s, repair

LEMMA ContextDrops ==
    ASSUME TypeOK, NEW cs \in Seq(Frames), cs # <<>>, NEW p \in Positions,
           NEW r \in RecoveryStates(Len(cs))
    PROVE  LET after == RecoverAtContext(cs, p, r) IN Drops(cs, p, r, after.pos, after.r)
<1> DEFINE found == IF Exhausted(r) THEN {} ELSE ResolveContext(cs, p, r)
           resume == CHOOSE x \in found : TRUE
           misplaced == resume.frame # Len(cs) /\ resume.skip = 0 /\ resume.claimed
           k == resume.skip
           s == [r EXCEPT !.skipped = @ + k, !.lastResume = Cursor(p + k),
                          !.unwind = Len(cs) - resume.frame,
                          !.reported = @ \/ ~r.recovering \/ misplaced, !.recovering = TRUE]
<1>1. CASE found = {}
  <2>1. RecoverAtContext(cs, p, r) = [pos |-> p, r |-> r]
    BY <1>1 DEF RecoverAtContext
  <2> QED BY <2>1, NothingDrops
<1>2. CASE found # {}
  <2>1. RecoverAtContext(cs, p, r) = [pos |-> p + k, r |-> s]
    BY <1>2 DEF RecoverAtContext
  <2>2. resume \in ResolveContext(cs, p, r) /\ ~Exhausted(r)
    BY <1>2
  <2> HIDE DEF resume
  <2>3. /\ k \in 0..Remaining(p) /\ r.skipped + k <= MaxTotalSkipped + 1
        /\ resume.frame \in 1..Len(cs) /\ Unclaimed(cs, p, k)
    BY <2>2, ResolveDrops
  <2>4. k \in Nat /\ p + k \in Positions /\ Cursor(p + k) \in Positions
    BY <2>3, RemainingType
  <2>5. Len(cs) - resume.frame \in 0..Len(cs)
    BY <2>3, TopOf
  <2> HIDE DEF k
  <2>6. misplaced \in BOOLEAN
    OBVIOUS
  <2> HIDE DEF misplaced
  <2>7. s \in RecoveryStates(Len(cs)) /\ s.skipped = r.skipped + k
    <3> DEFINE P == Positions \cup {Never}
               U == 0..Len(cs)
               skipped == r.skipped + k
               l == Cursor(p + k)
               u == Len(cs) - resume.frame
               b == r.reported \/ ~r.recovering \/ misplaced
    <3>1. r \in [diagnostics : Nat, skipped : Nat, lastResume : P, unwind : U,
                 recovering : BOOLEAN, reported : BOOLEAN]
      BY DEF RecoveryStates
    <3>2. RecoveryStates(Len(cs)) = [diagnostics : Nat, skipped : Nat, lastResume : P, unwind : U,
                                     recovering : BOOLEAN, reported : BOOLEAN]
      BY DEF RecoveryStates
    <3>3. skipped \in Nat /\ l \in P /\ u \in U /\ b \in BOOLEAN
      BY <3>1, <2>4, <2>5, <2>6
    <3>4. s = [r EXCEPT !.skipped = skipped, !.lastResume = l, !.unwind = u, !.reported = b,
                        !.recovering = TRUE]
      BY <3>1
    <3> HIDE DEF P, U, l, u, b, s
    <3>6. s \in RecoveryStates(Len(cs)) /\ s.skipped = skipped
      <4> HIDE DEF skipped
      <4> QED BY <3>1, <3>2, <3>3, <3>4
    <3> QED BY <3>6
  <2> HIDE DEF s
  <2>8. Drops(cs, p, r, p + k, s)
    BY <2>3, <2>7, SomeDropped
  <2> QED BY <2>1, <2>8
<1> QED BY <1>1, <1>2

LEMMA SyncDrops ==
    ASSUME TypeOK, NEW cs \in Seq(Frames), cs # <<>>, NEW p \in Positions,
           NEW r \in RecoveryStates(Len(cs))
    PROVE  LET synced == SyncLoop(cs, p, r)
           IN  /\ Drops(cs, p, r, synced.pos, synced.r)
               /\ r.unwind > 0 => synced.r.unwind = r.unwind
<1>1. r.unwind \in Nat
  BY TopOf DEF RecoveryStates
<1>2. CASE AtEnd(p) \/ r.unwind # 0 \/ Claimants(cs, Kind(p)) # {}
  <2>1. SyncLoop(cs, p, r) = [pos |-> p, r |-> r]
    BY <1>2 DEF SyncLoop
  <2> QED BY <2>1, NothingDrops
<1>3. CASE ~(AtEnd(p) \/ r.unwind # 0 \/ Claimants(cs, Kind(p)) # {})
  <2>1. SyncLoop(cs, p, r) = RecoverAtContext(cs, p, r)
    BY <1>3 DEF SyncLoop
  <2> QED BY <2>1, <1>3, ContextDrops
<1> QED BY <1>2, <1>3

LEMMA ChoiceDrops ==
    ASSUME TypeOK, calls # <<>>, NEW p \in Positions
    PROVE  LET k == ChoiceSkip(p, recovery)
               counted == [recovery EXCEPT !.diagnostics = @ + 1, !.skipped = @ + k]
           IN  /\ Drops(calls, p, recovery, p + k, counted)
               /\ counted.unwind = recovery.unwind
<1> DEFINE r == recovery
           n == Remaining(p)
           Stops(k) == \/ Exhausted(r)
                       \/ k = n
                       \/ Pick(Kind(p + k)) # {}
                       \/ Claimants(calls, Kind(p + k)) # {}
                       \/ k >= ContextMaxSkip
                       \/ r.skipped + k >= MaxTotalSkipped
           S == {k \in 0..n : Stops(k)}
           k == ChoiceSkip(p, r)
           counted == [r EXCEPT !.diagnostics = @ + 1, !.skipped = @ + k]
<1>1. /\ r \in RecoveryStates(Len(calls)) /\ r.skipped \in Nat /\ MaxTotalSkipped \in Nat
      /\ n \in Nat /\ calls \in Seq(Frames)
  BY RemainingType, BudgetsAssumption DEF TypeOK, RecoveryStates
<1>2. k = Min(S)
  BY DEF ChoiceSkip
<1> HIDE DEF k, r, n
<1>3. S \subseteq Nat /\ n \in S
  BY <1>1
<1> HIDE DEF Stops
<1>4. k \in S /\ \A j \in S : k <= j
  <2> HIDE DEF S
  <2> QED BY <1>2, <1>3, MinOfNats
<1>5. k \in 0..n /\ k \in Nat
  BY <1>1, <1>4
<1>6. ASSUME NEW j \in 0..k - 1 PROVE ~Stops(j)
  <2>1. j \in 0..n /\ ~(k <= j)
    BY <1>5, <1>1
  <2> QED BY <2>1, <1>4
<1>7. Unclaimed(calls, p, k)
  <2>1. ASSUME NEW j \in 0..k - 1 PROVE Claimants(calls, Kind(p + j)) = {}
    BY <1>6 DEF Stops
  <2> QED BY <2>1 DEF Unclaimed
<1>8. ASSUME k > 0 PROVE r.skipped + k <= MaxTotalSkipped + 1
  <2>1. ~Stops(k - 1)
    BY <1>5, <1>6, <1>8
  <2>2. ~(r.skipped + (k - 1) >= MaxTotalSkipped)
    BY <2>1 DEF Stops
  <2> QED BY <2>2, <1>1, <1>5
<1>9. counted \in RecoveryStates(Len(calls)) /\ counted.skipped = r.skipped + k /\ counted.unwind = r.unwind
  BY <1>1, <1>5, CountedType
<1> HIDE DEF counted
<1>10. Drops(calls, p, r, p + k, counted)
  <2>1. k \in 0..Remaining(p)
    BY <1>5 DEF n
  <2> QED BY <2>1, <1>1, <1>7, <1>8, <1>9, SomeDropped
<1> QED BY <1>9, <1>10 DEF counted, k, r

-----------------------------------------------------------------------------
(* Where a rule function can be. *)

\* At a member of its rule or behind the last; at an atom of the member, or
\* before or behind its body.
Placed(c) ==
    /\ c.m <= Len(RuleOf(c)) + 1
    /\ c.m = Len(RuleOf(c)) + 1 => c.i = 0
    /\ c.m <= Len(RuleOf(c)) => c.i <= Len(MemberOf(c).body) + 1
    /\ InBody(c) => c.alt <= Len(AtomOf(c).syms)

\* For the answer of the rule it has called.
Waiting(c) == InBody(c) /\ ~Choosing(c) /\ IsRule(SymbolOf(c))

\* The tokens behind it that were not matched.
Owed(c) == Cursor(c.pos) - 1 - c.took

\* Where a call of an optional rule may be next while a rule is on its way.
Open(c) ==
    \/ c.m = 1 /\ c.i = 0
    \/ InBody(c) /\ c.i = 1 /\ AtomOf(c).q = "?" /\ MemberOf(c).q \notin {"*", "+"}

LEMMA RuleType ==
    ASSUME TypeOK, NEW c \in Frames
    PROVE  /\ RuleOf(c) \in Seq(Members) /\ Len(RuleOf(c)) \in Nat
           /\ c.m \in Nat \ {0} /\ c.i \in Nat /\ c.alt \in Nat
           /\ c.m <= Len(RuleOf(c)) => /\ MemberOf(c) \in Members
                                       /\ MemberOf(c).body \in Seq(Atoms)
                                       /\ Len(MemberOf(c).body) \in Nat
           /\ InBody(c) => /\ AtomOf(c) \in Atoms
                           /\ c.i \in 1..Len(MemberOf(c).body)
                           /\ Len(AtomOf(c).syms) \in Nat \ {0}
                           /\ DOMAIN AtomOf(c).syms = 1..Len(AtomOf(c).syms)
<1>1. parser \in Parsers /\ c.rule \in DOMAIN parser.rules
  BY DEF TypeOK, Frames
<1>2. parser.rules \in [DOMAIN parser.rules -> Seq(Members)]
  BY <1>1, GeneratedAssumption DEF ParsersAssumption
<1>3. RuleOf(c) \in Seq(Members)
  BY <1>1, <1>2 DEF RuleOf
<1>4. c.m \in Nat \ {0} /\ c.i \in Nat /\ c.alt \in Nat
  BY DEF Frames
<1>5. Len(RuleOf(c)) \in Nat
  BY <1>3
<1>6. ASSUME c.m <= Len(RuleOf(c))
      PROVE  MemberOf(c) \in Members /\ MemberOf(c).body \in Seq(Atoms) /\ Len(MemberOf(c).body) \in Nat
  <2>1. MemberOf(c) \in Members
    BY <1>3, <1>4, <1>5, <1>6 DEF MemberOf
  <2>2. MemberOf(c).body \in Seq(Atoms)
    BY <2>1 DEF Members
  <2> QED BY <2>1, <2>2
<1>7. ASSUME InBody(c)
      PROVE  /\ AtomOf(c) \in Atoms
             /\ c.i \in 1..Len(MemberOf(c).body)
             /\ Len(AtomOf(c).syms) \in Nat \ {0}
             /\ DOMAIN AtomOf(c).syms = 1..Len(AtomOf(c).syms)
  <2>1. MemberOf(c).body \in Seq(Atoms) /\ c.i \in DOMAIN MemberOf(c).body
    BY <1>6, <1>7 DEF InBody
  <2>2. c.i \in 1..Len(MemberOf(c).body) /\ AtomOf(c) \in Atoms
    BY <2>1 DEF AtomOf
  <2>3. AtomOf(c).syms \in Seq(STRING) /\ AtomOf(c).syms # <<>>
    BY <2>2 DEF Atoms
  <2>4. Len(AtomOf(c).syms) \in Nat \ {0} /\ DOMAIN AtomOf(c).syms = 1..Len(AtomOf(c).syms)
    BY <2>3
  <2> QED BY <2>2, <2>4
<1> QED BY <1>3, <1>4, <1>5, <1>6, <1>7

LEMMA TopType ==
    ASSUME TypeOK, calls # <<>>
    PROVE  /\ calls \in Seq(Frames) /\ Len(calls) \in Nat \ {0}
           /\ Top \in Frames /\ Top = calls[Len(calls)]
           /\ Top.pos \in Positions /\ Top.took \in Nat
           /\ recovery \in RecoveryStates(Len(calls)) /\ recovery.skipped \in Nat
           /\ recovery.unwind \in 0..Len(calls)
<1>1. calls \in Seq(Frames) /\ recovery \in RecoveryStates(Len(calls))
  BY DEF TypeOK
<1>2. Len(calls) \in Nat \ {0} /\ Top \in Frames /\ Top = calls[Len(calls)]
  BY <1>1, TopOf DEF Top
<1>3. Top.pos \in Positions /\ Top.took \in Nat
  BY <1>2 DEF Frames
<1>4. recovery.skipped \in Nat /\ recovery.unwind \in 0..Len(calls)
  BY <1>1 DEF RecoveryStates
<1> QED BY <1>1, <1>2, <1>3, <1>4

\* Only the place and the choice matter to where a rule function is.
LEMMA PlacedAlike ==
    ASSUME NEW c, NEW d, d.rule = c.rule, d.m = c.m, d.i = c.i
    PROVE  /\ RuleOf(d) = RuleOf(c) /\ MemberOf(d) = MemberOf(c) /\ AtomOf(d) = AtomOf(c)
           /\ SiteOf(d) = SiteOf(c) /\ (InBody(d) <=> InBody(c)) /\ (Open(d) <=> Open(c))
           /\ d.alt = c.alt => (Placed(d) <=> Placed(c)) /\ (Waiting(d) <=> Waiting(c))
                              /\ SymbolOf(d) = SymbolOf(c)
<1>1. RuleOf(d) = RuleOf(c) /\ SiteOf(d) = SiteOf(c)
  BY DEF RuleOf, SiteOf
<1>2. MemberOf(d) = MemberOf(c)
  BY <1>1 DEF MemberOf
<1>3. AtomOf(d) = AtomOf(c)
  BY <1>2 DEF AtomOf
<1>4. (InBody(d) <=> InBody(c)) /\ (Open(d) <=> Open(c))
  BY <1>1, <1>2, <1>3 DEF InBody, Open
<1>5. ASSUME d.alt = c.alt
      PROVE  (Placed(d) <=> Placed(c)) /\ (Waiting(d) <=> Waiting(c)) /\ SymbolOf(d) = SymbolOf(c)
  BY <1>1, <1>2, <1>3, <1>4, <1>5 DEF Placed, Waiting, Choosing, SymbolOf
<1> QED BY <1>1, <1>2, <1>3, <1>4, <1>5

\* The frames of some rules and positions.
FramesOver(rules, positions) ==
    [rule : rules, m : Nat \ {0}, i : Nat, alt : Nat, started : BOOLEAN, retries : 0..2,
     pos : positions, from : positions, took : Nat, start : positions, probe : BOOLEAN,
     committed : BOOLEAN]

SamePlace(d, c) == d.rule = c.rule /\ d.probe = c.probe /\ d.m = c.m /\ d.i = c.i

LEMMA FrameMoved ==
    ASSUME NEW R, NEW P, NEW c \in FramesOver(R, P), NEW p \in P
    PROVE  LET d == [c EXCEPT !.pos = p]
           IN  d \in FramesOver(R, P) /\ d.pos = p /\ d.took = c.took /\ SamePlace(d, c) /\ d.alt = c.alt
BY DEF FramesOver, SamePlace

Took(c, p, n) == [c EXCEPT !.pos = p, !.took = n]

LEMMA FrameMatched ==
    ASSUME NEW R, NEW P, NEW c \in FramesOver(R, P), NEW p \in P, NEW n \in Nat
    PROVE  /\ Took(c, p, n) \in FramesOver(R, P) /\ Took(c, p, n).pos = p /\ Took(c, p, n).took = n
           /\ SamePlace(Took(c, p, n), c) /\ Took(c, p, n).alt = c.alt
BY DEF FramesOver, SamePlace, Took

Retried(c, p, n) == [c EXCEPT !.pos = p, !.retries = n]

LEMMA FrameRetried ==
    ASSUME NEW R, NEW P, NEW c \in FramesOver(R, P), NEW p \in P, NEW n \in 0..2
    PROVE  /\ Retried(c, p, n) \in FramesOver(R, P) /\ Retried(c, p, n).pos = p
           /\ Retried(c, p, n).took = c.took /\ SamePlace(Retried(c, p, n), c)
           /\ Retried(c, p, n).alt = c.alt
BY DEF FramesOver, SamePlace, Retried

Chosen(c, p, n) == [c EXCEPT !.alt = n, !.pos = p]

LEMMA FrameChose ==
    ASSUME NEW R, NEW P, NEW c \in FramesOver(R, P), NEW p \in P, NEW n \in Nat
    PROVE  /\ Chosen(c, p, n) \in FramesOver(R, P) /\ Chosen(c, p, n).pos = p
           /\ Chosen(c, p, n).took = c.took /\ SamePlace(Chosen(c, p, n), c) /\ Chosen(c, p, n).alt = n
           /\ p = c.pos => Chosen(c, p, n) = [c EXCEPT !.alt = n]
BY DEF FramesOver, SamePlace, Chosen

LEMMA FrameStarted ==
    ASSUME NEW R, NEW P, NEW c \in FramesOver(R, P)
    PROVE  LET d == [c EXCEPT !.started = TRUE, !.retries = 0]
           IN  d \in FramesOver(R, P) /\ d.pos = c.pos /\ d.took = c.took /\ SamePlace(d, c) /\ d.alt = c.alt
<1> DEFINE T == 0..2
<1>1. 0 \in T
  OBVIOUS
<1>2. c \in [rule : R, m : Nat \ {0}, i : Nat, alt : Nat, started : BOOLEAN, retries : T,
             pos : P, from : P, took : Nat, start : P, probe : BOOLEAN, committed : BOOLEAN]
  BY DEF FramesOver
<1>3. FramesOver(R, P) = [rule : R, m : Nat \ {0}, i : Nat, alt : Nat, started : BOOLEAN, retries : T,
             pos : P, from : P, took : Nat, start : P, probe : BOOLEAN, committed : BOOLEAN]
  BY DEF FramesOver
<1> HIDE DEF T
<1> QED BY <1>1, <1>2, <1>3 DEF SamePlace

LEMMA FrameCommitted ==
    ASSUME NEW R, NEW P, NEW c \in FramesOver(R, P)
    PROVE  LET d == [c EXCEPT !.committed = TRUE]
           IN  /\ d \in FramesOver(R, P) /\ d.pos = c.pos /\ d.took = c.took /\ SamePlace(d, c) /\ d.alt = c.alt
               /\ d = [c EXCEPT !.committed = d.committed]
BY DEF FramesOver, SamePlace

LEMMA FrameAt ==
    ASSUME NEW R, NEW P, NEW c \in FramesOver(R, P), NEW m \in Nat \ {0}, NEW i \in Nat
    PROVE  LET d == At(c, m, i)
           IN  /\ d \in FramesOver(R, P) /\ d.pos = c.pos /\ d.took = c.took /\ d.rule = c.rule /\ d.probe = c.probe
               /\ d.m = m /\ d.i = i /\ d.alt = 0
<1> DEFINE T == 0..2
           M == Nat \ {0}
           p == c.pos
           F == [rule : R, m : M, i : Nat, alt : Nat, started : BOOLEAN, retries : T,
                 pos : P, from : P, took : Nat, start : P, probe : BOOLEAN, committed : BOOLEAN]
           d == [c EXCEPT !.m = m, !.i = i, !.alt = 0, !.started = FALSE, !.retries = 0, !.from = p]
<1>1. 0 \in T /\ 0 \in Nat /\ m \in M
  OBVIOUS
<1>2. c \in F /\ FramesOver(R, P) = F
  BY DEF FramesOver
<1>3. At(c, m, i) = d
  BY DEF At
<1>4. p \in P
  BY <1>2
<1> HIDE DEF T, M
<1>5. d \in F /\ d.pos = p
  BY <1>1, <1>2, <1>4
<1>6. d.took = c.took /\ d.rule = c.rule /\ d.probe = c.probe /\ d.m = m /\ d.i = i /\ d.alt = 0
  BY <1>1, <1>2, <1>4
<1> QED BY <1>2, <1>3, <1>5, <1>6

LEMMA FrameEntered ==
    ASSUME NEW R, NEW P, NEW rule \in R, NEW p \in P, NEW took \in Nat, NEW probe \in BOOLEAN
    PROVE  LET d == Enter(rule, p, took, probe)
           IN  /\ d \in FramesOver(R, P) /\ d.pos = p /\ d.took = took /\ d.rule = rule /\ d.probe = probe
               /\ d.m = 1 /\ d.i = 0 /\ d.alt = 0 /\ ~d.committed
BY DEF FramesOver, Enter

LEMMA FrameItself ==
    ASSUME NEW R, NEW P, NEW c \in FramesOver(R, P)
    PROVE  c = [c EXCEPT !.committed = c.committed]
BY DEF FramesOver

LEMMA FramesAre == Frames = FramesOver(DOMAIN parser.rules, Positions)
BY DEF Frames, FramesOver

-----------------------------------------------------------------------------
(* Stacks of the same calls. *)

\* The frames under the top are those of calls, except that a probe among them
\* may have been settled.
Alike(cs) ==
    /\ cs \in Seq(Frames)
    /\ Len(cs) = Len(calls)
    /\ \A f \in 1..Len(calls) - 1 : cs[f] = [calls[f] EXCEPT !.committed = cs[f].committed]

LEMMA CallsAlike ==
    ASSUME TypeOK
    PROVE  Alike(calls)
<1>1. calls \in Seq(Frames)
  BY DEF TypeOK
<1>2. ASSUME NEW f \in 1..Len(calls) - 1 PROVE calls[f] = [calls[f] EXCEPT !.committed = calls[f].committed]
  <2>1. calls[f] \in Frames
    BY <1>1
  <2> QED BY <2>1, FrameItself, FramesAre
<1> QED BY <1>1, <1>2 DEF Alike

LEMMA PutAlike ==
    ASSUME NEW cs, Alike(cs), calls # <<>>, TypeOK, NEW c \in Frames
    PROVE  Alike(PutTop(cs, c)) /\ Last(PutTop(cs, c)) = c
<1>1. cs \in Seq(Frames) /\ cs # <<>> /\ Len(cs) = Len(calls)
  BY TopType DEF Alike
<1>2. /\ PutTop(cs, c) \in Seq(Frames) /\ Len(PutTop(cs, c)) = Len(cs) /\ Last(PutTop(cs, c)) = c
      /\ \A f \in 1..Len(cs) - 1 : PutTop(cs, c)[f] = cs[f]
  BY <1>1, PutOn
<1> HIDE DEF PutTop
<1> QED BY <1>1, <1>2 DEF Alike

LEMMA CommitAlike ==
    ASSUME NEW cs, Alike(cs), calls # <<>>, TypeOK, NEW p
    PROVE  LET ds == CommitRule(cs, p)
           IN  Alike(ds) /\ Last(ds) \in {Last(cs), [Last(cs) EXCEPT !.committed = TRUE]}
<1> DEFINE ds == CommitRule(cs, p)
<1>1. cs \in Seq(Frames) /\ cs # <<>> /\ Len(cs) = Len(calls) /\ Len(cs) \in Nat \ {0}
  BY TopType DEF Alike
<1>2. ASSUME NEW f \in 1..Len(cs) PROVE ds[f] \in Frames /\ ds[f] \in {cs[f], [cs[f] EXCEPT !.committed = TRUE]}
  <2>1. cs[f] \in Frames /\ f \in DOMAIN cs
    BY <1>1
  <2>2. ds[f] \in {cs[f], [cs[f] EXCEPT !.committed = TRUE]}
    BY <2>1 DEF CommitRule
  <2>3. [cs[f] EXCEPT !.committed = TRUE] \in Frames
    BY <2>1, FrameCommitted, FramesAre
  <2> QED BY <2>1, <2>2, <2>3
<1>3. ds = [f \in 1..Len(cs) |-> ds[f]]
  BY <1>1 DEF CommitRule
<1> HIDE DEF ds
<1>4. ds \in Seq(Frames) /\ Len(ds) = Len(cs)
  BY <1>1, <1>2, <1>3
<1>5. Last(ds) \in {Last(cs), [Last(cs) EXCEPT !.committed = TRUE]}
  BY <1>1, <1>2, <1>4 DEF Last
<1>6. ASSUME NEW f \in 1..Len(calls) - 1 PROVE ds[f] = [calls[f] EXCEPT !.committed = ds[f].committed]
  <2>1. f \in 1..Len(cs) /\ calls[f] \in Frames /\ cs[f] = [calls[f] EXCEPT !.committed = cs[f].committed]
    BY <1>1 DEF Alike, TypeOK
  <2>2. ds[f] \in {cs[f], [cs[f] EXCEPT !.committed = TRUE]}
    BY <2>1, <1>2
  <2>3. CASE ds[f] = cs[f]
    BY <2>1, <2>3
  <2>4. CASE ds[f] = [cs[f] EXCEPT !.committed = TRUE]
    <3>1. ds[f] = [[calls[f] EXCEPT !.committed = cs[f].committed] EXCEPT !.committed = TRUE]
      BY <2>1, <2>4
    <3>2. ds[f].committed = TRUE /\ ds[f] = [calls[f] EXCEPT !.committed = TRUE]
      BY <2>1, <3>1 DEF Frames
    <3> QED BY <3>2
  <2> QED BY <2>2, <2>3, <2>4
<1> QED BY <1>4, <1>5, <1>6, <1>1 DEF Alike, ds

LEMMA ClaimantsAlike ==
    ASSUME NEW cs, Alike(cs), TypeOK, calls # <<>>, NEW f \in 1..Len(calls) - 1, NEW token
    PROVE  f \in Claimants(cs, token) <=> f \in Claimants(calls, token)
<1>1. /\ calls[f] \in Frames /\ f \in DOMAIN cs /\ f \in DOMAIN calls
      /\ cs[f] = [calls[f] EXCEPT !.committed = cs[f].committed]
  BY TopType DEF Alike
<1>2. cs[f].rule = calls[f].rule /\ cs[f].m = calls[f].m
  BY <1>1 DEF Frames
<1>3. SiteOf(cs[f]) = SiteOf(calls[f])
  BY <1>2 DEF SiteOf
<1> QED BY <1>1, <1>3 DEF Claimants

LEMMA UnclaimedAlike ==
    ASSUME NEW cs, Alike(cs), TypeOK, calls # <<>>, NEW p, NEW k, Unclaimed(cs, p, k)
    PROVE  Unclaimed(calls, p, k)
BY ClaimantsAlike DEF Unclaimed, Alike

-----------------------------------------------------------------------------
(* The kinds of steps. *)

\* A step within the rule function on top: its frame and the recovery state
\* after it.  What it drops it counts, and no enclosing rule claims it; the
\* rule that is unwound to stays the same.
TurnTo(c, r) ==
    /\ c \in Frames /\ c.rule = Top.rule /\ c.probe = Top.probe
    /\ Placed(c)
    /\ Owed(c) <= r.skipped
    /\ r \in RecoveryStates(Len(calls))
    /\ recovery.skipped <= r.skipped
    /\ recovery.skipped <= MaxTotalSkipped + 1 => r.skipped <= MaxTotalSkipped + 1
    /\ recovery.skipped < r.skipped => Top.pos # Lost /\ Unclaimed(calls, Top.pos, c.pos - Top.pos)
    /\ recovery.unwind > 0 => r.unwind = recovery.unwind
    /\ r.unwind > 0 => \/ ~Open(c)
                       \/ recovery.unwind > 0 /\ answer.kind = "none" /\ Open(Top)

Turn(cs, r) == Alike(cs) /\ TurnTo(Last(cs), r)

Turns == calls # <<>> /\ \E cs, r : Turn(cs, r) /\ Continue(cs, r)

\* Every rule function but the innermost waits, at a rule of its own body, for
\* the one above it, and probes if it can do without; main is under them all.
CallsFollowTheGrammar ==
    /\ calls # <<>> => calls[1].rule = Main /\ ~calls[1].probe
    /\ \A f \in 1..Len(calls) - 1 :
          /\ Waiting(calls[f])
          /\ calls[f + 1].rule = SymbolOf(calls[f])
          /\ calls[f + 1].probe <=> ~Required(calls[f])

\* What holds of the stack between two steps.
Standing ==
    /\ TypeOK
    /\ \A f \in DOMAIN calls : Placed(calls[f]) /\ Owed(calls[f]) <= recovery.skipped
    /\ answer.kind = "matched" => Owed(answer) <= recovery.skipped
    /\ calls # <<>> /\ answer.kind # "none" => Waiting(Top)
    /\ CallsFollowTheGrammar

LEMMA TopStands ==
    ASSUME Standing, calls # <<>>
    PROVE  /\ TypeOK /\ Placed(Top) /\ Owed(Top) <= recovery.skipped /\ Owed(Top) \in Int
           /\ answer.kind # "none" => Waiting(Top)
<1>1. TypeOK
  BY DEF Standing
<1>2. Top = calls[Len(calls)] /\ Len(calls) \in DOMAIN calls
  BY <1>1, TopType
<1>3. Owed(Top) \in Int
  BY <1>1, TopType, RemainingType DEF Owed
<1> QED BY <1>1, <1>2, <1>3 DEF Standing

LEMMA TurnPut ==
    ASSUME TypeOK, calls # <<>>, NEW cs, Alike(cs), NEW c, NEW r, TurnTo(c, r), NEW p
    PROVE  Turn(PutTop(cs, c), r) /\ Turn(CommitRule(PutTop(cs, c), p), r)
<1> DEFINE e == [c EXCEPT !.committed = TRUE]
<1>1. c \in Frames
  BY DEF TurnTo
<1>2. Turn(PutTop(cs, c), r)
  BY <1>1, PutAlike DEF Turn
<1>3. e \in Frames /\ e.pos = c.pos /\ e.took = c.took /\ SamePlace(e, c) /\ e.alt = c.alt
  BY <1>1, FrameCommitted, FramesAre
<1> HIDE DEF e
<1>4. TurnTo(e, r)
  <2>1. e.rule = c.rule /\ e.probe = c.probe /\ e.m = c.m /\ e.i = c.i /\ e.alt = c.alt
    BY <1>3 DEF SamePlace
  <2>2. (Placed(e) <=> Placed(c)) /\ (Open(e) <=> Open(c))
    BY <2>1, PlacedAlike
  <2>3. Owed(e) = Owed(c)
    BY <1>3 DEF Owed
  <2> QED BY <2>1, <2>2, <2>3, <1>3 DEF TurnTo
<1>5. Alike(PutTop(cs, c)) /\ Last(PutTop(cs, c)) = c
  BY <1>1, PutAlike
<1>6. /\ Alike(CommitRule(PutTop(cs, c), p))
      /\ Last(CommitRule(PutTop(cs, c), p)) \in {c, e}
  BY <1>5, CommitAlike DEF e
<1>7. Turn(CommitRule(PutTop(cs, c), p), r)
  <2>1. TurnTo(c, r)
    OBVIOUS
  <2>2. TurnTo(Last(CommitRule(PutTop(cs, c), p)), r)
    BY <1>4, <1>6, <2>1
  <2> QED BY <1>6, <2>2 DEF Turn
<1> QED BY <1>2, <1>7

LEMMA MatchedType ==
    ASSUME NEW n, NEW r \in RecoveryStates(n)
    PROVE  Matched(r) \in RecoveryStates(n) /\ Matched(r).skipped = r.skipped /\ Matched(r).unwind = r.unwind
<1> DEFINE P == Positions \cup {Never}
           U == 0..n
<1>1. RecoveryStates(n) = [diagnostics : Nat, skipped : Nat, lastResume : P, unwind : U,
                           recovering : BOOLEAN, reported : BOOLEAN]
  BY DEF RecoveryStates
<1> HIDE DEF P, U
<1>2. ASSUME NEW b \in BOOLEAN PROVE [r EXCEPT !.recovering = b] \in RecoveryStates(n)
  BY <1>1
<1>3. [r EXCEPT !.recovering = FALSE] \in RecoveryStates(n)
  BY <1>2
<1>4. /\ [r EXCEPT !.recovering = FALSE].skipped = r.skipped
      /\ [r EXCEPT !.recovering = FALSE].unwind = r.unwind
  BY <1>1
<1> QED BY <1>3, <1>4 DEF Matched

\* A step that drops nothing.
LEMMA QuietTurn ==
    ASSUME Standing, calls # <<>>, NEW c \in Frames, c.rule = Top.rule, c.probe = Top.probe,
           Placed(c), Owed(c) <= recovery.skipped, NEW r \in {recovery, Matched(recovery)},
           recovery.unwind > 0 => \/ ~Open(c)
                                  \/ answer.kind = "none" /\ Open(Top)
    PROVE  TurnTo(c, r)
<1>1. recovery \in RecoveryStates(Len(calls)) /\ recovery.skipped \in Nat
  BY TopStands, TopType
<1>2. r \in RecoveryStates(Len(calls)) /\ r.skipped = recovery.skipped /\ r.unwind = recovery.unwind
  BY <1>1, MatchedType
<1>3. /\ Owed(c) <= r.skipped
      /\ recovery.skipped <= r.skipped
      /\ recovery.skipped <= MaxTotalSkipped + 1 => r.skipped <= MaxTotalSkipped + 1
      /\ ~(recovery.skipped < r.skipped)
  BY <1>1, <1>2
<1>4. /\ recovery.unwind > 0 => r.unwind = recovery.unwind
      /\ r.unwind > 0 => \/ ~Open(c)
                         \/ recovery.unwind > 0 /\ answer.kind = "none" /\ Open(Top)
  BY <1>2
<1> QED BY <1>2, <1>3, <1>4 DEF TurnTo

\* A step that repairs.
LEMMA RepairTurn ==
    ASSUME Standing, calls # <<>>, NEW c \in Frames, c.rule = Top.rule, c.probe = Top.probe,
           c.took = Top.took, Placed(c), NEW r, Drops(calls, Top.pos, recovery, c.pos, r),
           recovery.unwind > 0 => r.unwind = recovery.unwind,
           r.unwind > 0 => \/ ~Open(c)
                           \/ recovery.unwind > 0 /\ answer.kind = "none" /\ Open(Top)
    PROVE  TurnTo(c, r)
<1>1. TypeOK /\ Top.pos \in Positions /\ Top.took \in Nat /\ recovery.skipped \in Nat
      /\ Owed(Top) <= recovery.skipped
  BY TopStands, TopType
<1>2. c.pos \in Positions /\ r.skipped \in Nat /\ r \in RecoveryStates(Len(calls))
  BY DEF Drops, RecoveryStates
<1>3. Cursor(c.pos) \in Nat /\ Cursor(Top.pos) \in Nat
  BY <1>1, <1>2, RemainingType
<1>4. Cursor(c.pos) - Cursor(Top.pos) <= r.skipped - recovery.skipped
  BY DEF Drops
<1>5. Owed(c) <= r.skipped
  BY <1>1, <1>2, <1>3, <1>4 DEF Owed
<1>6. recovery.skipped < r.skipped => Top.pos # Lost /\ Unclaimed(calls, Top.pos, c.pos - Top.pos)
  BY <1>1, <1>2 DEF Drops
<1>7. /\ recovery.skipped <= r.skipped
      /\ recovery.skipped <= MaxTotalSkipped + 1 => r.skipped <= MaxTotalSkipped + 1
  BY DEF Drops
<1> QED BY <1>2, <1>5, <1>6, <1>7 DEF TurnTo

-----------------------------------------------------------------------------
(* Every step is of one of these kinds. *)

\* A recovery state in which nothing was lost.
Kept(r) ==
    /\ r \in RecoveryStates(Len(calls))
    /\ recovery.skipped <= r.skipped
    /\ recovery.skipped <= MaxTotalSkipped + 1 => r.skipped <= MaxTotalSkipped + 1
    /\ recovery.unwind > 0 => r.unwind = recovery.unwind

Stops == calls # <<>> /\ \E how \in {"thrown", "crashed"}, r \in RecoveryStates(Len(calls)) : Kept(r) /\ Stop(how, r)

\* A rule that matched has settled nothing but itself; one that is absent has
\* an enclosing probe, or was itself one, that has seen nothing.
Leaves ==
    /\ calls # <<>>
    /\ \E kind \in {"matched", "failed", "absent"}, p \in Positions, r \in RecoveryStates(Len(calls)) :
          /\ Kept(r) /\ Leave(kind, p, r) /\ r.unwind = recovery.unwind
          /\ kind = "matched" => p = Top.pos /\ r = recovery
          /\ kind = "absent" => AbsentRule(calls) \/ (answer.kind = "absent" /\ ~answer.probe)

Calls ==
    /\ calls # <<>>
    /\ AtRule
    /\ \E probe \in BOOLEAN : Call(probe) /\ (probe <=> ~Required(Top))
    /\ recovery.unwind > 0 => AtomOf(Top).q = "?"

LEMMA ForwardPlaced ==
    ASSUME TypeOK, NEW c \in Frames, InBody(c)
    PROVE  LET d == Forward(c)
           IN  /\ d \in Frames /\ d.pos = c.pos /\ d.took = c.took /\ d.rule = c.rule /\ d.probe = c.probe
               /\ Placed(d) /\ ~Open(d)
<1> DEFINE d == Forward(c)
<1>1. /\ c.m \in Nat \ {0} /\ c.i \in Nat \ {0} /\ c.i <= Len(MemberOf(c).body)
      /\ c.m <= Len(RuleOf(c)) /\ Len(RuleOf(c)) \in Nat /\ Len(MemberOf(c).body) \in Nat
  BY RuleType DEF InBody
<1>2. /\ d \in Frames /\ d.pos = c.pos /\ d.took = c.took /\ d.rule = c.rule /\ d.probe = c.probe
      /\ d.m = c.m /\ d.i = c.i + 1 /\ d.alt = 0
  <2> DEFINE i == c.i + 1
             m == c.m
  <2>1. d = At(c, m, i)
    BY DEF Forward
  <2>2. m \in Nat \ {0} /\ i \in Nat
    BY <1>1
  <2> HIDE DEF d, m, i
  <2>3. /\ d \in Frames /\ d.pos = c.pos /\ d.took = c.took /\ d.rule = c.rule /\ d.probe = c.probe
        /\ d.m = m /\ d.i = i /\ d.alt = 0
    BY <2>1, <2>2, FrameAt, FramesAre
  <2> QED BY <2>3 DEF m, i
<1> HIDE DEF d
<1>3. RuleOf(d) = RuleOf(c) /\ MemberOf(d) = MemberOf(c)
  BY <1>2 DEF RuleOf, MemberOf
<1>4. InBody(d) => Len(AtomOf(d).syms) \in Nat
  BY <1>2, RuleType
<1>5. Placed(d)
  BY <1>1, <1>2, <1>3, <1>4 DEF Placed
<1>6. ~Open(d)
  BY <1>1, <1>2 DEF Open
<1> QED BY <1>2, <1>5, <1>6 DEF d

LEMMA DonePlaced ==
    ASSUME TypeOK, NEW c \in Frames, InBody(c), Placed(c)
    PROVE  LET d == Done(c)
           IN  /\ d \in Frames /\ d.pos = c.pos /\ d.took = c.took /\ d.rule = c.rule /\ d.probe = c.probe
               /\ Placed(d) /\ ~Open(d)
<1>1. CASE AtomOf(c).q # "+"
  <2>1. Done(c) = Forward(c)
    BY <1>1 DEF Done
  <2> QED BY <2>1, ForwardPlaced
<1>2. CASE AtomOf(c).q = "+"
  <2> DEFINE d == [c EXCEPT !.started = TRUE, !.retries = 0]
  <2>1. Done(c) = d
    BY <1>2 DEF Done
  <2>2. d \in Frames /\ d.pos = c.pos /\ d.took = c.took /\ SamePlace(d, c) /\ d.alt = c.alt
    BY FrameStarted, FramesAre
  <2> HIDE DEF d
  <2>3. d.rule = c.rule /\ d.probe = c.probe /\ d.m = c.m /\ d.i = c.i
    BY <2>2 DEF SamePlace
  <2>4. Placed(d) /\ (Open(d) <=> Open(c))
    BY <2>2, <2>3, PlacedAlike
  <2>5. ~Open(c)
    <3>1. c.i # 0
      BY RuleType
    <3> QED BY <3>1, <1>2 DEF Open
  <2> QED BY <2>1, <2>2, <2>3, <2>4, <2>5
<1> QED BY <1>1, <1>2

LEMMA KeptItself ==
    ASSUME TypeOK, calls # <<>>
    PROVE  Kept(recovery)
<1>1. recovery \in RecoveryStates(Len(calls)) /\ recovery.skipped \in Nat
  BY TopType
<1> QED BY <1>1 DEF Kept

\* The handler is asked in the body of a member, when no rule is on its way out.
LEMMA AskHandlerTurns ==
    ASSUME Standing, calls # <<>>, InBody(Top), recovery.unwind = 0, AskHandler
    PROVE  Turns \/ Stops
<1> DEFINE repair == ChooseRepair(calls, SiteOf(Top), Top.pos, recovery)
           mode == ModeAfter(repair, recovery)
           p == Top.pos + repair.dropped
           r == Counted(repair, recovery)
           after == IF mode = "Propagate" THEN RecoverAtContext(calls, p, r) ELSE [pos |-> p, r |-> r]
           q == after.pos
           s == after.r
<1>1. /\ TypeOK /\ calls \in Seq(Frames) /\ Top \in Frames /\ Top.pos \in Positions /\ Placed(Top)
      /\ recovery \in RecoveryStates(Len(calls))
  BY TopStands, TopType
<1>2. Drops(calls, Top.pos, recovery, p, r) /\ r.unwind = 0
  BY <1>1, HandlerDrops
<1>3. \/ /\ Top.retries < RetryLimit(mode)
         /\ Continue(PutTop(calls, [Top EXCEPT !.pos = p, !.retries = @ + 1]), r)
      \/ Stop("thrown", s)
      \/ Continue(PutTop(calls, Forward([Top EXCEPT !.pos = q])), s)
  <2>1. PICK x \in {repair} :
          \E y \in {ModeAfter(x, recovery)} :
          \E local \in {[pos |-> Top.pos + x.dropped, r |-> Counted(x, recovery)]} :
          \E z \in {IF y = "Propagate" THEN RecoverAtContext(calls, local.pos, local.r) ELSE local} :
              IF Top.retries < RetryLimit(y)
              THEN Continue(PutTop(calls, [Top EXCEPT !.pos = local.pos, !.retries = @ + 1]), local.r)
              ELSE IF Throws(y, z.pos, z.r) THEN Stop("thrown", z.r)
              ELSE Continue(PutTop(calls, Forward([Top EXCEPT !.pos = z.pos])), z.r)
    BY DEF AskHandler
  <2>2. x = repair
    OBVIOUS
  <2> DEFINE local == [pos |-> p, r |-> r]
  <2>3. local.pos = p /\ local.r = r
    OBVIOUS
  <2>4. \E z \in {IF mode = "Propagate" THEN RecoverAtContext(calls, local.pos, local.r) ELSE local} :
              IF Top.retries < RetryLimit(mode)
              THEN Continue(PutTop(calls, [Top EXCEPT !.pos = local.pos, !.retries = @ + 1]), local.r)
              ELSE IF Throws(mode, z.pos, z.r) THEN Stop("thrown", z.r)
              ELSE Continue(PutTop(calls, Forward([Top EXCEPT !.pos = z.pos])), z.r)
    BY <2>1, <2>2
  <2>5. after = IF mode = "Propagate" THEN RecoverAtContext(calls, local.pos, local.r) ELSE local
    BY <2>3
  <2> HIDE DEF after, mode, p, r, local
  <2> QED BY <2>3, <2>4, <2>5
<1> HIDE DEF repair, mode, p, r
<1>4. p \in Positions /\ r \in RecoveryStates(Len(calls))
  BY <1>2 DEF Drops
<1>5. Drops(calls, Top.pos, recovery, q, s)
  <2>1. CASE mode = "Propagate"
    <3>1. after = RecoverAtContext(calls, p, r)
      BY <2>1
    <3>2. Drops(calls, p, r, after.pos, after.r)
      BY <3>1, <1>1, <1>4, ContextDrops
    <3> HIDE DEF after
    <3> QED BY <3>2, <1>1, <1>2, DropsCompose
  <2>2. CASE mode # "Propagate"
    <3>1. q = p /\ s = r
      BY <2>2
    <3> QED BY <3>1, <1>2
  <2> QED BY <2>1, <2>2
<1> HIDE DEF after, q, s
<1>6. CASE Top.retries < RetryLimit(mode) /\ Continue(PutTop(calls, [Top EXCEPT !.pos = p, !.retries = @ + 1]), r)
  <2> DEFINE n == Top.retries + 1
             c == [Top EXCEPT !.pos = p, !.retries = n]
  <2>1. RetryLimit(mode) \in {0, 1, 2}
    BY DEF RetryLimit
  <2>2. Top.retries \in 0..2
    BY <1>1 DEF Frames
  <2>3. n \in 0..2
    BY <1>6, <2>1, <2>2
  <2>4. c = [Top EXCEPT !.pos = p, !.retries = @ + 1]
    BY <1>1 DEF Frames
  <2> HIDE DEF n
  <2>5. c \in Frames /\ c.pos = p /\ c.took = Top.took /\ SamePlace(c, Top) /\ c.alt = Top.alt
    <3>1. Top \in FramesOver(DOMAIN parser.rules, Positions)
      BY <1>1, FramesAre
    <3>2. Retried(Top, p, n) = c
      BY DEF Retried
    <3> HIDE DEF c
    <3> QED BY <3>1, <3>2, <1>4, <2>3, FrameRetried, FramesAre
  <2> HIDE DEF c
  <2>6. c.rule = Top.rule /\ c.probe = Top.probe /\ c.m = Top.m /\ c.i = Top.i
    BY <2>5 DEF SamePlace
  <2>7. Placed(c)
    BY <2>5, <2>6, <1>1, PlacedAlike
  <2>8. TurnTo(c, r)
    BY <2>5, <2>6, <2>7, <1>2, RepairTurn
  <2>9. Turn(PutTop(calls, c), r)
    BY <2>8, <1>1, CallsAlike, TurnPut
  <2> QED BY <2>9, <2>4, <1>6 DEF Turns
<1>7. CASE Stop("thrown", s)
  <2>1. Kept(s)
    BY <1>5 DEF Kept, Drops
  <2> QED BY <2>1, <1>7 DEF Stops, Kept
<1>8. CASE Continue(PutTop(calls, Forward([Top EXCEPT !.pos = q])), s)
  <2> DEFINE c == [Top EXCEPT !.pos = q]
             d == Forward(c)
  <2>1. q \in Positions
    BY <1>5 DEF Drops
  <2>2. c \in Frames /\ c.pos = q /\ c.took = Top.took /\ SamePlace(c, Top) /\ c.alt = Top.alt
    BY <1>1, <2>1, FrameMoved, FramesAre
  <2> HIDE DEF c
  <2>3. c.rule = Top.rule /\ c.probe = Top.probe /\ InBody(c)
    BY <2>2, PlacedAlike DEF SamePlace
  <2>4. /\ d \in Frames /\ d.pos = c.pos /\ d.took = c.took /\ d.rule = c.rule /\ d.probe = c.probe
        /\ Placed(d) /\ ~Open(d)
    BY <1>1, <2>2, <2>3, ForwardPlaced
  <2> HIDE DEF d
  <2>5. TurnTo(d, s)
    BY <2>2, <2>3, <2>4, <1>5, RepairTurn
  <2>6. Turn(PutTop(calls, d), s)
    BY <2>5, <1>1, CallsAlike, TurnPut
  <2> QED BY <2>6, <1>8 DEF Turns, d, c
<1> QED BY <1>3, <1>6, <1>7, <1>8

\* A loop ends, perhaps after skipping.
LEMMA EndLoopTurns ==
    ASSUME Standing, calls # <<>>, NEW cs, Alike(cs), Last(cs) \in Frames, SamePlace(Last(cs), Top),
           Last(cs).pos = Top.pos, Last(cs).took = Top.took, InBody(Top), EndLoop(cs, recovery)
    PROVE  Turns
<1> DEFINE c == Last(cs)
           synced == SyncLoop(cs, c.pos, recovery)
           q == synced.pos
           s == synced.r
           d == [c EXCEPT !.pos = q]
           e == Forward(d)
<1>1. /\ TypeOK /\ Top.pos \in Positions /\ cs \in Seq(Frames) /\ cs # <<>> /\ Len(cs) = Len(calls)
      /\ recovery \in RecoveryStates(Len(calls))
  BY TopStands, TopType DEF Alike
<1>2. Continue(PutTop(cs, e), s)
  BY DEF EndLoop
<1>3. Drops(cs, Top.pos, recovery, q, s) /\ (recovery.unwind > 0 => s.unwind = recovery.unwind)
  <2>1. c.pos \in Positions /\ recovery \in RecoveryStates(Len(cs))
    BY <1>1
  <2>2. Drops(cs, c.pos, recovery, q, s) /\ (recovery.unwind > 0 => s.unwind = recovery.unwind)
    BY <1>1, <2>1, SyncDrops
  <2> HIDE DEF q, s
  <2> QED BY <2>2
<1> HIDE DEF c, synced
<1>4. Drops(calls, Top.pos, recovery, q, s)
  BY <1>1, <1>3, UnclaimedAlike DEF Drops
<1>5. q \in Positions
  BY <1>3 DEF Drops
<1> HIDE DEF q, s
<1>6. d \in Frames /\ d.pos = q /\ d.took = c.took /\ SamePlace(d, c) /\ d.alt = c.alt
  BY <1>5, FrameMoved, FramesAre DEF c
<1> HIDE DEF d
<1>7. d.rule = Top.rule /\ d.probe = Top.probe /\ d.m = Top.m /\ d.i = Top.i
  BY <1>6 DEF SamePlace, c
<1>8. InBody(d)
  BY <1>7, PlacedAlike
<1>9. /\ e \in Frames /\ e.pos = d.pos /\ e.took = d.took /\ e.rule = d.rule /\ e.probe = d.probe
      /\ Placed(e) /\ ~Open(e)
  BY <1>1, <1>6, <1>8, ForwardPlaced
<1> HIDE DEF e
<1>10. TurnTo(e, s)
  <2>1. e.took = Top.took
    BY <1>6, <1>9 DEF c
  <2> QED BY <2>1, <1>3, <1>4, <1>6, <1>7, <1>9, RepairTurn
<1>11. Turn(PutTop(cs, e), s)
  BY <1>10, <1>1, TurnPut
<1> QED BY <1>11, <1>2 DEF Turns

LEMMA AtPlaced ==
    ASSUME TypeOK, NEW c \in Frames, NEW m \in Nat \ {0}, NEW i \in {0, 1},
           m <= Len(RuleOf(c)) + 1, i = 1 => m <= Len(RuleOf(c))
    PROVE  LET d == At(c, m, i)
           IN  /\ d \in Frames /\ d.pos = c.pos /\ d.took = c.took /\ d.rule = c.rule /\ d.probe = c.probe
               /\ d.m = m /\ d.i = i /\ Placed(d) /\ RuleOf(d) = RuleOf(c)
               /\ m = c.m => MemberOf(d) = MemberOf(c)
<1> DEFINE d == At(c, m, i)
<1>1. i \in Nat /\ Len(RuleOf(c)) \in Nat
  BY RuleType
<1>2. /\ d \in Frames /\ d.pos = c.pos /\ d.took = c.took /\ d.rule = c.rule /\ d.probe = c.probe
      /\ d.m = m /\ d.i = i /\ d.alt = 0
  <2>1. c \in FramesOver(DOMAIN parser.rules, Positions)
    BY FramesAre
  <2>2. ASSUME NEW n \in Nat
        PROVE  /\ At(c, m, n) \in Frames /\ At(c, m, n).pos = c.pos /\ At(c, m, n).took = c.took
               /\ At(c, m, n).rule = c.rule /\ At(c, m, n).probe = c.probe
               /\ At(c, m, n).m = m /\ At(c, m, n).i = n /\ At(c, m, n).alt = 0
    BY <2>1, FrameAt, FramesAre
  <2> QED BY <1>1, <2>2
<1> HIDE DEF d
<1>3. RuleOf(d) = RuleOf(c) /\ (m = c.m => MemberOf(d) = MemberOf(c))
  BY <1>2 DEF RuleOf, MemberOf
<1>4. d.m <= Len(RuleOf(d)) => Len(MemberOf(d).body) \in Nat
  BY <1>2, RuleType
<1>5. InBody(d) => Len(AtomOf(d).syms) \in Nat
  BY <1>2, RuleType
<1>6. Placed(d)
  BY <1>1, <1>2, <1>3, <1>4, <1>5 DEF Placed
<1> QED BY <1>2, <1>3, <1>6 DEF d

LEMMA QuietContinues ==
    ASSUME Standing, calls # <<>>, NEW c, NEW r, TurnTo(c, r), NEW p,
           \/ Continue(PutTop(calls, c), r)
           \/ Continue(CommitRule(PutTop(calls, c), p), r)
    PROVE  Turns
<1>1. TypeOK
  BY TopStands
<1>2. Turn(PutTop(calls, c), r) /\ Turn(CommitRule(PutTop(calls, c), p), r)
  BY <1>1, CallsAlike, TurnPut
<1> QED BY <1>2 DEF Turns

LEMMA EndRuleLeaves ==
    ASSUME Standing, EndRule
    PROVE  Leaves
<1>1. calls # <<>> /\ Leave("matched", Top.pos, recovery)
  BY DEF EndRule, BetweenMembers, Working
<1>2. TypeOK /\ Top.pos \in Positions
  BY <1>1, TopStands, TopType
<1>3. Kept(recovery)
  BY <1>1, <1>2, KeptItself
<1> QED BY <1>1, <1>2, <1>3 DEF Leaves, Kept

LEMMA StartMemberTurns ==
    ASSUME Standing, StartMember
    PROVE  Turns
<1>1. /\ calls # <<>> /\ answer.kind = "none" /\ Top.i = 0
      /\ ~(Top.m > Len(RuleOf(Top))) /\ ~(recovery.unwind > 0)
  BY DEF StartMember, BetweenMembers, Working, RuleOver
<1>2. TypeOK /\ Top \in Frames /\ Owed(Top) <= recovery.skipped
  BY <1>1, TopStands, TopType
<1>3. Top.m \in Nat \ {0} /\ Len(RuleOf(Top)) \in Nat /\ Top.m <= Len(RuleOf(Top))
  BY <1>1, <1>2, RuleType
<1>4. recovery.unwind > 0 => Open(Top)
  BY <1>1, <1>3 DEF Open
<1>5. ASSUME NEW m \in Nat \ {0}, NEW i \in {0, 1}, m <= Len(RuleOf(Top)) + 1,
             i = 1 => m <= Len(RuleOf(Top)), Continue(PutTop(calls, At(Top, m, i)), recovery)
      PROVE  Turns
  <2> DEFINE d == At(Top, m, i)
  <2>1. /\ d \in Frames /\ d.pos = Top.pos /\ d.took = Top.took /\ d.rule = Top.rule /\ d.probe = Top.probe
        /\ Placed(d)
    BY <1>2, <1>5, AtPlaced
  <2> HIDE DEF d
  <2>2. Owed(d) <= recovery.skipped
    BY <1>2, <2>1 DEF Owed
  <2>3. TurnTo(d, recovery)
    BY <2>1, <2>2, <1>1, <1>4, QuietTurn
  <2> QED BY <2>3, <1>1, <1>5, QuietContinues DEF d
<1>6. CASE Continue(PutTop(calls, At(Top, Top.m + 1, 0)), recovery)
  <2> DEFINE m == Top.m + 1
  <2>1. m \in Nat \ {0} /\ m <= Len(RuleOf(Top)) + 1
    BY <1>3
  <2>2. Continue(PutTop(calls, At(Top, m, 0)), recovery)
    BY <1>6
  <2> HIDE DEF m
  <2> QED BY <2>1, <2>2, <1>5
<1>7. CASE Continue(PutTop(calls, At(Top, Top.m, 1)), recovery)
  BY <1>7, <1>3, <1>5
<1> QED BY <1>6, <1>7 DEF StartMember

LEMMA EndBodyTurns ==
    ASSUME Standing, EndBody
    PROVE  Turns
<1>1. calls # <<>> /\ answer.kind = "none" /\ Top.i > 0 /\ ~InBody(Top)
  BY DEF EndBody, Working
<1>2. TypeOK /\ Top \in Frames /\ Owed(Top) <= recovery.skipped /\ Placed(Top)
  BY <1>1, TopStands, TopType
<1>3. Top.m \in Nat \ {0} /\ Len(RuleOf(Top)) \in Nat /\ Top.i \in Nat
  BY <1>1, <1>2, RuleType
<1>4. Top.m <= Len(RuleOf(Top))
  BY <1>1, <1>2, <1>3 DEF Placed
<1>5. ASSUME NEW m \in Nat \ {0}, NEW i \in {0, 1}, m <= Len(RuleOf(Top)) + 1,
             i = 1 => m <= Len(RuleOf(Top)), Continue(PutTop(calls, At(Top, m, i)), recovery),
             ~Open(At(Top, m, i))
      PROVE  Turns
  <2> DEFINE d == At(Top, m, i)
  <2>1. /\ d \in Frames /\ d.pos = Top.pos /\ d.took = Top.took /\ d.rule = Top.rule /\ d.probe = Top.probe
        /\ Placed(d)
    BY <1>2, <1>5, AtPlaced
  <2>2. ~Open(d)
    BY <1>5
  <2> HIDE DEF d
  <2>3. Owed(d) <= recovery.skipped
    BY <1>2, <2>1 DEF Owed
  <2>4. TurnTo(d, recovery)
    BY <2>1, <2>2, <2>3, <1>1, QuietTurn
  <2> QED BY <2>4, <1>1, <1>5, QuietContinues DEF d
<1>6. CASE Continue(PutTop(calls, At(Top, Top.m + 1, 0)), recovery)
  <2> DEFINE m == Top.m + 1
  <2>1. m \in Nat \ {0} /\ m <= Len(RuleOf(Top)) + 1 /\ m # 1
    BY <1>3, <1>4
  <2>2. Continue(PutTop(calls, At(Top, m, 0)), recovery)
    BY <1>6
  <2> HIDE DEF m
  <2>3. At(Top, m, 0).m = m /\ At(Top, m, 0).i = 0
    BY <1>2, <2>1, AtPlaced
  <2>4. ~Open(At(Top, m, 0))
    BY <2>1, <2>3 DEF Open
  <2> QED BY <2>1, <2>2, <2>4, <1>5
<1>7. CASE MemberOf(Top).q \in {"*", "+"} /\ Continue(PutTop(calls, At(Top, Top.m, 1)), recovery)
  <2>1. At(Top, Top.m, 1).i = 1 /\ MemberOf(At(Top, Top.m, 1)) = MemberOf(Top)
    BY <1>2, <1>3, <1>4, AtPlaced
  <2>2. ~Open(At(Top, Top.m, 1))
    BY <2>1, <1>7 DEF Open
  <2> QED BY <2>2, <1>7, <1>3, <1>4, <1>5
<1> QED BY <1>6, <1>7 DEF EndBody

\* A rule function goes on behind the atom it is at, or starts its further turns.
LEMMA ForwardTurn ==
    ASSUME Standing, calls # <<>>, InBody(Top), NEW c \in Frames, SamePlace(c, Top), c.alt = Top.alt,
           Owed(c) <= recovery.skipped, NEW r \in {recovery, Matched(recovery)}
    PROVE  TurnTo(Forward(c), r) /\ TurnTo(Done(c), r)
<1>1. TypeOK /\ Placed(Top)
  BY TopStands
<1>2. c.rule = Top.rule /\ c.probe = Top.probe /\ c.m = Top.m /\ c.i = Top.i
  BY DEF SamePlace
<1>3. InBody(c) /\ Placed(c)
  BY <1>1, <1>2, PlacedAlike
<1>4. ASSUME NEW d \in {Forward(c), Done(c)} PROVE TurnTo(d, r)
  <2>1. /\ d \in Frames /\ d.pos = c.pos /\ d.took = c.took /\ d.rule = c.rule /\ d.probe = c.probe
        /\ Placed(d) /\ ~Open(d)
    BY <1>1, <1>3, <1>4, ForwardPlaced, DonePlaced
  <2>2. Owed(d) <= recovery.skipped
    BY <2>1 DEF Owed
  <2> QED BY <2>1, <2>2, <1>2, QuietTurn
<1> QED BY <1>4

\* A token that is matched is not owed.
LEMMA MatchingToken ==
    ASSUME Standing, calls # <<>>, ~AtEnd(Top.pos)
    PROVE  LET c == Matching(Top.pos + 1)
           IN  c \in Frames /\ SamePlace(c, Top) /\ c.alt = Top.alt /\ Owed(c) <= recovery.skipped
<1> DEFINE c == Matching(Top.pos + 1)
           p == Top.pos + 1
           n == Top.took + 1
<1>1. TypeOK /\ Top \in Frames /\ Top.pos \in Positions /\ Top.took \in Nat /\ Owed(Top) <= recovery.skipped
  BY TopStands, TopType
<1>2. p \in Positions /\ Cursor(p) = Cursor(Top.pos) + 1 /\ Cursor(Top.pos) \in Nat
  BY <1>1, InsideInput, RemainingType
<1>3. n \in Nat
  BY <1>1
<1>4. c = [Top EXCEPT !.pos = p, !.took = n]
  BY <1>1 DEF Matching, Frames
<1> HIDE DEF c, p, n
<1>5. c \in Frames /\ c.pos = p /\ c.took = n /\ SamePlace(c, Top) /\ c.alt = Top.alt
  <2>1. Top \in FramesOver(DOMAIN parser.rules, Positions)
    BY <1>1, FramesAre
  <2>2. c = Took(Top, p, n)
    BY <1>4 DEF Took
  <2> QED BY <2>1, <2>2, <1>2, <1>3, FrameMatched, FramesAre
<1>6. Owed(c) <= recovery.skipped
  BY <1>1, <1>2, <1>5 DEF Owed, n
<1> QED BY <1>5, <1>6 DEF c, p

LEMMA TopItself ==
    ASSUME Standing, calls # <<>>
    PROVE  Top \in Frames /\ SamePlace(Top, Top) /\ Owed(Top) <= recovery.skipped /\ Owed(Top) \in Int
BY TopStands, TopType DEF SamePlace

LEMMA AbsentLeaves ==
    ASSUME Standing, calls # <<>>, AbsentRule(calls) \/ (answer.kind = "absent" /\ ~answer.probe),
           Leave("absent", Lost, recovery)
    PROVE  Leaves
<1>1. TypeOK
  BY TopStands
<1>2. Lost \in Positions
  BY <1>1, InputIsSequence DEF Lost, Positions
<1> QED BY <1>1, <1>2, KeptItself DEF Leaves, Kept

LEMMA RequiredTokenTurns ==
    ASSUME Standing, RequiredToken
    PROVE  Turns \/ Leaves \/ Stops
<1>1. calls # <<>> /\ InBody(Top)
  BY DEF RequiredToken, AtToken, AtSymbol, Working
<1>2. CASE recovery.unwind > 0 /\ Continue(PutTop(calls, Forward(Top)), recovery)
  <2>1. TurnTo(Forward(Top), recovery)
    BY <1>1, TopItself, ForwardTurn
  <2> QED BY <1>1, <1>2, <2>1, QuietContinues
<1>3. CASE Stop("crashed", recovery)
  <2>1. Kept(recovery)
    BY <1>1, TopStands, KeptItself
  <2> QED BY <1>1, <1>3, <2>1 DEF Stops, Kept
<1>4. CASE /\ TokenIsThere
           /\ Continue(CommitRule(PutTop(calls, Done(Matching(Top.pos + 1))), Top.pos + 1), Matched(recovery))
  <2>1. ~AtEnd(Top.pos)
    BY <1>4 DEF TokenIsThere
  <2>2. TurnTo(Done(Matching(Top.pos + 1)), Matched(recovery))
    BY <1>1, <2>1, MatchingToken, ForwardTurn
  <2> QED BY <1>1, <1>4, <2>2, QuietContinues
<1>5. CASE AbsentRule(calls) /\ Leave("absent", Lost, recovery)
  BY <1>1, <1>5, AbsentLeaves
<1>6. CASE recovery.unwind = 0 /\ AskHandler
  BY <1>1, <1>6, AskHandlerTurns
<1> QED BY <1>2, <1>3, <1>4, <1>5, <1>6 DEF RequiredToken

LEMMA OptionalTokenTurns ==
    ASSUME Standing, OptionalToken
    PROVE  Turns \/ Stops
<1>1. calls # <<>> /\ InBody(Top)
  BY DEF OptionalToken, AtToken, AtSymbol, Working
<1>2. CASE Stop("crashed", recovery)
  <2>1. Kept(recovery)
    BY <1>1, TopStands, KeptItself
  <2> QED BY <1>1, <1>2, <2>1 DEF Stops, Kept
<1>3. CASE /\ TokenIsThere
           /\ Continue(CommitRule(PutTop(calls, Forward(Matching(Top.pos + 1))), Top.pos + 1), recovery)
  <2>1. ~AtEnd(Top.pos)
    BY <1>3 DEF TokenIsThere
  <2>2. TurnTo(Forward(Matching(Top.pos + 1)), recovery)
    BY <1>1, <2>1, MatchingToken, ForwardTurn
  <2> QED BY <1>1, <1>3, <2>2, QuietContinues
<1>4. CASE Continue(PutTop(calls, Forward(Top)), recovery)
  <2>1. TurnTo(Forward(Top), recovery)
    BY <1>1, TopItself, ForwardTurn
  <2> QED BY <1>1, <1>4, <2>1, QuietContinues
<1> QED BY <1>2, <1>3, <1>4 DEF OptionalToken

LEMMA TopEndsLoop ==
    ASSUME Standing, calls # <<>>, InBody(Top), EndLoop(calls, recovery)
    PROVE  Turns
<1>1. Alike(calls) /\ Last(calls) = Top
  BY TopStands, CallsAlike DEF Top
<1> QED BY <1>1, TopItself, EndLoopTurns

LEMMA RepeatedTokenTurns ==
    ASSUME Standing, RepeatedToken
    PROVE  Turns
<1>1. calls # <<>> /\ InBody(Top) /\ Looping(Top)
  BY DEF RepeatedToken, AtToken, AtSymbol, Working
<1>2. CASE /\ recovery.unwind = 0 /\ TokenIsThere
           /\ Continue(CommitRule(PutTop(calls, Matching(Top.pos + 1)), Top.pos + 1), recovery)
  <2> DEFINE c == Matching(Top.pos + 1)
  <2>1. ~AtEnd(Top.pos)
    BY <1>2 DEF TokenIsThere
  <2>2. c \in Frames /\ SamePlace(c, Top) /\ c.alt = Top.alt /\ Owed(c) <= recovery.skipped
    BY <1>1, <2>1, MatchingToken
  <2>3. c.rule = Top.rule /\ c.probe = Top.probe /\ c.m = Top.m /\ c.i = Top.i
    BY <2>2 DEF SamePlace
  <2> HIDE DEF c
  <2>4. Placed(c)
    BY <2>2, <2>3, <1>1, TopStands, PlacedAlike
  <2>5. TurnTo(c, recovery)
    BY <2>2, <2>3, <2>4, <1>1, <1>2, QuietTurn
  <2> QED BY <2>5, <1>1, <1>2, QuietContinues DEF c
<1>3. CASE EndLoop(calls, recovery)
  BY <1>1, <1>3, TopEndsLoop
<1> QED BY <1>2, <1>3 DEF RepeatedToken

LEMMA CallRuleCalls ==
    ASSUME Standing, CallRule
    PROVE  Turns \/ Calls
<1>1. calls # <<>> /\ InBody(Top) /\ AtRule
  BY DEF CallRule, AtRule, AtSymbol, Working
<1>2. TypeOK /\ recovery.unwind \in Nat
  BY <1>1, TopStands, TopType
<1>3. CASE Required(Top) /\ recovery.unwind = 0 /\ Call(FALSE)
  <2>1. \E probe \in BOOLEAN : Call(probe) /\ (probe <=> ~Required(Top))
    BY <1>3, Zenon
  <2>2. ~(recovery.unwind > 0)
    BY <1>3
  <2> QED BY <1>1, <2>1, <2>2, Zenon DEF Calls
<1>4. CASE Continue(PutTop(calls, Forward(Top)), recovery)
  <2>1. TurnTo(Forward(Top), recovery)
    BY <1>1, TopItself, ForwardTurn
  <2> QED BY <1>1, <1>4, <2>1, QuietContinues
<1>5. CASE AtomOf(Top).q = "?" /\ Call(TRUE)
  <2>1. ~Required(Top)
    BY <1>5 DEF Required
  <2>2. \E probe \in BOOLEAN : Call(probe) /\ (probe <=> ~Required(Top))
    BY <1>5, <2>1, Zenon
  <2>3. recovery.unwind > 0 => AtomOf(Top).q = "?"
    BY <1>5
  <2> QED BY <1>1, <2>2, <2>3, Zenon DEF Calls
<1>6. CASE Looping(Top) /\ recovery.unwind = 0 /\ Call(TRUE)
  <2>1. ~Required(Top)
    BY <1>6 DEF Looping
  <2>2. \E probe \in BOOLEAN : Call(probe) /\ (probe <=> ~Required(Top))
    BY <1>6, <2>1, Zenon
  <2>3. ~(recovery.unwind > 0)
    BY <1>6
  <2> QED BY <1>1, <2>2, <2>3, Zenon DEF Calls
<1>7. CASE EndLoop(calls, recovery)
  BY <1>1, <1>7, TopEndsLoop
<1> QED BY <1>3, <1>4, <1>5, <1>6, <1>7 DEF CallRule

\* The rule that matched hands its position and its count over.
LEMMA AnswerTaken ==
    ASSUME Standing, calls # <<>>, answer.kind = "matched"
    PROVE  LET c == [Top EXCEPT !.pos = answer.pos, !.took = answer.took]
           IN  c \in Frames /\ SamePlace(c, Top) /\ c.alt = Top.alt /\ Owed(c) <= recovery.skipped
<1> DEFINE c == [Top EXCEPT !.pos = answer.pos, !.took = answer.took]
<1>1. TypeOK /\ Top \in Frames
  BY TopStands, TopType
<1>2. answer.pos \in Positions /\ answer.took \in Nat
  BY <1>1 DEF TypeOK, Answers
<1>3. Top \in FramesOver(DOMAIN parser.rules, Positions)
  BY <1>1, FramesAre
<1>4. c = Took(Top, answer.pos, answer.took)
  BY DEF Took
<1> HIDE DEF c
<1>5. c \in Frames /\ c.pos = answer.pos /\ c.took = answer.took /\ SamePlace(c, Top) /\ c.alt = Top.alt
  BY <1>2, <1>3, <1>4, FrameMatched, FramesAre
<1>6. Owed(answer) <= recovery.skipped
  BY DEF Standing
<1>7. Owed(c) = Owed(answer)
  BY <1>5 DEF Owed
<1> QED BY <1>5, <1>6, <1>7 DEF c

LEMMA RuleMatchedTurns ==
    ASSUME Standing, RuleMatched
    PROVE  Turns
<1> DEFINE c == [Top EXCEPT !.pos = answer.pos, !.took = answer.took]
           p == answer.pos
           moved == Progress(IF Looping(Top) THEN Top.pos ELSE Top.from, answer.pos)
<1>1. calls # <<>> /\ answer.kind = "matched"
  BY DEF RuleMatched, Answered
<1>2. TypeOK /\ Placed(Top) /\ Waiting(Top) /\ InBody(Top)
  BY <1>1, TopStands DEF Waiting
<1>3. c \in Frames /\ SamePlace(c, Top) /\ c.alt = Top.alt /\ Owed(c) <= recovery.skipped
  BY <1>1, AnswerTaken
<1>4. \/ \E d \in {Done(c), Forward(c)} : Continue(CommitRule(PutTop(calls, d), p), Matched(recovery))
      \/ Continue(CommitRule(PutTop(calls, Forward(c)), p), recovery)
      \/ /\ ~Required(Top) /\ AtomOf(Top).q # "?"
         /\ Continue(CommitRule(PutTop(calls, c), p), recovery)
      \/ EndLoop(CommitRule(PutTop(calls, Top), p), recovery)
  BY DEF RuleMatched
<1> HIDE DEF c, p
<1>5. ASSUME NEW d \in {Done(c), Forward(c)}, NEW r \in {recovery, Matched(recovery)},
             Continue(CommitRule(PutTop(calls, d), p), r)
      PROVE  Turns
  <2>1. TurnTo(d, r)
    BY <1>1, <1>2, <1>3, <1>5, ForwardTurn
  <2> QED BY <2>1, <1>1, <1>5, QuietContinues
<1>6. CASE /\ ~Required(Top) /\ AtomOf(Top).q # "?"
           /\ Continue(CommitRule(PutTop(calls, c), p), recovery)
  <2>1. c.rule = Top.rule /\ c.probe = Top.probe /\ c.m = Top.m /\ c.i = Top.i
    BY <1>3 DEF SamePlace
  <2>2. Placed(c) /\ (Open(c) <=> Open(Top))
    BY <2>1, <1>2, <1>3, PlacedAlike
  <2>3. ~Open(Top)
    <3>1. Top.i # 0
      BY <1>1, <1>2, TopType, RuleType
    <3> QED BY <3>1, <1>6 DEF Open
  <2>4. TurnTo(c, recovery)
    BY <2>1, <2>2, <2>3, <1>1, <1>3, QuietTurn
  <2> QED BY <2>4, <1>1, <1>6, QuietContinues
<1>7. CASE EndLoop(CommitRule(PutTop(calls, Top), p), recovery)
  <2> DEFINE cs == CommitRule(PutTop(calls, Top), p)
             e == [Top EXCEPT !.committed = TRUE]
  <2>1. Top \in Frames /\ SamePlace(Top, Top)
    BY <1>1, TopItself
  <2>2. e \in Frames /\ e.pos = Top.pos /\ e.took = Top.took /\ SamePlace(e, Top)
    BY <2>1, FrameCommitted, FramesAre
  <2>3. Alike(PutTop(calls, Top)) /\ Last(PutTop(calls, Top)) = Top
    BY <1>1, <1>2, <2>1, CallsAlike, PutAlike
  <2>4. Alike(cs) /\ Last(cs) \in {Top, e}
    BY <1>1, <1>2, <2>3, CommitAlike
  <2>5. EndLoop(cs, recovery)
    BY <1>7
  <2> HIDE DEF cs, e
  <2>6. /\ Last(cs) \in Frames /\ SamePlace(Last(cs), Top)
        /\ Last(cs).pos = Top.pos /\ Last(cs).took = Top.took
    BY <2>1, <2>2, <2>4
  <2> QED BY <1>1, <1>2, <2>4, <2>5, <2>6, EndLoopTurns
<1> QED BY <1>4, <1>5, <1>6, <1>7

LEMMA NotThereTurns ==
    ASSUME Standing, calls # <<>>, InBody(Top), NotThere
    PROVE  Turns
<1>1. CASE Continue(PutTop(calls, Forward(Top)), recovery)
  <2>1. TurnTo(Forward(Top), recovery)
    BY TopItself, ForwardTurn
  <2> QED BY <1>1, <2>1, QuietContinues
<1>2. CASE EndLoop(calls, recovery)
  BY <1>2, TopEndsLoop
<1> QED BY <1>1, <1>2 DEF NotThere

LEMMA RuleFailedTurns ==
    ASSUME Standing, RuleFailed
    PROVE  Turns \/ Leaves \/ Stops
<1>1. calls # <<>> /\ answer.kind = "failed"
  BY DEF RuleFailed, Answered
<1>2. TypeOK /\ Waiting(Top) /\ InBody(Top) /\ Top \in Frames /\ Top.took \in Nat /\ recovery.skipped \in Nat
  BY <1>1, TopStands, TopType DEF Waiting
<1>3. CASE Stop("thrown", recovery)
  BY <1>1, <1>2, <1>3, KeptItself DEF Stops, Kept
<1>4. CASE NotThere
  BY <1>1, <1>2, <1>4, NotThereTurns
<1>5. CASE Continue(PutTop(calls, Forward([Top EXCEPT !.pos = Lost])), recovery)
  <2> DEFINE c == [Top EXCEPT !.pos = Lost]
  <2>1. Lost \in Positions
    BY <1>2, InputIsSequence DEF Lost, Positions
  <2>2. c \in Frames /\ c.pos = Lost /\ c.took = Top.took /\ SamePlace(c, Top) /\ c.alt = Top.alt
    BY <2>1, <1>2, FrameMoved, FramesAre
  <2> HIDE DEF c
  <2>3. Owed(c) <= recovery.skipped
    BY <2>2, <1>2 DEF Owed, Cursor, Lost
  <2>4. TurnTo(Forward(c), recovery)
    BY <2>2, <2>3, <1>1, <1>2, ForwardTurn
  <2> QED BY <2>4, <1>1, <1>5, QuietContinues DEF c
<1>6. CASE AbsentRule(calls) /\ Leave("absent", Lost, recovery)
  BY <1>1, <1>6, AbsentLeaves
<1>7. CASE ~(recovery.unwind > 0) /\ AskHandler
  <2>1. recovery.unwind = 0
    BY <1>1, <1>2, <1>7, TopType
  <2> QED BY <2>1, <1>1, <1>2, <1>7, AskHandlerTurns
<1> QED BY <1>3, <1>4, <1>5, <1>6, <1>7 DEF RuleFailed

LEMMA RuleAbsentTurns ==
    ASSUME Standing, RuleAbsent
    PROVE  Turns \/ Leaves
<1>1. calls # <<>> /\ answer.kind = "absent"
  BY DEF RuleAbsent, Answered
<1>2. InBody(Top)
  BY <1>1, TopStands DEF Waiting
<1>3. CASE NotThere
  BY <1>1, <1>2, <1>3, NotThereTurns
<1>4. CASE ~answer.probe /\ Leave("absent", Lost, recovery)
  BY <1>1, <1>4, AbsentLeaves
<1> QED BY <1>3, <1>4 DEF RuleAbsent

LEMMA ChooseAlternativeTurns ==
    ASSUME Standing, ChooseAlternative
    PROVE  Turns \/ Leaves
<1>1. calls # <<>> /\ answer.kind = "none" /\ InBody(Top)
  BY DEF ChooseAlternative, Working
<1>2. TypeOK /\ Top \in Frames /\ Top.pos \in Positions /\ Placed(Top) /\ Owed(Top) <= recovery.skipped
  BY <1>1, TopStands, TopType
<1>3. Alternatives = 1..Len(AtomOf(Top).syms) /\ Len(AtomOf(Top).syms) \in Nat
  BY <1>1, <1>2, RuleType DEF Alternatives
<1>4. ASSUME NEW c \in Frames, SamePlace(c, Top), c.alt \in Alternatives
      PROVE  /\ c.rule = Top.rule /\ c.probe = Top.probe /\ Placed(c) /\ (Open(c) <=> Open(Top))
  <2>1. c.rule = Top.rule /\ c.probe = Top.probe /\ c.m = Top.m /\ c.i = Top.i
    BY <1>4 DEF SamePlace
  <2>2. /\ RuleOf(c) = RuleOf(Top) /\ MemberOf(c) = MemberOf(Top) /\ AtomOf(c) = AtomOf(Top)
        /\ (InBody(c) <=> InBody(Top)) /\ (Open(c) <=> Open(Top))
    BY <2>1, PlacedAlike
  <2>3. Placed(c)
    BY <2>1, <2>2, <1>2, <1>3, <1>4 DEF Placed
  <2> QED BY <2>1, <2>2, <2>3
<1>5. ASSUME NEW k \in Alternatives, Continue(PutTop(calls, [Top EXCEPT !.alt = k]), recovery)
      PROVE  Turns
  <2> DEFINE c == [Top EXCEPT !.alt = k]
  <2>1. c \in Frames /\ c.pos = Top.pos /\ c.took = Top.took /\ SamePlace(c, Top) /\ c.alt = k
    <3>1. Top \in FramesOver(DOMAIN parser.rules, Positions) /\ k \in Nat
      BY <1>2, <1>3, FramesAre
    <3>2. c = Chosen(Top, Top.pos, k)
      BY <3>1, <1>2, FrameChose
    <3> HIDE DEF c
    <3> QED BY <3>1, <3>2, <1>2, FrameChose, FramesAre
  <2> HIDE DEF c
  <2>2. Owed(c) = Owed(Top)
    BY <2>1 DEF Owed
  <2>3. c.rule = Top.rule /\ c.probe = Top.probe /\ Placed(c) /\ (Open(c) <=> Open(Top))
    BY <2>1, <1>4
  <2>4. TurnTo(c, recovery)
    BY <2>1, <2>2, <2>3, <1>1, <1>2, QuietTurn
  <2> QED BY <2>4, <1>1, <1>5, QuietContinues DEF c
<1>6. CASE AbsentRule(calls) /\ Leave("absent", Lost, recovery)
  BY <1>1, <1>6, AbsentLeaves
<1>7. CASE RecoverChoice
  <2> DEFINE k == ChoiceSkip(Top.pos, recovery)
             counted == [recovery EXCEPT !.diagnostics = @ + 1, !.skipped = @ + k]
             p == Top.pos + k
  <2>1. Drops(calls, Top.pos, recovery, p, counted) /\ counted.unwind = recovery.unwind
    BY <1>1, <1>2, ChoiceDrops
  <2>2. \/ Leave("failed", Lost, counted)
        \/ \E alt \in Alternatives : Continue(PutTop(calls, [Top EXCEPT !.alt = alt, !.pos = @ + k]), counted)
    <3>1. \A token : Pick(token) \subseteq Alternatives
      BY DEF Pick
    <3> QED BY <3>1, <1>7 DEF RecoverChoice
  <2> HIDE DEF k, counted
  <2>3. CASE Leave("failed", Lost, counted)
    <3>1. Kept(counted)
      BY <2>1 DEF Kept, Drops
    <3>2. Lost \in Positions
      BY <1>2, InputIsSequence DEF Lost, Positions
    <3> QED BY <2>1, <2>3, <3>1, <3>2, <1>1 DEF Leaves, Kept
  <2>4. ASSUME NEW alt \in Alternatives,
               Continue(PutTop(calls, [Top EXCEPT !.alt = alt, !.pos = @ + k]), counted)
        PROVE  Turns
    <3> DEFINE c == [Top EXCEPT !.alt = alt, !.pos = p]
    <3>1. p \in Positions
      BY <2>1 DEF Drops
    <3>2. c = [Top EXCEPT !.alt = alt, !.pos = @ + k]
      BY <1>2 DEF Frames
    <3> HIDE DEF p
    <3>3. c \in Frames /\ c.pos = p /\ c.took = Top.took /\ SamePlace(c, Top) /\ c.alt = alt
      <4>1. Top \in FramesOver(DOMAIN parser.rules, Positions) /\ alt \in Nat
        BY <1>2, <1>3, FramesAre
      <4>2. c = Chosen(Top, p, alt)
        BY DEF Chosen
      <4> HIDE DEF c
      <4> QED BY <4>1, <4>2, <3>1, FrameChose, FramesAre
    <3> HIDE DEF c
    <3>4. c.rule = Top.rule /\ c.probe = Top.probe /\ Placed(c) /\ (Open(c) <=> Open(Top))
      BY <3>3, <1>4
    <3>5. TurnTo(c, counted)
      <4>1. Drops(calls, Top.pos, recovery, c.pos, counted)
        BY <2>1, <3>3
      <4>2. counted.unwind > 0 => \/ ~Open(c)
                                  \/ recovery.unwind > 0 /\ answer.kind = "none" /\ Open(Top)
        BY <2>1, <3>4, <1>1
      <4> QED BY <4>1, <4>2, <2>1, <3>3, <3>4, <1>1, RepairTurn
    <3> QED BY <3>2, <3>5, <1>1, <2>4, QuietContinues
  <2> QED BY <2>2, <2>3, <2>4
<1> QED BY <1>5, <1>6, <1>7 DEF ChooseAlternative

\* What a step of the parser can be.
LEMMA NextKinds ==
    ASSUME Standing, Next
    PROVE  Turns \/ Calls \/ Leaves \/ Stops \/ Finish
BY EndRuleLeaves, StartMemberTurns, EndBodyTurns, RequiredTokenTurns, OptionalTokenTurns,
   RepeatedTokenTurns, CallRuleCalls, RuleMatchedTurns, RuleFailedTurns, RuleAbsentTurns,
   ChooseAlternativeTurns DEF Next

-----------------------------------------------------------------------------
(* Standing is inductive. *)

\* The types are those of the same parser and the same input.
LEMMA TypesKept ==
    ASSUME TypeOK, parser' = parser, input' = input,
           calls' \in Seq(Frames), recovery' \in RecoveryStates(Len(calls')), answer' \in Answers,
           outcome' \in {"running", "matched", "failed", "thrown", "crashed"}
    PROVE  TypeOK'
<1>1. Frames' = Frames /\ Answers' = Answers /\ RecoveryStates(Len(calls))' = RecoveryStates(Len(calls'))
  BY DEF Frames, Answers, RecoveryStates, Positions
<1>2. parser' \in Parsers /\ input' \in Inputs[parser'.name]
  BY DEF TypeOK
<1> QED BY <1>1, <1>2 DEF TypeOK

LEMMA StandingKept ==
    ASSUME TypeOK', parser' = parser,
           \A f \in DOMAIN calls' : Placed(calls'[f]) /\ Owed(calls'[f]) <= recovery'.skipped,
           answer'.kind = "matched" => Owed(answer') <= recovery'.skipped,
           calls' # <<>> /\ answer'.kind # "none" => Waiting(Last(calls')),
           calls' # <<>> => calls'[1].rule = Main /\ ~calls'[1].probe,
           \A f \in 1..Len(calls') - 1 :
              /\ Waiting(calls'[f])
              /\ calls'[f + 1].rule = SymbolOf(calls'[f])
              /\ calls'[f + 1].probe <=> ~Required(calls'[f])
    PROVE  Standing'
<1>1. \A f \in DOMAIN calls' : (Placed(calls[f]) /\ Owed(calls[f]) <= recovery.skipped)'
  BY DEF Placed, Owed, InBody, MemberOf, RuleOf, AtomOf, Cursor
<1>2. (answer.kind = "matched" => Owed(answer) <= recovery.skipped)'
  BY DEF Owed, Cursor
<1>3. (calls # <<>> /\ answer.kind # "none" => Waiting(Top))'
  BY DEF Waiting, Choosing, IsRule, SymbolOf, InBody, MemberOf, RuleOf, AtomOf, Top
<1>4. CallsFollowTheGrammar'
  BY DEF CallsFollowTheGrammar, Waiting, Choosing, IsRule, SymbolOf, Required, InBody, MemberOf, RuleOf, AtomOf
<1> QED BY <1>1, <1>2, <1>3, <1>4 DEF Standing

LEMMA StandingTurns ==
    ASSUME Standing, Turns
    PROVE  Standing'
<1>1. PICK cs, r : Turn(cs, r) /\ Continue(cs, r)
  BY DEF Turns
<1>2. calls # <<>> /\ TypeOK /\ calls \in Seq(Frames) /\ Len(calls) \in Nat \ {0} /\ recovery.skipped \in Nat
  BY TopStands, TopType DEF Turns
<1>3. /\ cs \in Seq(Frames) /\ Len(cs) = Len(calls) /\ Last(cs) = cs[Len(cs)]
      /\ \A f \in 1..Len(calls) - 1 : cs[f] = [calls[f] EXCEPT !.committed = cs[f].committed]
  BY <1>1 DEF Turn, Alike, Last
<1>4. /\ calls' = cs /\ recovery' = r /\ answer' = NoAnswer
      /\ parser' = parser /\ input' = input /\ outcome' = outcome
  BY <1>1 DEF Continue
<1>5. TurnTo(cs[Len(cs)], r)
  BY <1>1, <1>3 DEF Turn
<1>6. ASSUME NEW f \in 1..Len(cs) - 1
      PROVE  /\ Placed(cs[f]) /\ Owed(cs[f]) <= r.skipped /\ Waiting(cs[f])
             /\ cs[f].rule = calls[f].rule /\ cs[f].probe = calls[f].probe
             /\ SymbolOf(cs[f]) = SymbolOf(calls[f]) /\ (Required(cs[f]) <=> Required(calls[f]))
  <2>1. f \in 1..Len(calls) /\ calls[f] \in Frames /\ f \in DOMAIN calls
    BY <1>2, <1>3
  <2>2. Placed(calls[f]) /\ Owed(calls[f]) <= recovery.skipped /\ Waiting(calls[f])
    BY <2>1, <1>3 DEF Standing, CallsFollowTheGrammar
  <2>3. /\ cs[f].rule = calls[f].rule /\ cs[f].m = calls[f].m /\ cs[f].i = calls[f].i
        /\ cs[f].alt = calls[f].alt /\ cs[f].pos = calls[f].pos /\ cs[f].took = calls[f].took
        /\ cs[f].probe = calls[f].probe /\ cs[f].started = calls[f].started
    BY <2>1, <1>3 DEF Frames
  <2>4. /\ Placed(cs[f]) /\ Waiting(cs[f]) /\ SymbolOf(cs[f]) = SymbolOf(calls[f])
        /\ AtomOf(cs[f]) = AtomOf(calls[f])
    BY <2>2, <2>3, PlacedAlike
  <2>5. Required(cs[f]) <=> Required(calls[f])
    BY <2>3, <2>4 DEF Required
  <2>6. Owed(cs[f]) = Owed(calls[f])
    BY <2>3 DEF Owed
  <2>7. Owed(calls[f]) \in Int
    <3>1. calls[f].pos \in Positions /\ calls[f].took \in Nat
      BY <2>1 DEF Frames
    <3> QED BY <3>1, <1>2, RemainingType DEF Owed
  <2>8. Owed(cs[f]) <= r.skipped
    <3>1. recovery.skipped <= r.skipped /\ r.skipped \in Nat
      BY <1>5 DEF TurnTo, RecoveryStates
    <3> QED BY <3>1, <2>2, <2>6, <2>7, <1>2
  <2> QED BY <2>3, <2>4, <2>5, <2>8
<1>7. TypeOK'
  <2>1. r \in RecoveryStates(Len(cs))
    BY <1>3, <1>5 DEF TurnTo
  <2>2. NoAnswer \in Answers
    BY <1>2, InputIsSequence DEF NoAnswer, Answers, Positions, Lost
  <2> QED BY <2>1, <2>2, <1>2, <1>3, <1>4, TypesKept DEF TypeOK
<1>8. \A f \in DOMAIN cs : Placed(cs[f]) /\ Owed(cs[f]) <= r.skipped
  <2>1. DOMAIN cs = 1..Len(cs)
    BY <1>3
  <2>2. 1..Len(cs) = (1..Len(cs) - 1) \cup {Len(cs)}
    BY <1>2, <1>3
  <2> QED BY <2>1, <2>2, <1>5, <1>6 DEF TurnTo
<1>9. cs[Len(cs)].rule = calls[Len(calls)].rule /\ cs[Len(cs)].probe = calls[Len(calls)].probe
  BY <1>5, <1>2, TopType DEF TurnTo
<1>10. \A f \in 1..Len(cs) : cs[f].rule = calls[f].rule /\ cs[f].probe = calls[f].probe
  <2>1. 1..Len(cs) = (1..Len(cs) - 1) \cup {Len(cs)}
    BY <1>2, <1>3
  <2> QED BY <2>1, <1>3, <1>6, <1>9
<1>11. cs[1].rule = Main /\ ~cs[1].probe
  BY <1>2, <1>3, <1>10 DEF Standing, CallsFollowTheGrammar
<1>12. ASSUME NEW f \in 1..Len(cs) - 1
       PROVE  Waiting(cs[f]) /\ cs[f + 1].rule = SymbolOf(cs[f]) /\ (cs[f + 1].probe <=> ~Required(cs[f]))
  <2>1. f + 1 \in 1..Len(cs) /\ f \in 1..Len(calls) - 1
    BY <1>2, <1>3
  <2>2. calls[f + 1].rule = SymbolOf(calls[f]) /\ (calls[f + 1].probe <=> ~Required(calls[f]))
    BY <2>1 DEF Standing, CallsFollowTheGrammar
  <2> QED BY <2>1, <2>2, <1>6, <1>10
<1>13. answer'.kind = "none"
  BY <1>4 DEF NoAnswer
<1> QED BY <1>4, <1>7, <1>8, <1>11, <1>12, <1>13, StandingKept

LEMMA StandingCalls ==
    ASSUME Standing, Calls
    PROVE  Standing'
<1>1. PICK probe \in BOOLEAN : Call(probe) /\ (probe <=> ~Required(Top))
  BY DEF Calls
<1> DEFINE c == Enter(SymbolOf(Top), Top.pos, Top.took, probe)
           cs == Append(calls, c)
<1>2. /\ calls # <<>> /\ TypeOK /\ calls \in Seq(Frames) /\ Len(calls) \in Nat \ {0}
      /\ Top = calls[Len(calls)] /\ Top.pos \in Positions /\ Top.took \in Nat /\ Owed(Top) <= recovery.skipped
  BY TopStands, TopType DEF Calls
<1>3. Waiting(Top)
  BY DEF Calls, AtRule, AtSymbol, Waiting
<1>4. /\ calls' = cs /\ recovery' = recovery /\ answer' = NoAnswer
      /\ parser' = parser /\ input' = input /\ outcome' = outcome
  BY <1>1 DEF Call, Continue
<1>5. SymbolOf(Top) \in DOMAIN parser.rules
  BY <1>3 DEF Waiting, IsRule
<1>6. /\ c \in Frames /\ c.pos = Top.pos /\ c.took = Top.took /\ c.rule = SymbolOf(Top) /\ c.probe = probe
      /\ c.m = 1 /\ c.i = 0
  BY <1>2, <1>5, FrameEntered, FramesAre
<1> HIDE DEF c
<1>7. /\ cs \in Seq(Frames) /\ cs # <<>> /\ Len(cs) = Len(calls) + 1 /\ Last(cs) = c /\ cs[Len(calls) + 1] = c
      /\ \A f \in 1..Len(calls) : cs[f] = calls[f]
  BY <1>2, <1>6, Pushed
<1> HIDE DEF cs
<1>8. Placed(c) /\ Owed(c) <= recovery.skipped
  <2>1. Len(RuleOf(c)) \in Nat /\ (c.m <= Len(RuleOf(c)) => Len(MemberOf(c).body) \in Nat /\ MemberOf(c).body \in Seq(Atoms))
    BY <1>2, <1>6, RuleType
  <2>2. ~InBody(c)
    BY <2>1, <1>6 DEF InBody
  <2>3. Placed(c)
    BY <2>1, <2>2, <1>6 DEF Placed
  <2>4. Owed(c) = Owed(Top)
    BY <1>6 DEF Owed
  <2> QED BY <2>3, <2>4, <1>2
<1>9. TypeOK'
  <2>1. recovery \in RecoveryStates(Len(cs))
    <3>1. recovery \in RecoveryStates(Len(calls)) /\ 0..Len(calls) \subseteq 0..Len(cs)
      BY <1>2, <1>7 DEF TypeOK
    <3> DEFINE P == Positions \cup {Never}
               U == 0..Len(calls)
               V == 0..Len(cs)
    <3>2. /\ recovery \in [diagnostics : Nat, skipped : Nat, lastResume : P, unwind : U,
                           recovering : BOOLEAN, reported : BOOLEAN]
          /\ RecoveryStates(Len(cs)) = [diagnostics : Nat, skipped : Nat, lastResume : P, unwind : V,
                                        recovering : BOOLEAN, reported : BOOLEAN]
          /\ U \subseteq V
      BY <3>1 DEF RecoveryStates
    <3> HIDE DEF P, U, V
    <3> QED BY <3>2
  <2>2. NoAnswer \in Answers
    BY <1>2, InputIsSequence DEF NoAnswer, Answers, Positions, Lost
  <2> QED BY <2>1, <2>2, <1>2, <1>4, <1>7, TypesKept DEF TypeOK
<1>10. \A f \in DOMAIN cs : Placed(cs[f]) /\ Owed(cs[f]) <= recovery.skipped
  <2>1. DOMAIN cs = (1..Len(calls)) \cup {Len(calls) + 1} /\ DOMAIN calls = 1..Len(calls)
    BY <1>2, <1>7
  <2> QED BY <2>1, <1>7, <1>8 DEF Standing
<1>11. cs[1].rule = Main /\ ~cs[1].probe
  BY <1>2, <1>7 DEF Standing, CallsFollowTheGrammar
<1>12. ASSUME NEW f \in 1..Len(cs) - 1
       PROVE  Waiting(cs[f]) /\ cs[f + 1].rule = SymbolOf(cs[f]) /\ (cs[f + 1].probe <=> ~Required(cs[f]))
  <2>1. f \in 1..Len(calls)
    BY <1>2, <1>7
  <2>2. CASE f = Len(calls)
    BY <2>1, <2>2, <1>1, <1>2, <1>3, <1>6, <1>7
  <2>3. CASE f # Len(calls)
    <3>1. f \in 1..Len(calls) - 1 /\ f + 1 \in 1..Len(calls)
      BY <2>1, <2>3, <1>2
    <3> QED BY <3>1, <2>1, <1>7 DEF Standing, CallsFollowTheGrammar
  <2> QED BY <2>2, <2>3
<1>13. answer'.kind = "none"
  BY <1>4 DEF NoAnswer
<1> QED BY <1>4, <1>9, <1>10, <1>11, <1>12, <1>13, StandingKept

LEMMA FrameGoneType ==
    ASSUME NEW n \in Nat \ {0}, NEW r \in RecoveryStates(n)
    PROVE  /\ FrameGone(r) \in RecoveryStates(n - 1)
           /\ FrameGone(r).skipped = r.skipped
           /\ FrameGone(r).unwind = IF r.unwind > 0 THEN r.unwind - 1 ELSE 0
<1> DEFINE P == Positions \cup {Never}
           U == 0..n
           V == 0..n - 1
           u == IF r.unwind > 0 THEN r.unwind - 1 ELSE 0
<1>1. r.unwind \in 0..n
  BY DEF RecoveryStates
<1>2. u \in V
  BY <1>1
<1>3. /\ r \in [diagnostics : Nat, skipped : Nat, lastResume : P, unwind : U,
                recovering : BOOLEAN, reported : BOOLEAN]
      /\ RecoveryStates(n - 1) = [diagnostics : Nat, skipped : Nat, lastResume : P, unwind : V,
                                  recovering : BOOLEAN, reported : BOOLEAN]
  BY DEF RecoveryStates
<1>4. FrameGone(r) = [r EXCEPT !.unwind = u]
  BY <1>3 DEF FrameGone
<1>5. FrameGone(r) \in RecoveryStates(n - 1) /\ FrameGone(r).skipped = r.skipped /\ FrameGone(r).unwind = u
  <2> HIDE DEF P, U, V, u
  <2> QED BY <1>2, <1>3, <1>4
<1> QED BY <1>5

LEMMA StandingLeaves ==
    ASSUME Standing, Leaves
    PROVE  Standing'
<1>1. PICK kind \in {"matched", "failed", "absent"}, p \in Positions, r \in RecoveryStates(Len(calls)) :
          /\ Kept(r) /\ Leave(kind, p, r)
          /\ kind = "matched" => p = Top.pos /\ r = recovery
  BY DEF Leaves
<1> DEFINE cs == Front(calls)
           a == [kind |-> kind, pos |-> p, took |-> Top.took, probe |-> Top.probe, committed |-> Top.committed]
<1>2. /\ calls # <<>> /\ TypeOK /\ calls \in Seq(Frames) /\ Len(calls) \in Nat \ {0}
      /\ Top \in Frames /\ Top.took \in Nat /\ Owed(Top) <= recovery.skipped /\ recovery.skipped \in Nat
  BY TopStands, TopType DEF Leaves
<1>3. /\ calls' = cs /\ recovery' = FrameGone(r) /\ answer' = a
      /\ parser' = parser /\ input' = input /\ outcome' = outcome
  BY <1>1 DEF Leave
<1>4. /\ cs \in Seq(Frames) /\ Len(cs) = Len(calls) - 1 /\ \A f \in 1..Len(calls) - 1 : cs[f] = calls[f]
  BY <1>2, TopOf
<1> HIDE DEF cs
<1>5. /\ FrameGone(r) \in RecoveryStates(Len(cs))
      /\ recovery.skipped <= FrameGone(r).skipped /\ FrameGone(r).skipped \in Nat
      /\ kind = "matched" => FrameGone(r).skipped = recovery.skipped
  <2>1. r \in RecoveryStates(Len(calls)) /\ recovery.skipped <= r.skipped
    BY <1>1 DEF Kept
  <2>2. FrameGone(r) \in RecoveryStates(Len(calls) - 1) /\ FrameGone(r).skipped = r.skipped
    BY <2>1, <1>2, FrameGoneType
  <2>3. r.skipped \in Nat
    BY <2>1 DEF RecoveryStates
  <2> QED BY <2>1, <2>2, <2>3, <1>1, <1>4
<1>6. a \in Answers /\ a.kind = kind /\ a.pos = p /\ a.took = Top.took
  <2>1. Top.probe \in BOOLEAN /\ Top.committed \in BOOLEAN
    BY <1>2 DEF Frames
  <2> QED BY <2>1, <1>2 DEF Answers
<1> HIDE DEF a
<1>7. TypeOK'
  BY <1>2, <1>3, <1>4, <1>5, <1>6, TypesKept DEF TypeOK
<1>8. \A f \in DOMAIN cs : Placed(cs[f]) /\ Owed(cs[f]) <= FrameGone(r).skipped
  <2> SUFFICES ASSUME NEW f \in DOMAIN cs PROVE Placed(cs[f]) /\ Owed(cs[f]) <= FrameGone(r).skipped
    OBVIOUS
  <2>1. f \in 1..Len(calls) - 1 /\ f \in DOMAIN calls /\ cs[f] = calls[f]
    BY <1>2, <1>4
  <2>2. Placed(calls[f]) /\ Owed(calls[f]) <= recovery.skipped
    BY <2>1 DEF Standing
  <2>3. calls[f].pos \in Positions /\ calls[f].took \in Nat
    <3>1. calls[f] \in Frames
      BY <2>1, <1>2
    <3> QED BY <3>1 DEF Frames
  <2>4. Owed(calls[f]) \in Int
    BY <2>3, <1>2, RemainingType DEF Owed
  <2> QED BY <2>1, <2>2, <2>4, <1>2, <1>5
<1>9. a.kind = "matched" => Owed(a) <= FrameGone(r).skipped
  <2> SUFFICES ASSUME kind = "matched" PROVE Owed(a) <= FrameGone(r).skipped
    BY <1>6
  <2>1. Owed(a) = Owed(Top)
    BY <1>1, <1>6 DEF Owed
  <2> QED BY <2>1, <1>2, <1>5
<1>10. cs # <<>> => Len(cs) \in 1..Len(calls) - 1 /\ 1 \in 1..Len(calls) - 1
  BY <1>2, <1>4
<1>11. cs # <<>> => Waiting(Last(cs))
  BY <1>4, <1>10 DEF Standing, CallsFollowTheGrammar, Last
<1>12. cs # <<>> => cs[1].rule = Main /\ ~cs[1].probe
  BY <1>2, <1>4, <1>10 DEF Standing, CallsFollowTheGrammar
<1>13. ASSUME NEW f \in 1..Len(cs) - 1
       PROVE  Waiting(cs[f]) /\ cs[f + 1].rule = SymbolOf(cs[f]) /\ (cs[f + 1].probe <=> ~Required(cs[f]))
  <2>1. f \in 1..Len(calls) - 1 /\ f + 1 \in 1..Len(calls) - 1
    BY <1>2, <1>4
  <2> QED BY <2>1, <1>4 DEF Standing, CallsFollowTheGrammar
<1> QED BY <1>3, <1>7, <1>8, <1>9, <1>11, <1>12, <1>13, StandingKept

LEMMA StandingStops ==
    ASSUME Standing, Stops
    PROVE  Standing'
<1>1. PICK how \in {"thrown", "crashed"}, r \in RecoveryStates(Len(calls)) : Kept(r) /\ Stop(how, r)
  BY DEF Stops
<1>2. /\ calls # <<>> /\ TypeOK /\ calls \in Seq(Frames) /\ recovery.skipped \in Nat
  BY TopStands, TopType DEF Stops
<1>3. /\ calls' = calls /\ recovery' = r /\ answer' = answer
      /\ parser' = parser /\ input' = input /\ outcome' = how
  BY <1>1 DEF Stop
<1>4. r \in RecoveryStates(Len(calls)) /\ recovery.skipped <= r.skipped /\ r.skipped \in Nat
  BY <1>1 DEF Kept, RecoveryStates
<1>5. TypeOK'
  BY <1>2, <1>3, <1>4, TypesKept DEF TypeOK
<1>6. ASSUME NEW f \in DOMAIN calls PROVE Placed(calls[f]) /\ Owed(calls[f]) <= r.skipped
  <2>1. Placed(calls[f]) /\ Owed(calls[f]) <= recovery.skipped
    BY DEF Standing
  <2>2. calls[f].pos \in Positions /\ calls[f].took \in Nat
    <3>1. calls[f] \in Frames
      BY <1>2
    <3> QED BY <3>1 DEF Frames
  <2>3. Owed(calls[f]) \in Int
    BY <2>2, <1>2, RemainingType DEF Owed
  <2> QED BY <2>1, <2>3, <1>2, <1>4
<1>7. answer.kind = "matched" => Owed(answer) <= r.skipped
  <2>1. answer.pos \in Positions /\ answer.took \in Nat
    BY <1>2 DEF TypeOK, Answers
  <2>2. Owed(answer) \in Int
    BY <2>1, <1>2, RemainingType DEF Owed
  <2>3. answer.kind = "matched" => Owed(answer) <= recovery.skipped
    BY DEF Standing
  <2> QED BY <2>2, <2>3, <1>2, <1>4
<1>8. calls # <<>> /\ answer.kind # "none" => Waiting(Last(calls))
  BY DEF Standing, Top
<1>9. CallsFollowTheGrammar
  BY DEF Standing
<1> QED BY <1>3, <1>5, <1>6, <1>7, <1>8, <1>9, StandingKept DEF CallsFollowTheGrammar

LEMMA StandingFinish ==
    ASSUME Standing, Finish
    PROVE  Standing' /\ calls = <<>> /\ recovery'.skipped = recovery.skipped /\ answer' = answer /\ calls' = calls
<1> DEFINE n == IF answer.kind = "matched" /\ AtEnd(answer.pos)
                THEN recovery.diagnostics ELSE recovery.diagnostics + 1
           how == IF answer.kind = "matched" THEN "matched" ELSE "failed"
           r == [recovery EXCEPT !.diagnostics = n]
<1>1. TypeOK
  BY DEF Standing
<1>2. recovery \in RecoveryStates(Len(calls)) /\ recovery.diagnostics \in Nat
  BY <1>1 DEF TypeOK, RecoveryStates
<1>3. /\ calls = <<>> /\ calls' = calls /\ answer' = answer /\ parser' = parser /\ input' = input
      /\ outcome' = how /\ recovery' = r
  BY <1>2 DEF Finish, RecoveryStates
<1>4. n \in Nat /\ how \in {"matched", "failed"}
  BY <1>2
<1>5. r \in RecoveryStates(Len(calls)) /\ r.skipped = recovery.skipped
  <2> DEFINE P == Positions \cup {Never}
             U == 0..Len(calls)
  <2>1. RecoveryStates(Len(calls)) = [diagnostics : Nat, skipped : Nat, lastResume : P, unwind : U,
                                      recovering : BOOLEAN, reported : BOOLEAN]
    BY DEF RecoveryStates
  <2> HIDE DEF P, U, n
  <2> QED BY <2>1, <1>2, <1>4
<1> HIDE DEF n, how, r
<1>6. TypeOK'
  BY <1>1, <1>3, <1>4, <1>5, TypesKept DEF TypeOK
<1>7. /\ \A f \in DOMAIN calls : Placed(calls[f]) /\ Owed(calls[f]) <= r.skipped
      /\ answer.kind = "matched" => Owed(answer) <= r.skipped
      /\ calls # <<>> /\ answer.kind # "none" => Waiting(Last(calls))
      /\ CallsFollowTheGrammar
  BY <1>5 DEF Standing, Top
<1>8. Standing'
  BY <1>3, <1>6, <1>7, StandingKept DEF CallsFollowTheGrammar
<1> QED BY <1>3, <1>5, <1>8

LEMMA StandingInit ==
    ASSUME Init
    PROVE  Standing
<1>1. parser \in Parsers /\ input \in Seq(STRING) /\ input \in Inputs[parser.name]
  BY GeneratedAssumption DEF Init, InputsAssumption
<1>2. Main \in DOMAIN parser.rules
  BY <1>1, GeneratedAssumption DEF ParsersAssumption
<1>3. Len(input) \in Nat /\ 1 \in Positions /\ Lost \in Positions
  BY <1>1 DEF Positions, Lost
<1> DEFINE c == Enter(Main, 1, 0, FALSE)
<1>4. c \in Frames /\ c.pos = 1 /\ c.took = 0 /\ c.rule = Main /\ ~c.probe /\ c.m = 1 /\ c.i = 0
  <2> DEFINE p == 1
             n == 0
             b == FALSE
  <2>1. p \in Positions /\ n \in Nat /\ b \in BOOLEAN /\ ~b /\ p = 1 /\ n = 0
    BY <1>3
  <2>2. c = Enter(Main, p, n, b)
    OBVIOUS
  <2> HIDE DEF c, p, n, b
  <2>3. /\ c \in Frames /\ c.pos = p /\ c.took = n /\ c.rule = Main /\ c.probe = b /\ c.m = 1 /\ c.i = 0
    BY <1>2, <2>1, <2>2, FrameEntered, FramesAre
  <2> QED BY <2>1, <2>3
<1> HIDE DEF c
<1>5. calls = <<c>> /\ answer = NoAnswer /\ outcome = "running"
  BY DEF Init, c
<1>6. recovery \in RecoveryStates(1) /\ recovery.skipped = 0
  BY DEF Init, RecoveryStates
<1>7. TypeOK
  <2>1. NoAnswer \in Answers
    BY <1>3 DEF NoAnswer, Answers
  <2>2. calls \in Seq(Frames) /\ Len(calls) = 1
    BY <1>4, <1>5
  <2> QED BY <2>1, <2>2, <1>1, <1>5, <1>6 DEF TypeOK
<1>8. Placed(c)
  <2>1. Len(RuleOf(c)) \in Nat /\ (c.m <= Len(RuleOf(c)) => Len(MemberOf(c).body) \in Nat /\ MemberOf(c).body \in Seq(Atoms))
    BY <1>4, <1>7, RuleType
  <2>2. ~InBody(c)
    BY <2>1, <1>4 DEF InBody
  <2> QED BY <2>1, <2>2, <1>4 DEF Placed
<1>9. Owed(c) = 0
  BY <1>4 DEF Owed, Cursor, Lost
<1>10. \A f \in DOMAIN calls : calls[f] = c
  BY <1>5
<1>11. CallsFollowTheGrammar
  BY <1>4, <1>5 DEF CallsFollowTheGrammar
<1>12. answer.kind = "none"
  BY <1>5 DEF NoAnswer
<1> QED BY <1>6, <1>7, <1>8, <1>9, <1>10, <1>11, <1>12 DEF Standing

LEMMA StandingStep ==
    ASSUME Standing, [Next]_vars
    PROVE  Standing'
<1>1. CASE Next
  BY <1>1, NextKinds, StandingTurns, StandingCalls, StandingLeaves, StandingStops, StandingFinish
<1>2. CASE UNCHANGED vars
  <2>1. calls' = calls /\ recovery' = recovery /\ answer' = answer /\ parser' = parser /\ input' = input
        /\ outcome' = outcome
    BY <1>2 DEF vars
  <2>2. TypeOK'
    BY <2>1, TypesKept DEF Standing, TypeOK
  <2>3. /\ \A f \in DOMAIN calls : Placed(calls[f]) /\ Owed(calls[f]) <= recovery.skipped
        /\ answer.kind = "matched" => Owed(answer) <= recovery.skipped
        /\ calls # <<>> /\ answer.kind # "none" => Waiting(Last(calls))
        /\ CallsFollowTheGrammar
    BY DEF Standing, Top
  <2> QED BY <2>1, <2>2, <2>3, StandingKept DEF CallsFollowTheGrammar
<1> QED BY <1>1, <1>2

\* The stack of rule functions stands in every state of the parser.
THEOREM StackStands == Spec => []Standing
BY StandingInit, StandingStep, PTL DEF Spec

-----------------------------------------------------------------------------
(* What follows for every state. *)

\* Every variable of a generated parser keeps its type: positions stay within
\* the input or are lost, a rule is unwound to only if it is on the stack.
THEOREM TypeCorrect == Spec => []TypeOK
<1>1. Standing => TypeOK
  BY DEF Standing
<1> QED BY <1>1, StackStands, PTL

\* A call stack is a path through the grammar, main at its foot, and a frame
\* probes exactly where the rule below it can do without.
THEOREM StackIsAPath == Spec => []CallsFollowTheGrammar
<1>1. Standing => CallsFollowTheGrammar
  BY DEF Standing
<1> QED BY <1>1, StackStands, PTL

\* Whichever way a token is dropped, by recover(), by recover_choice, by context
\* recovery or by a loop, it is counted before the main rule matches.
THEOREM DroppedIsCharged == Spec => []NothingDroppedUncharged
<1>1. Standing => NothingDroppedUncharged
  BY DEF Standing, NothingDroppedUncharged, Owed
<1> QED BY <1>1, StackStands, PTL

LEMMA SkippedStep ==
    ASSUME Standing, SkippingIsBounded, [Next]_vars
    PROVE  SkippingIsBounded'
<1>1. CASE Turns
  <2>1. PICK cs, r : Turn(cs, r) /\ Continue(cs, r)
    BY <1>1 DEF Turns
  <2>2. recovery' = r /\ TurnTo(Last(cs), r)
    BY <2>1 DEF Turn, Continue
  <2> QED BY <2>2 DEF TurnTo, SkippingIsBounded
<1>2. CASE Calls
  BY <1>2 DEF Calls, Call, Continue, SkippingIsBounded
<1>3. CASE Leaves
  <2>1. PICK kind \in {"matched", "failed", "absent"}, p \in Positions, r \in RecoveryStates(Len(calls)) : Kept(r) /\ Leave(kind, p, r)
    BY <1>3 DEF Leaves
  <2>2. recovery' = FrameGone(r) /\ r \in RecoveryStates(Len(calls)) /\ r.skipped <= MaxTotalSkipped + 1
    BY <2>1 DEF Leave, Kept, SkippingIsBounded
  <2>3. Len(calls) \in Nat \ {0}
    BY <1>3, TopStands, TopType DEF Leaves
  <2> QED BY <2>2, <2>3, FrameGoneType DEF SkippingIsBounded
<1>4. CASE Stops
  <2>1. PICK how \in {"thrown", "crashed"}, r \in RecoveryStates(Len(calls)) : Kept(r) /\ Stop(how, r)
    BY <1>4 DEF Stops
  <2> QED BY <2>1 DEF Stop, Kept, SkippingIsBounded
<1>5. CASE Finish
  BY <1>5, StandingFinish DEF SkippingIsBounded
<1>6. CASE UNCHANGED vars
  BY <1>6 DEF vars, SkippingIsBounded
<1> QED BY <1>1, <1>2, <1>3, <1>4, <1>5, <1>6, NextKinds

\* max_total_skipped is exceeded by at most one token, by all the repairs of a
\* parse together.
THEOREM BudgetHolds == Spec => []SkippingIsBounded
<1>1. Init => SkippingIsBounded
  <2> SUFFICES ASSUME Init PROVE recovery.skipped <= MaxTotalSkipped + 1
    BY DEF SkippingIsBounded
  <2>1. recovery.skipped = 0
    BY DEF Init
  <2> QED BY <2>1, BudgetsAssumption
<1> QED BY <1>1, SkippedStep, StackStands, PTL DEF Spec

-----------------------------------------------------------------------------
(* NoMatch. *)

\* NoMatch is on its way only from a probe that has seen nothing, or to one;
\* what main answers is not the answer of a probe.
NoMatchIsCaught ==
    /\ answer.kind = "absent" => IF answer.probe THEN ~answer.committed ELSE AbsentRule(calls)
    /\ calls = <<>> => ~answer.probe

\* It does not leave the main rule.
NoMatchStaysInside == calls = <<>> => answer.kind # "absent"

LEMMA AbsentBelow ==
    ASSUME Standing, calls # <<>>, AbsentRule(calls)
    PROVE  IF Top.probe THEN ~Top.committed ELSE AbsentRule(Front(calls))
<1> DEFINE n == Len(calls)
           cs == Front(calls)
           probes == {f \in DOMAIN calls : calls[f].probe}
<1>1. /\ TypeOK /\ n \in Nat \ {0} /\ DOMAIN calls = 1..n /\ Top = calls[n]
      /\ cs \in Seq(Frames) /\ Len(cs) = n - 1 /\ \A f \in 1..n - 1 : cs[f] = calls[f]
  BY TopStands, TopType, TopOf
<1>2. probes \subseteq 1..n /\ probes # {} /\ ~calls[Max(probes)].committed
  BY <1>1 DEF AbsentRule
<1>3. Max(probes) \in probes /\ \A j \in probes : j <= Max(probes)
  <2> HIDE DEF probes, n
  <2> QED BY <1>1, <1>2, MaxOfSome
<1>4. CASE Top.probe
  <2>1. n \in probes
    BY <1>1, <1>4
  <2>2. Max(probes) = n
    <3>1. Max(probes) \in 1..n /\ n <= Max(probes)
      BY <1>2, <1>3, <2>1
    <3> HIDE DEF probes
    <3> QED BY <3>1, <1>1
  <2> QED BY <2>2, <1>1, <1>2, <1>4
<1>5. CASE ~Top.probe
  <2> HIDE DEF cs
  <2>1. DOMAIN cs = 1..n - 1
    BY <1>1
  <2>2. {f \in DOMAIN cs : cs[f].probe} = probes
    <3>1. 1..n = (1..n - 1) \cup {n}
      BY <1>1
    <3> QED BY <3>1, <2>1, <1>1, <1>5
  <2>3. Max(probes) \in DOMAIN cs
    BY <2>2, <1>3
  <2>4. cs[Max(probes)] = calls[Max(probes)]
    BY <2>1, <2>3, <1>1
  <2> HIDE DEF probes
  <2>5. AbsentRule(cs)
    BY <2>2, <2>4, <1>2 DEF AbsentRule
  <2> QED BY <2>5, <1>5 DEF cs
<1> QED BY <1>4, <1>5

LEMMA NoMatchStep ==
    ASSUME Standing, NoMatchIsCaught, [Next]_vars
    PROVE  NoMatchIsCaught'
<1>1. CASE Turns \/ Calls
  <2>1. \E cs, r : Continue(cs, r) /\ cs # <<>>
    <3>1. CASE Turns
      <4>1. PICK cs, r : Turn(cs, r) /\ Continue(cs, r)
        BY <3>1 DEF Turns
      <4>2. cs # <<>>
        BY <4>1, <3>1, TopStands, TopType DEF Turn, Alike, Turns
      <4> QED BY <4>1, <4>2
    <3>2. CASE Calls
      <4>1. PICK probe \in BOOLEAN : Call(probe)
        BY <3>2 DEF Calls
      <4>2. calls \in Seq(Frames)
        BY DEF Standing, TypeOK
      <4> DEFINE c == Enter(SymbolOf(Top), Top.pos, Top.took, probe)
      <4>3. Continue(Append(calls, c), recovery)
        BY <4>1 DEF Call
      <4>4. Append(calls, c) # <<>>
        <5> HIDE DEF c
        <5> QED BY <4>2
      <4> HIDE DEF c
      <4> QED BY <4>3, <4>4
    <3> QED BY <1>1, <3>1, <3>2
  <2>2. calls' # <<>> /\ answer'.kind = "none"
    BY <2>1 DEF Continue, NoAnswer
  <2> QED BY <2>2 DEF NoMatchIsCaught
<1>2. CASE Leaves
  <2>1. PICK kind \in {"matched", "failed", "absent"}, p \in Positions, r \in RecoveryStates(Len(calls)) :
          /\ Leave(kind, p, r)
          /\ kind = "absent" => AbsentRule(calls) \/ (answer.kind = "absent" /\ ~answer.probe)
    BY <1>2 DEF Leaves
  <2>2. calls # <<>> /\ TypeOK /\ calls \in Seq(Frames) /\ Top = calls[Len(calls)] /\ Len(calls) \in Nat \ {0}
    BY <1>2, TopStands, TopType DEF Leaves
  <2>3. /\ calls' = Front(calls) /\ answer'.kind = kind /\ answer'.probe = Top.probe
        /\ answer'.committed = Top.committed
    BY <2>1 DEF Leave
  <2>4. kind = "absent" => AbsentRule(calls)
    BY <2>1 DEF NoMatchIsCaught
  <2>5. kind = "absent" => IF Top.probe THEN ~Top.committed ELSE AbsentRule(Front(calls))
    BY <2>2, <2>4, AbsentBelow
  <2>6. Front(calls) = <<>> => ~Top.probe
    <3>1. Front(calls) = <<>> => Len(calls) = 1
      <4> DEFINE cs == Front(calls)
      <4>1. Len(cs) = Len(calls) - 1
        BY <2>2, TopOf
      <4> HIDE DEF cs
      <4>2. cs = <<>> => Len(calls) = 1
        BY <4>1, <2>2
      <4> QED BY <4>2 DEF cs
    <3> QED BY <3>1, <2>2 DEF Standing, CallsFollowTheGrammar
  <2> QED BY <2>3, <2>5, <2>6 DEF NoMatchIsCaught, AbsentRule
<1>3. CASE calls' = calls /\ answer' = answer
  BY <1>3 DEF NoMatchIsCaught, AbsentRule
<1>4. Stops \/ Finish \/ UNCHANGED vars => calls' = calls /\ answer' = answer
  BY StandingFinish DEF Stops, Stop, vars
<1> QED BY <1>1, <1>2, <1>3, <1>4, NextKinds

\* The NoMatch a probing parser raises is always caught by the call that probes,
\* and by no call that probes behind it: it never leaves the parser.
THEOREM NoMatchNeverEscapes == Spec => [](NoMatchIsCaught /\ NoMatchStaysInside)
<1>1. Init => NoMatchIsCaught
  BY DEF Init, NoMatchIsCaught, NoAnswer
<1>2. NoMatchIsCaught => NoMatchStaysInside
  <2> SUFFICES ASSUME NoMatchIsCaught, calls = <<>>, answer.kind = "absent" PROVE FALSE
    BY DEF NoMatchStaysInside
  <2>1. AbsentRule(<<>>)
    BY DEF NoMatchIsCaught
  <2> QED BY <2>1 DEF AbsentRule
<1> QED BY <1>1, <1>2, NoMatchStep, StackStands, PTL DEF Spec

-----------------------------------------------------------------------------
(* What context recovery may not do. *)

LEMMA CanUseClaims ==
    ASSUME Standing, NEW f \in 1..Len(calls) - 1, NEW token, CanUse(f, token)
    PROVE  f \in Claimants(calls, token)
<1> DEFINE c == calls[f]
<1>1. TypeOK /\ calls \in Seq(Frames)
  BY DEF Standing, TypeOK
<1>2. f \in DOMAIN calls /\ c \in Frames
  BY <1>1
<1>3. Waiting(c)
  BY DEF Standing, CallsFollowTheGrammar
<1>4. /\ RuleOf(c) \in Seq(Members) /\ Len(RuleOf(c)) \in Nat /\ c.m \in Nat \ {0} /\ c.m <= Len(RuleOf(c))
      /\ c.rule \in DOMAIN parser.rules /\ parser \in Parsers /\ RuleOf(c) = parser.rules[c.rule]
  BY <1>1, <1>2, <1>3, RuleType DEF Waiting, InBody, RuleOf, Frames, TypeOK
<1>5. PICK m \in c.m..Len(RuleOf(c)) : \E i \in DOMAIN RuleOf(c)[m].body :
         \E s \in 1..Len(RuleOf(c)[m].body[i].syms) : token \in parser.reach[RuleOf(c)[m].body[i].syms[s]]
  BY DEF CanUse
<1>6. PICK i \in DOMAIN RuleOf(c)[m].body :
         \E s \in 1..Len(RuleOf(c)[m].body[i].syms) : token \in parser.reach[RuleOf(c)[m].body[i].syms[s]]
  BY <1>5
<1>7. PICK s \in 1..Len(RuleOf(c)[m].body[i].syms) : token \in parser.reach[RuleOf(c)[m].body[i].syms[s]]
  BY <1>6
<1> DEFINE symbol == RuleOf(c)[m].body[i].syms[s]
<1>8. symbol \in Range(RuleOf(c)[m].body[i].syms)
  <2>1. m \in DOMAIN RuleOf(c) /\ RuleOf(c)[m] \in Members
    BY <1>4, <1>5
  <2>2. RuleOf(c)[m].body[i] \in Atoms
    BY <2>1, <1>6 DEF Members
  <2>3. RuleOf(c)[m].body[i].syms \in Seq(STRING)
    BY <2>2 DEF Atoms
  <2> QED BY <2>3, <1>7 DEF Range
<1>9. symbol \in LeftFrom(parser.rules, c.rule, c.m)
  <2> DEFINE Within(n) == UNION {Range(parser.rules[c.rule][n].body[k].syms) : k \in DOMAIN parser.rules[c.rule][n].body}
  <2>1. symbol \in Within(m)
    <3> HIDE DEF symbol, c
    <3> QED BY <1>4, <1>6, <1>8
  <2>2. LeftFrom(parser.rules, c.rule, c.m) = UNION {Within(n) : n \in c.m..Len(parser.rules[c.rule])}
    BY DEF LeftFrom
  <2>3. m \in c.m..Len(parser.rules[c.rule])
    BY <1>4, <1>5
  <2> HIDE DEF Within, symbol, c
  <2> QED BY <2>1, <2>2, <2>3
<1>10. c.m \in DOMAIN parser.rules[c.rule]
  BY <1>4
<1>11. parser.reach[symbol] \subseteq SiteOf(c).claims
  <2> HIDE DEF symbol, c
  <2> QED BY <1>4, <1>9, <1>10, GeneratedAssumption DEF ParsersAssumption, SiteOf
<1> QED BY <1>2, <1>7, <1>11 DEF Claimants

LEMMA EnclosingStep ==
    ASSUME Standing, [Next]_vars,
           recovery'.skipped > recovery.skipped, Len(calls') = Len(calls), Last(calls').pos # Lost,
           NEW p \in Top.pos..Last(calls').pos - 1, NEW f \in 1..Len(calls) - 1
    PROVE  ~CanUse(f, input[p])
<1>1. CASE Turns
  <2>1. PICK cs, r : Turn(cs, r) /\ Continue(cs, r)
    BY <1>1 DEF Turns
  <2>2. calls' = cs /\ recovery' = r /\ TurnTo(Last(cs), r)
    BY <2>1 DEF Turn, Continue
  <2>3. calls # <<>> /\ TypeOK /\ Top.pos \in Positions
    BY <1>1, TopStands, TopType DEF Turns
  <2>4. Top.pos # Lost /\ Unclaimed(calls, Top.pos, Last(cs).pos - Top.pos) /\ Last(cs).pos \in Positions
    <3>1. recovery.skipped < r.skipped
      BY <2>2, <2>3, TopType DEF TurnTo, RecoveryStates
    <3> QED BY <3>1, <2>2 DEF TurnTo, Frames
  <2>5. /\ p \in 1..Len(input) /\ p - Top.pos \in 0..(Last(cs).pos - Top.pos) - 1
        /\ Top.pos + (p - Top.pos) = p
    BY <2>2, <2>3, <2>4, InputIsSequence DEF Positions, Lost
  <2>6. Kind(p) = input[p]
    BY <2>3, <2>5, InputIsSequence DEF Kind, AtEnd, Lost
  <2>7. f \notin Claimants(calls, Kind(p))
    BY <2>4, <2>5 DEF Unclaimed
  <2> QED BY <2>6, <2>7, CanUseClaims
<1>2. CASE Calls
  <2>1. calls \in Seq(Frames) /\ recovery' = recovery /\ recovery.skipped \in Nat
    BY <1>2, TopStands, TopType DEF Calls, Call, Continue
  <2> QED BY <2>1
<1>3. CASE Leaves
  <2>1. calls' = Front(calls) /\ calls # <<>>
    BY <1>3 DEF Leaves, Leave
  <2>2. Len(Front(calls)) = Len(calls) - 1 /\ Len(calls) \in Nat
    BY <2>1, TopStands, TopType, TopOf
  <2> QED BY <2>1, <2>2
<1>4. CASE Stops
  <2>1. calls' = calls /\ calls # <<>>
    BY <1>4 DEF Stops, Stop
  <2>2. Last(calls').pos = Top.pos /\ Top.pos \in Nat
    BY <2>1, TopStands, TopType DEF Top, Positions
  <2> QED BY <2>2
<1>5. CASE Finish
  <2>1. calls = <<>>
    BY <1>5, StandingFinish
  <2> QED BY <2>1
<1>6. CASE UNCHANGED vars
  <2>1. calls' = calls /\ recovery' = recovery
    BY <1>6 DEF vars
  <2>2. recovery.skipped \in Nat
    BY DEF Standing, TypeOK, RecoveryStates
  <2> QED BY <2>1, <2>2
<1> QED BY <1>1, <1>2, <1>3, <1>4, <1>5, <1>6, NextKinds

\* No repair drops a token some enclosing rule can still use.
THEOREM EnclosingTokensAreKept == Spec => EnclosingRulesKeepTheirTokens
<1>1. Standing /\ [Next]_vars =>
        (recovery'.skipped > recovery.skipped /\ Len(calls') = Len(calls) /\ Last(calls').pos # Lost =>
           \A p \in Top.pos..Last(calls').pos - 1 : \A f \in 1..Len(calls) - 1 : ~CanUse(f, input[p]))
  BY EnclosingStep
<1> QED BY <1>1, StackStands, PTL DEF Spec, EnclosingRulesKeepTheirTokens

-----------------------------------------------------------------------------
(* Unwinding. *)

\* A rule that is being given up is past the places from which it would call.
Shut == Running /\ calls # <<>> /\ recovery.unwind > 0 /\ answer.kind = "none" => ~Open(Top)

LEMMA NextRuns == Next => Running
BY DEF Next, EndRule, StartMember, EndBody, BetweenMembers, RequiredToken, OptionalToken, RepeatedToken,
       AtToken, CallRule, AtRule, AtSymbol, RuleMatched, RuleFailed, RuleAbsent, ChooseAlternative, Finish,
       Working, Answered

\* With SoloOptions it calls nothing.
LEMMA NoCallsUnwinding ==
    ASSUME SoloOptions, Standing, Shut, Calls
    PROVE  ~(recovery.unwind > 0)
<1> SUFFICES ASSUME recovery.unwind > 0 PROVE FALSE
  OBVIOUS
<1>1. /\ Running /\ calls # <<>> /\ answer.kind = "none" /\ InBody(Top) /\ ~Choosing(Top) /\ IsRule(SymbolOf(Top))
      /\ AtomOf(Top).q = "?"
  BY DEF Calls, AtRule, AtSymbol, Working
<1>2. TypeOK /\ Top \in Frames /\ Placed(Top)
  BY <1>1, TopStands, TopType
<1>3. /\ parser \in Parsers /\ Top.rule \in DOMAIN parser.rules
      /\ RuleOf(Top) = parser.rules[Top.rule] /\ RuleOf(Top) \in Seq(Members)
      /\ Top.m \in Nat \ {0} /\ Top.m <= Len(RuleOf(Top)) /\ Len(RuleOf(Top)) \in Nat
  BY <1>1, <1>2, RuleType DEF InBody, TypeOK, Frames, RuleOf
<1>4. /\ Top.m \in DOMAIN parser.rules[Top.rule]
      /\ MemberOf(Top) = parser.rules[Top.rule][Top.m]
      /\ Top.i \in DOMAIN MemberOf(Top).body /\ AtomOf(Top) = MemberOf(Top).body[Top.i]
  BY <1>1, <1>3 DEF MemberOf, InBody, AtomOf
<1>5. /\ AtomOf(Top) \in Atoms /\ Len(AtomOf(Top).syms) \in Nat \ {0} /\ Top.alt \in Nat
      /\ DOMAIN AtomOf(Top).syms = 1..Len(AtomOf(Top).syms) /\ Top.alt <= Len(AtomOf(Top).syms)
  BY <1>1, <1>2, RuleType DEF Placed
<1>6. SymbolOf(Top) \in Range(AtomOf(Top).syms)
  <2> DEFINE k == IF Len(AtomOf(Top).syms) = 1 THEN 1 ELSE Top.alt
  <2>1. k \in DOMAIN AtomOf(Top).syms
    <3> DEFINE n == Len(AtomOf(Top).syms)
    <3>1. n \in Nat \ {0} /\ Top.alt \in Nat /\ Top.alt <= n /\ DOMAIN AtomOf(Top).syms = 1..n
          /\ (n > 1 => Top.alt # 0) /\ k = IF n = 1 THEN 1 ELSE Top.alt
      BY <1>1, <1>5 DEF Choosing
    <3> HIDE DEF n, k
    <3> QED BY <3>1
  <2>2. SymbolOf(Top) = AtomOf(Top).syms[k]
    BY DEF SymbolOf
  <2> HIDE DEF k
  <2> QED BY <2>1, <2>2 DEF Range
<1>7. Range(AtomOf(Top).syms) \cap DOMAIN parser.rules # {}
  BY <1>1, <1>6 DEF IsRule
<1>8. Top.i = 1 /\ MemberOf(Top).q \notin {"*", "+"}
  BY <1>1, <1>3, <1>4, <1>7 DEF SoloOptions
<1>9. Open(Top)
  BY <1>1, <1>8 DEF Open
<1> QED BY <1>1, <1>9 DEF Shut

LEMMA OpenKept ==
    ASSUME parser' = parser, ~Open(Last(calls'))
    PROVE  ~Open(Top)'
BY DEF Open, InBody, AtomOf, MemberOf, RuleOf, Top

LEMMA ShutStep ==
    ASSUME SoloOptions, Standing, Shut, [Next]_vars
    PROVE  /\ Shut'
           /\ recovery.unwind > 0 => Len(calls') - recovery'.unwind = Len(calls) - recovery.unwind
<1>1. CASE Turns /\ Running
  <2>1. PICK cs, r : Turn(cs, r) /\ Continue(cs, r)
    BY <1>1 DEF Turns
  <2>2. /\ calls' = cs /\ recovery' = r /\ TurnTo(Last(cs), r) /\ Len(cs) = Len(calls) /\ parser' = parser
        /\ calls # <<>>
    BY <2>1, <1>1 DEF Turn, Continue, Alike, Turns
  <2>3. recovery.unwind > 0 => r.unwind = recovery.unwind
    BY <2>2 DEF TurnTo
  <2>4. r.unwind > 0 => ~Open(Last(cs))
    BY <1>1, <2>2 DEF TurnTo, Shut
  <2>5. Shut'
    BY <2>2, <2>4, OpenKept DEF Shut
  <2> QED BY <2>2, <2>3, <2>5
<1>2. CASE Calls
  <2>1. ~(recovery.unwind > 0) /\ recovery' = recovery
    BY <1>2, NoCallsUnwinding DEF Calls, Call, Continue
  <2> QED BY <2>1 DEF Shut
<1>3. CASE Leaves
  <2>1. PICK kind \in {"matched", "failed", "absent"}, p \in Positions, r \in RecoveryStates(Len(calls)) :
          Kept(r) /\ Leave(kind, p, r) /\ r.unwind = recovery.unwind
    BY <1>3 DEF Leaves
  <2>2. /\ calls # <<>> /\ TypeOK /\ calls \in Seq(Frames) /\ Len(calls) \in Nat \ {0}
        /\ recovery.unwind \in 0..Len(calls)
    BY <1>3, TopStands, TopType DEF Leaves
  <2>3. calls' = Front(calls) /\ recovery' = FrameGone(r) /\ answer'.kind = kind
    BY <2>1 DEF Leave
  <2>4. Len(Front(calls)) = Len(calls) - 1
    BY <2>2, TopOf
  <2>5. FrameGone(r).unwind = IF r.unwind > 0 THEN r.unwind - 1 ELSE 0
    BY <2>1, <2>2, FrameGoneType DEF Kept
  <2>6. Shut'
    BY <2>3 DEF Shut
  <2>7. recovery.unwind > 0 => Len(calls') - recovery'.unwind = Len(calls) - recovery.unwind
    BY <2>1, <2>2, <2>3, <2>4, <2>5
  <2> QED BY <2>6, <2>7
<1>4. CASE Stops
  <2>1. PICK how \in {"thrown", "crashed"}, r \in RecoveryStates(Len(calls)) : Kept(r) /\ Stop(how, r)
    BY <1>4 DEF Stops
  <2>2. /\ calls' = calls /\ answer' = answer /\ parser' = parser /\ recovery' = r
        /\ recovery.unwind > 0 => r.unwind = recovery.unwind
    BY <2>1 DEF Stop, Kept
  <2>3. Shut'
    BY <2>1 DEF Stop, Shut, Running
  <2> QED BY <2>2, <2>3
<1>5. CASE Finish
  <2>1. calls = <<>> /\ calls' = calls
    BY <1>5, StandingFinish
  <2>2. recovery.unwind \in 0..Len(calls)
    BY DEF Standing, TypeOK, RecoveryStates
  <2>3. ~(recovery.unwind > 0)
    BY <2>1, <2>2
  <2> QED BY <2>1, <2>3 DEF Shut
<1>6. CASE UNCHANGED vars
  <2>1. /\ calls' = calls /\ recovery' = recovery /\ answer' = answer /\ parser' = parser
        /\ outcome' = outcome
    BY <1>6 DEF vars
  <2>2. Shut'
    BY <2>1, OpenKept DEF Shut, Top, Running
  <2> QED BY <2>1, <2>2
<1> QED BY <1>1, <1>2, <1>3, <1>4, <1>5, <1>6, NextKinds, NextRuns

\* The rule context recovery unwinds to stays the same until it is reached,
\* whatever the rules given up on the way there do, for parsers in which no
\* optional rule is called behind a part of its member that failed.
THEOREM UnwindingReachesItsTarget ==
    ASSUME SoloOptions
    PROVE  Spec => UnwindingKeepsItsTarget
<1>1. Init => Shut
  BY DEF Init, Shut
<1>2. Standing /\ Shut /\ [Next]_vars =>
        /\ Shut'
        /\ recovery.unwind > 0 => Len(calls') - recovery'.unwind = Len(calls) - recovery.unwind
  BY ShutStep
<1> QED BY <1>1, <1>2, StackStands, PTL DEF Spec, UnwindingKeepsItsTarget

-----------------------------------------------------------------------------
(* What is generated. *)

G == INSTANCE LLGrammar

\* The parser generated for any grammar of members has claims that fit
\* ParsersAssumption: left_terminals of a member covers its whole suffix.
THEOREM GeneratedParsersFit ==
    ASSUME NEW g, g \in [DOMAIN g -> Seq(Members)], NEW p, p = G!Generate(g)
    PROVE  /\ p.rules \in [DOMAIN p.rules -> Seq(Members)]
           /\ \A r \in DOMAIN p.rules : \A m \in DOMAIN p.rules[r] :
                 \A symbol \in LeftFrom(p.rules, r, m) : p.reach[symbol] \subseteq p.sites[r][m].claims
<1> DEFINE reach == G!Reach(g)
           symbols == DOMAIN g \cup G!TokensOf(g)
<1>1. /\ p.rules = g
      /\ p.reach = [s \in symbols |-> G!SymbolFirst(reach, s)]
      /\ \A r \in DOMAIN g : \A m \in DOMAIN g[r] : p.sites[r][m].claims = G!Claims(g, reach, r, m)
  BY DEF G!Generate, G!Site, G!Rules
<1> HIDE DEF reach
<1> SUFFICES ASSUME NEW r \in DOMAIN g, NEW m \in DOMAIN g[r], NEW symbol \in LeftFrom(g, r, m)
             PROVE  p.reach[symbol] \subseteq p.sites[r][m].claims
  BY <1>1
<1>2. g[r] \in Seq(Members) /\ Len(g[r]) \in Nat /\ m \in 1..Len(g[r])
  OBVIOUS
<1>3. PICK n \in m..Len(g[r]) : symbol \in UNION {Range(g[r][n].body[i].syms) : i \in DOMAIN g[r][n].body}
  BY DEF LeftFrom
<1>4. PICK i \in DOMAIN g[r][n].body : symbol \in Range(g[r][n].body[i].syms)
  BY <1>3
<1> DEFINE member == g[r][n]
           left == SubSeq(g[r], m, Len(g[r]))
<1>5. symbol \in G!SymbolsOf(member)
  <2>1. member.body[i] \in G!AtomsOf(member)
    BY <1>4 DEF G!AtomsOf, G!Range, Range
  <2> QED BY <2>1, <1>4 DEF G!SymbolsOf, G!Range, Range
<1>6. member \in Range(g[r]) /\ member \in Range(left)
  <2>1. n \in 1..Len(g[r])
    BY <1>2, <1>3
  <2>2. n - m + 1 \in DOMAIN left /\ left[n - m + 1] = member
    BY <1>2, <1>3
  <2> HIDE DEF left
  <2> QED BY <2>1, <2>2, <1>2 DEF Range
<1> HIDE DEF member
<1>7. symbol \in symbols
  <2> DEFINE all == UNION {G!Range(g[s]) : s \in G!Rules(g)}
  <2>1. G!Rules(g) = DOMAIN g /\ member \in G!Range(g[r])
    BY <1>6 DEF G!Rules, G!Range, Range
  <2>2. member \in all
    BY <2>1
  <2>3. G!TokensOf(g) = (UNION {G!SymbolsOf(x) : x \in all}) \ G!Rules(g)
    BY DEF G!TokensOf
  <2> HIDE DEF all
  <2> DEFINE within == UNION {G!SymbolsOf(x) : x \in all}
  <2>4. symbol \in within
    BY <2>2, <1>5
  <2>5. G!TokensOf(g) = within \ G!Rules(g)
    BY <2>3
  <2> HIDE DEF within
  <2>6. symbol \in G!TokensOf(g) \cup G!Rules(g)
    BY <2>4, <2>5
  <2> QED BY <2>1, <2>6
<1>8. p.reach[symbol] = G!SymbolFirst(reach, symbol)
  <2> HIDE DEF symbols
  <2> QED BY <1>1, <1>7
<1>9. symbol \in UNION {G!SymbolsOf(x) : x \in Range(left)}
  BY <1>5, <1>6
<1>10. G!SymbolFirst(reach, symbol) \subseteq G!Claims(g, reach, r, m)
  <2> HIDE DEF left
  <2>1. G!Claims(g, reach, r, m) = UNION {G!SymbolFirst(reach, s) : s \in UNION {G!SymbolsOf(x) : x \in Range(left)}}
    BY DEF G!Claims, G!Range, Range, left
  <2> QED BY <2>1, <1>9
<1> QED BY <1>1, <1>8, <1>10


-----------------------------------------------------------------------------
(* Rows of pairs. *)

LEMMA EmptyRow ==
    ASSUME NEW spans, NEW lo \in Int
    PROVE  InARow(spans, 0, lo, lo)
<1> DEFINE cuts == [k \in 0..0 |-> lo]
<1>1. cuts \in [0..0 -> Int] /\ cuts[0] = lo /\ \A k \in 1..0 : <<cuts[k - 1], cuts[k]>> \in spans[k]
  OBVIOUS
<1> HIDE DEF cuts
<1> QED BY <1>1 DEF InARow

LEMMA LongerRow ==
    ASSUME NEW spans, NEW n \in Nat, NEW lo, NEW mid, InARow(spans, n, lo, mid),
           NEW hi \in Int, <<mid, hi>> \in spans[n + 1],
           NEW more, \A k \in 1..(n + 1) : more[k] = spans[k]
    PROVE  InARow(more, n + 1, lo, hi)
<1>1. PICK cuts \in [0..n -> Int] :
         cuts[0] = lo /\ cuts[n] = mid /\ \A k \in 1..n : <<cuts[k - 1], cuts[k]>> \in spans[k]
  BY DEF InARow
<1> DEFINE last == n + 1
           cuts2 == [k \in 0..last |-> IF k = last THEN hi ELSE cuts[k]]
<1>2. /\ last \in 0..last /\ 0 \in 0..last /\ 0 # last /\ n \in 0..last /\ n # last /\ last - 1 = n
      /\ \A k \in 1..n : k \in 0..last /\ k - 1 \in 0..last /\ k # last /\ k - 1 # last /\ k \in 1..last
      /\ \A k \in 1..last : k = last \/ k \in 1..n
      /\ \A k \in 0..last : k = last \/ k \in 0..n
  OBVIOUS
<1> HIDE DEF last
<1>3. cuts2 \in [0..last -> Int] /\ cuts2[0] = lo /\ cuts2[last] = hi /\ cuts2[n] = mid
  BY <1>1, <1>2
<1>4. ASSUME NEW k \in 1..n PROVE <<cuts2[k - 1], cuts2[k]>> \in more[k]
  <2>1. cuts2[k - 1] = cuts[k - 1] /\ cuts2[k] = cuts[k]
    BY <1>2
  <2>2. more[k] = spans[k]
    BY <1>2 DEF last
  <2> QED BY <1>1, <2>1, <2>2
<1> HIDE DEF cuts2
<1>5. <<cuts2[last - 1], cuts2[last]>> \in more[last]
  <2>1. <<mid, hi>> \in spans[last] /\ more[last] = spans[last]
    BY DEF last
  <2> QED BY <1>2, <1>3, <2>1
<1>6. \A k \in 1..last : <<cuts2[k - 1], cuts2[k]>> \in more[k]
  BY <1>2, <1>4, <1>5
<1> QED BY <1>3, <1>6 DEF InARow, last

LEMMA SameRow ==
    ASSUME NEW spans, NEW n \in Nat, NEW lo, NEW hi, InARow(spans, n, lo, hi),
           NEW others, \A k \in 1..n : others[k] = spans[k]
    PROVE  InARow(others, n, lo, hi)
BY DEF InARow

\* n turns of one thing.
Turned(one, n, lo, hi) == InARow([k \in 1..n |-> one], n, lo, hi)

LEMMA NoTurn ==
    ASSUME NEW one, NEW lo \in Int
    PROVE  Turned(one, 0, lo, lo)
BY EmptyRow DEF Turned

LEMMA OneMoreTurn ==
    ASSUME NEW one, NEW n \in Nat, NEW lo, NEW mid, Turned(one, n, lo, mid),
           NEW hi \in Int, <<mid, hi>> \in one
    PROVE  Turned(one, n + 1, lo, hi)
<1> DEFINE more == [k \in 1..(n + 1) |-> one]
           spans == [k \in 1..n |-> one]
<1>1. InARow(more, n, lo, mid)
  <2>1. InARow(spans, n, lo, mid)
    BY DEF Turned
  <2>2. \A k \in 1..n : more[k] = spans[k]
    OBVIOUS
  <2> HIDE DEF more, spans
  <2> QED BY <2>1, <2>2, SameRow
<1>2. more[n + 1] = one
  OBVIOUS
<1> HIDE DEF more
<1>3. InARow(more, n + 1, lo, hi)
  BY <1>1, <1>2, LongerRow
<1> QED BY <1>3 DEF Turned, more

\* So many turns are as many as the quantifier asks for.
LEMMA TurnsEnough ==
    ASSUME NEW text, NEW q, NEW one, NEW n \in Nat, NEW lo \in Spots(text),
           NEW hi \in Spots(text), Turned(one, n, lo, hi),
           n = 0 => q \in {"?", "*"}, n > 1 => q \in {"*", "+"}
    PROVE  <<lo, hi>> \in Turning(text, q, one)
<1>1. n \in TurnsOf(q)
  <2>1. CASE q = "?"
    BY <2>1 DEF TurnsOf
  <2>2. CASE q = "*"
    BY <2>2 DEF TurnsOf
  <2>3. CASE q = "+"
    BY <2>3 DEF TurnsOf
  <2>4. CASE q \notin {"?", "*", "+"}
    BY <2>4 DEF TurnsOf
  <2> QED BY <2>1, <2>2, <2>3, <2>4
<1>2. InARow([k \in 1..n |-> one], n, lo, hi)
  BY DEF Turned
<1>3. <<lo, hi>> \in Pairs(text) /\ <<lo, hi>>[1] = lo /\ <<lo, hi>>[2] = hi
  BY DEF Pairs
<1> QED BY <1>1, <1>2, <1>3 DEF Turning

-----------------------------------------------------------------------------
(* How much of its rule a rule function has read, with whole for what the  *)
(* symbols stand for.                                                      *)

Members1(whole, c) == RuleParts(input, whole, RuleOf(c))
Atoms1(whole, c) == BodyParts(input, whole, MemberOf(c))

\* Some turns of the atom it is at, from z on.
AtomIsRead(whole, c, z) ==
    IF InBody(c)
    THEN \E k \in Nat : /\ Turned(OneOf(input, whole, AtomOf(c)), k, z, c.pos)
                        /\ k > 0 => AtomOf(c).q \in {"*", "+"}
                        /\ c.started => k > 0
    ELSE z = c.pos

\* Some turns of the member it is in, from x on, and the atoms of another.
BodyIsRead(whole, c, x) ==
    \E y, z \in Spots(input), n \in Nat :
        /\ Turned(BodySpans(input, whole, MemberOf(c)), n, x, y)
        /\ n > 0 => MemberOf(c).q \in {"*", "+"}
        /\ InARow(Atoms1(whole, c), c.i - 1, y, z)
        /\ AtomIsRead(whole, c, z)

\* And the members before it, from where the rule began.
IsRead(whole, c) ==
    /\ c.start \in Spots(input) /\ c.pos \in Spots(input)
    /\ \E x \in Spots(input) :
          /\ InARow(Members1(whole, c), c.m - 1, c.start, x)
          /\ IF c.i = 0 THEN x = c.pos ELSE BodyIsRead(whole, c, x)

LEMMA SpotsAre ==
    ASSUME NEW s \in Spots(input)
    PROVE  s \in Int
BY DEF Spots

\* Only the place, the beginning and the position matter.
LEMMA ReadAlike ==
    ASSUME NEW whole, NEW c, IsRead(whole, c), NEW d,
           d.rule = c.rule, d.m = c.m, d.i = c.i, d.start = c.start, d.pos = c.pos,
           d.started => c.started
    PROVE  IsRead(whole, d)
<1>1. RuleOf(d) = RuleOf(c) /\ MemberOf(d) = MemberOf(c) /\ AtomOf(d) = AtomOf(c) /\ (InBody(d) <=> InBody(c))
  BY PlacedAlike
<1>2. Members1(whole, d) = Members1(whole, c) /\ Atoms1(whole, d) = Atoms1(whole, c)
  BY <1>1 DEF Members1, Atoms1
<1>3. PICK x \in Spots(input) :
         /\ InARow(Members1(whole, c), c.m - 1, c.start, x)
         /\ IF c.i = 0 THEN x = c.pos ELSE BodyIsRead(whole, c, x)
  BY DEF IsRead
<1>4. ASSUME BodyIsRead(whole, c, x) PROVE BodyIsRead(whole, d, x)
  <2>1. ASSUME NEW z, AtomIsRead(whole, c, z) PROVE AtomIsRead(whole, d, z)
    <3>1. CASE InBody(c)
      <4>1. PICK k \in Nat : /\ Turned(OneOf(input, whole, AtomOf(c)), k, z, c.pos)
                             /\ k > 0 => AtomOf(c).q \in {"*", "+"}
                             /\ c.started => k > 0
        BY <2>1, <3>1 DEF AtomIsRead
      <4>2. d.started => k > 0
        BY <4>1
      <4> QED BY <1>1, <3>1, <4>1, <4>2 DEF AtomIsRead
    <3>2. CASE ~InBody(c)
      BY <1>1, <2>1, <3>2 DEF AtomIsRead
    <3> QED BY <3>1, <3>2
  <2> QED BY <1>1, <1>2, <1>4, <2>1 DEF BodyIsRead
<1>5. c.start \in Spots(input) /\ c.pos \in Spots(input)
  BY DEF IsRead
<1>6. IF d.i = 0 THEN x = d.pos ELSE BodyIsRead(whole, d, x)
  BY <1>3, <1>4
<1>7. InARow(Members1(whole, d), d.m - 1, d.start, x)
  BY <1>2, <1>3
<1> QED BY <1>5, <1>6, <1>7 DEF IsRead

\* The places At leads to.
LEMMA AtIs ==
    ASSUME NEW c \in Frames, NEW m \in Nat \ {0}, NEW i \in Nat, NEW d, d = At(c, m, i)
    PROVE  /\ d.rule = c.rule /\ d.m = m /\ d.i = i /\ d.start = c.start /\ d.pos = c.pos
           /\ ~d.started /\ RuleOf(d) = RuleOf(c) /\ MemberOf(d) = RuleOf(c)[m]
<1>1. /\ d.rule = c.rule /\ d.m = m /\ d.i = i /\ d.start = c.start /\ d.pos = c.pos
      /\ ~d.started
  BY DEF At, Frames
<1>2. RuleOf(d) = RuleOf(c) /\ MemberOf(d) = RuleOf(c)[m]
  BY <1>1 DEF RuleOf, MemberOf
<1> QED BY <1>1, <1>2

\* A turn of the member's body begins.
LEMMA BodyBegins ==
    ASSUME NEW whole, NEW c \in Frames, NEW x \in Spots(input), NEW n \in Nat, c.pos \in Spots(input),
           Turned(BodySpans(input, whole, MemberOf(c)), n, x, c.pos),
           n > 0 => MemberOf(c).q \in {"*", "+"}
    PROVE  BodyIsRead(whole, At(c, c.m, 1), x)
<1> DEFINE d == At(c, c.m, 1)
<1>1. c.m \in Nat \ {0}
  BY DEF Frames
<1>2. d.pos = c.pos /\ d.i = 1 /\ ~d.started /\ MemberOf(d) = RuleOf(c)[c.m]
  <2> DEFINE m == c.m
  <2>1. m \in Nat \ {0} /\ 1 \in Nat /\ d = At(c, m, 1)
    BY <1>1
  <2> HIDE DEF d, m
  <2>2. /\ d.rule = c.rule /\ d.m = m /\ d.i = 1 /\ d.start = c.start /\ d.pos = c.pos
        /\ ~d.started /\ RuleOf(d) = RuleOf(c) /\ MemberOf(d) = RuleOf(c)[m]
    BY <2>1, AtIs
  <2> QED BY <2>2 DEF m
<1>3. MemberOf(d) = MemberOf(c)
  BY <1>2 DEF MemberOf
<1> HIDE DEF d
<1>4. c.pos \in Int
  BY SpotsAre
<1>5. AtomIsRead(whole, d, c.pos)
  <2>1. Turned(OneOf(input, whole, AtomOf(d)), 0, c.pos, d.pos)
    BY <1>2, <1>4, NoTurn
  <2>2. 0 \in Nat /\ ~(0 > 0)
    OBVIOUS
  <2> QED BY <1>2, <2>1, <2>2 DEF AtomIsRead
<1>6. InARow(Atoms1(whole, d), d.i - 1, c.pos, c.pos)
  <2>1. d.i - 1 = 0
    BY <1>2
  <2> QED BY <1>4, <2>1, EmptyRow
<1> QED BY <1>3, <1>5, <1>6 DEF BodyIsRead, d

LEMMA MemberStarts ==
    ASSUME NEW whole, NEW c \in Frames, IsRead(whole, c), c.i = 0
    PROVE  IsRead(whole, At(c, c.m, 1))
<1> DEFINE d == At(c, c.m, 1)
<1>1. c.m \in Nat \ {0}
  BY DEF Frames
<1>2. d.pos = c.pos /\ d.i = 1 /\ d.m = c.m /\ d.start = c.start /\ RuleOf(d) = RuleOf(c)
  <2> DEFINE m == c.m
  <2>1. m \in Nat \ {0} /\ 1 \in Nat /\ d = At(c, m, 1)
    BY <1>1
  <2> HIDE DEF d, m
  <2>2. /\ d.rule = c.rule /\ d.m = m /\ d.i = 1 /\ d.start = c.start /\ d.pos = c.pos
        /\ ~d.started /\ RuleOf(d) = RuleOf(c) /\ MemberOf(d) = RuleOf(c)[m]
    BY <2>1, AtIs
  <2> QED BY <2>2 DEF m
<1>3. c.start \in Spots(input) /\ c.pos \in Spots(input)
      /\ InARow(Members1(whole, c), c.m - 1, c.start, c.pos)
  BY DEF IsRead
<1>4. Turned(BodySpans(input, whole, MemberOf(c)), 0, c.pos, c.pos)
  BY <1>3, SpotsAre, NoTurn
<1>5. BodyIsRead(whole, d, c.pos)
  <2>1. 0 \in Nat /\ ~(0 > 0)
    OBVIOUS
  <2> QED BY <1>3, <1>4, <2>1, BodyBegins
<1> HIDE DEF d
<1>6. Members1(whole, d) = Members1(whole, c)
  BY <1>2 DEF Members1
<1> QED BY <1>2, <1>3, <1>5, <1>6 DEF IsRead, d

\* The members of a rule and the atoms of a member, as spans.
LEMMA PartsAre ==
    ASSUME TypeOK, NEW c \in Frames, NEW whole
    PROVE  /\ c.m <= Len(RuleOf(c)) =>
                 Members1(whole, c)[c.m] = MemberSpans(input, whole, MemberOf(c))
           /\ InBody(c) => Atoms1(whole, c)[c.i] = AtomSpans(input, whole, AtomOf(c))
<1>1. ASSUME c.m <= Len(RuleOf(c))
      PROVE  Members1(whole, c)[c.m] = MemberSpans(input, whole, MemberOf(c))
  <2> DEFINE m == c.m
             members == RuleOf(c)
  <2>1. m \in DOMAIN members /\ MemberOf(c) = members[m]
    BY <1>1, RuleType DEF MemberOf
  <2> HIDE DEF m, members
  <2>2. RuleParts(input, whole, members)[m] = MemberSpans(input, whole, members[m])
    BY <2>1 DEF RuleParts
  <2> QED BY <2>1, <2>2 DEF Members1, m, members
<1>2. ASSUME InBody(c)
      PROVE  Atoms1(whole, c)[c.i] = AtomSpans(input, whole, AtomOf(c))
  <2> DEFINE i == c.i
             member == MemberOf(c)
  <2>1. i \in DOMAIN member.body /\ AtomOf(c) = member.body[i]
    BY <1>2 DEF InBody, AtomOf
  <2> HIDE DEF i, member
  <2>2. BodyParts(input, whole, member)[i] = AtomSpans(input, whole, member.body[i])
    BY <2>1 DEF BodyParts
  <2> QED BY <2>1, <2>2 DEF Atoms1, i, member
<1> QED BY <1>1, <1>2

\* One atom further.
LEMMA AtomPassed ==
    ASSUME TypeOK, NEW whole, NEW c \in Frames, InBody(c), c.start \in Spots(input),
           NEW x \in Spots(input), InARow(Members1(whole, c), c.m - 1, c.start, x),
           NEW y \in Spots(input), NEW n \in Nat,
           Turned(BodySpans(input, whole, MemberOf(c)), n, x, y), n > 0 => MemberOf(c).q \in {"*", "+"},
           NEW z \in Spots(input), InARow(Atoms1(whole, c), c.i - 1, y, z),
           NEW d, d.rule = c.rule, d.m = c.m, d.i = c.i + 1, d.start = c.start, ~d.started,
           d.pos \in Spots(input), <<z, d.pos>> \in AtomSpans(input, whole, AtomOf(c))
    PROVE  IsRead(whole, d)
<1>1. RuleOf(d) = RuleOf(c) /\ MemberOf(d) = MemberOf(c)
  BY DEF RuleOf, MemberOf
<1>2. Members1(whole, d) = Members1(whole, c) /\ Atoms1(whole, d) = Atoms1(whole, c)
  BY <1>1 DEF Members1, Atoms1
<1>3. c.i \in Nat \ {0} /\ d.i # 0 /\ d.i - 1 = c.i
  BY RuleType DEF InBody
<1> DEFINE spans == Atoms1(whole, c)
           i == c.i
           j == i - 1
           p == d.pos
<1>4. InARow(spans, i, y, p)
  <2>1. j \in Nat /\ j + 1 = i
    BY <1>3
  <2>2. p \in Int
    BY SpotsAre
  <2>3. <<z, p>> \in spans[i] /\ InARow(spans, j, y, z)
    BY PartsAre
  <2> HIDE DEF spans, i, j, p
  <2>4. InARow(spans, j + 1, y, p)
    BY <2>1, <2>2, <2>3, LongerRow
  <2> QED BY <2>1, <2>4
<1> HIDE DEF spans, i, j, p
<1>5. AtomIsRead(whole, d, p)
  <2>1. Turned(OneOf(input, whole, AtomOf(d)), 0, p, d.pos)
    BY SpotsAre, NoTurn DEF p
  <2>2. 0 \in Nat /\ ~(0 > 0)
    OBVIOUS
  <2> QED BY <2>1, <2>2 DEF AtomIsRead, p
<1>6. BodyIsRead(whole, d, x)
  <2>1. InARow(Atoms1(whole, d), d.i - 1, y, p) /\ p \in Spots(input)
    BY <1>2, <1>3, <1>4 DEF spans, i, p
  <2> QED BY <1>1, <1>5, <2>1 DEF BodyIsRead
<1> QED BY <1>2, <1>3, <1>6 DEF IsRead

\* What a rule function within a body has read, taken apart.
LEMMA ReadInBody ==
    ASSUME TypeOK, NEW whole, NEW c \in Frames, IsRead(whole, c), InBody(c)
    PROVE  /\ c.start \in Spots(input) /\ c.pos \in Spots(input)
           /\ \E x, y, z \in Spots(input), n, k \in Nat :
                 /\ InARow(Members1(whole, c), c.m - 1, c.start, x)
                 /\ Turned(BodySpans(input, whole, MemberOf(c)), n, x, y)
                 /\ n > 0 => MemberOf(c).q \in {"*", "+"}
                 /\ InARow(Atoms1(whole, c), c.i - 1, y, z)
                 /\ Turned(OneOf(input, whole, AtomOf(c)), k, z, c.pos)
                 /\ k > 0 => AtomOf(c).q \in {"*", "+"}
                 /\ c.started => k > 0
<1>1. c.i # 0
  BY RuleType DEF InBody
<1>2. c.start \in Spots(input) /\ c.pos \in Spots(input)
  BY DEF IsRead
<1>3. PICK x \in Spots(input) :
         InARow(Members1(whole, c), c.m - 1, c.start, x) /\ BodyIsRead(whole, c, x)
  BY <1>1 DEF IsRead
<1>4. PICK y \in Spots(input), z \in Spots(input), n \in Nat :
         /\ Turned(BodySpans(input, whole, MemberOf(c)), n, x, y)
         /\ n > 0 => MemberOf(c).q \in {"*", "+"}
         /\ InARow(Atoms1(whole, c), c.i - 1, y, z)
         /\ AtomIsRead(whole, c, z)
  BY <1>3 DEF BodyIsRead
<1>5. PICK k \in Nat : /\ Turned(OneOf(input, whole, AtomOf(c)), k, z, c.pos)
                       /\ k > 0 => AtomOf(c).q \in {"*", "+"}
                       /\ c.started => k > 0
  BY <1>4 DEF AtomIsRead
<1> QED BY <1>2, <1>3, <1>4, <1>5

\* Past an atom that is not there, or not there again.
LEMMA AtomOver ==
    ASSUME TypeOK, NEW whole, NEW c \in Frames, IsRead(whole, c), InBody(c),
           AtomOf(c).q \in {"?", "*"} \/ c.started,
           NEW d, d.rule = c.rule, d.m = c.m, d.i = c.i + 1, d.start = c.start, ~d.started, d.pos = c.pos
    PROVE  IsRead(whole, d)
<1>1. PICK x \in Spots(input), y \in Spots(input), z \in Spots(input), n \in Nat, k \in Nat :
         /\ InARow(Members1(whole, c), c.m - 1, c.start, x)
         /\ Turned(BodySpans(input, whole, MemberOf(c)), n, x, y)
         /\ n > 0 => MemberOf(c).q \in {"*", "+"}
         /\ InARow(Atoms1(whole, c), c.i - 1, y, z)
         /\ Turned(OneOf(input, whole, AtomOf(c)), k, z, c.pos)
         /\ k > 0 => AtomOf(c).q \in {"*", "+"}
         /\ c.started => k > 0
  BY ReadInBody
<1>2. c.start \in Spots(input) /\ c.pos \in Spots(input)
  BY ReadInBody
<1>3. <<z, c.pos>> \in AtomSpans(input, whole, AtomOf(c))
  <2> DEFINE q == AtomOf(c).q
             one == OneOf(input, whole, AtomOf(c))
  <2>1. (k = 0 => q \in {"?", "*"}) /\ (k > 1 => q \in {"*", "+"}) /\ Turned(one, k, z, c.pos)
    BY <1>1
  <2> HIDE DEF q, one
  <2>2. <<z, c.pos>> \in Turning(input, q, one)
    BY <1>2, <2>1, TurnsEnough
  <2> QED BY <2>2 DEF AtomSpans, q, one
<1> QED BY <1>1, <1>2, <1>3, AtomPassed

\* The atom matched, from where the rule function was to p.
LEMMA AtomMatched ==
    ASSUME TypeOK, NEW whole, NEW c \in Frames, IsRead(whole, c), InBody(c),
           NEW symbol \in Range(AtomOf(c).syms), NEW p \in Spots(input), <<symbol, c.pos, p>> \in whole,
           NEW d, d.rule = c.rule, d.m = c.m, d.start = c.start, d.pos = p,
           \/ d.i = c.i + 1 /\ ~d.started
           \/ d.i = c.i /\ AtomOf(c).q \in {"*", "+"}
    PROVE  IsRead(whole, d)
<1> DEFINE one == OneOf(input, whole, AtomOf(c))
           q == AtomOf(c).q
<1>1. PICK x \in Spots(input), y \in Spots(input), z \in Spots(input), n \in Nat, k \in Nat :
         /\ InARow(Members1(whole, c), c.m - 1, c.start, x)
         /\ Turned(BodySpans(input, whole, MemberOf(c)), n, x, y)
         /\ n > 0 => MemberOf(c).q \in {"*", "+"}
         /\ InARow(Atoms1(whole, c), c.i - 1, y, z)
         /\ Turned(one, k, z, c.pos)
         /\ k > 0 => q \in {"*", "+"}
  BY ReadInBody
<1>2. c.start \in Spots(input) /\ c.pos \in Spots(input) /\ p \in Int
  BY ReadInBody, SpotsAre
<1>3. <<c.pos, p>> \in one
  BY <1>2 DEF OneOf, Pairs
<1>4. Turned(one, k + 1, z, p)
  <2> HIDE DEF one
  <2> QED BY <1>1, <1>2, <1>3, OneMoreTurn
<1>5. CASE d.i = c.i + 1 /\ ~d.started
  <2>1. <<z, p>> \in AtomSpans(input, whole, AtomOf(c))
    <3> DEFINE more == k + 1
    <3>1. more \in Nat /\ more # 0 /\ (more > 1 => q \in {"*", "+"}) /\ Turned(one, more, z, p)
      BY <1>1, <1>4
    <3> HIDE DEF more, q, one
    <3>2. <<z, p>> \in Turning(input, q, one)
      BY <3>1, TurnsEnough
    <3> QED BY <3>2 DEF AtomSpans, q, one
  <2> QED BY <1>1, <1>2, <1>5, <2>1, AtomPassed
<1>6. CASE d.i = c.i /\ q \in {"*", "+"}
  <2>1. RuleOf(d) = RuleOf(c) /\ MemberOf(d) = MemberOf(c) /\ AtomOf(d) = AtomOf(c) /\ InBody(d)
    BY <1>6, PlacedAlike
  <2>2. Members1(whole, d) = Members1(whole, c) /\ Atoms1(whole, d) = Atoms1(whole, c)
    BY <2>1 DEF Members1, Atoms1
  <2>3. AtomIsRead(whole, d, z)
    <3>1. k + 1 \in Nat /\ k + 1 > 0
      OBVIOUS
    <3> QED BY <1>4, <1>6, <2>1, <3>1 DEF AtomIsRead
  <2>4. BodyIsRead(whole, d, x)
    BY <1>1, <1>6, <2>1, <2>2, <2>3 DEF BodyIsRead
  <2>5. d.i # 0
    BY <1>6, RuleType DEF InBody
  <2> QED BY <1>1, <1>2, <2>2, <2>4, <2>5 DEF IsRead
<1> QED BY <1>5, <1>6

\* Behind a member, after so many turns of its body as it may have.
LEMMA AfterMember ==
    ASSUME TypeOK, NEW whole, NEW c \in Frames, c.m <= Len(RuleOf(c)),
           c.start \in Spots(input), c.pos \in Spots(input), NEW x \in Spots(input),
           InARow(Members1(whole, c), c.m - 1, c.start, x), NEW n \in Nat,
           Turned(BodySpans(input, whole, MemberOf(c)), n, x, c.pos),
           n = 0 => MemberOf(c).q \in {"?", "*"}, n > 1 => MemberOf(c).q \in {"*", "+"}
    PROVE  IsRead(whole, At(c, c.m + 1, 0))
<1> DEFINE m == c.m
           d == At(c, m + 1, 0)
           p == c.pos
           spans == Members1(whole, c)
           q == MemberOf(c).q
           one == BodySpans(input, whole, MemberOf(c))
<1>1. m \in Nat \ {0} /\ m - 1 \in Nat /\ (m - 1) + 1 = m /\ (m + 1) - 1 = m /\ m + 1 \in Nat \ {0}
  BY RuleType
<1>2. /\ d.rule = c.rule /\ d.m = m + 1 /\ d.i = 0 /\ d.start = c.start /\ d.pos = p
      /\ RuleOf(d) = RuleOf(c)
  <2> DEFINE k == m + 1
  <2>1. k \in Nat \ {0} /\ 0 \in Nat /\ d = At(c, k, 0)
    BY <1>1
  <2> HIDE DEF d, m, k
  <2>2. /\ d.rule = c.rule /\ d.m = k /\ d.i = 0 /\ d.start = c.start /\ d.pos = c.pos
        /\ ~d.started /\ RuleOf(d) = RuleOf(c) /\ MemberOf(d) = RuleOf(c)[k]
    BY <2>1, AtIs
  <2> QED BY <2>2 DEF k
<1>3. <<x, p>> \in spans[m]
  <2>1. Turned(one, n, x, p) /\ (n = 0 => q \in {"?", "*"}) /\ (n > 1 => q \in {"*", "+"})
        /\ p \in Spots(input)
    OBVIOUS
  <2>2. spans[m] = Turning(input, q, one)
    BY PartsAre DEF MemberSpans
  <2> HIDE DEF q, one, p, spans, m
  <2>3. <<x, p>> \in Turning(input, q, one)
    BY <2>1, TurnsEnough
  <2> QED BY <2>2, <2>3
<1>4. InARow(spans, m, c.start, p)
  <2> DEFINE j == m - 1
  <2>1. j \in Nat /\ j + 1 = m /\ p \in Int /\ InARow(spans, j, c.start, x) /\ <<x, p>> \in spans[j + 1]
    BY <1>1, <1>3, SpotsAre
  <2> HIDE DEF spans, m, p, j
  <2>2. InARow(spans, j + 1, c.start, p)
    BY <2>1, LongerRow
  <2> QED BY <2>1, <2>2
<1> HIDE DEF d
<1>5. Members1(whole, d) = spans
  BY <1>2 DEF Members1
<1>6. InARow(Members1(whole, d), d.m - 1, d.start, p)
  BY <1>1, <1>2, <1>4, <1>5
<1> QED BY <1>2, <1>6 DEF IsRead, d

LEMMA MemberSkipped ==
    ASSUME TypeOK, NEW whole, NEW c \in Frames, IsRead(whole, c), c.i = 0, c.m <= Len(RuleOf(c)),
           MemberOf(c).q \in {"?", "*"}
    PROVE  IsRead(whole, At(c, c.m + 1, 0))
<1>1. c.start \in Spots(input) /\ c.pos \in Spots(input)
      /\ InARow(Members1(whole, c), c.m - 1, c.start, c.pos)
  BY DEF IsRead
<1>2. Turned(BodySpans(input, whole, MemberOf(c)), 0, c.pos, c.pos)
  BY <1>1, SpotsAre, NoTurn
<1>3. 0 \in Nat /\ ~(0 > 1)
  OBVIOUS
<1> QED BY <1>1, <1>2, <1>3, AfterMember

\* At the end of the body of a member.
LEMMA BodyOver ==
    ASSUME TypeOK, NEW whole, NEW c \in Frames, IsRead(whole, c), Placed(c), c.i # 0, ~InBody(c)
    PROVE  /\ MemberOf(c).q \in {"*", "+"} => IsRead(whole, At(c, c.m, 1))
           /\ IsRead(whole, At(c, c.m + 1, 0))
<1> DEFINE one == BodySpans(input, whole, MemberOf(c))
           q == MemberOf(c).q
<1>1. c.m \in Nat \ {0} /\ c.i \in Nat /\ Len(RuleOf(c)) \in Nat /\ c.m <= Len(RuleOf(c))
  BY RuleType DEF Placed
<1>2. c.i - 1 = Len(MemberOf(c).body) /\ c.i - 1 \in Nat
  <2> DEFINE body == MemberOf(c).body
  <2>1. body \in Seq(Atoms) /\ c.i <= Len(body) + 1 /\ c.i \notin DOMAIN body
    BY <1>1, RuleType DEF Placed, InBody
  <2> HIDE DEF body
  <2>2. c.i - 1 = Len(body) /\ c.i - 1 \in Nat
    BY <1>1, <2>1
  <2> QED BY <2>2 DEF body
<1>3. c.start \in Spots(input) /\ c.pos \in Spots(input)
  BY DEF IsRead
<1>4. PICK x \in Spots(input) :
         InARow(Members1(whole, c), c.m - 1, c.start, x) /\ BodyIsRead(whole, c, x)
  BY DEF IsRead
<1>5. PICK y \in Spots(input), z \in Spots(input), n \in Nat :
         /\ Turned(one, n, x, y)
         /\ n > 0 => q \in {"*", "+"}
         /\ InARow(Atoms1(whole, c), c.i - 1, y, z)
         /\ AtomIsRead(whole, c, z)
  BY <1>4 DEF BodyIsRead
<1>6. <<y, c.pos>> \in one
  <2>1. InARow(Atoms1(whole, c), Len(MemberOf(c).body), y, c.pos)
    BY <1>2, <1>5 DEF AtomIsRead
  <2> QED BY <1>3, <2>1 DEF BodySpans, Pairs, Atoms1
<1>7. n + 1 \in Nat /\ n + 1 # 0 /\ (n + 1 > 1 => n > 0) /\ Turned(one, n + 1, x, c.pos)
  <2>1. Turned(one, n + 1, x, c.pos)
    <3> HIDE DEF one
    <3> QED BY <1>3, <1>5, <1>6, SpotsAre, OneMoreTurn
  <2> QED BY <2>1
<1> DEFINE k == n + 1
<1>8. k \in Nat /\ k # 0 /\ (k > 1 => q \in {"*", "+"}) /\ Turned(one, k, x, c.pos)
  BY <1>5, <1>7
<1> HIDE DEF k
<1>9. IsRead(whole, At(c, c.m + 1, 0))
  BY <1>1, <1>3, <1>4, <1>8, AfterMember
<1>10. ASSUME q \in {"*", "+"} PROVE IsRead(whole, At(c, c.m, 1))
  <2> DEFINE d == At(c, c.m, 1)
  <2>1. BodyIsRead(whole, d, x)
    BY <1>3, <1>8, <1>10, BodyBegins
  <2>2. d.pos = c.pos /\ d.i = 1 /\ d.m = c.m /\ d.start = c.start /\ RuleOf(d) = RuleOf(c)
    <3> DEFINE m == c.m
    <3>1. m \in Nat \ {0} /\ 1 \in Nat /\ d = At(c, m, 1)
      BY <1>1
    <3> HIDE DEF d, m
    <3>2. /\ d.rule = c.rule /\ d.m = m /\ d.i = 1 /\ d.start = c.start /\ d.pos = c.pos
          /\ ~d.started /\ RuleOf(d) = RuleOf(c) /\ MemberOf(d) = RuleOf(c)[m]
      BY <3>1, AtIs
    <3> QED BY <3>2 DEF m
  <2> HIDE DEF d
  <2>3. Members1(whole, d) = Members1(whole, c)
    BY <2>2 DEF Members1
  <2> QED BY <1>3, <1>4, <2>1, <2>2, <2>3 DEF IsRead, d
<1> QED BY <1>9, <1>10

\* A rule function behind its last member has read its rule.
LEMMA RuleRead ==
    ASSUME TypeOK, NEW whole, ClosedUnder(parser.rules, input, whole), NEW c \in Frames,
           IsRead(whole, c), Placed(c), c.m > Len(RuleOf(c))
    PROVE  <<c.rule, c.start, c.pos>> \in whole
<1>1. c.m \in Nat \ {0} /\ Len(RuleOf(c)) \in Nat /\ c.m - 1 = Len(RuleOf(c)) /\ c.i = 0
  BY RuleType DEF Placed
<1>2. c.start \in Spots(input) /\ c.pos \in Spots(input)
      /\ InARow(Members1(whole, c), c.m - 1, c.start, c.pos)
  BY <1>1 DEF IsRead
<1>3. c.rule \in DOMAIN parser.rules
  BY DEF Frames
<1>4. InARow(RuleParts(input, whole, parser.rules[c.rule]), Len(parser.rules[c.rule]), c.start, c.pos)
  BY <1>1, <1>2 DEF Members1, RuleOf
<1> QED BY <1>2, <1>3, <1>4 DEF ClosedUnder

\* A rule function that has just been called has read nothing.
LEMMA Entered ==
    ASSUME NEW whole, NEW rule, NEW p \in Spots(input), NEW took, NEW probe
    PROVE  IsRead(whole, Enter(rule, p, took, probe))
<1> DEFINE c == Enter(rule, p, took, probe)
<1>1. c.m = 1 /\ c.i = 0 /\ c.start = p /\ c.pos = p
  BY DEF Enter
<1> HIDE DEF c
<1>2. InARow(Members1(whole, c), c.m - 1, c.start, p)
  <2>1. c.m - 1 = 0 /\ p \in Int
    BY <1>1, SpotsAre
  <2> QED BY <1>1, <2>1, EmptyRow
<1> QED BY <1>1, <1>2 DEF IsRead, c

-----------------------------------------------------------------------------
(* What recovery reports. *)

Loud(r) == r.diagnostics > 0 \/ r.reported

\* Reports are muted, and rules abandoned, only after a report.
Told(r) == (r.recovering => r.reported) /\ (r.unwind > 0 => r.reported)

\* s comes of r.
Louder(r, s) == Told(r) => Told(s) /\ (Loud(r) => Loud(s))

LEMMA LouderItself ==
    ASSUME NEW r
    PROVE  Louder(r, r)
BY DEF Louder

LEMMA CountedIsLoud ==
    ASSUME NEW n, NEW r \in RecoveryStates(n), NEW k
    PROVE  LET counted == [r EXCEPT !.diagnostics = @ + 1, !.skipped = @ + k]
           IN  Louder(r, counted) /\ Loud(counted)
<1> DEFINE s == [r EXCEPT !.diagnostics = @ + 1, !.skipped = @ + k]
           d == r.diagnostics + 1
<1>1. d \in Nat /\ d > 0
  BY DEF RecoveryStates
<1>2. s.diagnostics = d /\ (s.reported <=> r.reported) /\ (s.recovering <=> r.recovering) /\ s.unwind = r.unwind
  BY DEF RecoveryStates
<1> HIDE DEF s, d
<1>3. Loud(s)
  BY <1>1, <1>2 DEF Loud
<1>4. Told(r) => Told(s)
  BY <1>2 DEF Told
<1> QED BY <1>3, <1>4 DEF Louder, s

\* Context recovery reports, unless it changes nothing.
LEMMA ContextIsLoud ==
    ASSUME NEW n, NEW r \in RecoveryStates(n), NEW cs, NEW p, Told(r)
    PROVE  LET after == RecoverAtContext(cs, p, r)
           IN  /\ Louder(r, after.r)
               /\ ~Loud(after.r) => after.pos = p /\ after.r = r
<1> DEFINE found == IF Exhausted(r) THEN {} ELSE ResolveContext(cs, p, r)
           resume == CHOOSE x \in found : TRUE
           misplaced == resume.frame # Len(cs) /\ resume.skip = 0 /\ resume.claimed
           k == resume.skip
           s == [r EXCEPT !.skipped = @ + k, !.lastResume = Cursor(p + k),
                          !.unwind = Len(cs) - resume.frame,
                          !.reported = @ \/ ~r.recovering \/ misplaced, !.recovering = TRUE]
<1>1. CASE found = {}
  <2>1. RecoverAtContext(cs, p, r) = [pos |-> p, r |-> r]
    BY <1>1 DEF RecoverAtContext
  <2> QED BY <2>1, LouderItself
<1>2. CASE found # {}
  <2>1. RecoverAtContext(cs, p, r) = [pos |-> p + k, r |-> s]
    BY <1>2 DEF RecoverAtContext
  <2>2. misplaced \in BOOLEAN
    OBVIOUS
  <2> HIDE DEF misplaced
  <2> DEFINE skipped == r.skipped + k
             l == Cursor(p + k)
             u == Len(cs) - resume.frame
             b == r.reported \/ ~r.recovering \/ misplaced
  <2>3. s = [r EXCEPT !.skipped = skipped, !.lastResume = l, !.unwind = u, !.reported = b, !.recovering = TRUE]
    BY DEF RecoveryStates
  <2>4. b \in BOOLEAN /\ b
    BY DEF Told
  <2> HIDE DEF s, skipped, l, u, b
  <2>5. s.reported = b
    BY <2>3 DEF RecoveryStates
  <2>6. s.reported
    BY <2>4, <2>5
  <2>7. Loud(s) /\ Told(s)
    BY <2>6 DEF Loud, Told
  <2> QED BY <2>1, <2>7 DEF Louder
<1> QED BY <1>1, <1>2

LEMMA SyncIsLoud ==
    ASSUME NEW n, NEW r \in RecoveryStates(n), NEW cs, NEW p, Told(r)
    PROVE  LET synced == SyncLoop(cs, p, r)
           IN  /\ Louder(r, synced.r)
               /\ ~Loud(synced.r) => synced.pos = p /\ synced.r = r
<1>1. CASE AtEnd(p) \/ r.unwind # 0 \/ Claimants(cs, Kind(p)) # {}
  <2>1. SyncLoop(cs, p, r) = [pos |-> p, r |-> r]
    BY <1>1 DEF SyncLoop
  <2> QED BY <2>1, LouderItself
<1>2. CASE ~(AtEnd(p) \/ r.unwind # 0 \/ Claimants(cs, Kind(p)) # {})
  <2>1. SyncLoop(cs, p, r) = RecoverAtContext(cs, p, r)
    BY <1>2 DEF SyncLoop
  <2> QED BY <2>1, ContextIsLoud
<1> QED BY <1>1, <1>2

LEMMA MatchedIsLouder ==
    ASSUME NEW n, NEW r \in RecoveryStates(n)
    PROVE  Louder(r, Matched(r))
<1>1. /\ Matched(r).diagnostics = r.diagnostics /\ (Matched(r).reported <=> r.reported)
      /\ ~Matched(r).recovering /\ Matched(r).unwind = r.unwind
  BY DEF Matched, RecoveryStates
<1> QED BY <1>1 DEF Louder, Told, Loud

LEMMA FrameGoneIsLouder ==
    ASSUME NEW n \in Nat \ {0}, NEW r \in RecoveryStates(n)
    PROVE  Louder(r, FrameGone(r))
<1> DEFINE s == FrameGone(r)
<1>1. /\ s.diagnostics = r.diagnostics /\ (s.reported <=> r.reported) /\ (s.recovering <=> r.recovering)
  BY DEF FrameGone, RecoveryStates
<1>2. s.unwind = (IF r.unwind > 0 THEN r.unwind - 1 ELSE 0) /\ r.unwind \in Nat
  BY FrameGoneType DEF RecoveryStates
<1> HIDE DEF s
<1>3. s.unwind > 0 => r.unwind > 0
  BY <1>2
<1>4. Loud(r) => Loud(s)
  BY <1>1 DEF Loud
<1>5. Told(r) => Told(s)
  BY <1>1, <1>3 DEF Told
<1> QED BY <1>4, <1>5 DEF Louder, s

-----------------------------------------------------------------------------
(* What a step that leaves nothing reported does. *)

\* The rule function on top is c after the step, and has read what it claims.
Reads(c) ==
    /\ c.start = Top.start
    /\ \A whole :
          /\ ClosedUnder(parser.rules, input, whole)
          /\ IsRead(whole, Top)
          /\ answer.kind = "matched" =>
                answer.pos \in Spots(input) /\ <<SymbolOf(Top), Top.pos, answer.pos>> \in whole
          => IsRead(whole, c)

ReadsOn == calls # <<>> /\ answer' = NoAnswer /\ \E cs : Alike(cs) /\ Reads(Last(cs)) /\ calls' = cs

\* A rule function ends, behind its last member if its rule matched.
Ends ==
    /\ calls # <<>> /\ calls' = Front(calls)
    /\ answer'.kind \in {"matched", "absent"}
    /\ answer'.kind = "matched" => answer'.pos = Top.pos /\ Placed(Top) /\ Top.m > Len(RuleOf(Top))

Rests == calls' = calls /\ answer' = answer

Telling ==
    /\ Louder(recovery, recovery')
    /\ answer'.kind = "failed" => Loud(recovery') \/ answer' = answer
    /\ ~Loud(recovery') => ReadsOn \/ Calls \/ Ends \/ Rests

LEMMA ReadsPut ==
    ASSUME Standing, calls # <<>>, NEW c \in Frames, Reads(c), NEW r, NEW p,
           \/ Continue(PutTop(calls, c), r)
           \/ Continue(CommitRule(PutTop(calls, c), p), r)
    PROVE  ReadsOn
<1>1. TypeOK /\ Alike(calls)
  BY TopStands, CallsAlike
<1>2. Alike(PutTop(calls, c)) /\ Last(PutTop(calls, c)) = c
  BY <1>1, PutAlike
<1> DEFINE e == [c EXCEPT !.committed = TRUE]
<1>3. Reads(e)
  <2>1. /\ e.rule = c.rule /\ e.m = c.m /\ e.i = c.i /\ e.start = c.start /\ e.pos = c.pos
        /\ (e.started => c.started)
    BY DEF Frames
  <2> HIDE DEF e
  <2>2. ASSUME NEW whole, IsRead(whole, c) PROVE IsRead(whole, e)
    BY <2>1, <2>2, ReadAlike
  <2> QED BY <2>1, <2>2 DEF Reads
<1>4. /\ Alike(CommitRule(PutTop(calls, c), p))
      /\ Last(CommitRule(PutTop(calls, c), p)) \in {c, e}
  BY <1>1, <1>2, CommitAlike
<1> HIDE DEF e
<1>5. Reads(Last(CommitRule(PutTop(calls, c), p)))
  BY <1>3, <1>4
<1>6. CASE Continue(PutTop(calls, c), r)
  <2>1. calls' = PutTop(calls, c) /\ answer' = NoAnswer
    BY <1>6 DEF Continue
  <2> QED BY <2>1, <1>2 DEF ReadsOn
<1>7. CASE Continue(CommitRule(PutTop(calls, c), p), r)
  <2>1. calls' = CommitRule(PutTop(calls, c), p) /\ answer' = NoAnswer
    BY <1>7 DEF Continue
  <2> QED BY <2>1, <1>4, <1>5 DEF ReadsOn
<1> QED BY <1>6, <1>7

LEMMA ForwardIs ==
    ASSUME TypeOK, NEW c \in Frames, InBody(c)
    PROVE  /\ Forward(c) \in Frames /\ Forward(c).rule = c.rule /\ Forward(c).m = c.m /\ Forward(c).i = c.i + 1
           /\ Forward(c).start = c.start /\ Forward(c).pos = c.pos /\ ~Forward(c).started
<1> DEFINE m == c.m
           i == c.i + 1
           d == Forward(c)
<1>1. m \in Nat \ {0} /\ i \in Nat /\ d = At(c, m, i)
  BY RuleType DEF Forward
<1>2. d \in Frames
  BY ForwardPlaced
<1> HIDE DEF d, m, i
<1>3. d.rule = c.rule /\ d.m = m /\ d.i = i /\ d.start = c.start /\ d.pos = c.pos /\ ~d.started
  BY <1>1, AtIs
<1> QED BY <1>2, <1>3 DEF d, m, i

\* It passes what need not be there.
LEMMA PassingReads ==
    ASSUME Standing, calls # <<>>, InBody(Top), ~Required(Top)
    PROVE  Forward(Top) \in Frames /\ Reads(Forward(Top))
<1> DEFINE d == Forward(Top)
<1>1. TypeOK /\ Top \in Frames
  BY TopStands, TopType
<1>2. /\ d \in Frames /\ d.rule = Top.rule /\ d.m = Top.m /\ d.i = Top.i + 1
      /\ d.start = Top.start /\ d.pos = Top.pos /\ ~d.started
  BY <1>1, ForwardIs
<1> HIDE DEF d
<1>3. AtomOf(Top).q \in {"?", "*"} \/ Top.started
  <2>1. AtomOf(Top) \in Atoms
    BY <1>1, RuleType
  <2>2. AtomOf(Top).q \in Quantifiers
    BY <2>1 DEF Atoms
  <2> QED BY <2>2, Zenon DEF Quantifiers, Required
<1>4. ASSUME NEW whole, IsRead(whole, Top) PROVE IsRead(whole, d)
  BY <1>1, <1>2, <1>3, <1>4, AtomOver
<1> QED BY <1>2, <1>4 DEF Reads, d

LEMMA SymbolIsThere ==
    ASSUME TypeOK, NEW c \in Frames, InBody(c), Placed(c), ~Choosing(c)
    PROVE  SymbolOf(c) \in Range(AtomOf(c).syms)
<1> DEFINE syms == AtomOf(c).syms
           k == IF Len(syms) = 1 THEN 1 ELSE c.alt
<1>1. Len(syms) \in Nat \ {0} /\ DOMAIN syms = 1..Len(syms) /\ c.alt \in Nat
  BY RuleType
<1>2. c.alt <= Len(syms) /\ (Len(syms) > 1 => c.alt # 0)
  BY DEF Placed, Choosing
<1>3. k \in 1..Len(syms)
  <2> DEFINE n == Len(syms)
             alt == c.alt
  <2>1. n \in Nat \ {0} /\ alt \in Nat /\ alt <= n /\ (n > 1 => alt # 0)
    BY <1>1, <1>2
  <2> HIDE DEF n, alt
  <2>2. (IF n = 1 THEN 1 ELSE alt) \in 1..n
    BY <2>1
  <2> QED BY <2>2 DEF n, alt
<1>4. SymbolOf(c) = syms[k]
  BY DEF SymbolOf
<1> HIDE DEF syms, k
<1>5. k \in DOMAIN syms
  BY <1>1, <1>3
<1> QED BY <1>4, <1>5 DEF Range, syms

LEMMA StartedIsFrame ==
    ASSUME NEW c \in Frames
    PROVE  [c EXCEPT !.started = TRUE, !.retries = 0] \in Frames
<1> DEFINE d == [c EXCEPT !.started = TRUE, !.retries = 0]
<1>1. d \in Frames /\ d.pos = c.pos /\ d.took = c.took /\ SamePlace(d, c) /\ d.alt = c.alt
  BY FrameStarted, FramesAre
<1> QED BY <1>1

\* It matches what is there, and goes on or stays for another turn.
LEMMA MatchingReads ==
    ASSUME Standing, calls # <<>>, InBody(Top), NEW symbol \in Range(AtomOf(Top).syms),
           NEW c \in Frames, SamePlace(c, Top), c.start = Top.start,
           \A whole : /\ ClosedUnder(parser.rules, input, whole)
                      /\ answer.kind = "matched" =>
                            /\ answer.pos \in Spots(input)
                            /\ <<SymbolOf(Top), Top.pos, answer.pos>> \in whole
                      => c.pos \in Spots(input) /\ <<symbol, Top.pos, c.pos>> \in whole
    PROVE  /\ Forward(c) \in Frames /\ Reads(Forward(c))
           /\ Done(c) \in Frames /\ Reads(Done(c))
           /\ AtomOf(Top).q \in {"*", "+"} => Reads(c)
<1>1. TypeOK /\ Top \in Frames /\ Placed(Top)
  BY TopStands, TopType
<1>2. c.rule = Top.rule /\ c.m = Top.m /\ c.i = Top.i
  BY DEF SamePlace
<1>3. InBody(c) /\ AtomOf(c) = AtomOf(Top)
  BY <1>2, PlacedAlike
<1>4. ASSUME NEW d, d.rule = Top.rule, d.m = Top.m, d.start = Top.start, d.pos = c.pos,
             \/ d.i = Top.i + 1 /\ ~d.started
             \/ d.i = Top.i /\ AtomOf(Top).q \in {"*", "+"}
      PROVE  Reads(d)
  <2>1. ASSUME NEW whole, IsRead(whole, Top),
               c.pos \in Spots(input), <<symbol, Top.pos, c.pos>> \in whole
        PROVE  IsRead(whole, d)
    BY <1>1, <1>4, <2>1, AtomMatched
  <2> QED BY <1>4, <2>1 DEF Reads
<1>5. Forward(c) \in Frames /\ Reads(Forward(c))
  <2> DEFINE d == Forward(c)
  <2>1. /\ d \in Frames /\ d.rule = c.rule /\ d.m = c.m /\ d.i = c.i + 1
        /\ d.start = c.start /\ d.pos = c.pos /\ ~d.started
    BY <1>1, <1>3, ForwardIs
  <2> HIDE DEF d
  <2>2. Reads(d)
    BY <1>2, <1>4, <2>1
  <2> QED BY <2>1, <2>2 DEF d
<1>6. AtomOf(Top).q \in {"*", "+"} => Reads(c)
  BY <1>2, <1>4
<1>7. Done(c) \in Frames /\ Reads(Done(c))
  <2>1. CASE AtomOf(c).q # "+"
    <3>1. Done(c) = Forward(c)
      BY <2>1 DEF Done
    <3> QED BY <3>1, <1>5
  <2>2. CASE AtomOf(c).q = "+"
    <3> DEFINE d == [c EXCEPT !.started = TRUE, !.retries = 0]
    <3>1. Done(c) = d
      BY <2>2 DEF Done
    <3>2. d \in Frames
      BY StartedIsFrame
    <3>3. d.rule = c.rule /\ d.m = c.m /\ d.i = c.i /\ d.start = c.start /\ d.pos = c.pos
      BY DEF Frames
    <3> HIDE DEF d
    <3>4. Reads(d)
      BY <1>2, <1>3, <1>4, <2>2, <3>3
    <3> QED BY <3>1, <3>2, <3>4
  <2> QED BY <2>1, <2>2
<1> QED BY <1>5, <1>6, <1>7

\* A step that is no answer and leaves recovery as it is.
LEMMA QuietTelling ==
    ASSUME Standing, calls # <<>>, NEW c \in Frames, Reads(c), NEW r \in {recovery, Matched(recovery)},
           NEW p,
           \/ Continue(PutTop(calls, c), r)
           \/ Continue(CommitRule(PutTop(calls, c), p), r)
    PROVE  Telling
<1>1. ReadsOn
  BY ReadsPut
<1>2. recovery' = r /\ answer'.kind # "failed"
  BY DEF Continue, NoAnswer
<1>3. recovery \in RecoveryStates(Len(calls))
  BY TopStands, TopType
<1>4. Louder(recovery, r)
  BY <1>3, LouderItself, MatchedIsLouder
<1> QED BY <1>1, <1>2, <1>4 DEF Telling

LEMMA StopTells ==
    ASSUME NEW how, Stop(how, recovery)
    PROVE  Telling
BY LouderItself DEF Stop, Rests, Telling

LEMMA AbsentTells ==
    ASSUME Standing, calls # <<>>, Leave("absent", Lost, recovery)
    PROVE  Telling
<1>1. /\ calls' = Front(calls) /\ answer'.kind = "absent" /\ recovery' = FrameGone(recovery)
  BY DEF Leave
<1>2. Louder(recovery, recovery')
  BY <1>1, TopStands, TopType, FrameGoneIsLouder
<1> QED BY <1>1, <1>2 DEF Ends, Telling

\* The handler reports.
LEMMA HandlerTells ==
    ASSUME Standing, calls # <<>>, Told(recovery), AskHandler
    PROVE  Telling
<1> DEFINE repair == ChooseRepair(calls, SiteOf(Top), Top.pos, recovery)
           mode == ModeAfter(repair, recovery)
           p == Top.pos + repair.dropped
           r == Counted(repair, recovery)
           after == IF mode = "Propagate" THEN RecoverAtContext(calls, p, r) ELSE [pos |-> p, r |-> r]
           s == after.r
<1>1. TypeOK /\ Top.pos \in Positions /\ recovery \in RecoveryStates(Len(calls))
      /\ calls \in Seq(Frames)
  BY TopStands, TopType
<1>2. repair.dropped \in Nat
  <2>1. \A k \in 0..Remaining(Top.pos) : k \in Nat
    BY <1>1, RemainingType
  <2>2. repair.dropped \in 0..Remaining(Top.pos)
    BY <1>1, RepairDrops
  <2> QED BY <2>1, <2>2
<1>3. \/ recovery' = r /\ answer' = NoAnswer
      \/ recovery' = s /\ answer' \in {answer, NoAnswer}
  BY DEF AskHandler, Stop, Continue
<1> HIDE DEF repair, mode
<1>4. r \in RecoveryStates(Len(calls)) /\ Louder(recovery, r) /\ Loud(r)
  <2> DEFINE k == repair.dropped
  <2>1. r = [recovery EXCEPT !.diagnostics = @ + 1, !.skipped = @ + k]
    BY DEF Counted
  <2>2. k \in Nat
    BY <1>2
  <2> HIDE DEF k, r
  <2>3. [recovery EXCEPT !.diagnostics = @ + 1, !.skipped = @ + k] \in RecoveryStates(Len(calls))
    BY <1>1, <2>2, CountedType
  <2>4. /\ Louder(recovery, [recovery EXCEPT !.diagnostics = @ + 1, !.skipped = @ + k])
        /\ Loud([recovery EXCEPT !.diagnostics = @ + 1, !.skipped = @ + k])
    BY <1>1, <2>2, CountedIsLoud
  <2> QED BY <2>1, <2>3, <2>4
<1> HIDE DEF p, r
<1>5. Told(r)
  BY <1>4 DEF Louder
<1>6. Told(s) /\ Loud(s)
  <2>1. CASE mode = "Propagate"
    <3>1. s = RecoverAtContext(calls, p, r).r
      BY <2>1
    <3>2. Louder(r, RecoverAtContext(calls, p, r).r)
      BY <1>4, <1>5, ContextIsLoud
    <3> HIDE DEF s
    <3> QED BY <3>1, <3>2, <1>4, <1>5 DEF Louder
  <2>2. CASE mode # "Propagate"
    <3>1. s = r
      BY <2>2
    <3> QED BY <3>1, <1>4, <1>5
  <2> QED BY <2>1, <2>2
<1> HIDE DEF s, after
<1>7. Told(recovery') /\ Loud(recovery')
  BY <1>3, <1>4, <1>5, <1>6
<1> QED BY <1>7 DEF Louder, Telling

\* A loop ends where it is, or with a report.
LEMMA EndLoopTells ==
    ASSUME Standing, calls # <<>>, Told(recovery), InBody(Top), ~Required(Top), NEW cs, NEW p,
           cs = calls \/ cs = CommitRule(PutTop(calls, Top), p), EndLoop(cs, recovery)
    PROVE  Telling
<1> DEFINE c == Last(cs)
           synced == SyncLoop(cs, c.pos, recovery)
           q == synced.pos
           s == synced.r
           d == [c EXCEPT !.pos = q]
           e == Forward(d)
           top == [Top EXCEPT !.committed = TRUE]
<1>1. /\ TypeOK /\ Top \in Frames /\ recovery \in RecoveryStates(Len(calls)) /\ Alike(calls)
      /\ Last(calls) = Top
  BY TopStands, TopType, CallsAlike DEF Top
<1>2. Continue(PutTop(cs, e), s)
  BY DEF EndLoop
<1>3. Alike(cs) /\ c \in {Top, top}
  <2>1. Alike(PutTop(calls, Top)) /\ Last(PutTop(calls, Top)) = Top
    BY <1>1, PutAlike
  <2>2. /\ Alike(CommitRule(PutTop(calls, Top), p))
        /\ Last(CommitRule(PutTop(calls, Top), p)) \in {Top, top}
    BY <1>1, <2>1, CommitAlike
  <2> HIDE DEF top
  <2>3. CASE cs = calls
    BY <1>1, <2>3
  <2>4. CASE cs = CommitRule(PutTop(calls, Top), p)
    BY <2>2, <2>4
  <2> QED BY <2>3, <2>4
<1>4. Louder(recovery, s) /\ (~Loud(s) => q = c.pos /\ s = recovery)
  <2> HIDE DEF c
  <2> QED BY <1>1, SyncIsLoud
<1>5. recovery' = s /\ answer' = NoAnswer /\ calls' = PutTop(cs, e)
  BY <1>2 DEF Continue
<1> HIDE DEF s, synced, q
<1>6. ASSUME ~Loud(s) PROVE ReadsOn
  <2>1. c \in Frames /\ c.rule = Top.rule /\ c.m = Top.m /\ c.i = Top.i /\ c.start = Top.start
        /\ c.pos = Top.pos
    <3>1. CASE c = Top
      BY <3>1, <1>1
    <3>2. CASE c = top
      BY <3>2, <1>1 DEF Frames
    <3> QED BY <1>3, <3>1, <3>2
  <2> HIDE DEF c
  <2>2. d = c
    BY <1>4, <1>6, <2>1 DEF Frames
  <2>3. InBody(c)
    BY <2>1, PlacedAlike
  <2>4. /\ e \in Frames /\ e.rule = c.rule /\ e.m = c.m /\ e.i = c.i + 1
        /\ e.start = c.start /\ e.pos = c.pos /\ ~e.started
    <3> HIDE DEF d
    <3> QED BY <1>1, <2>1, <2>2, <2>3, ForwardIs
  <2> HIDE DEF d, e
  <2>5. Reads(e)
    <3>1. /\ Forward(Top) \in Frames /\ Reads(Forward(Top))
      BY PassingReads
    <3> DEFINE f == Forward(Top)
    <3>2. /\ f.rule = Top.rule /\ f.m = Top.m /\ f.i = Top.i + 1
          /\ f.start = Top.start /\ f.pos = Top.pos /\ ~f.started
      BY <1>1, ForwardIs
    <3> HIDE DEF f
    <3>3. /\ e.rule = f.rule /\ e.m = f.m /\ e.i = f.i /\ e.start = f.start /\ e.pos = f.pos
          /\ (e.started => f.started)
      BY <2>1, <2>4, <3>2
    <3>4. ASSUME NEW whole, IsRead(whole, f) PROVE IsRead(whole, e)
      BY <3>3, <3>4, ReadAlike
    <3>5. Reads(f)
      BY <3>1 DEF f
    <3> QED BY <3>3, <3>4, <3>5 DEF Reads
  <2>6. Alike(PutTop(cs, e)) /\ Last(PutTop(cs, e)) = e
    BY <1>1, <1>3, <2>4, PutAlike
  <2> QED BY <2>5, <2>6, <1>5 DEF ReadsOn
<1>7. answer'.kind # "failed"
  BY <1>5 DEF NoAnswer
<1> QED BY <1>4, <1>5, <1>6, <1>7 DEF Telling

\* Nothing is asked of a step after a report that leaves recovery as it is.
LEMMA LoudTelling ==
    ASSUME Loud(recovery), recovery' = recovery, answer'.kind # "failed"
    PROVE  Telling
BY LouderItself DEF Telling

LEMMA UnwindingIsLoud ==
    ASSUME Standing, calls # <<>>, Told(recovery)
    PROVE  /\ recovery.unwind > 0 => Loud(recovery)
           /\ ~Loud(recovery) => recovery.unwind = 0
<1>1. recovery.unwind \in Nat
  BY TopStands, TopType
<1> QED BY <1>1 DEF Told, Loud

LEMMA EndRuleTells ==
    ASSUME Standing, Told(recovery), EndRule
    PROVE  Telling
<1>1. calls # <<>> /\ Leave("matched", Top.pos, recovery)
  BY DEF EndRule, BetweenMembers, Working
<1>2. /\ calls' = Front(calls) /\ answer'.kind = "matched" /\ answer'.pos = Top.pos
      /\ recovery' = FrameGone(recovery)
  BY <1>1 DEF Leave
<1>3. Louder(recovery, recovery')
  BY <1>1, <1>2, TopStands, TopType, FrameGoneIsLouder
<1>4. ASSUME ~Loud(recovery') PROVE Ends
  <2>1. ~Loud(recovery)
    BY <1>3, <1>4 DEF Louder
  <2>2. ~(recovery.unwind > 0)
    BY <1>1, <2>1, UnwindingIsLoud
  <2>3. Top.m > Len(RuleOf(Top))
    BY <2>2 DEF EndRule, RuleOver
  <2>4. Placed(Top)
    BY <1>1, TopStands
  <2> QED BY <1>1, <1>2, <2>3, <2>4 DEF Ends
<1> QED BY <1>2, <1>3, <1>4 DEF Telling

LEMMA StartMemberTells ==
    ASSUME Standing, Told(recovery), StartMember
    PROVE  Telling
<1>1. calls # <<>> /\ Top.i = 0 /\ ~(Top.m > Len(RuleOf(Top)))
  BY DEF StartMember, BetweenMembers, Working, RuleOver
<1>2. TypeOK /\ Top \in Frames /\ Placed(Top)
  BY <1>1, TopStands, TopType
<1>3. Top.m \in Nat \ {0} /\ Len(RuleOf(Top)) \in Nat /\ Top.m <= Len(RuleOf(Top))
  BY <1>1, <1>2, RuleType
<1>4. CASE MemberOf(Top).q \in {"?", "*"} /\ Continue(PutTop(calls, At(Top, Top.m + 1, 0)), recovery)
  <2> DEFINE m == Top.m + 1
             d == At(Top, m, 0)
  <2>1. m \in Nat \ {0} /\ 0 \in Nat /\ m <= Len(RuleOf(Top)) + 1
    BY <1>3
  <2>2. ASSUME NEW whole, IsRead(whole, Top) PROVE IsRead(whole, d)
    BY <1>1, <1>2, <1>3, <1>4, <2>2, MemberSkipped
  <2>3. Continue(PutTop(calls, d), recovery)
    BY <1>4
  <2> HIDE DEF m
  <2>4. d \in Frames
    BY <1>2, <2>1, AtPlaced
  <2>5. d.start = Top.start
    BY <1>2, <2>1, AtIs
  <2>6. Reads(d)
    BY <2>2, <2>5 DEF Reads
  <2> HIDE DEF d
  <2> QED BY <1>1, <2>3, <2>4, <2>6, QuietTelling
<1>5. CASE Continue(PutTop(calls, At(Top, Top.m, 1)), recovery)
  <2> DEFINE m == Top.m
             d == At(Top, m, 1)
  <2>1. m \in Nat \ {0} /\ 1 \in Nat /\ m <= Len(RuleOf(Top)) /\ m <= Len(RuleOf(Top)) + 1
    BY <1>3
  <2>2. ASSUME NEW whole, IsRead(whole, Top) PROVE IsRead(whole, d)
    BY <1>1, <1>2, <2>2, MemberStarts
  <2>3. Continue(PutTop(calls, d), recovery)
    BY <1>5
  <2> HIDE DEF m
  <2>4. d \in Frames
    BY <1>2, <2>1, AtPlaced
  <2>5. d.start = Top.start
    BY <1>2, <2>1, AtIs
  <2>6. Reads(d)
    BY <2>2, <2>5 DEF Reads
  <2> HIDE DEF d
  <2> QED BY <1>1, <2>3, <2>4, <2>6, QuietTelling
<1> QED BY <1>4, <1>5 DEF StartMember

LEMMA EndBodyTells ==
    ASSUME Standing, Told(recovery), EndBody
    PROVE  Telling
<1>1. calls # <<>> /\ Top.i > 0 /\ ~InBody(Top)
  BY DEF EndBody, Working
<1>2. TypeOK /\ Top \in Frames /\ Placed(Top)
  BY <1>1, TopStands, TopType
<1>3. Top.m \in Nat \ {0} /\ Len(RuleOf(Top)) \in Nat /\ Top.i # 0 /\ Top.m <= Len(RuleOf(Top))
  BY <1>1, <1>2, RuleType DEF Placed
<1>4. CASE Continue(PutTop(calls, At(Top, Top.m + 1, 0)), recovery)
  <2> DEFINE m == Top.m + 1
             d == At(Top, m, 0)
  <2>1. m \in Nat \ {0} /\ 0 \in Nat /\ m <= Len(RuleOf(Top)) + 1
    BY <1>3
  <2>2. ASSUME NEW whole, IsRead(whole, Top) PROVE IsRead(whole, d)
    BY <1>1, <1>2, <1>3, <2>2, BodyOver
  <2>3. Continue(PutTop(calls, d), recovery)
    BY <1>4
  <2> HIDE DEF m
  <2>4. d \in Frames
    BY <1>2, <2>1, AtPlaced
  <2>5. d.start = Top.start
    BY <1>2, <2>1, AtIs
  <2>6. Reads(d)
    BY <2>2, <2>5 DEF Reads
  <2> HIDE DEF d
  <2> QED BY <1>1, <2>3, <2>4, <2>6, QuietTelling
<1>5. CASE MemberOf(Top).q \in {"*", "+"} /\ Continue(PutTop(calls, At(Top, Top.m, 1)), recovery)
  <2> DEFINE m == Top.m
             d == At(Top, m, 1)
  <2>1. m \in Nat \ {0} /\ 1 \in Nat /\ m <= Len(RuleOf(Top)) /\ m <= Len(RuleOf(Top)) + 1
    BY <1>3
  <2>2. ASSUME NEW whole, IsRead(whole, Top) PROVE IsRead(whole, d)
    BY <1>1, <1>2, <1>3, <1>5, <2>2, BodyOver
  <2>3. Continue(PutTop(calls, d), recovery)
    BY <1>5
  <2> HIDE DEF m
  <2>4. d \in Frames
    BY <1>2, <2>1, AtPlaced
  <2>5. d.start = Top.start
    BY <1>2, <2>1, AtIs
  <2>6. Reads(d)
    BY <2>2, <2>5 DEF Reads
  <2> HIDE DEF d
  <2> QED BY <1>1, <2>3, <2>4, <2>6, QuietTelling
<1> QED BY <1>4, <1>5 DEF EndBody

\* A token that is there stands for itself.
LEMMA TokenReads ==
    ASSUME Standing, calls # <<>>, AtToken, TokenIsThere
    PROVE  LET c == Matching(Top.pos + 1)
           IN  /\ c \in Frames
               /\ Forward(c) \in Frames /\ Reads(Forward(c))
               /\ Done(c) \in Frames /\ Reads(Done(c))
               /\ AtomOf(Top).q \in {"*", "+"} => Reads(c)
<1> DEFINE c == Matching(Top.pos + 1)
           symbol == SymbolOf(Top)
<1>1. TypeOK /\ Top \in Frames /\ Placed(Top) /\ InBody(Top) /\ ~Choosing(Top) /\ Top.pos \in Positions
  BY TopStands, TopType DEF AtToken, AtSymbol
<1>2. symbol \in Range(AtomOf(Top).syms)
  BY <1>1, SymbolIsThere
<1>3. ~AtEnd(Top.pos)
  BY DEF TokenIsThere
<1>4. c \in Frames /\ SamePlace(c, Top)
  BY <1>3, MatchingToken
<1>5. c.start = Top.start /\ c.pos = Top.pos + 1
  BY <1>1 DEF Matching, Frames
<1>6. /\ Top.pos \in DOMAIN input /\ Top.pos + 1 \in Spots(input)
      /\ input[Top.pos] = symbol /\ symbol \notin DOMAIN parser.rules
  <2>1. Top.pos \in 1..Len(input) /\ Kind(Top.pos) = input[Top.pos]
    BY <1>1, <1>3, InsideInput
  <2>2. input \in Seq(STRING) /\ Len(input) \in Nat
    BY <1>1, InputIsSequence
  <2>3. Top.pos \in DOMAIN input /\ Top.pos + 1 \in Spots(input)
    BY <2>1, <2>2 DEF Spots
  <2> QED BY <2>1, <2>3 DEF TokenIsThere, AtToken, IsRule
<1> HIDE DEF c, symbol
<1>7. c.pos \in Spots(input)
  BY <1>5, <1>6
<1>8. \A whole : ClosedUnder(parser.rules, input, whole) =>
          c.pos \in Spots(input) /\ <<symbol, Top.pos, c.pos>> \in whole
  BY <1>5, <1>6, <1>7 DEF ClosedUnder
<1>9. /\ Forward(c) \in Frames /\ Reads(Forward(c))
      /\ Done(c) \in Frames /\ Reads(Done(c))
      /\ AtomOf(Top).q \in {"*", "+"} => Reads(c)
  BY <1>1, <1>2, <1>4, <1>5, <1>8, MatchingReads
<1> QED BY <1>4, <1>9 DEF c

LEMMA RequiredTokenTells ==
    ASSUME Standing, Told(recovery), RequiredToken
    PROVE  Telling
<1>1. calls # <<>> /\ InBody(Top) /\ AtToken
  BY DEF RequiredToken, AtToken, AtSymbol, Working
<1>2. CASE recovery.unwind > 0 /\ Continue(PutTop(calls, Forward(Top)), recovery)
  <2>1. recovery' = recovery /\ answer'.kind # "failed"
    BY <1>2 DEF Continue, NoAnswer
  <2> QED BY <1>1, <1>2, <2>1, UnwindingIsLoud, LoudTelling
<1>3. CASE Stop("crashed", recovery)
  BY <1>3, StopTells
<1>4. CASE /\ TokenIsThere
           /\ Continue(CommitRule(PutTop(calls, Done(Matching(Top.pos + 1))), Top.pos + 1), Matched(recovery))
  <2> DEFINE c == Done(Matching(Top.pos + 1))
             p == Top.pos + 1
  <2>1. c \in Frames /\ Reads(c)
    BY <1>1, <1>4, TokenReads
  <2>2. Continue(CommitRule(PutTop(calls, c), p), Matched(recovery))
    BY <1>4
  <2> HIDE DEF c, p
  <2> QED BY <1>1, <2>1, <2>2, QuietTelling
<1>5. CASE Leave("absent", Lost, recovery)
  BY <1>1, <1>5, AbsentTells
<1>6. CASE AskHandler
  BY <1>1, <1>6, HandlerTells
<1> QED BY <1>2, <1>3, <1>4, <1>5, <1>6 DEF RequiredToken

LEMMA OptionalTokenTells ==
    ASSUME Standing, Told(recovery), OptionalToken
    PROVE  Telling
<1>1. calls # <<>> /\ InBody(Top) /\ AtToken /\ AtomOf(Top).q = "?"
  BY DEF OptionalToken, AtToken, AtSymbol, Working
<1>2. CASE Stop("crashed", recovery)
  BY <1>2, StopTells
<1>3. CASE /\ TokenIsThere
           /\ Continue(CommitRule(PutTop(calls, Forward(Matching(Top.pos + 1))), Top.pos + 1), recovery)
  <2> DEFINE c == Forward(Matching(Top.pos + 1))
             p == Top.pos + 1
  <2>1. c \in Frames /\ Reads(c)
    BY <1>1, <1>3, TokenReads
  <2>2. Continue(CommitRule(PutTop(calls, c), p), recovery)
    BY <1>3
  <2> HIDE DEF c, p
  <2> QED BY <1>1, <2>1, <2>2, QuietTelling
<1>4. CASE Continue(PutTop(calls, Forward(Top)), recovery)
  <2>1. ~Required(Top)
    BY <1>1 DEF Required
  <2>2. Forward(Top) \in Frames /\ Reads(Forward(Top))
    BY <1>1, <2>1, PassingReads
  <2> QED BY <1>1, <1>4, <2>2, QuietTelling
<1> QED BY <1>2, <1>3, <1>4 DEF OptionalToken

LEMMA TopLoopTells ==
    ASSUME Standing, calls # <<>>, Told(recovery), InBody(Top), ~Required(Top), EndLoop(calls, recovery)
    PROVE  Telling
BY EndLoopTells

LEMMA RepeatedTokenTells ==
    ASSUME Standing, Told(recovery), RepeatedToken
    PROVE  Telling
<1>1. calls # <<>> /\ InBody(Top) /\ AtToken /\ AtomOf(Top).q \in {"*", "+"} /\ ~Required(Top)
  BY DEF RepeatedToken, AtToken, AtSymbol, Working, Looping
<1>2. CASE /\ TokenIsThere
           /\ Continue(CommitRule(PutTop(calls, Matching(Top.pos + 1)), Top.pos + 1), recovery)
  <2> DEFINE c == Matching(Top.pos + 1)
             p == Top.pos + 1
  <2>1. c \in Frames /\ Reads(c)
    BY <1>1, <1>2, TokenReads
  <2>2. Continue(CommitRule(PutTop(calls, c), p), recovery)
    BY <1>2
  <2> HIDE DEF c, p
  <2> QED BY <1>1, <2>1, <2>2, QuietTelling
<1>3. CASE EndLoop(calls, recovery)
  BY <1>1, <1>3, TopLoopTells
<1> QED BY <1>2, <1>3 DEF RepeatedToken

\* A call reports nothing.
LEMMA CallTells ==
    ASSUME calls # <<>>, AtRule, NEW probe \in BOOLEAN, Call(probe), probe <=> ~Required(Top),
           recovery.unwind > 0 => AtomOf(Top).q = "?"
    PROVE  Telling
<1>1. Calls
  BY Zenon DEF Calls
<1>2. recovery' = recovery /\ answer'.kind # "failed"
  BY DEF Call, Continue, NoAnswer
<1> QED BY <1>1, <1>2, LouderItself DEF Telling

LEMMA CallRuleTells ==
    ASSUME Standing, Told(recovery), CallRule
    PROVE  Telling
<1>1. calls # <<>> /\ InBody(Top) /\ AtRule
  BY DEF CallRule, AtRule, AtSymbol, Working
<1>2. recovery.unwind \in Nat
  BY <1>1, TopStands, TopType
<1>3. CASE Required(Top) /\ recovery.unwind = 0 /\ Call(FALSE)
  <2>1. ~(recovery.unwind > 0)
    BY <1>3
  <2> QED BY <1>1, <1>3, <2>1, Zenon, CallTells
<1>4. CASE recovery.unwind > 0 /\ Continue(PutTop(calls, Forward(Top)), recovery)
  <2>1. recovery' = recovery /\ answer'.kind # "failed"
    BY <1>4 DEF Continue, NoAnswer
  <2> QED BY <1>1, <1>4, <2>1, UnwindingIsLoud, LoudTelling
<1>5. CASE AtomOf(Top).q = "?" /\ Call(TRUE)
  <2>1. ~Required(Top)
    BY <1>5 DEF Required
  <2> QED BY <1>1, <1>5, <2>1, Zenon, CallTells
<1>6. CASE Looping(Top) /\ recovery.unwind = 0 /\ Call(TRUE)
  <2>1. ~Required(Top)
    BY <1>6 DEF Looping
  <2>2. ~(recovery.unwind > 0)
    BY <1>6
  <2> QED BY <1>1, <1>6, <2>1, <2>2, Zenon, CallTells
<1>7. CASE Looping(Top) /\ EndLoop(calls, recovery)
  <2>1. ~Required(Top)
    BY <1>7 DEF Looping
  <2> QED BY <1>1, <1>7, <2>1, TopLoopTells
<1> QED BY <1>3, <1>4, <1>5, <1>6, <1>7 DEF CallRule

\* A rule that matched stands for what its answer says.
LEMMA RuleMatchedTells ==
    ASSUME Standing, Told(recovery), RuleMatched
    PROVE  Telling
<1> DEFINE c == [Top EXCEPT !.pos = answer.pos, !.took = answer.took]
           p == answer.pos
           symbol == SymbolOf(Top)
<1>1. calls # <<>> /\ answer.kind = "matched"
  BY DEF RuleMatched, Answered
<1>2. TypeOK /\ Placed(Top) /\ Waiting(Top) /\ InBody(Top) /\ ~Choosing(Top) /\ Top \in Frames
  BY <1>1, TopStands, TopType DEF Waiting
<1>3. c \in Frames /\ SamePlace(c, Top)
  BY <1>1, AnswerTaken
<1>4. c.start = Top.start /\ c.pos = p
  BY <1>2 DEF Frames
<1>5. symbol \in Range(AtomOf(Top).syms)
  BY <1>2, SymbolIsThere
<1>6. \/ \E d \in {Done(c), Forward(c)} : Continue(CommitRule(PutTop(calls, d), p), Matched(recovery))
      \/ Continue(CommitRule(PutTop(calls, Forward(c)), p), recovery)
      \/ /\ ~Required(Top) /\ AtomOf(Top).q # "?"
         /\ Continue(CommitRule(PutTop(calls, c), p), recovery)
      \/ ~Required(Top) /\ EndLoop(CommitRule(PutTop(calls, Top), p), recovery)
  BY DEF RuleMatched
<1> HIDE DEF c, p
<1>7. /\ Forward(c) \in Frames /\ Reads(Forward(c))
      /\ Done(c) \in Frames /\ Reads(Done(c))
      /\ AtomOf(Top).q \in {"*", "+"} => Reads(c)
  <2>1. \A whole :
           /\ ClosedUnder(parser.rules, input, whole)
           /\ answer.kind = "matched" => p \in Spots(input) /\ <<symbol, Top.pos, p>> \in whole
           => p \in Spots(input) /\ <<symbol, Top.pos, p>> \in whole
    BY <1>1
  <2>2. \A whole :
           /\ ClosedUnder(parser.rules, input, whole)
           /\ answer.kind = "matched" =>
                 answer.pos \in Spots(input) /\ <<SymbolOf(Top), Top.pos, answer.pos>> \in whole
           => c.pos \in Spots(input) /\ <<symbol, Top.pos, c.pos>> \in whole
    BY <2>1, <1>4 DEF p
  <2> HIDE DEF symbol
  <2> QED BY <2>2, <1>1, <1>2, <1>3, <1>4, <1>5, MatchingReads
<1> HIDE DEF symbol
<1>8. ASSUME NEW d \in {Done(c), Forward(c)}, NEW r \in {recovery, Matched(recovery)},
             Continue(CommitRule(PutTop(calls, d), p), r)
      PROVE  Telling
  <2>1. d \in Frames /\ Reads(d)
    BY <1>7, <1>8
  <2> QED BY <2>1, <1>1, <1>8, QuietTelling
<1>9. CASE /\ ~Required(Top) /\ AtomOf(Top).q # "?"
           /\ Continue(CommitRule(PutTop(calls, c), p), recovery)
  <2>1. AtomOf(Top) \in Atoms
    BY <1>2, RuleType
  <2>2. AtomOf(Top).q \in Quantifiers
    BY <2>1 DEF Atoms
  <2>3. AtomOf(Top).q \in {"*", "+"}
    BY <2>2, <1>9, Zenon DEF Quantifiers, Required
  <2>4. Reads(c)
    BY <1>7, <2>3
  <2> QED BY <2>4, <1>1, <1>3, <1>9, QuietTelling
<1>10. CASE ~Required(Top) /\ EndLoop(CommitRule(PutTop(calls, Top), p), recovery)
  <2> DEFINE cs == CommitRule(PutTop(calls, Top), p)
  <2>1. cs = CommitRule(PutTop(calls, Top), p) /\ EndLoop(cs, recovery)
    BY <1>10
  <2> HIDE DEF cs
  <2> QED BY <2>1, <1>1, <1>2, <1>10, EndLoopTells
<1> QED BY <1>6, <1>8, <1>9, <1>10

LEMMA NotThereTells ==
    ASSUME Standing, calls # <<>>, Told(recovery), InBody(Top), ~Required(Top), NotThere
    PROVE  Telling
<1>1. CASE Continue(PutTop(calls, Forward(Top)), recovery)
  <2>1. Forward(Top) \in Frames /\ Reads(Forward(Top))
    BY PassingReads
  <2> QED BY <1>1, <2>1, QuietTelling
<1>2. CASE EndLoop(calls, recovery)
  BY <1>2, TopLoopTells
<1> QED BY <1>1, <1>2 DEF NotThere

\* A rule that failed has reported.
LEMMA RuleFailedTells ==
    ASSUME Standing, Told(recovery), answer.kind = "failed" => Loud(recovery), RuleFailed
    PROVE  Telling
<1>1. calls # <<>> /\ Loud(recovery) /\ InBody(Top)
  <2>1. calls # <<>> /\ answer.kind = "failed"
    BY DEF RuleFailed, Answered
  <2> QED BY <2>1, TopStands DEF Waiting
<1>2. CASE Stop("thrown", recovery)
  BY <1>2, StopTells
<1>3. CASE ~Required(Top) /\ NotThere
  BY <1>1, <1>3, NotThereTells
<1>4. CASE Continue(PutTop(calls, Forward([Top EXCEPT !.pos = Lost])), recovery)
  <2>1. recovery' = recovery /\ answer'.kind # "failed"
    BY <1>4 DEF Continue, NoAnswer
  <2> QED BY <1>1, <2>1, LoudTelling
<1>5. CASE Leave("absent", Lost, recovery)
  BY <1>1, <1>5, AbsentTells
<1>6. CASE AskHandler
  BY <1>1, <1>6, HandlerTells
<1> QED BY <1>2, <1>3, <1>4, <1>5, <1>6 DEF RuleFailed

\* What is answered by a probe is answered to a call that can do without.
ProbesAreOptional == calls # <<>> /\ answer.kind # "none" => (answer.probe <=> ~Required(Top))

LEMMA RuleAbsentTells ==
    ASSUME Standing, Told(recovery), ProbesAreOptional, RuleAbsent
    PROVE  Telling
<1>1. calls # <<>> /\ answer.kind = "absent" /\ InBody(Top)
  <2>1. calls # <<>> /\ answer.kind = "absent"
    BY DEF RuleAbsent, Answered
  <2> QED BY <2>1, TopStands DEF Waiting
<1>2. CASE answer.probe /\ NotThere
  <2>1. ~Required(Top)
    BY <1>1, <1>2 DEF ProbesAreOptional
  <2> QED BY <1>1, <1>2, <2>1, NotThereTells
<1>3. CASE Leave("absent", Lost, recovery)
  BY <1>1, <1>3, AbsentTells
<1> QED BY <1>2, <1>3 DEF RuleAbsent

LEMMA ChooseAlternativeTells ==
    ASSUME Standing, Told(recovery), ChooseAlternative
    PROVE  Telling
<1>1. calls # <<>> /\ InBody(Top)
  BY DEF ChooseAlternative, Working
<1>2. TypeOK /\ Top \in Frames /\ Top.pos \in Positions /\ recovery \in RecoveryStates(Len(calls))
      /\ Len(calls) \in Nat \ {0}
  BY <1>1, TopStands, TopType
<1>3. Alternatives \subseteq Nat
  <2>1. Alternatives = 1..Len(AtomOf(Top).syms)
    BY <1>1, <1>2, RuleType DEF Alternatives
  <2> QED BY <2>1
<1>4. ASSUME NEW k \in Alternatives, Continue(PutTop(calls, [Top EXCEPT !.alt = k]), recovery)
      PROVE  Telling
  <2> DEFINE c == [Top EXCEPT !.alt = k]
  <2>1. c \in Frames
    <3>1. Top \in FramesOver(DOMAIN parser.rules, Positions) /\ k \in Nat
      BY <1>2, <1>3, FramesAre
    <3>2. c = Chosen(Top, Top.pos, k)
      BY <3>1, <1>2, FrameChose
    <3> HIDE DEF c
    <3> QED BY <3>1, <3>2, <1>2, FrameChose, FramesAre
  <2>2. /\ c.rule = Top.rule /\ c.m = Top.m /\ c.i = Top.i /\ c.start = Top.start /\ c.pos = Top.pos
        /\ (c.started => Top.started)
    BY <1>2 DEF Frames
  <2>3. Continue(PutTop(calls, c), recovery)
    BY <1>4
  <2> HIDE DEF c
  <2>4. ASSUME NEW whole, IsRead(whole, Top) PROVE IsRead(whole, c)
    BY <2>2, <2>4, ReadAlike
  <2>5. Reads(c)
    BY <2>2, <2>4 DEF Reads
  <2> QED BY <1>1, <2>1, <2>3, <2>5, QuietTelling
<1>5. CASE Leave("absent", Lost, recovery)
  BY <1>1, <1>5, AbsentTells
<1>6. CASE RecoverChoice
  <2> DEFINE k == ChoiceSkip(Top.pos, recovery)
             counted == [recovery EXCEPT !.diagnostics = @ + 1, !.skipped = @ + k]
  <2>1. counted \in RecoveryStates(Len(calls))
    <3>1. Drops(calls, Top.pos, recovery, Top.pos + k, counted)
      BY <1>1, <1>2, ChoiceDrops
    <3> QED BY <3>1 DEF Drops
  <2>2. Loud(counted) /\ Louder(recovery, counted)
    <3> HIDE DEF k
    <3> QED BY <1>2, CountedIsLoud
  <2>3. \/ recovery' = FrameGone(counted)
        \/ recovery' = counted
    BY <1>6 DEF RecoverChoice, Leave, Continue
  <2> HIDE DEF counted
  <2>4. Told(counted)
    BY <2>2 DEF Louder
  <2>5. Louder(counted, FrameGone(counted))
    BY <1>2, <2>1, FrameGoneIsLouder
  <2>6. Told(recovery') /\ Loud(recovery')
    BY <2>2, <2>3, <2>4, <2>5 DEF Louder
  <2> QED BY <2>6 DEF Telling, Louder
<1> QED BY <1>4, <1>5, <1>6 DEF ChooseAlternative

LEMMA FinishTells ==
    ASSUME Standing, Finish
    PROVE  Telling
<1>1. recovery \in RecoveryStates(Len(calls))
  BY DEF Standing, TypeOK
<1>2. calls' = calls /\ answer' = answer
  BY DEF Finish
<1>3. recovery' = recovery \/ recovery' = [recovery EXCEPT !.diagnostics = @ + 1]
  <2>1. [recovery EXCEPT !.diagnostics = @] = recovery
    BY <1>1 DEF RecoveryStates
  <2> QED BY <2>1 DEF Finish
<1>4. Louder(recovery, [recovery EXCEPT !.diagnostics = @ + 1])
  <2> DEFINE s == [recovery EXCEPT !.diagnostics = @ + 1]
             d == recovery.diagnostics + 1
  <2>1. d \in Nat /\ d > 0
    BY <1>1 DEF RecoveryStates
  <2>2. /\ s.diagnostics = d /\ (s.reported <=> recovery.reported)
        /\ (s.recovering <=> recovery.recovering) /\ s.unwind = recovery.unwind
    BY <1>1 DEF RecoveryStates
  <2> HIDE DEF s, d
  <2> QED BY <2>1, <2>2 DEF Louder, Loud, Told, s
<1>5. Louder(recovery, recovery')
  BY <1>3, <1>4, LouderItself
<1> QED BY <1>2, <1>5 DEF Telling, Rests

LEMMA NextTells ==
    ASSUME Standing, Told(recovery), answer.kind = "failed" => Loud(recovery), ProbesAreOptional, Next
    PROVE  Telling
BY EndRuleTells, StartMemberTells, EndBodyTells, RequiredTokenTells, OptionalTokenTells,
   RepeatedTokenTells, CallRuleTells, RuleMatchedTells, RuleFailedTells, RuleAbsentTells,
   ChooseAlternativeTells, FinishTells DEF Next

-----------------------------------------------------------------------------
(* All that is read is derived, as long as nothing is reported. *)

\* Each rule function began where the one below it is, and has read what it is
\* behind of.
StackIsRead(whole, cs) ==
    /\ cs # <<>> => cs[1].start = 1
    /\ \A f \in 1..Len(cs) - 1 : cs[f + 1].start = cs[f].pos
    /\ \A f \in DOMAIN cs : IsRead(whole, cs[f])

AnswerIsRead(whole, cs, a) ==
    a.kind = "matched" =>
        /\ a.pos \in Spots(input)
        /\ IF cs = <<>> THEN <<Main, 1, a.pos>> \in whole
           ELSE <<SymbolOf(Last(cs)), Last(cs).pos, a.pos>> \in whole

Traced ==
    ~Loud(recovery) =>
        \A whole : ClosedUnder(parser.rules, input, whole) =>
            StackIsRead(whole, calls) /\ AnswerIsRead(whole, calls, answer)

LEMMA TracedKept ==
    ASSUME parser' = parser, input' = input,
           ASSUME ~Loud(recovery'), NEW whole, ClosedUnder(parser.rules, input, whole)
           PROVE  StackIsRead(whole, calls') /\ AnswerIsRead(whole, calls', answer')
    PROVE  Traced'
<1>1. ASSUME NEW whole PROVE StackIsRead(whole, calls)' <=> StackIsRead(whole, calls')
  <2>1. \A c : IsRead(whole, c)' <=> IsRead(whole, c)
    BY DEF IsRead, BodyIsRead, AtomIsRead, Members1, Atoms1, RuleOf, MemberOf, AtomOf, InBody
  <2> QED BY <2>1 DEF StackIsRead
<1>2. ASSUME NEW whole PROVE AnswerIsRead(whole, calls, answer)' <=> AnswerIsRead(whole, calls', answer')
  BY DEF AnswerIsRead, SymbolOf, AtomOf, MemberOf, RuleOf
<1>3. ASSUME ~Loud(recovery'), NEW whole, ClosedUnder(parser.rules, input, whole)
      PROVE  StackIsRead(whole, calls') /\ AnswerIsRead(whole, calls', answer')
  BY <1>3
<1>4. ASSUME ~Loud(recovery)', NEW whole, ClosedUnder(parser.rules, input, whole)'
      PROVE  StackIsRead(whole, calls)' /\ AnswerIsRead(whole, calls, answer)'
  <2>1. ~Loud(recovery') /\ ClosedUnder(parser.rules, input, whole)
    BY <1>4
  <2> QED BY <2>1, <1>1, <1>2, <1>3
<1> QED BY <1>4 DEF Traced

\* A rule function reads on.
LEMMA ReadOnStack ==
    ASSUME Standing, NEW whole, ClosedUnder(parser.rules, input, whole),
           StackIsRead(whole, calls), AnswerIsRead(whole, calls, answer), ReadsOn
    PROVE  StackIsRead(whole, calls') /\ AnswerIsRead(whole, calls', answer')
<1>1. PICK cs : Alike(cs) /\ Reads(Last(cs)) /\ calls' = cs
  BY DEF ReadsOn
<1>2. answer'.kind = "none"
  BY DEF ReadsOn, NoAnswer
<1>3. /\ calls # <<>> /\ calls \in Seq(Frames) /\ Len(calls) \in Nat \ {0}
      /\ Top = calls[Len(calls)] /\ Top = Last(calls)
  BY TopStands, TopType DEF ReadsOn, Top
<1>4. /\ cs \in Seq(Frames) /\ Len(cs) = Len(calls) /\ Last(cs) = cs[Len(calls)] /\ cs # <<>>
      /\ \A f \in 1..Len(calls) - 1 : cs[f] = [calls[f] EXCEPT !.committed = cs[f].committed]
  BY <1>1, <1>3 DEF Alike, Last
<1>5. IsRead(whole, Top)
  <2>1. Len(calls) \in DOMAIN calls
    BY <1>3
  <2> QED BY <2>1, <1>3 DEF StackIsRead
<1>6. cs[Len(calls)].start = calls[Len(calls)].start /\ IsRead(whole, cs[Len(calls)])
  <2>1. answer.kind = "matched" =>
           answer.pos \in Spots(input) /\ <<SymbolOf(Top), Top.pos, answer.pos>> \in whole
    BY <1>3 DEF AnswerIsRead
  <2>2. Last(cs).start = Top.start /\ IsRead(whole, Last(cs))
    BY <1>1, <1>5, <2>1 DEF Reads
  <2> QED BY <1>3, <1>4, <2>2
<1>7. ASSUME NEW f \in 1..Len(calls) - 1
      PROVE  cs[f].start = calls[f].start /\ cs[f].pos = calls[f].pos /\ IsRead(whole, cs[f])
  <2>1. f \in DOMAIN calls /\ calls[f] \in Frames
    BY <1>3
  <2>2. /\ cs[f].rule = calls[f].rule /\ cs[f].m = calls[f].m /\ cs[f].i = calls[f].i
        /\ cs[f].start = calls[f].start /\ cs[f].pos = calls[f].pos /\ (cs[f].started => calls[f].started)
    BY <2>1, <1>4 DEF Frames
  <2>3. IsRead(whole, calls[f])
    BY <2>1 DEF StackIsRead
  <2> QED BY <2>2, <2>3, ReadAlike
<1>8. \A f \in 1..Len(calls) : f = Len(calls) \/ f \in 1..Len(calls) - 1
  BY <1>3
<1>9. \A f \in DOMAIN cs : IsRead(whole, cs[f]) /\ cs[f].start = calls[f].start
  <2>1. DOMAIN cs = 1..Len(calls)
    BY <1>4
  <2> QED BY <2>1, <1>6, <1>7, <1>8
<1>10. cs[1].start = 1
  <2>1. 1 \in DOMAIN cs
    BY <1>3, <1>4
  <2> QED BY <2>1, <1>3, <1>9 DEF StackIsRead
<1>11. ASSUME NEW f \in 1..Len(cs) - 1 PROVE cs[f + 1].start = cs[f].pos
  <2>1. f + 1 \in DOMAIN cs /\ f \in 1..Len(calls) - 1
    BY <1>3, <1>4
  <2>2. calls[f + 1].start = calls[f].pos
    BY <2>1 DEF StackIsRead
  <2> QED BY <2>1, <2>2, <1>7, <1>9
<1>12. StackIsRead(whole, cs)
  BY <1>9, <1>10, <1>11 DEF StackIsRead
<1> QED BY <1>1, <1>2, <1>12 DEF AnswerIsRead

\* A rule function is called.
LEMMA ReadCalls ==
    ASSUME Standing, NEW whole, StackIsRead(whole, calls), Calls
    PROVE  StackIsRead(whole, calls') /\ AnswerIsRead(whole, calls', answer')
<1>1. PICK probe \in BOOLEAN : Call(probe)
  BY DEF Calls
<1> DEFINE c == Enter(SymbolOf(Top), Top.pos, Top.took, probe)
           cs == Append(calls, c)
           n == Len(calls)
<1>2. /\ calls # <<>> /\ TypeOK /\ calls \in Seq(Frames) /\ n \in Nat \ {0} /\ Top = calls[n]
      /\ Top.pos \in Positions /\ Top.took \in Nat
  BY TopStands, TopType DEF Calls
<1>3. calls' = cs /\ answer'.kind = "none"
  BY <1>1 DEF Call, Continue, NoAnswer
<1>4. SymbolOf(Top) \in DOMAIN parser.rules
  BY DEF Calls, AtRule, IsRule
<1>5. IsRead(whole, Top)
  BY <1>2 DEF StackIsRead
<1>6. Top.pos \in Spots(input)
  BY <1>5 DEF IsRead
<1>7. IsRead(whole, c) /\ c.start = Top.pos
  <2>1. IsRead(whole, c)
    BY <1>6, Entered
  <2> QED BY <2>1 DEF Enter
<1>8. c \in Frames
  BY <1>2, <1>4, FrameEntered, FramesAre
<1> HIDE DEF c
<1>9. /\ Len(cs) = n + 1 /\ cs[n + 1] = c /\ cs \in Seq(Frames)
      /\ \A f \in 1..n : cs[f] = calls[f]
  BY <1>2, <1>8, Pushed
<1> HIDE DEF cs, n
<1>10. DOMAIN cs = 1..n + 1 /\ DOMAIN calls = 1..n
  BY <1>2, <1>9 DEF n
<1>11. \A f \in DOMAIN cs : IsRead(whole, cs[f])
  <2>1. \A f \in 1..n + 1 : f = n + 1 \/ f \in 1..n
    BY <1>2
  <2> QED BY <2>1, <1>7, <1>9, <1>10 DEF StackIsRead
<1>12. cs[1].start = 1
  <2>1. 1 \in 1..n
    BY <1>2
  <2> QED BY <2>1, <1>2, <1>9 DEF StackIsRead
<1>13. ASSUME NEW f \in 1..Len(cs) - 1 PROVE cs[f + 1].start = cs[f].pos
  <2>1. CASE f = n
    <3>1. n \in 1..n
      BY <1>2
    <3> QED BY <3>1, <2>1, <1>2, <1>7, <1>9
  <2>2. CASE f # n
    <3>1. f \in 1..n - 1 /\ f \in 1..n /\ f + 1 \in 1..n
      BY <2>2, <1>2, <1>9
    <3>2. calls[f + 1].start = calls[f].pos
      BY <3>1 DEF StackIsRead, n
    <3> QED BY <3>1, <3>2, <1>9
  <2> QED BY <2>1, <2>2
<1>14. StackIsRead(whole, cs)
  BY <1>11, <1>12, <1>13 DEF StackIsRead
<1> QED BY <1>3, <1>14 DEF AnswerIsRead

\* A rule function ends.
LEMMA ReadEnds ==
    ASSUME Standing, NEW whole, ClosedUnder(parser.rules, input, whole), StackIsRead(whole, calls), Ends
    PROVE  StackIsRead(whole, calls') /\ AnswerIsRead(whole, calls', answer')
<1> DEFINE n == Len(calls)
           cs == Front(calls)
<1>1. /\ calls # <<>> /\ TypeOK /\ calls \in Seq(Frames) /\ n \in Nat \ {0} /\ Top = calls[n]
      /\ Top \in Frames
  BY TopStands, TopType DEF Ends
<1>2. calls' = cs
  BY DEF Ends
<1>3. cs \in Seq(Frames) /\ Len(cs) = n - 1 /\ \A f \in 1..n - 1 : cs[f] = calls[f]
  BY <1>1, TopOf
<1> HIDE DEF cs, n
<1>4. DOMAIN cs = 1..n - 1 /\ DOMAIN calls = 1..n
  BY <1>1, <1>3 DEF n
<1>5. \A f \in 1..n - 1 : f \in 1..n
  BY <1>1
<1>6. StackIsRead(whole, cs)
  <2>1. \A f \in DOMAIN cs : IsRead(whole, cs[f])
    BY <1>3, <1>4, <1>5 DEF StackIsRead
  <2>2. ASSUME cs # <<>> PROVE cs[1].start = 1
    <3>1. 1 \in 1..n - 1
      BY <2>2, <1>1, <1>3
    <3> QED BY <3>1, <1>1, <1>3 DEF StackIsRead
  <2>3. ASSUME NEW f \in 1..Len(cs) - 1 PROVE cs[f + 1].start = cs[f].pos
    <3>1. f \in 1..n - 1 /\ f + 1 \in 1..n - 1
      BY <1>1, <1>3
    <3>2. calls[f + 1].start = calls[f].pos
      BY <3>1 DEF StackIsRead, n
    <3> QED BY <3>1, <3>2, <1>3
  <2> QED BY <2>1, <2>2, <2>3 DEF StackIsRead
<1>7. ASSUME answer'.kind = "matched" PROVE AnswerIsRead(whole, cs, answer')
  <2>1. answer'.pos = Top.pos /\ Placed(Top) /\ Top.m > Len(RuleOf(Top))
    BY <1>7 DEF Ends
  <2>2. IsRead(whole, Top)
    <3>1. n \in DOMAIN calls
      BY <1>1, <1>4
    <3> QED BY <3>1, <1>1 DEF StackIsRead
  <2>3. <<Top.rule, Top.start, Top.pos>> \in whole /\ Top.pos \in Spots(input)
    BY <1>1, <2>1, <2>2, RuleRead DEF IsRead
  <2>4. CASE cs = <<>>
    <3>1. n = 1
      BY <2>4, <1>1, <1>3
    <3>2. Top.rule = Main /\ Top.start = 1
      BY <3>1, <1>1 DEF StackIsRead, Standing, CallsFollowTheGrammar
    <3> QED BY <2>1, <2>3, <2>4, <3>2 DEF AnswerIsRead
  <2>5. CASE cs # <<>>
    <3> DEFINE k == n - 1
    <3>1. k \in 1..n - 1 /\ k + 1 = n /\ Len(cs) = k
      BY <2>5, <1>1, <1>3
    <3> HIDE DEF k
    <3>2. calls[k + 1].rule = SymbolOf(calls[k]) /\ calls[k + 1].start = calls[k].pos
      BY <3>1 DEF StackIsRead, Standing, CallsFollowTheGrammar, n
    <3>3. Last(cs) = calls[k]
      BY <3>1, <1>3 DEF Last
    <3> QED BY <2>1, <2>3, <2>5, <3>1, <3>2, <3>3, <1>1 DEF AnswerIsRead
  <2> QED BY <2>4, <2>5
<1> QED BY <1>2, <1>6, <1>7 DEF AnswerIsRead

LEMMA TracedStep ==
    ASSUME Standing, Told(recovery), answer.kind = "failed" => Loud(recovery), ProbesAreOptional,
           Traced, [Next]_vars
    PROVE  Traced'
<1>1. CASE UNCHANGED vars
  <2>1. /\ parser' = parser /\ input' = input /\ calls' = calls /\ recovery' = recovery
        /\ answer' = answer
    BY <1>1 DEF vars
  <2> QED BY <2>1, TracedKept DEF Traced
<1>2. CASE Next
  <2>1. Telling
    BY <1>2, NextTells
  <2>2. parser' = parser /\ input' = input
    BY <1>2, NextKinds DEF Turns, Calls, Call, Leaves, Stops, Finish, Continue, Leave, Stop
  <2>3. ASSUME ~Loud(recovery'), NEW whole, ClosedUnder(parser.rules, input, whole)
        PROVE  StackIsRead(whole, calls') /\ AnswerIsRead(whole, calls', answer')
    <3>1. ~Loud(recovery)
      BY <2>1, <2>3 DEF Telling, Louder
    <3>2. StackIsRead(whole, calls) /\ AnswerIsRead(whole, calls, answer)
      BY <3>1, <2>3 DEF Traced
    <3>3. CASE ReadsOn
      BY <2>3, <3>2, <3>3, ReadOnStack
    <3>4. CASE Calls
      BY <3>2, <3>4, ReadCalls
    <3>5. CASE Ends
      BY <2>3, <3>2, <3>5, ReadEnds
    <3>6. CASE Rests
      BY <3>2, <3>6 DEF Rests
    <3> QED BY <2>1, <2>3, <3>3, <3>4, <3>5, <3>6 DEF Telling
  <2> QED BY <2>2, <2>3, TracedKept
<1> QED BY <1>1, <1>2

LEMMA ProbesStep ==
    ASSUME Standing, ProbesAreOptional, [Next]_vars
    PROVE  ProbesAreOptional'
<1>1. ASSUME calls' = calls, answer' = answer, parser' = parser PROVE ProbesAreOptional'
  BY <1>1 DEF ProbesAreOptional, Required, AtomOf, MemberOf, RuleOf, Top
<1>2. ASSUME answer'.kind = "none" PROVE ProbesAreOptional'
  BY <1>2 DEF ProbesAreOptional
<1>3. CASE Turns \/ Calls
  <2>1. answer'.kind = "none"
    BY <1>3 DEF Turns, Calls, Call, Continue, NoAnswer
  <2> QED BY <2>1, <1>2
<1>4. CASE Leaves
  <2> DEFINE n == Len(calls)
             cs == Front(calls)
  <2>1. /\ calls # <<>> /\ TypeOK /\ calls \in Seq(Frames) /\ n \in Nat \ {0} /\ Top = calls[n]
    BY <1>4, TopStands, TopType DEF Leaves
  <2>2. calls' = cs /\ answer'.probe = Top.probe /\ parser' = parser
    BY <1>4 DEF Leaves, Leave
  <2>3. cs \in Seq(Frames) /\ Len(cs) = n - 1 /\ \A f \in 1..n - 1 : cs[f] = calls[f]
    BY <2>1, TopOf
  <2> HIDE DEF cs
  <2>4. ASSUME cs # <<>> PROVE Top.probe <=> ~Required(Last(cs))
    <3> DEFINE k == n - 1
    <3>1. k \in 1..n - 1 /\ k + 1 = n /\ Len(cs) = k
      BY <2>4, <2>1, <2>3
    <3> HIDE DEF k
    <3>2. calls[k + 1].probe <=> ~Required(calls[k])
      BY <3>1 DEF Standing, CallsFollowTheGrammar
    <3>3. Last(cs) = calls[k]
      BY <3>1, <2>3 DEF Last
    <3> QED BY <3>1, <3>2, <3>3, <2>1
  <2> QED BY <2>2, <2>4 DEF ProbesAreOptional, Required, AtomOf, MemberOf, RuleOf, Top
<1>5. CASE Stops \/ Finish \/ UNCHANGED vars
  BY <1>1, <1>5 DEF Stops, Stop, Finish, vars
<1> QED BY <1>3, <1>4, <1>5, NextKinds

\* What was reported, and what only after a report.
Heard == Told(recovery) /\ (answer.kind = "failed" => Loud(recovery)) /\ ProbesAreOptional

LEMMA HeardStep ==
    ASSUME Standing, Heard, [Next]_vars
    PROVE  Heard'
<1>1. ProbesAreOptional'
  BY ProbesStep DEF Heard
<1>2. CASE UNCHANGED vars
  BY <1>1, <1>2 DEF vars, Heard, Told, Loud
<1>3. CASE Next
  <2>1. Telling
    BY <1>3, NextTells DEF Heard
  <2>2. Told(recovery') /\ (answer'.kind = "failed" => Loud(recovery'))
    BY <2>1 DEF Heard, Telling, Louder
  <2>3. Told(recovery)' /\ (answer.kind = "failed" => Loud(recovery))'
    BY <2>2 DEF Told, Loud
  <2> QED BY <1>1, <2>3 DEF Heard
<1> QED BY <1>2, <1>3

\* A parse that matched is at the end of its input, unless it has reported.
Completed ==
    outcome = "matched" =>
        calls = <<>> /\ answer.kind = "matched" /\ (~Loud(recovery) => AtEnd(answer.pos))

LEMMA CompletedStep ==
    ASSUME Standing, Completed, [Next]_vars
    PROVE  Completed'
<1>1. CASE UNCHANGED vars
  BY <1>1 DEF vars, Completed, Loud, AtEnd
<1>2. CASE Next /\ ~Finish
  <2>1. outcome = "running"
    BY <1>2, NextRuns DEF Running
  <2>2. outcome' # "matched"
    BY <1>2, <2>1, NextKinds DEF Turns, Calls, Call, Leaves, Stops, Continue, Leave, Stop
  <2> QED BY <2>2 DEF Completed
<1>3. CASE Finish
  <2> SUFFICES ASSUME outcome' = "matched"
               PROVE  (calls = <<>> /\ answer.kind = "matched" /\ (~Loud(recovery) => AtEnd(answer.pos)))'
    BY DEF Completed
  <2>1. calls' = <<>> /\ answer' = answer /\ answer.kind = "matched" /\ input' = input
    BY <1>3 DEF Finish
  <2>2. ASSUME ~AtEnd(answer.pos) PROVE Loud(recovery')
    <3>1. recovery' = [recovery EXCEPT !.diagnostics = @ + 1]
      BY <1>3, <2>1, <2>2 DEF Finish
    <3>2. recovery.diagnostics \in Nat /\ recovery'.diagnostics = recovery.diagnostics + 1
      BY <3>1 DEF Standing, TypeOK, RecoveryStates
    <3> QED BY <3>2 DEF Loud
  <2>3. Loud(recovery)' <=> Loud(recovery')
    BY DEF Loud
  <2>4. AtEnd(answer.pos)' <=> AtEnd(answer.pos)
    BY <2>1 DEF AtEnd
  <2> QED BY <2>1, <2>2, <2>3, <2>4
<1> QED BY <1>1, <1>2, <1>3

LEMMA BeginsUnheard ==
    ASSUME Init
    PROVE  Heard /\ Traced /\ Completed
<1>1. /\ ~Loud(recovery) /\ Told(recovery) /\ answer.kind = "none" /\ outcome = "running"
  BY DEF Init, Loud, Told, NoAnswer
<1>2. calls = <<Enter(Main, 1, 0, FALSE)>>
  BY DEF Init
<1>3. Heard /\ Completed
  BY <1>1 DEF Heard, Completed, ProbesAreOptional
<1>4. ASSUME NEW whole PROVE StackIsRead(whole, calls) /\ AnswerIsRead(whole, calls, answer)
  <2> DEFINE c == Enter(Main, 1, 0, FALSE)
  <2>1. 1 \in Spots(input)
    BY StandingInit, InputIsSequence DEF Standing, Spots
  <2>2. IsRead(whole, c)
    BY <2>1, Entered
  <2>3. c.start = 1
    BY DEF Enter
  <2>4. calls = <<c>>
    BY <1>2
  <2> HIDE DEF c
  <2>5. Len(calls) = 1 /\ DOMAIN calls = {1} /\ calls[1] = c /\ 1..(Len(calls) - 1) = {}
    BY <2>4
  <2>6. StackIsRead(whole, calls)
    BY <2>2, <2>3, <2>5 DEF StackIsRead
  <2> QED BY <2>6, <1>1 DEF AnswerIsRead
<1> QED BY <1>3, <1>4 DEF Traced

\* Nothing was reported.
Unreported == recovery.diagnostics = 0 /\ ~recovery.reported

LEMMA MatchedIsDerived ==
    ASSUME Standing, Traced, Completed, outcome = "matched", Unreported
    PROVE  IsSentence(parser.rules, input)
<1>1. ~Loud(recovery)
  BY DEF Unreported, Loud
<1>2. calls = <<>> /\ answer.kind = "matched" /\ AtEnd(answer.pos)
  BY <1>1 DEF Completed
<1>3. ASSUME NEW whole, ClosedUnder(parser.rules, input, whole)
      PROVE  <<"main", 1, Len(input) + 1>> \in whole
  <2>1. answer.pos \in Spots(input) /\ <<Main, 1, answer.pos>> \in whole
    BY <1>1, <1>2, <1>3 DEF Traced, AnswerIsRead
  <2>2. Len(input) \in Nat
    BY InputIsSequence DEF Standing
  <2>3. answer.pos = Len(input) + 1
    BY <1>2, <2>1, <2>2 DEF Spots, AtEnd, Lost
  <2> QED BY <2>1, <2>3 DEF Main
<1> QED BY <1>3 DEF IsSentence, Derived

\* A parse that ends matched with no diagnostic and no report of a context
\* error has read its input as the rules derive it, from the first token to the
\* last: no repair, no rule given up, no report muted by recovering_ and no
\* probe that came to nothing hides in it.
THEOREM UnreportedParsesAreDerived ==
    Spec => [](outcome = "matched" /\ Unreported => IsSentence(parser.rules, input))
<1> DEFINE Inv == Standing /\ Heard /\ Traced /\ Completed
<1>1. Init => Inv
  BY StandingInit, BeginsUnheard
<1>2. Inv /\ [Next]_vars => Inv'
  BY StandingStep, HeardStep, TracedStep, CompletedStep DEF Heard
<1>3. Inv => (outcome = "matched" /\ Unreported => IsSentence(parser.rules, input))
  BY MatchedIsDerived
<1> HIDE DEF Inv
<1> QED BY <1>1, <1>2, <1>3, PTL DEF Spec

-----------------------------------------------------------------------------
(* Closed sets of texts hold everything derived that is short enough. *)

OpenAt(parts, n, open, d) == IF d = 0 THEN {<<>>} ELSE Joined(open[d - 1], parts[d], n)

IsOpening(parts, n, open, len) == open = [d \in 0..len |-> OpenAt(parts, n, open, d)]

LEMMA OpeningsExist ==
    ASSUME NEW parts, NEW n, NEW len \in Nat
    PROVE  \E open : IsOpening(parts, n, open, len)
<1> DEFINE Missing == {m \in Nat : ~\E open : IsOpening(parts, n, open, m)}
<1>1. CASE Missing = {}
  BY <1>1
<1>2. CASE Missing # {}
  <2>1. Missing \subseteq Nat
    OBVIOUS
  <2>2. PICK m \in Missing : \A other \in Missing : m <= other
    <3> HIDE DEF Missing
    <3> QED BY <1>2, <2>1, HasLeast
  <2>3. m \in Nat /\ ~\E open : IsOpening(parts, n, open, m)
    BY <2>2
  <2>4. CASE m = 0
    <3> DEFINE open == [d \in 0..0 |-> {<<>>}]
    <3>1. open = [d \in 0..0 |-> OpenAt(parts, n, open, d)]
      BY DEF OpenAt
    <3> QED BY <2>3, <2>4, <3>1 DEF IsOpening
  <2>5. CASE m > 0
    <3>1. m - 1 \in Nat /\ ~(m <= m - 1) /\ m # 0
      BY <2>3, <2>5
    <3>2. PICK before : IsOpening(parts, n, before, m - 1)
      <4>1. m - 1 \notin Missing
        BY <2>2, <3>1
      <4> QED BY <3>1, <4>1
    <3> DEFINE open == [d \in 0..m |-> IF d < m THEN before[d] ELSE OpenAt(parts, n, before, m)]
    <3>3. \A d \in 0..(m - 1) : before[d] = OpenAt(parts, n, before, d)
      BY <3>2 DEF IsOpening
    <3>4. ASSUME NEW d \in 0..m PROVE open[d] = OpenAt(parts, n, open, d)
      <4>1. CASE d = 0
        <5>1. 0 \in 0..m /\ 0 < m /\ 0 \in 0..(m - 1)
          BY <2>3, <2>5
        <5>2. open[0] = before[0] /\ before[0] = OpenAt(parts, n, before, 0)
          BY <3>3, <5>1
        <5> QED BY <4>1, <5>2 DEF OpenAt
      <4>2. CASE d # 0
        <5>1. d - 1 \in 0..m /\ d - 1 < m
          BY <4>2, <2>3
        <5>2. open[d - 1] = before[d - 1]
          BY <5>1
        <5>3. OpenAt(parts, n, open, d) = OpenAt(parts, n, before, d)
          BY <5>2 DEF OpenAt
        <5>4. CASE d < m
          <6>1. d \in 0..(m - 1)
            BY <5>4, <2>3
          <6>2. open[d] = before[d]
            BY <5>4
          <6> QED BY <6>1, <6>2, <5>3, <3>3
        <5>5. CASE ~(d < m)
          <6>1. d = m
            BY <5>5, <2>3
          <6>2. open[d] = OpenAt(parts, n, before, m)
            BY <5>5
          <6> QED BY <6>1, <6>2, <5>3
        <5> QED BY <5>4, <5>5
      <4> QED BY <4>1, <4>2
    <3>5. open = [d \in 0..m |-> open[d]]
      OBVIOUS
    <3> HIDE DEF open
    <3>6. IsOpening(parts, n, open, m)
      BY <3>4, <3>5 DEF IsOpening
    <3> QED BY <2>3, <3>6
  <2> QED BY <2>3, <2>4, <2>5
<1> QED BY <1>1, <1>2

LEMMA OpeningsUnfold ==
    ASSUME NEW parts, NEW n, Len(parts) \in Nat
    PROVE  /\ Openings(parts, n)[0] = {<<>>}
           /\ \A d \in 1..Len(parts) : Openings(parts, n)[d] = Joined(Openings(parts, n)[d - 1], parts[d], n)
<1> DEFINE len == Len(parts)
           open == Openings(parts, n)
<1>1. open = CHOOSE o : o = [d \in 0..len |-> OpenAt(parts, n, o, d)]
  BY DEF Openings, OpenAt
<1>2. \E o : o = [d \in 0..len |-> OpenAt(parts, n, o, d)]
  <2> HIDE DEF len
  <2>1. len \in Nat
    BY DEF len
  <2>2. PICK o : IsOpening(parts, n, o, len)
    BY <2>1, OpeningsExist
  <2> QED BY <2>2 DEF IsOpening
<1> HIDE DEF open
<1>3. open = [d \in 0..len |-> OpenAt(parts, n, open, d)]
  BY <1>1, <1>2
<1>4. len \in Nat
  OBVIOUS
<1> HIDE DEF len
<1>5. \A d \in 0..len : open[d] = OpenAt(parts, n, open, d)
  BY <1>3
<1>6. 0 \in 0..len /\ \A d \in 1..len : d \in 0..len /\ d # 0
  BY <1>4
<1>7. open[0] = {<<>>}
  BY <1>5, <1>6 DEF OpenAt
<1>8. \A d \in 1..len : open[d] = Joined(open[d - 1], parts[d], n)
  BY <1>5, <1>6 DEF OpenAt
<1> QED BY <1>7, <1>8 DEF open, len

LEMMA SameElements ==
    ASSUME NEW S, NEW s \in Seq(S), NEW t \in Seq(S), Len(s) = Len(t), \A i \in 1..Len(t) : s[i] = t[i]
    PROVE  s = t
OBVIOUS

LEMMA Concatenated ==
    ASSUME NEW S, NEW s \in Seq(S), NEW t \in Seq(S)
    PROVE  /\ s \o t \in Seq(S) /\ Len(s \o t) = Len(s) + Len(t)
           /\ \A i \in 1..(Len(s) + Len(t)) : (s \o t)[i] = IF i <= Len(s) THEN s[i] ELSE t[i - Len(s)]
OBVIOUS

\* The tokens from one place to another.
Piece(text, lo, hi) == SubSeq(text, lo, hi - 1)

LEMMA PieceOf ==
    ASSUME NEW text \in Seq(STRING), NEW lo \in Spots(text), NEW hi \in Spots(text), lo <= hi
    PROVE  /\ Piece(text, lo, hi) \in Seq(STRING) /\ Len(Piece(text, lo, hi)) = hi - lo
           /\ \A i \in 1..(hi - lo) : Piece(text, lo, hi)[i] = text[lo + i - 1]
<1>1. lo \in Nat /\ 1 <= lo /\ hi \in Nat /\ hi - 1 \in Int /\ hi - 1 <= Len(text) /\ Len(text) \in Nat
  BY DEF Spots
<1> DEFINE to == hi - 1
<1>2. to \in Int /\ to <= Len(text) /\ lo <= to + 1 /\ hi - lo = to - lo + 1
  BY <1>1
<1> HIDE DEF to
<1>3. /\ SubSeq(text, lo, to) \in Seq(STRING) /\ Len(SubSeq(text, lo, to)) = to - lo + 1
      /\ \A i \in 1..(to - lo + 1) : SubSeq(text, lo, to)[i] = text[lo + i - 1]
  BY <1>1, <1>2
<1> QED BY <1>2, <1>3 DEF Piece, to

LEMMA PiecesJoin ==
    ASSUME NEW text \in Seq(STRING), NEW lo \in Spots(text), NEW mid \in Spots(text), NEW hi \in Spots(text),
           lo <= mid, mid <= hi, NEW left, NEW right, NEW n \in Nat, hi - lo <= n,
           Piece(text, lo, mid) \in left, Piece(text, mid, hi) \in right
    PROVE  Piece(text, lo, hi) \in Joined(left, right, n)
<1> DEFINE one == Piece(text, lo, mid)
           two == Piece(text, mid, hi)
           both == Piece(text, lo, hi)
<1>1. lo \in Nat /\ mid \in Nat /\ hi \in Nat /\ Len(text) \in Nat /\ lo <= hi
  BY DEF Spots
<1>2. /\ one \in Seq(STRING) /\ Len(one) = mid - lo /\ \A i \in 1..(mid - lo) : one[i] = text[lo + i - 1]
      /\ two \in Seq(STRING) /\ Len(two) = hi - mid /\ \A i \in 1..(hi - mid) : two[i] = text[mid + i - 1]
      /\ both \in Seq(STRING) /\ Len(both) = hi - lo /\ \A i \in 1..(hi - lo) : both[i] = text[lo + i - 1]
  BY <1>1, PieceOf
<1>3. one \in left /\ two \in right
  OBVIOUS
<1> HIDE DEF one, two, both
<1>4. one \o two = both
  <2>1. /\ one \o two \in Seq(STRING) /\ Len(one \o two) = Len(one) + Len(two)
        /\ \A i \in 1..(Len(one) + Len(two)) :
              (one \o two)[i] = IF i <= Len(one) THEN one[i] ELSE two[i - Len(one)]
    BY <1>2, Concatenated
  <2>2. Len(one \o two) = hi - lo
    BY <1>1, <1>2, <2>1
  <2>3. ASSUME NEW i \in 1..(hi - lo) PROVE (one \o two)[i] = both[i]
    <3>1. i \in 1..(Len(one) + Len(two))
      BY <1>1, <1>2
    <3>2. CASE i <= mid - lo
      <4>1. i \in 1..(mid - lo)
        BY <1>1, <3>2
      <4> QED BY <4>1, <3>1, <3>2, <2>1, <1>2
    <3>3. CASE ~(i <= mid - lo)
      <4> DEFINE j == i - (mid - lo)
      <4>1. j \in 1..(hi - mid) /\ mid + j - 1 = lo + i - 1
        BY <1>1, <3>3
      <4>2. (one \o two)[i] = two[j]
        <5>1. (one \o two)[i] = IF i <= Len(one) THEN one[i] ELSE two[i - Len(one)]
          BY <3>1, <2>1
        <5>2. Len(one) = mid - lo
          BY <1>2
        <5> QED BY <5>1, <5>2, <3>3
      <4> HIDE DEF j
      <4> QED BY <4>1, <4>2, <1>2
    <3> QED BY <3>2, <3>3
  <2> DEFINE joint == one \o two
  <2> HIDE DEF joint
  <2>4. joint \in Seq(STRING) /\ Len(joint) = Len(both) /\ \A i \in 1..Len(both) : joint[i] = both[i]
    BY <1>2, <2>1, <2>2, <2>3 DEF joint
  <2>5. joint = both
    BY <1>2, <2>4, SameElements
  <2> QED BY <2>5 DEF joint
<1>5. Len(one) + Len(two) <= n
  BY <1>1, <1>2
<1>6. <<one, two>> \in {x \in left \X right : Len(x[1]) + Len(x[2]) <= n}
  BY <1>3, <1>5
<1>7. <<one, two>>[1] \o <<one, two>>[2] = both
  BY <1>4
<1>8. both \in Joined(left, right, n)
  BY <1>6, <1>7 DEF Joined
<1> QED BY <1>8 DEF both

\* What stands at these pairs is among these texts.
Covers(text, spans, texts) ==
    \A s \in spans : /\ s[1] \in Spots(text) /\ s[2] \in Spots(text) /\ s[1] <= s[2]
                     /\ Piece(text, s[1], s[2]) \in texts

Covered(text, texts, lo, hi) ==
    lo \in Spots(text) /\ hi \in Spots(text) /\ lo <= hi /\ Piece(text, lo, hi) \in texts

LEMMA PieceFits ==
    ASSUME NEW text \in Seq(STRING), NEW n \in Nat, Len(text) <= n,
           NEW lo \in Spots(text), NEW hi \in Spots(text)
    PROVE  hi - lo <= n
BY DEF Spots

LEMMA EmptyPiece ==
    ASSUME NEW text \in Seq(STRING), NEW lo \in Spots(text)
    PROVE  Piece(text, lo, lo) = <<>>
<1> DEFINE piece == Piece(text, lo, lo)
<1>1. lo \in Nat /\ lo <= lo /\ lo - lo = 0
  BY DEF Spots
<1>2. piece \in Seq(STRING) /\ Len(piece) = 0
  BY <1>1, PieceOf
<1> HIDE DEF piece
<1>3. piece = <<>>
  BY <1>2
<1> QED BY <1>3 DEF piece

LEMMA JoinCovered ==
    ASSUME NEW text \in Seq(STRING), NEW n \in Nat, Len(text) <= n, NEW left, NEW right, NEW lo, NEW mid, NEW hi,
           Covered(text, left, lo, mid), Covered(text, right, mid, hi)
    PROVE  Covered(text, Joined(left, right, n), lo, hi)
<1>1. /\ lo \in Spots(text) /\ mid \in Spots(text) /\ hi \in Spots(text) /\ lo <= mid /\ mid <= hi
      /\ Piece(text, lo, mid) \in left /\ Piece(text, mid, hi) \in right
  BY DEF Covered
<1>2. lo <= hi
  BY <1>1 DEF Spots
<1>3. hi - lo <= n
  BY <1>1, PieceFits
<1>4. Piece(text, lo, hi) \in Joined(left, right, n)
  BY <1>1, <1>3, PiecesJoin
<1> QED BY <1>1, <1>2, <1>4 DEF Covered

\* A row of covered pairs, one part after the other.
LEMMA RowCovered ==
    ASSUME NEW text \in Seq(STRING), NEW n \in Nat, Len(text) <= n,
           NEW parts, Len(parts) \in Nat, NEW spans,
           \A k \in 1..Len(parts) : Covers(text, spans[k], parts[k]),
           NEW lo \in Spots(text), NEW hi, InARow(spans, Len(parts), lo, hi)
    PROVE  Covered(text, RowTexts(parts, n), lo, hi)
<1> DEFINE len == Len(parts)
           open == Openings(parts, n)
<1>1. PICK cuts \in [0..len -> Int] :
         cuts[0] = lo /\ cuts[len] = hi /\ \A k \in 1..len : <<cuts[k - 1], cuts[k]>> \in spans[k]
  BY DEF InARow
<1>2. open[0] = {<<>>} /\ \A d \in 1..len : open[d] = Joined(open[d - 1], parts[d], n)
  BY OpeningsUnfold
<1>3. len \in Nat /\ \A k \in 1..len : Covers(text, spans[k], parts[k])
  OBVIOUS
<1>4. RowTexts(parts, n) = open[len]
  BY DEF RowTexts
<1> HIDE DEF len, open
<1> DEFINE Missing == {d \in 0..len : ~Covered(text, open[d], lo, cuts[d])}
<1>5. Missing = {}
  <2> SUFFICES ASSUME Missing # {} PROVE FALSE
    OBVIOUS
  <2>1. Missing \subseteq Nat
    BY <1>3
  <2>2. PICK d \in Missing : \A other \in Missing : d <= other
    <3> HIDE DEF Missing
    <3> QED BY <2>1, HasLeast
  <2>3. d \in 0..len /\ ~Covered(text, open[d], lo, cuts[d])
    OBVIOUS
  <2>4. CASE d = 0
    <3>1. Piece(text, lo, lo) \in {<<>>} /\ lo <= lo
      BY EmptyPiece DEF Spots
    <3>2. Covered(text, {<<>>}, lo, lo)
      BY <3>1 DEF Covered
    <3>3. open[d] = {<<>>} /\ cuts[d] = lo
      BY <2>4, <1>1, <1>2
    <3> QED BY <2>3, <3>2, <3>3
  <2>5. CASE d # 0
    <3>1. d \in 1..len /\ d - 1 \in 0..len /\ ~(d <= d - 1)
      BY <2>3, <2>5, <1>3
    <3>2. Covered(text, open[d - 1], lo, cuts[d - 1])
      <4>1. d - 1 \notin Missing
        BY <2>2, <3>1
      <4> QED BY <3>1, <4>1
    <3>3. Covered(text, parts[d], cuts[d - 1], cuts[d])
      <4>1. <<cuts[d - 1], cuts[d]>> \in spans[d] /\ Covers(text, spans[d], parts[d])
        BY <1>1, <1>3, <3>1
      <4> QED BY <4>1 DEF Covers, Covered
    <3>4. Covered(text, Joined(open[d - 1], parts[d], n), lo, cuts[d])
      BY <3>2, <3>3, JoinCovered
    <3> QED BY <2>3, <3>1, <3>4, <1>2
  <2> QED BY <2>4, <2>5
<1>6. len \in 0..len /\ len \notin Missing
  BY <1>3, <1>5
<1>7. Covered(text, open[len], lo, hi)
  BY <1>1, <1>6
<1> QED BY <1>4, <1>7

\* As long as the piece, or longer: the opening of so many turns has it, since
\* a turn may be empty.
InOpenings(text, open, n, lo, c) ==
    /\ lo \in Spots(text) /\ c \in Spots(text) /\ lo <= c
    /\ \A j \in (c - lo)..n : Covered(text, open[j], lo, c)

Grows(open, texts, n) ==
    /\ open[0] = {<<>>}
    /\ \A d \in 1..n : open[d] = Joined(open[d - 1], texts \cup {<<>>}, n)

LEMMA NothingIsOpening ==
    ASSUME NEW text \in Seq(STRING), NEW n \in Nat, Len(text) <= n, NEW open, NEW texts,
           Grows(open, texts, n), NEW lo \in Spots(text)
    PROVE  InOpenings(text, open, n, lo, lo)
<1>1. lo <= lo /\ lo - lo = 0 /\ Piece(text, lo, lo) = <<>>
  BY EmptyPiece DEF Spots
<1> DEFINE Missing == {d \in 0..n : ~Covered(text, open[d], lo, lo)}
<1>2. Missing = {}
  <2> SUFFICES ASSUME Missing # {} PROVE FALSE
    OBVIOUS
  <2>1. Missing \subseteq Nat
    OBVIOUS
  <2>2. PICK d \in Missing : \A other \in Missing : d <= other
    <3> HIDE DEF Missing
    <3> QED BY <2>1, HasLeast
  <2>3. d \in 0..n /\ ~Covered(text, open[d], lo, lo)
    OBVIOUS
  <2>4. CASE d = 0
    <3>1. Covered(text, {<<>>}, lo, lo)
      BY <1>1 DEF Covered
    <3> QED BY <2>3, <2>4, <3>1 DEF Grows
  <2>5. CASE d # 0
    <3>1. d \in 1..n /\ d - 1 \in 0..n /\ ~(d <= d - 1)
      BY <2>3, <2>5
    <3>2. Covered(text, open[d - 1], lo, lo)
      <4>1. d - 1 \notin Missing
        BY <2>2, <3>1
      <4> QED BY <3>1, <4>1
    <3>3. Covered(text, texts \cup {<<>>}, lo, lo)
      BY <1>1 DEF Covered
    <3>4. Covered(text, Joined(open[d - 1], texts \cup {<<>>}, n), lo, lo)
      BY <3>2, <3>3, JoinCovered
    <3> QED BY <2>3, <3>1, <3>4 DEF Grows
  <2> QED BY <2>4, <2>5
<1>3. \A j \in 0..n : Covered(text, open[j], lo, lo)
  BY <1>2
<1> QED BY <1>1, <1>3 DEF InOpenings

LEMMA TurnIsOpening ==
    ASSUME NEW text \in Seq(STRING), NEW n \in Nat, Len(text) <= n, NEW open, NEW texts,
           Grows(open, texts, n), NEW lo, NEW mid, NEW hi,
           InOpenings(text, open, n, lo, mid), Covered(text, texts, mid, hi)
    PROVE  InOpenings(text, open, n, lo, hi)
<1>1. /\ lo \in Spots(text) /\ mid \in Spots(text) /\ hi \in Spots(text)
      /\ lo <= mid /\ mid <= hi /\ Piece(text, mid, hi) \in texts
  BY DEF InOpenings, Covered
<1>2. lo \in Nat /\ mid \in Nat /\ hi \in Nat /\ lo <= hi
  BY <1>1 DEF Spots
<1>3. CASE mid = hi
  BY <1>3
<1>4. CASE mid # hi
  <2> SUFFICES ASSUME NEW j \in (hi - lo)..n PROVE Covered(text, open[j], lo, hi)
    BY <1>1, <1>2 DEF InOpenings
  <2>1. j - 1 \in (mid - lo)..n /\ j \in 1..n
    BY <1>1, <1>2, <1>4
  <2>2. Covered(text, open[j - 1], lo, mid)
    BY <2>1 DEF InOpenings
  <2>3. Covered(text, texts \cup {<<>>}, mid, hi)
    BY <1>1 DEF Covered
  <2>4. Covered(text, Joined(open[j - 1], texts \cup {<<>>}, n), lo, hi)
    BY <2>2, <2>3, JoinCovered
  <2> QED BY <2>1, <2>4 DEF Grows
<1> QED BY <1>3, <1>4

LEMMA ManyCovered ==
    ASSUME NEW text \in Seq(STRING), NEW n \in Nat, Len(text) <= n, NEW one, NEW texts, Covers(text, one, texts),
           NEW lo \in Spots(text), NEW hi, NEW k \in Nat, Turned(one, k, lo, hi)
    PROVE  Covered(text, ManyTexts(texts, n), lo, hi)
<1> DEFINE parts == [j \in 1..n |-> texts \cup {<<>>}]
           open == Openings(parts, n)
<1>1. Len(parts) = n /\ \A j \in 1..n : parts[j] = texts \cup {<<>>}
  OBVIOUS
<1>2. ManyTexts(texts, n) = open[n]
  BY <1>1 DEF ManyTexts, RowTexts
<1> HIDE DEF parts
<1>3. Grows(open, texts, n)
  <2>1. open[0] = {<<>>} /\ \A d \in 1..n : open[d] = Joined(open[d - 1], parts[d], n)
    BY <1>1, OpeningsUnfold
  <2> HIDE DEF open
  <2> QED BY <2>1, <1>1 DEF Grows
<1> HIDE DEF open
<1>4. PICK cuts \in [0..k -> Int] :
         cuts[0] = lo /\ cuts[k] = hi /\ \A j \in 1..k : <<cuts[j - 1], cuts[j]>> \in one
  BY DEF InARow, Turned
<1> DEFINE Missing == {d \in 0..k : ~InOpenings(text, open, n, lo, cuts[d])}
<1>5. Missing = {}
  <2> SUFFICES ASSUME Missing # {} PROVE FALSE
    OBVIOUS
  <2>1. Missing \subseteq Nat
    OBVIOUS
  <2>2. PICK d \in Missing : \A other \in Missing : d <= other
    <3> HIDE DEF Missing
    <3> QED BY <2>1, HasLeast
  <2>3. d \in 0..k /\ ~InOpenings(text, open, n, lo, cuts[d])
    OBVIOUS
  <2>4. CASE d = 0
    BY <2>3, <2>4, <1>3, <1>4, NothingIsOpening
  <2>5. CASE d # 0
    <3>1. d \in 1..k /\ d - 1 \in 0..k /\ ~(d <= d - 1)
      BY <2>3, <2>5
    <3>2. InOpenings(text, open, n, lo, cuts[d - 1])
      <4>1. d - 1 \notin Missing
        BY <2>2, <3>1
      <4> QED BY <3>1, <4>1
    <3>3. Covered(text, texts, cuts[d - 1], cuts[d])
      <4>1. <<cuts[d - 1], cuts[d]>> \in one
        BY <1>4, <3>1
      <4> QED BY <4>1 DEF Covers, Covered
    <3> QED BY <2>3, <3>2, <3>3, <1>3, TurnIsOpening
  <2> QED BY <2>4, <2>5
<1>6. k \in 0..k /\ k \notin Missing
  BY <1>5
<1>7. InOpenings(text, open, n, lo, hi)
  BY <1>4, <1>6
<1>8. hi - lo <= n /\ n \in (hi - lo)..n
  BY <1>7, PieceFits DEF InOpenings, Spots
<1> QED BY <1>2, <1>7, <1>8 DEF InOpenings

\* A row of turns but the last.
LEMMA LastTurn ==
    ASSUME NEW one, NEW n \in Nat, NEW lo, NEW hi, Turned(one, n + 1, lo, hi)
    PROVE  \E mid \in Int : Turned(one, n, lo, mid) /\ <<mid, hi>> \in one
<1> DEFINE last == n + 1
           spans == [k \in 1..last |-> one]
           fewer == [k \in 1..n |-> one]
<1>1. PICK cuts \in [0..last -> Int] :
         cuts[0] = lo /\ cuts[last] = hi /\ \A k \in 1..last : <<cuts[k - 1], cuts[k]>> \in one
  BY DEF Turned, InARow
<1>2. n \in 0..last /\ last \in 1..last /\ last - 1 = n /\ 0 \in 0..n /\ n \in 0..n
      /\ (\A k \in 0..n : k \in 0..last) /\ \A k \in 1..n : k \in 1..last /\ k \in 0..n /\ k - 1 \in 0..n
  OBVIOUS
<1> HIDE DEF last
<1> DEFINE before == [k \in 0..n |-> cuts[k]]
<1>3. before \in [0..n -> Int] /\ \A k \in 0..n : before[k] = cuts[k]
  BY <1>2
<1>4. before[0] = lo /\ before[n] = cuts[n]
  BY <1>1, <1>2, <1>3
<1>5. ASSUME NEW k \in 1..n PROVE <<before[k - 1], before[k]>> \in fewer[k]
  BY <1>1, <1>2, <1>3
<1> HIDE DEF before, fewer
<1>6. InARow(fewer, n, lo, cuts[n])
  BY <1>3, <1>4, <1>5 DEF InARow
<1>7. <<cuts[n], hi>> \in one /\ cuts[n] \in Int
  BY <1>1, <1>2
<1> QED BY <1>6, <1>7 DEF Turned, fewer

LEMMA OneTurn ==
    ASSUME NEW one, NEW lo, NEW hi, Turned(one, 1, lo, hi)
    PROVE  <<lo, hi>> \in one
<1>1. PICK cuts \in [0..1 -> Int] :
         cuts[0] = lo /\ cuts[1] = hi /\ \A k \in 1..1 : <<cuts[k - 1], cuts[k]>> \in [j \in 1..1 |-> one][k]
  BY DEF Turned, InARow
<1>2. 1 \in 1..1 /\ 1 - 1 = 0
  OBVIOUS
<1>3. <<cuts[0], cuts[1]>> \in one
  BY <1>1, <1>2
<1> QED BY <1>1, <1>3

LEMMA TurnsCovered ==
    ASSUME NEW text \in Seq(STRING), NEW n \in Nat, Len(text) <= n, NEW one, NEW texts, Covers(text, one, texts),
           NEW q
    PROVE  Covers(text, Turning(text, q, one), TurnTexts(q, texts, n))
<1> SUFFICES ASSUME NEW s \in Turning(text, q, one)
             PROVE  Covered(text, TurnTexts(q, texts, n), s[1], s[2])
  BY DEF Covers, Covered
<1> DEFINE lo == s[1]
           hi == s[2]
<1> SUFFICES Covered(text, TurnTexts(q, texts, n), lo, hi)
  OBVIOUS
<1>1. s \in Pairs(text) /\ \E m \in TurnsOf(q) : Turned(one, m, lo, hi)
  BY DEF Turning, Turned
<1>2. PICK m \in TurnsOf(q) : Turned(one, m, lo, hi)
  BY <1>1
<1>3. lo \in Spots(text) /\ hi \in Spots(text)
  BY <1>1 DEF Pairs
<1> HIDE DEF lo, hi
<1>4. ASSUME m = 1 PROVE Covered(text, texts, lo, hi)
  <2>1. <<lo, hi>> \in one
    BY <1>2, <1>4, OneTurn
  <2> QED BY <2>1 DEF Covers, Covered
<1>5. CASE q = "?"
  <2>1. m \in {0, 1} /\ TurnTexts(q, texts, n) = texts \cup {<<>>}
    BY <1>5 DEF TurnsOf, TurnTexts
  <2>2. CASE m = 1
    BY <2>1, <2>2, <1>4 DEF Covered
  <2>3. CASE m = 0
    <3>1. lo = hi
      BY <1>2, <2>3 DEF Turned, InARow
    <3>2. Piece(text, lo, hi) = <<>> /\ lo <= hi
      BY <1>3, <3>1, EmptyPiece DEF Spots
    <3> QED BY <1>3, <2>1, <3>2 DEF Covered
  <2> QED BY <2>1, <2>2, <2>3
<1>6. CASE q = "*"
  <2>1. m \in Nat /\ TurnTexts(q, texts, n) = ManyTexts(texts, n)
    BY <1>6 DEF TurnsOf, TurnTexts
  <2> QED BY <1>2, <1>3, <2>1, ManyCovered
<1>7. CASE q = "+"
  <2>1. m \in Nat \ {0} /\ TurnTexts(q, texts, n) = Joined(ManyTexts(texts, n), texts, n)
    BY <1>7 DEF TurnsOf, TurnTexts
  <2> DEFINE k == m - 1
  <2>2. k \in Nat /\ m = k + 1
    BY <2>1
  <2> HIDE DEF k
  <2>3. PICK mid \in Int : Turned(one, k, lo, mid) /\ <<mid, hi>> \in one
    BY <1>2, <2>2, LastTurn
  <2>4. Covered(text, ManyTexts(texts, n), lo, mid)
    BY <1>3, <2>2, <2>3, ManyCovered
  <2>5. Covered(text, texts, mid, hi)
    BY <2>3 DEF Covers, Covered
  <2> QED BY <2>1, <2>4, <2>5, JoinCovered
<1>8. CASE q \notin {"?", "*", "+"}
  <2>1. m = 1 /\ TurnTexts(q, texts, n) = texts
    BY <1>8 DEF TurnsOf, TurnTexts
  <2> QED BY <1>4, <2>1
<1> QED BY <1>5, <1>6, <1>7, <1>8

\* The symbols stand for texts among the words.
WordsCover(text, words, whole) ==
    \A a, lo, hi : <<a, lo, hi>> \in whole => Covered(text, SymbolTexts(words, a), lo, hi)

LEMMA AtomCovered ==
    ASSUME NEW text \in Seq(STRING), NEW n \in Nat, Len(text) <= n,
           NEW words, NEW whole, WordsCover(text, words, whole), NEW atom
    PROVE  Covers(text, AtomSpans(text, whole, atom), AtomTexts(words, atom, n))
<1> DEFINE texts == UNION {SymbolTexts(words, symbol) : symbol \in Range(atom.syms)}
           one == OneOf(text, whole, atom)
<1>1. ASSUME NEW s \in one PROVE Covered(text, texts, s[1], s[2])
  <2>1. PICK a \in Range(atom.syms) : <<a, s[1], s[2]>> \in whole
    BY DEF OneOf
  <2>2. Covered(text, SymbolTexts(words, a), s[1], s[2])
    BY <2>1 DEF WordsCover
  <2> QED BY <2>2 DEF Covered
<1>2. AtomSpans(text, whole, atom) = Turning(text, atom.q, one) /\ AtomTexts(words, atom, n) = TurnTexts(atom.q, texts, n)
  BY DEF AtomSpans, AtomTexts
<1> HIDE DEF texts, one
<1>3. Covers(text, one, texts)
  BY <1>1 DEF Covers, Covered
<1> QED BY <1>2, <1>3, TurnsCovered

LEMMA RowIsCovered ==
    ASSUME NEW text \in Seq(STRING), NEW n \in Nat, Len(text) <= n, NEW parts, NEW spans, Len(parts) \in Nat,
           \A k \in 1..Len(parts) : Covers(text, spans[k], parts[k])
    PROVE  Covers(text, {s \in Pairs(text) : InARow(spans, Len(parts), s[1], s[2])}, RowTexts(parts, n))
<1> SUFFICES ASSUME NEW s \in Pairs(text), InARow(spans, Len(parts), s[1], s[2])
             PROVE  Covered(text, RowTexts(parts, n), s[1], s[2])
  BY DEF Covers, Covered
<1>1. s[1] \in Spots(text)
  BY DEF Pairs
<1> QED BY <1>1, RowCovered

LEMMA MemberCovered ==
    ASSUME NEW text \in Seq(STRING), NEW n \in Nat, Len(text) <= n,
           NEW words, NEW whole, WordsCover(text, words, whole), NEW member, member.body \in Seq(Atoms)
    PROVE  Covers(text, MemberSpans(text, whole, member), MemberTexts(words, member, n))
<1> DEFINE parts == [i \in DOMAIN member.body |-> AtomTexts(words, member.body[i], n)]
           spans == BodyParts(text, whole, member)
           body == BodySpans(text, whole, member)
           len == Len(member.body)
<1>1. len \in Nat /\ DOMAIN member.body = 1..len /\ Len(parts) = len
  OBVIOUS
<1>2. ASSUME NEW k \in 1..Len(parts) PROVE Covers(text, spans[k], parts[k])
  <2>1. k \in DOMAIN member.body
    BY <1>1
  <2>2. spans[k] = AtomSpans(text, whole, member.body[k]) /\ parts[k] = AtomTexts(words, member.body[k], n)
    BY <2>1 DEF BodyParts
  <2> HIDE DEF spans, parts
  <2> QED BY <2>2, AtomCovered
<1>3. body = {s \in Pairs(text) : InARow(spans, Len(parts), s[1], s[2])}
  BY <1>1 DEF BodySpans
<1>4. /\ MemberSpans(text, whole, member) = Turning(text, member.q, body)
      /\ MemberTexts(words, member, n) = TurnTexts(member.q, RowTexts(parts, n), n)
  BY DEF MemberSpans, MemberTexts
<1> HIDE DEF parts, spans, body, len
<1>5. Len(parts) \in Nat
  BY <1>1
<1>6. Covers(text, body, RowTexts(parts, n))
  BY <1>2, <1>3, <1>5, RowIsCovered
<1> QED BY <1>4, <1>6, TurnsCovered

LEMMA RuleCovered ==
    ASSUME NEW text \in Seq(STRING), NEW n \in Nat, Len(text) <= n,
           NEW words, NEW whole, WordsCover(text, words, whole), NEW members \in Seq(Members),
           NEW lo \in Spots(text), NEW hi, InARow(RuleParts(text, whole, members), Len(members), lo, hi)
    PROVE  Covered(text, RuleTexts(words, members, n), lo, hi)
<1> DEFINE parts == [m \in DOMAIN members |-> MemberTexts(words, members[m], n)]
           spans == RuleParts(text, whole, members)
           len == Len(members)
<1>1. len \in Nat /\ DOMAIN members = 1..len /\ Len(parts) = len
  OBVIOUS
<1>2. ASSUME NEW k \in 1..Len(parts) PROVE Covers(text, spans[k], parts[k])
  <2>1. k \in DOMAIN members
    BY <1>1
  <2>2. spans[k] = MemberSpans(text, whole, members[k]) /\ parts[k] = MemberTexts(words, members[k], n)
    BY <2>1 DEF RuleParts
  <2>3. members[k].body \in Seq(Atoms)
    <3>1. members[k] \in Members
      BY <2>1
    <3> QED BY <3>1 DEF Members
  <2> HIDE DEF spans, parts
  <2> QED BY <2>2, <2>3, MemberCovered
<1>3. InARow(spans, Len(parts), lo, hi)
  BY <1>1
<1>4. RuleTexts(words, members, n) = RowTexts(parts, n)
  BY DEF RuleTexts
<1> HIDE DEF parts, spans, len
<1>5. Len(parts) \in Nat
  BY <1>1
<1> QED BY <1>2, <1>3, <1>4, <1>5, RowCovered

\* Closed sets of texts hold every sentence that is not too long for them.
LEMMA WordsHoldSentences ==
    ASSUME NEW g, g \in [DOMAIN g -> Seq(Members)], Main \in DOMAIN g, NEW text \in Seq(STRING),
           NEW words, NEW n \in Nat, Len(text) <= n, TextsClosed(g, words, n), IsSentence(g, text)
    PROVE  text \in words[Main]
<1> DEFINE Symbols == DOMAIN words \cup Range(text)
           whole == {t \in Symbols \X Spots(text) \X Spots(text) : Covered(text, SymbolTexts(words, t[1]), t[2], t[3])}
<1>1. \A a, lo, hi : <<a, lo, hi>> \in whole <=>
                        a \in Symbols /\ Covered(text, SymbolTexts(words, a), lo, hi)
  <2>1. \A a, lo, hi : Covered(text, SymbolTexts(words, a), lo, hi) => lo \in Spots(text) /\ hi \in Spots(text)
    BY DEF Covered
  <2> HIDE DEF Symbols
  <2> QED BY <2>1
<1> HIDE DEF whole
<1>2. WordsCover(text, words, whole)
  BY <1>1 DEF WordsCover
<1>3. DOMAIN words = DOMAIN g /\ \A r \in DOMAIN g : RuleTexts(words, g[r], n) \subseteq words[r]
  BY DEF TextsClosed
<1>4. ASSUME NEW i \in DOMAIN text, text[i] \notin DOMAIN g PROVE <<text[i], i, i + 1>> \in whole
  <2>1. i \in 1..Len(text) /\ Len(text) \in Nat /\ text[i] \in Range(text)
    BY DEF Range
  <2>2. i \in Spots(text) /\ i + 1 \in Spots(text) /\ i <= i + 1 /\ i + 1 - i = 1 /\ i + 1 - 1 = i
    BY <2>1 DEF Spots
  <2> DEFINE piece == Piece(text, i, i + 1)
  <2>3. piece \in Seq(STRING) /\ Len(piece) = 1 /\ piece[1] = text[i]
    <3>1. /\ piece \in Seq(STRING) /\ Len(piece) = i + 1 - i
          /\ \A j \in 1..(i + 1 - i) : piece[j] = text[i + j - 1]
      BY <2>2, PieceOf
    <3>2. 1 \in 1..(i + 1 - i)
      BY <2>2
    <3> HIDE DEF piece
    <3> QED BY <3>1, <3>2, <2>2
  <2> HIDE DEF piece
  <2>4. piece = <<text[i]>>
    BY <2>3
  <2>5. SymbolTexts(words, text[i]) = {<<text[i]>>}
    BY <1>3, <1>4 DEF SymbolTexts
  <2>6. Covered(text, SymbolTexts(words, text[i]), i, i + 1)
    BY <2>2, <2>4, <2>5 DEF Covered, piece
  <2> QED BY <1>1, <2>1, <2>6
<1>5. ASSUME NEW r \in DOMAIN g, NEW lo \in Spots(text), NEW hi \in Spots(text),
             InARow(RuleParts(text, whole, g[r]), Len(g[r]), lo, hi)
      PROVE  <<r, lo, hi>> \in whole
  <2>1. g[r] \in Seq(Members)
    OBVIOUS
  <2>2. Covered(text, RuleTexts(words, g[r], n), lo, hi)
    BY <1>2, <1>5, <2>1, RuleCovered
  <2>3. SymbolTexts(words, r) = words[r] /\ RuleTexts(words, g[r], n) \subseteq words[r]
    BY <1>3 DEF SymbolTexts
  <2>4. Covered(text, SymbolTexts(words, r), lo, hi)
    BY <2>2, <2>3 DEF Covered
  <2> QED BY <1>1, <1>3, <2>4
<1>6. ClosedUnder(g, text, whole)
  BY <1>4, <1>5 DEF ClosedUnder
<1>7. <<Main, 1, Len(text) + 1>> \in whole
  BY <1>6 DEF IsSentence, Derived, Main
<1>8. Covered(text, SymbolTexts(words, Main), 1, Len(text) + 1)
  BY <1>1, <1>7
<1>9. Piece(text, 1, Len(text) + 1) = text
  <2>1. Len(text) \in Nat /\ Len(text) + 1 - 1 = Len(text)
    OBVIOUS
  <2>2. SubSeq(text, 1, Len(text)) = text
    OBVIOUS
  <2> QED BY <2>1, <2>2 DEF Piece
<1>10. SymbolTexts(words, Main) = words[Main]
  BY <1>3 DEF SymbolTexts
<1> QED BY <1>8, <1>9, <1>10 DEF Covered

\* The same of the language a grammar has by its rules alone, as far as the
\* inputs go: input that is not in it never passes without a report.
THEOREM UnreportedParsesAreSentences == Spec => []UnreportedIsASentence
<1>1. Standing /\ (outcome = "matched" /\ Unreported => IsSentence(parser.rules, input)) => UnreportedIsASentence
  <2> SUFFICES ASSUME Standing, outcome = "matched", Unreported, IsSentence(parser.rules, input)
               PROVE  input \in Language[parser.name][Main]
    BY DEF UnreportedIsASentence, Unreported
  <2>1. parser \in Parsers /\ input \in Inputs[parser.name]
    BY DEF Standing, TypeOK
  <2>2. /\ input \in Seq(STRING) /\ Main \in DOMAIN parser.rules
        /\ parser.rules \in [DOMAIN parser.rules -> Seq(Members)]
    BY <2>1, GeneratedAssumption DEF ParsersAssumption, InputsAssumption
  <2>3. /\ Longest[parser.name] \in Nat /\ Len(input) <= Longest[parser.name]
        /\ TextsClosed(parser.rules, Language[parser.name], Longest[parser.name])
    BY <2>1, LanguageAssumption
  <2> QED BY <2>2, <2>3, WordsHoldSentences
<1> QED BY <1>1, StackStands, UnreportedParsesAreDerived, PTL
==============================================================================
