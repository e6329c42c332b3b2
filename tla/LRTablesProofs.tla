--------------------------- MODULE LRTablesProofs ---------------------------
(***************************************************************************)
(* Lemmas about the table construction of LRTables, for any grammar: the   *)
(* traversals end, what they find is closed, a table row has a target for  *)
(* every symbol, and the tables emitted of it are coherent.                *)
(***************************************************************************)
EXTENDS LRTables, FiniteSetTheorems, SequenceTheorems, TLAPS

Begins == INSTANCE LRBeginnings

-----------------------------------------------------------------------------
(* Sets of numbers. *)

LEMMA HasLeast ==
    ASSUME NEW S, S \subseteq Nat, S # {}
    PROVE  \E i \in S : \A j \in S : i <= j
<1>1. \E i \in S : \A j \in S : <<j, i>> \notin OpToRel(<, Nat)
  BY NatLessThanWellFounded, WFMin
<1>2. PICK i \in S : \A j \in S : <<j, i>> \notin OpToRel(<, Nat)
  BY <1>1
<1>3. ASSUME NEW j \in S PROVE i <= j
  <2>1. OpToRel(<, Nat) = {pair \in Nat \X Nat : pair[1] < pair[2]}
    BY Zenon DEF OpToRel
  <2>2. <<j, i>> \notin {pair \in Nat \X Nat : pair[1] < pair[2]}
    BY <1>2, <2>1, Zenon
  <2> QED BY <2>2
<1> QED BY <1>3

\* What holds of 0 and passes on to the next number holds up to n.
LEMMA UpTo ==
    ASSUME NEW n \in Nat, NEW S, 0 \in S, \A i \in 1..n : i - 1 \in S => i \in S
    PROVE  0..n \subseteq S
<1>1. SUFFICES ASSUME (0..n) \ S # {} PROVE FALSE
  OBVIOUS
<1> DEFINE R == (0..n) \ S
<1>2. PICK i \in R : \A j \in R : i <= j
  <2>1. R \subseteq Nat /\ R # {}
    BY <1>1
  <2> HIDE DEF R
  <2> QED BY <2>1, HasLeast
<1>3. i \in 1..n /\ i - 1 \in 0..n /\ ~(i <= i - 1)
  BY <1>2
<1> QED BY <1>2, <1>3

LEMMA MaxOfSome ==
    ASSUME NEW n \in Nat, NEW S, S \subseteq 1..n, S # {}
    PROVE  Max(S) \in S /\ \A j \in S : j <= Max(S)
<1> DEFINE T == {n - i : i \in S}
<1>1. T \subseteq Nat /\ T # {}
  <2>1. \A i \in S : n - i \in Nat
    OBVIOUS
  <2> QED BY <2>1
<1>2. PICK t \in T : \A u \in T : t <= u
  BY <1>1, HasLeast
<1>3. PICK i \in S : t = n - i
  BY <1>2
<1>4. ASSUME NEW j \in S PROVE j <= i
  <2>1. n - j \in T /\ t <= n - j
    BY <1>2
  <2> QED BY <2>1, <1>3
<1>5. \E x \in S : \A y \in S : x >= y
  BY <1>3, <1>4
<1> QED BY <1>5 DEF Max

LEMMA MaxOfFirst ==
    ASSUME NEW n \in Nat, NEW i \in 1..n
    PROVE  /\ Max(1..i) = i /\ (1..i) \ {i} = 1..(i - 1)
           /\ 1..i \subseteq 1..n /\ 1..i # {}
<1>1. 1..i \subseteq 1..n /\ 1..i # {}
  OBVIOUS
<1>2. Max(1..i) \in 1..i /\ \A j \in 1..i : j <= Max(1..i)
  BY <1>1, MaxOfSome
<1> QED BY <1>1, <1>2

-----------------------------------------------------------------------------
(* Folds.  A fold is the chosen solution of an equation over the subsets    *)
(* of the indices; it is worked out along their initial segments.           *)

Folds(f, n, base, step) ==
    \A s \in SUBSET (1..n) : f[s] = IF s = {} THEN base ELSE step[<<Max(s), f[s \ {Max(s)}]>>]

LEMMA FoldSolution ==
    ASSUME NEW n \in Nat, NEW V, NEW base \in V, NEW step \in [(1..n) \X V -> V]
    PROVE  \E f \in [SUBSET (1..n) -> V] : Folds(f, n, base, step)
<1> DEFINE Solves(f, m) == Folds(f, m, base, step)
           T == {m \in 0..n : \E f \in [SUBSET (1..m) -> V] : Solves(f, m)}
<1>1. 0 \in T
  <2> DEFINE f == [s \in SUBSET (1..0) |-> base]
  <2>1. f \in [SUBSET (1..0) -> V]
    OBVIOUS
  <2>2. \A s \in SUBSET (1..0) : s = {}
    OBVIOUS
  <2>3. Solves(f, 0)
    BY <2>2 DEF Folds
  <2>4. 0 \in 0..n
    OBVIOUS
  <2> HIDE DEF Solves, f
  <2> QED BY <2>1, <2>3, <2>4
<1>2. ASSUME NEW m \in 1..n, m - 1 \in T PROVE m \in T
  <2>1. PICK f \in [SUBSET (1..(m - 1)) -> V] : Solves(f, m - 1)
    BY <1>2
  <2> DEFINE g == [s \in SUBSET (1..m) |-> IF m \in s THEN step[<<m, f[s \ {m}]>>] ELSE f[s]]
  <2>2. ASSUME NEW s \in SUBSET (1..m)
        PROVE  /\ s \ {m} \in SUBSET (1..(m - 1))
               /\ m \notin s => s \in SUBSET (1..(m - 1))
    OBVIOUS
  <2>3. g \in [SUBSET (1..m) -> V]
    <3>1. ASSUME NEW s \in SUBSET (1..m)
          PROVE  (IF m \in s THEN step[<<m, f[s \ {m}]>>] ELSE f[s]) \in V
      <4>1. CASE m \in s
        <5>1. f[s \ {m}] \in V
          BY <2>2
        <5> QED BY <5>1, <4>1
      <4>2. CASE m \notin s
        BY <2>2, <4>2
      <4> QED BY <4>1, <4>2
    <3> QED BY <3>1
  <2>4. ASSUME NEW s \in SUBSET (1..m)
        PROVE  g[s] = IF s = {} THEN base ELSE step[<<Max(s), g[s \ {Max(s)}]>>]
    <3>1. CASE m \in s
      <4>1. Max(s) = m
        <5>1. m \in Nat /\ s \subseteq 1..m /\ s # {}
          BY <3>1
        <5>2. Max(s) \in s /\ \A j \in s : j <= Max(s)
          BY <5>1, MaxOfSome
        <5>3. Max(s) \in 1..m /\ m <= Max(s)
          BY <5>1, <5>2, <3>1
        <5> QED BY <5>3
      <4>2. g[s] = step[<<m, f[s \ {m}]>>]
        BY <3>1
      <4>3. g[s \ {m}] = f[s \ {m}]
        OBVIOUS
      <4> QED BY <4>1, <4>2, <4>3, <3>1
    <3>2. CASE m \notin s
      <4>1. s \in SUBSET (1..(m - 1)) /\ g[s] = f[s]
        BY <2>2, <3>2
      <4>2. CASE s = {}
        BY <4>1, <4>2, <2>1 DEF Folds
      <4>3. CASE s # {}
        <5>1. g[s \ {Max(s)}] = f[s \ {Max(s)}]
          BY <3>2
        <5>2. f[s] = step[<<Max(s), f[s \ {Max(s)}]>>]
          BY <2>1, <4>1, <4>3 DEF Folds
        <5> QED BY <5>1, <5>2, <4>1, <4>3
      <4> QED BY <4>2, <4>3
    <3> QED BY <3>1, <3>2
  <2>5. Solves(g, m)
    <3> HIDE DEF g
    <3> QED BY <2>4 DEF Folds
  <2> HIDE DEF Solves, g
  <2> QED BY <2>3, <2>5
<1>3. n \in T
  <2> HIDE DEF T
  <2>1. 0..n \subseteq T
    BY <1>1, <1>2, UpTo
  <2> QED BY <2>1
<1> QED BY <1>3

-----------------------------------------------------------------------------
(* Iterations.  A loop that works on until it may stop is the chosen        *)
(* solution of an equation, which always has one.                           *)

LEMMA LoopSolution ==
    ASSUME NEW S, NEW N \in [S -> S], NEW C
    PROVE  \E f : f = [x \in S |-> IF x \in C THEN N[x] ELSE f[N[x]]]
<1> DEFINE Closed(x, T) == x \in T /\ \A z \in T : z \notin C => N[z] \in T
           Reach(x) == {y \in S : \A T \in SUBSET S : Closed(x, T) => y \in T}
           At(P) == IF P = {} THEN {} ELSE N[CHOOSE y \in P : TRUE]
           Value(x) == At(Reach(x) \cap C)
           f == [x \in S |-> Value(x)]
<1>1. ASSUME NEW x \in S PROVE Closed(x, Reach(x)) /\ Reach(x) \in SUBSET S
  <2>1. x \in Reach(x) /\ Reach(x) \in SUBSET S
    OBVIOUS
  <2>2. ASSUME NEW z \in Reach(x), z \notin C PROVE N[z] \in Reach(x)
    <3>1. z \in S /\ N[z] \in S
      OBVIOUS
    <3>2. ASSUME NEW T \in SUBSET S, Closed(x, T) PROVE N[z] \in T
      BY <2>2, <3>2
    <3> QED BY <3>1, <3>2
  <2> QED BY <2>1, <2>2
<1>2. ASSUME NEW x \in S, x \in C PROVE Reach(x) = {x}
  <2>1. Closed(x, {x}) /\ {x} \in SUBSET S
    BY <1>2
  <2>2. Reach(x) \subseteq {x}
    BY <2>1
  <2>3. x \in Reach(x)
    BY <1>1
  <2> HIDE DEF Reach
  <2> QED BY <2>2, <2>3
<1>3. ASSUME NEW x \in S, x \notin C PROVE Reach(x) = {x} \cup Reach(N[x])
  <2>1. N[x] \in S
    OBVIOUS
  <2>2. Closed(N[x], Reach(N[x])) /\ Reach(N[x]) \in SUBSET S
    BY <1>1, <2>1
  <2>3. Closed(x, Reach(x)) /\ Reach(x) \in SUBSET S
    BY <1>1
  <2>4. Closed(x, {x} \cup Reach(N[x])) /\ {x} \cup Reach(N[x]) \in SUBSET S
    <3> HIDE DEF Reach
    <3> QED BY <2>2
  <2>5. Reach(x) \subseteq {x} \cup Reach(N[x])
    <3>1. \A y \in Reach(x) : \A T \in SUBSET S : Closed(x, T) => y \in T
      OBVIOUS
    <3> HIDE DEF Reach, Closed
    <3> QED BY <2>4, <3>1
  <2>6. Closed(N[x], Reach(x))
    <3> HIDE DEF Reach
    <3> QED BY <2>3, <1>3
  <2>7. Reach(N[x]) \subseteq Reach(x)
    <3>1. \A y \in Reach(N[x]) : \A T \in SUBSET S : Closed(N[x], T) => y \in T
      OBVIOUS
    <3> HIDE DEF Reach, Closed
    <3> QED BY <2>6, <2>3, <3>1
  <2>8. x \in Reach(x)
    BY <2>3
  <2> HIDE DEF Reach
  <2> QED BY <2>5, <2>7, <2>8
<1>4. ASSUME NEW x \in S PROVE f[x] = IF x \in C THEN N[x] ELSE f[N[x]]
  <2> HIDE DEF Reach
  <2>1. CASE x \in C
    <3>1. Reach(x) \cap C = {x}
      BY <1>2, <2>1
    <3>2. (CHOOSE y \in {x} : TRUE) = x
      OBVIOUS
    <3> QED BY <3>1, <3>2, <2>1
  <2>2. CASE x \notin C
    <3>1. Reach(x) \cap C = Reach(N[x]) \cap C
      BY <1>3, <2>2
    <3>2. Value(x) = Value(N[x])
      <4> HIDE DEF At
      <4> QED BY <3>1
    <3>3. f[x] = Value(x) /\ f[N[x]] = Value(N[x])
      <4> HIDE DEF Value
      <4> QED OBVIOUS
    <3> QED BY <3>2, <3>3, <2>2
  <2> QED BY <2>1, <2>2
<1>5. f = [x \in S |-> IF x \in C THEN N[x] ELSE f[N[x]]]
  <2>1. f = [x \in S |-> f[x]]
    OBVIOUS
  <2> HIDE DEF f
  <2> QED BY <1>4, <2>1, Zenon
<1> QED BY <1>5, Zenon

Loops(f, S, C, N) == f = [x \in S |-> IF x \in C THEN N[x] ELSE f[N[x]]]

\* Inside D, a round that is not the last adds to m.
Gains(D, C, N, m) == \A x \in D : x \notin C => N[x] \in D /\ m[x] \subseteq m[N[x]] /\ m[x] # m[N[x]]

\* A loop whose every round adds to a part of a finite set comes to an end, and
\* in a state the rounds lead to.
LEMMA LoopEnds ==
    ASSUME NEW S, NEW N \in [S -> S], NEW C,
           NEW f, Loops(f, S, C, N),
           NEW D, D \subseteq S, NEW F, IsFiniteSet(F), NEW m \in [D -> SUBSET F], Gains(D, C, N, m),
           NEW x \in D
    PROVE  \E y \in D : y \in C /\ f[x] = N[y]
<1> DEFINE Q == {y \in D : f[y] = f[x]}
           size(y) == Cardinality(F) - Cardinality(m[y])
           Z == {size(y) : y \in Q}
<1>1. ASSUME NEW y \in D PROVE m[y] \in SUBSET F /\ IsFiniteSet(m[y]) /\ Cardinality(m[y]) \in Nat /\ size(y) \in Nat
  <2>1. m[y] \in SUBSET F
    OBVIOUS
  <2>2. IsFiniteSet(m[y]) /\ Cardinality(m[y]) <= Cardinality(F)
    BY <2>1, FS_Subset
  <2>3. Cardinality(m[y]) \in Nat /\ Cardinality(F) \in Nat
    BY <2>2, FS_CardinalityType
  <2> QED BY <2>1, <2>2, <2>3
<1>2. x \in Q /\ Z # {} /\ Z \subseteq Nat
  BY <1>1
<1>3. PICK z \in Z : \A u \in Z : z <= u
  BY <1>2, HasLeast
<1>4. PICK y \in Q : z = size(y)
  BY <1>3
<1>5. ASSUME y \notin C PROVE FALSE
  <2>1. N[y] \in D /\ m[y] \subseteq m[N[y]] /\ m[y] # m[N[y]]
    BY <1>5 DEF Gains
  <2>2. f[y] = f[N[y]]
    BY <1>5 DEF Loops
  <2>3. N[y] \in Q /\ size(N[y]) \in Z
    BY <2>1, <2>2
  <2>4. Cardinality(m[y]) < Cardinality(m[N[y]])
    <3>1. IsFiniteSet(m[N[y]]) /\ m[y] \in SUBSET m[N[y]]
      BY <2>1, <1>1
    <3>2. Cardinality(m[y]) <= Cardinality(m[N[y]]) /\ Cardinality(m[N[y]]) # Cardinality(m[y])
      BY <3>1, <2>1, FS_Subset
    <3> QED BY <3>2, <1>1, <2>1
  <2>5. size(y) <= size(N[y])
    BY <1>3, <1>4, <2>3
  <2> QED BY <2>4, <2>5, <1>1, <2>1, FS_CardinalityType
<1>6. f[y] = N[y]
  BY <1>4, <1>5 DEF Loops
<1> QED BY <1>4, <1>5, <1>6

Follows(acc, n, base, step, it) ==
    acc[0] = base /\ acc[n] = it[1..n] /\ \A i \in 1..n : acc[i] = step[<<i, acc[i - 1]>>]

Unfolds(it, n, V, base, step) ==
    /\ it[1..0] = base
    /\ \A i \in 1..n : it[1..(i - 1)] \in V => it[1..i] = step[<<i, it[1..(i - 1)]>>]

LEMMA FoldPath ==
    ASSUME NEW n \in Nat, NEW V, NEW base \in V, NEW step \in [(1..n) \X V -> V], NEW it,
           Unfolds(it, n, V, base, step)
    PROVE  \E acc \in [0..n -> V] : Follows(acc, n, base, step, it)
<1> DEFINE T == {i \in 0..n : it[1..i] \in V}
           acc == [i \in 0..n |-> it[1..i]]
<1>1. 0..n \subseteq T
  <2>1. 0 \in T
    BY DEF Unfolds
  <2>2. ASSUME NEW i \in 1..n, i - 1 \in T PROVE i \in T
    <3>1. it[1..(i - 1)] \in V
      BY <2>2
    <3>2. it[1..i] = step[<<i, it[1..(i - 1)]>>]
      BY <3>1 DEF Unfolds
    <3>3. <<i, it[1..(i - 1)]>> \in (1..n) \X V
      BY <3>1
    <3>4. it[1..i] \in V /\ i \in 0..n
      BY <3>2, <3>3
    <3> QED BY <3>4
  <2> HIDE DEF T
  <2> QED BY <2>1, <2>2, UpTo
<1>2. acc \in [0..n -> V] /\ acc[0] = base /\ acc[n] = it[1..n]
  BY <1>1 DEF Unfolds
<1>3. \A i \in 1..n : acc[i] = step[<<i, acc[i - 1]>>]
  <2>1. ASSUME NEW i \in 1..n PROVE acc[i] = step[<<i, acc[i - 1]>>]
    <3>1. i - 1 \in 0..n /\ i \in 0..n /\ i - 1 \in T
      BY <1>1
    <3>2. it[1..(i - 1)] \in V
      BY <3>1
    <3> QED BY <3>1, <3>2 DEF Unfolds
  <2> QED BY <2>1
<1> HIDE DEF acc
<1> QED BY <1>2, <1>3 DEF Follows

\* FIRST of a string, one symbol after the other.
FirstOfStringStays(first, k, symbols, n, V) ==
    \A i \in 1..n : \A v \in V : Concatenate(v, FirstOfSymbol(first, symbols[i]), k) \in V

FirstOfStringPath(first, k, symbols, n, acc) ==
    /\ acc[0] = {<<>>} /\ acc[n] = FirstOfString(first, k, symbols)
    /\ \A i \in 1..n : acc[i] = Concatenate(acc[i - 1], FirstOfSymbol(first, symbols[i]), k)

LEMMA FirstOfStringWorks ==
    ASSUME NEW first, NEW k, NEW symbols, NEW n \in Nat, DOMAIN symbols = 1..n, NEW V, {<<>>} \in V,
           FirstOfStringStays(first, k, symbols, n, V)
    PROVE  \E acc \in [0..n -> V] : FirstOfStringPath(first, k, symbols, n, acc)
<1> DEFINE step == [p \in (1..n) \X V |-> Concatenate(p[2], FirstOfSymbol(first, symbols[p[1]]), k)]
           Visit(s, v) == Concatenate(v, FirstOfSymbol(first, symbols[Max(s)]), k)
           it == CHOOSE f : f = [s \in SUBSET DOMAIN symbols |-> IF s = {} THEN {<<>>} ELSE Visit(s, f[s \ {Max(s)}])]
<1>1. step \in [(1..n) \X V -> V]
  BY DEF FirstOfStringStays
<1>2. PICK sol \in [SUBSET (1..n) -> V] : Folds(sol, n, {<<>>}, step)
  <2> HIDE DEF step
  <2> QED BY <1>1, FoldSolution
<1>3. sol = [s \in SUBSET DOMAIN symbols |-> IF s = {} THEN {<<>>} ELSE Visit(s, sol[s \ {Max(s)}])]
  <2>1. ASSUME NEW s \in SUBSET (1..n) PROVE sol[s] = IF s = {} THEN {<<>>} ELSE Visit(s, sol[s \ {Max(s)}])
    <3>1. CASE s = {}
      BY <1>2, <3>1 DEF Folds
    <3>2. CASE s # {}
      <4>1. Max(s) \in 1..n /\ s \ {Max(s)} \in SUBSET (1..n)
        BY <3>2, MaxOfSome
      <4>2. sol[s] = step[<<Max(s), sol[s \ {Max(s)}]>>]
        <5> HIDE DEF step
        <5> QED BY <1>2, <3>2 DEF Folds
      <4> QED BY <4>1, <4>2, <3>2
    <3> QED BY <3>1, <3>2
  <2> HIDE DEF Visit
  <2> QED BY <2>1
<1>4. it = [s \in SUBSET DOMAIN symbols |-> IF s = {} THEN {<<>>} ELSE Visit(s, it[s \ {Max(s)}])]
  <2> HIDE DEF Visit
  <2> QED BY <1>3, Zenon
<1>5. FirstOfString(first, k, symbols) = it[1..n]
  BY Zenon DEF FirstOfString, FoldLeft, MapThenFoldSet
<1>6. it[1..0] = {<<>>}
  <2> HIDE DEF Visit, it
  <2> QED BY <1>4
<1>7. ASSUME NEW i \in 1..n PROVE it[1..i] = Concatenate(it[1..(i - 1)], FirstOfSymbol(first, symbols[i]), k)
  <2>1. 1..i \in SUBSET DOMAIN symbols /\ 1..i # {} /\ Max(1..i) = i /\ (1..i) \ {i} = 1..(i - 1)
    <3>1. /\ Max(1..i) = i /\ (1..i) \ {i} = 1..(i - 1)
          /\ 1..i \subseteq 1..n /\ 1..i # {}
      BY MaxOfFirst
    <3> QED BY <3>1
  <2>2. it[1..i] = Visit(1..i, it[(1..i) \ {Max(1..i)}])
    <3> HIDE DEF Visit, it
    <3> QED BY <1>4, <2>1
  <2> HIDE DEF it
  <2> QED BY <2>1, <2>2
<1>8. ASSUME NEW i \in 1..n, it[1..(i - 1)] \in V PROVE it[1..i] = step[<<i, it[1..(i - 1)]>>]
  <2> HIDE DEF it
  <2> QED BY <1>7, <1>8
<1>9. PICK acc \in [0..n -> V] : Follows(acc, n, {<<>>}, step, it)
  <2>1. Unfolds(it, n, V, {<<>>}, step)
    <3> HIDE DEF step, it
    <3> QED BY <1>6, <1>8 DEF Unfolds
  <2> HIDE DEF step, it
  <2> QED BY <1>1, <2>1, FoldPath
<1>10. ASSUME NEW i \in 1..n PROVE acc[i] = Concatenate(acc[i - 1], FirstOfSymbol(first, symbols[i]), k)
  <2>1. acc[i] = step[<<i, acc[i - 1]>>]
    <3> HIDE DEF step, it
    <3> QED BY <1>9 DEF Follows
  <2>2. <<i, acc[i - 1]>> \in (1..n) \X V
    <3>1. i - 1 \in 0..n
      OBVIOUS
    <3> QED BY <3>1
  <2> QED BY <2>1, <2>2
<1> HIDE DEF it, step
<1>11. acc[0] = {<<>>} /\ acc[n] = it[1..n]
  BY <1>9 DEF Follows
<1>12. FirstOfStringPath(first, k, symbols, n, acc)
  BY <1>5, <1>10, <1>11 DEF FirstOfStringPath
<1> QED BY <1>12

\* A round of FIRST, one production after the other.
FirstSweepStays(ps, k, first, n, V) ==
    \A i \in 1..n : \A v \in V : [v EXCEPT ![ps[InOrder(ps)[i]].lhs] = @ \cup FirstOfString(v, k, ps[InOrder(ps)[i]].rhs)] \in V

FirstSweepPath(ps, k, first, n, acc) ==
    /\ acc[0] = first /\ acc[n] = FirstSweep(ps, k, first)
    /\ \A i \in 1..n : acc[i] = [acc[i - 1] EXCEPT ![ps[InOrder(ps)[i]].lhs] = @ \cup FirstOfString(acc[i - 1], k, ps[InOrder(ps)[i]].rhs)]

LEMMA FirstSweepWorks ==
    ASSUME NEW ps, NEW k, NEW first, NEW n \in Nat, DOMAIN InOrder(ps) = 1..n, NEW V, first \in V,
           FirstSweepStays(ps, k, first, n, V)
    PROVE  \E acc \in [0..n -> V] : FirstSweepPath(ps, k, first, n, acc)
<1> DEFINE step == [p \in (1..n) \X V |-> [p[2] EXCEPT ![ps[InOrder(ps)[p[1]]].lhs] = @ \cup FirstOfString(p[2], k, ps[InOrder(ps)[p[1]]].rhs)]]
           Visit(s, v) == [v EXCEPT ![ps[InOrder(ps)[Max(s)]].lhs] = @ \cup FirstOfString(v, k, ps[InOrder(ps)[Max(s)]].rhs)]
           it == CHOOSE f : f = [s \in SUBSET DOMAIN InOrder(ps) |-> IF s = {} THEN first ELSE Visit(s, f[s \ {Max(s)}])]
<1>1. step \in [(1..n) \X V -> V]
  BY DEF FirstSweepStays
<1>2. PICK sol \in [SUBSET (1..n) -> V] : Folds(sol, n, first, step)
  <2> HIDE DEF step
  <2> QED BY <1>1, FoldSolution
<1>3. sol = [s \in SUBSET DOMAIN InOrder(ps) |-> IF s = {} THEN first ELSE Visit(s, sol[s \ {Max(s)}])]
  <2>1. ASSUME NEW s \in SUBSET (1..n) PROVE sol[s] = IF s = {} THEN first ELSE Visit(s, sol[s \ {Max(s)}])
    <3>1. CASE s = {}
      BY <1>2, <3>1 DEF Folds
    <3>2. CASE s # {}
      <4>1. Max(s) \in 1..n /\ s \ {Max(s)} \in SUBSET (1..n)
        BY <3>2, MaxOfSome
      <4>2. sol[s] = step[<<Max(s), sol[s \ {Max(s)}]>>]
        <5> HIDE DEF step
        <5> QED BY <1>2, <3>2 DEF Folds
      <4> QED BY <4>1, <4>2, <3>2
    <3> QED BY <3>1, <3>2
  <2> HIDE DEF Visit
  <2> QED BY <2>1
<1>4. it = [s \in SUBSET DOMAIN InOrder(ps) |-> IF s = {} THEN first ELSE Visit(s, it[s \ {Max(s)}])]
  <2> HIDE DEF Visit
  <2> QED BY <1>3, Zenon
<1>5. FirstSweep(ps, k, first) = it[1..n]
  BY Zenon DEF FirstSweep, FoldLeft, MapThenFoldSet
<1>6. it[1..0] = first
  <2> HIDE DEF Visit, it
  <2> QED BY <1>4
<1>7. ASSUME NEW i \in 1..n PROVE it[1..i] = [it[1..(i - 1)] EXCEPT ![ps[InOrder(ps)[i]].lhs] = @ \cup FirstOfString(it[1..(i - 1)], k, ps[InOrder(ps)[i]].rhs)]
  <2>1. 1..i \in SUBSET DOMAIN InOrder(ps) /\ 1..i # {} /\ Max(1..i) = i /\ (1..i) \ {i} = 1..(i - 1)
    <3>1. /\ Max(1..i) = i /\ (1..i) \ {i} = 1..(i - 1)
          /\ 1..i \subseteq 1..n /\ 1..i # {}
      BY MaxOfFirst
    <3> QED BY <3>1
  <2>2. it[1..i] = Visit(1..i, it[(1..i) \ {Max(1..i)}])
    <3> HIDE DEF Visit, it
    <3> QED BY <1>4, <2>1
  <2> HIDE DEF it
  <2> QED BY <2>1, <2>2
<1>8. ASSUME NEW i \in 1..n, it[1..(i - 1)] \in V PROVE it[1..i] = step[<<i, it[1..(i - 1)]>>]
  <2> HIDE DEF it
  <2> QED BY <1>7, <1>8
<1>9. PICK acc \in [0..n -> V] : Follows(acc, n, first, step, it)
  <2>1. Unfolds(it, n, V, first, step)
    <3> HIDE DEF step, it
    <3> QED BY <1>6, <1>8 DEF Unfolds
  <2> HIDE DEF step, it
  <2> QED BY <1>1, <2>1, FoldPath
<1>10. ASSUME NEW i \in 1..n PROVE acc[i] = [acc[i - 1] EXCEPT ![ps[InOrder(ps)[i]].lhs] = @ \cup FirstOfString(acc[i - 1], k, ps[InOrder(ps)[i]].rhs)]
  <2>1. acc[i] = step[<<i, acc[i - 1]>>]
    <3> HIDE DEF step, it
    <3> QED BY <1>9 DEF Follows
  <2>2. <<i, acc[i - 1]>> \in (1..n) \X V
    <3>1. i - 1 \in 0..n
      OBVIOUS
    <3> QED BY <3>1
  <2> QED BY <2>1, <2>2
<1> HIDE DEF it, step
<1>11. acc[0] = first /\ acc[n] = it[1..n]
  BY <1>9 DEF Follows
<1>12. FirstSweepPath(ps, k, first, n, acc)
  BY <1>5, <1>10, <1>11 DEF FirstSweepPath
<1> QED BY <1>12

\* A round of the closure, one item after the other.
ClosureSweepStays(G, items, n, V) ==
    \A i \in 1..n : \A v \in V : ClosureVisit(G, v, G.order[i]) \in V

ClosureSweepPath(G, items, n, acc) ==
    /\ acc[0] = items /\ acc[n] = ClosureSweep(G, items)
    /\ \A i \in 1..n : acc[i] = ClosureVisit(G, acc[i - 1], G.order[i])

LEMMA ClosureSweepWorks ==
    ASSUME NEW G, NEW items, NEW n \in Nat, DOMAIN G.order = 1..n, NEW V, items \in V,
           ClosureSweepStays(G, items, n, V)
    PROVE  \E acc \in [0..n -> V] : ClosureSweepPath(G, items, n, acc)
<1> DEFINE step == [p \in (1..n) \X V |-> ClosureVisit(G, p[2], G.order[p[1]])]
           Visit(s, v) == ClosureVisit(G, v, G.order[Max(s)])
           it == CHOOSE f : f = [s \in SUBSET DOMAIN G.order |-> IF s = {} THEN items ELSE Visit(s, f[s \ {Max(s)}])]
<1>1. step \in [(1..n) \X V -> V]
  BY DEF ClosureSweepStays
<1>2. PICK sol \in [SUBSET (1..n) -> V] : Folds(sol, n, items, step)
  <2> HIDE DEF step
  <2> QED BY <1>1, FoldSolution
<1>3. sol = [s \in SUBSET DOMAIN G.order |-> IF s = {} THEN items ELSE Visit(s, sol[s \ {Max(s)}])]
  <2>1. ASSUME NEW s \in SUBSET (1..n) PROVE sol[s] = IF s = {} THEN items ELSE Visit(s, sol[s \ {Max(s)}])
    <3>1. CASE s = {}
      BY <1>2, <3>1 DEF Folds
    <3>2. CASE s # {}
      <4>1. Max(s) \in 1..n /\ s \ {Max(s)} \in SUBSET (1..n)
        BY <3>2, MaxOfSome
      <4>2. sol[s] = step[<<Max(s), sol[s \ {Max(s)}]>>]
        <5> HIDE DEF step
        <5> QED BY <1>2, <3>2 DEF Folds
      <4> QED BY <4>1, <4>2, <3>2
    <3> QED BY <3>1, <3>2
  <2> HIDE DEF Visit
  <2> QED BY <2>1
<1>4. it = [s \in SUBSET DOMAIN G.order |-> IF s = {} THEN items ELSE Visit(s, it[s \ {Max(s)}])]
  <2> HIDE DEF Visit
  <2> QED BY <1>3, Zenon
<1>5. ClosureSweep(G, items) = it[1..n]
  BY Zenon DEF ClosureSweep, FoldLeft, MapThenFoldSet
<1>6. it[1..0] = items
  <2> HIDE DEF Visit, it
  <2> QED BY <1>4
<1>7. ASSUME NEW i \in 1..n PROVE it[1..i] = ClosureVisit(G, it[1..(i - 1)], G.order[i])
  <2>1. 1..i \in SUBSET DOMAIN G.order /\ 1..i # {} /\ Max(1..i) = i /\ (1..i) \ {i} = 1..(i - 1)
    <3>1. /\ Max(1..i) = i /\ (1..i) \ {i} = 1..(i - 1)
          /\ 1..i \subseteq 1..n /\ 1..i # {}
      BY MaxOfFirst
    <3> QED BY <3>1
  <2>2. it[1..i] = Visit(1..i, it[(1..i) \ {Max(1..i)}])
    <3> HIDE DEF Visit, it
    <3> QED BY <1>4, <2>1
  <2> HIDE DEF it
  <2> QED BY <2>1, <2>2
<1>8. ASSUME NEW i \in 1..n, it[1..(i - 1)] \in V PROVE it[1..i] = step[<<i, it[1..(i - 1)]>>]
  <2> HIDE DEF it
  <2> QED BY <1>7, <1>8
<1>9. PICK acc \in [0..n -> V] : Follows(acc, n, items, step, it)
  <2>1. Unfolds(it, n, V, items, step)
    <3> HIDE DEF step, it
    <3> QED BY <1>6, <1>8 DEF Unfolds
  <2> HIDE DEF step, it
  <2> QED BY <1>1, <2>1, FoldPath
<1>10. ASSUME NEW i \in 1..n PROVE acc[i] = ClosureVisit(G, acc[i - 1], G.order[i])
  <2>1. acc[i] = step[<<i, acc[i - 1]>>]
    <3> HIDE DEF step, it
    <3> QED BY <1>9 DEF Follows
  <2>2. <<i, acc[i - 1]>> \in (1..n) \X V
    <3>1. i - 1 \in 0..n
      OBVIOUS
    <3> QED BY <3>1
  <2> QED BY <2>1, <2>2
<1> HIDE DEF it, step
<1>11. acc[0] = items /\ acc[n] = it[1..n]
  BY <1>9 DEF Follows
<1>12. ClosureSweepPath(G, items, n, acc)
  BY <1>5, <1>10, <1>11 DEF ClosureSweepPath
<1> QED BY <1>12

-----------------------------------------------------------------------------
(* Sequences. *)

\* FlattenSeq puts the sequences one behind the other.
FlattenPath(f, n, S, seqs) ==
    /\ FlattenSeq(seqs) = f[n]
    /\ \A m \in 1..n : f[m] \in Seq(S) /\ f[m] = IF m = 1 THEN seqs[m] ELSE f[m - 1] \o seqs[m]

LEMMA FlattenUnfolds ==
    ASSUME NEW S, NEW n \in Nat, n # 0, NEW seqs \in [1..n -> Seq(S)]
    PROVE  \E f : FlattenPath(f, n, S, seqs)
<1>0. Len(seqs) = n /\ seqs \in Seq(Seq(S))
  OBVIOUS
<1> DEFINE Works(f, m) == \A i \in 1..m : f[i] = IF i = 1 THEN seqs[i] ELSE f[i - 1] \o seqs[i]
           T == {m \in 0..n : \E f \in [1..m -> Seq(S)] : Works(f, m)}
           flatten == CHOOSE f : f = [i \in 1..Len(seqs) |-> IF i = 1 THEN seqs[i] ELSE f[i - 1] \o seqs[i]]
           U == {m \in 0..n : m = 0 \/ flatten[m] \in Seq(S)}
<1>1. 0 \in T
  <2> DEFINE f == [i \in 1..0 |-> <<>>]
  <2>1. f \in [1..0 -> Seq(S)] /\ Works(f, 0) /\ 0 \in 0..n
    OBVIOUS
  <2> HIDE DEF Works, f
  <2> QED BY <2>1
<1>2. ASSUME NEW m \in 1..n, m - 1 \in T PROVE m \in T
  <2>1. PICK f \in [1..(m - 1) -> Seq(S)] : Works(f, m - 1)
    BY <1>2
  <2> DEFINE last == IF m = 1 THEN seqs[m] ELSE f[m - 1] \o seqs[m]
             g == [i \in 1..m |-> IF i = m THEN last ELSE f[i]]
  <2>2. last \in Seq(S)
    <3>1. seqs[m] \in Seq(S)
      OBVIOUS
    <3>2. m # 1 => f[m - 1] \in Seq(S)
      OBVIOUS
    <3> QED BY <3>1, <3>2
  <2>3. g \in [1..m -> Seq(S)]
    <3> HIDE DEF last
    <3> QED BY <2>2
  <2>4. Works(g, m)
    <3>1. ASSUME NEW i \in 1..m PROVE g[i] = IF i = 1 THEN seqs[i] ELSE g[i - 1] \o seqs[i]
      <4>1. CASE i = m
        <5>1. g[i] = last
          BY <4>1
        <5>2. m # 1 => g[m - 1] = f[m - 1]
          OBVIOUS
        <5> QED BY <5>1, <5>2, <4>1
      <4>2. CASE i # m
        <5>1. i \in 1..(m - 1) /\ g[i] = f[i] /\ (i # 1 => g[i - 1] = f[i - 1])
          BY <4>2
        <5>2. f[i] = IF i = 1 THEN seqs[i] ELSE f[i - 1] \o seqs[i]
          BY <2>1, <5>1
        <5> QED BY <5>1, <5>2
      <4> QED BY <4>1, <4>2
    <3> QED BY <3>1
  <2>5. m \in 0..n
    OBVIOUS
  <2> HIDE DEF Works, g
  <2> QED BY <2>3, <2>4, <2>5
<1>3. n \in T
  <2> HIDE DEF T
  <2>1. 0..n \subseteq T
    BY <1>1, <1>2, UpTo
  <2> QED BY <2>1
<1>4. PICK f \in [1..n -> Seq(S)] : Works(f, n)
  BY <1>3
<1>5. f = [i \in 1..Len(seqs) |-> IF i = 1 THEN seqs[i] ELSE f[i - 1] \o seqs[i]]
  BY <1>4, <1>0
<1>6. flatten = [i \in 1..Len(seqs) |-> IF i = 1 THEN seqs[i] ELSE flatten[i - 1] \o seqs[i]]
  BY <1>5, Zenon
<1>7. FlattenSeq(seqs) = flatten[Len(seqs)]
  <2>1. Len(seqs) # 0
    BY <1>0
  <2> QED BY <2>1, Zenon DEF FlattenSeq
<1>8. ASSUME NEW m \in 1..n PROVE flatten[m] = IF m = 1 THEN seqs[m] ELSE flatten[m - 1] \o seqs[m]
  <2> HIDE DEF flatten
  <2> QED BY <1>6, <1>0
<1>9. 0..n \subseteq U
  <2>1. 0 \in U
    OBVIOUS
  <2>2. ASSUME NEW m \in 1..n, m - 1 \in U PROVE m \in U
    <3> HIDE DEF flatten
    <3>1. seqs[m] \in Seq(S) /\ (m # 1 => flatten[m - 1] \in Seq(S))
      BY <2>2
    <3>2. flatten[m] \in Seq(S)
      <4>1. CASE m = 1
        BY <1>8, <3>1, <4>1
      <4>2. CASE m # 1
        <5>1. flatten[m] = flatten[m - 1] \o seqs[m]
          BY <1>8, <4>2
        <5> QED BY <5>1, <3>1, <4>2
      <4> QED BY <4>1, <4>2
    <3> QED BY <3>2
  <2> HIDE DEF U
  <2> QED BY <2>1, <2>2, UpTo
<1>10. \A m \in 1..n : flatten[m] \in Seq(S)
  <2> HIDE DEF flatten
  <2> QED BY <1>9
<1> HIDE DEF flatten
<1>11. FlattenPath(flatten, n, S, seqs)
  BY <1>7, <1>8, <1>10, <1>0 DEF FlattenPath
<1> QED BY <1>11

LEMMA Flattened ==
    ASSUME NEW S, NEW n \in Nat, NEW seqs \in [1..n -> Seq(S)]
    PROVE  /\ FlattenSeq(seqs) \in Seq(S)
           /\ \A e : e \in Range(FlattenSeq(seqs)) <=> \E i \in 1..n : e \in Range(seqs[i])
<1>1. Len(seqs) = n /\ seqs \in Seq(Seq(S))
  OBVIOUS
<1>2. CASE n = 0
  <2>1. FlattenSeq(seqs) = seqs /\ seqs = <<>>
    BY <1>1, <1>2 DEF FlattenSeq
  <2> QED BY <2>1, <1>2 DEF Range
<1>3. CASE n # 0
  <2>1. PICK f : FlattenPath(f, n, S, seqs)
    BY <1>3, FlattenUnfolds
  <2> DEFINE Has(m) == \A e : e \in Range(f[m]) <=> \E i \in 1..m : e \in Range(seqs[i])
             U == {m \in 0..n : m = 0 \/ Has(m)}
  <2>2. 0 \in U
    OBVIOUS
  <2>3. ASSUME NEW m \in 1..n, m - 1 \in U PROVE m \in U
    <3>1. f[m] = (IF m = 1 THEN seqs[m] ELSE f[m - 1] \o seqs[m]) /\ seqs[m] \in Seq(S)
      BY <2>1 DEF FlattenPath
    <3>2. CASE m = 1
      <4>1. Has(m)
        BY <3>1, <3>2
      <4> HIDE DEF Has
      <4> QED BY <4>1
    <3>3. CASE m # 1
      <4>1. Has(m - 1) /\ m - 1 \in 1..n
        <5> HIDE DEF Has
        <5> QED BY <2>3, <3>3
      <4>2. f[m - 1] \in Seq(S)
        BY <2>1, <4>1 DEF FlattenPath
      <4>3. Range(f[m]) = Range(f[m - 1]) \cup Range(seqs[m])
        BY <3>1, <3>3, <4>2, RangeConcatenation
      <4>4. 1..m = 1..(m - 1) \cup {m}
        OBVIOUS
      <4>5. Has(m)
        <5>1. \A e : e \in Range(f[m - 1]) <=> \E i \in 1..(m - 1) : e \in Range(seqs[i])
          BY <4>1
        <5> QED BY <4>3, <4>4, <5>1
      <4> HIDE DEF Has
      <4> QED BY <4>5
    <3> QED BY <3>2, <3>3
  <2>4. 0..n \subseteq U
    <3> HIDE DEF U
    <3> QED BY <2>2, <2>3, UpTo
  <2>5. Has(n) /\ f[n] \in Seq(S)
    <3> HIDE DEF Has
    <3> QED BY <1>3, <2>1, <2>4 DEF FlattenPath
  <2> QED BY <2>1, <2>5 DEF FlattenPath
<1> QED BY <1>2, <1>3

\* Two sequences joined to two, element by element.
LEMMA JoinedAlike ==
    ASSUME NEW S, NEW T, NEW R, NEW a \in Seq(S), NEW b \in Seq(S), NEW c \in Seq(T), NEW d \in Seq(T),
           Len(a) = Len(c), Len(b) = Len(d),
           \A j \in 1..Len(a) : <<a[j], c[j]>> \in R, \A j \in 1..Len(b) : <<b[j], d[j]>> \in R
    PROVE  /\ Len(a \o b) = Len(c \o d)
           /\ \A j \in 1..Len(a \o b) : <<(a \o b)[j], (c \o d)[j]>> \in R
<1>1. Len(a \o b) = Len(a) + Len(b) /\ Len(a) \in Nat /\ Len(b) \in Nat
  OBVIOUS
<1>2. Len(c \o d) = Len(c) + Len(d)
  OBVIOUS
<1>3. ASSUME NEW j \in 1..(Len(a) + Len(b)) PROVE <<(a \o b)[j], (c \o d)[j]>> \in R
  <2>1. CASE j <= Len(a)
    <3>1. j \in 1..Len(a)
      BY <1>1, <2>1
    <3>2. (a \o b)[j] = a[j]
      BY <1>1, <2>1
    <3>3. (c \o d)[j] = c[j]
      BY <1>1, <2>1
    <3> QED BY <3>1, <3>2, <3>3
  <2>2. CASE ~(j <= Len(a))
    <3>1. j - Len(a) \in 1..Len(b)
      BY <1>1, <2>2
    <3>2. (a \o b)[j] = b[j - Len(a)]
      BY <1>1, <2>2
    <3>3. (c \o d)[j] = d[j - Len(a)]
      BY <1>1, <2>2
    <3> QED BY <3>1, <3>2, <3>3
  <2> QED BY <2>1, <2>2
<1> QED BY <1>1, <1>2, <1>3

SameAlong(R, s, t) == Len(s) = Len(t) /\ \A j \in 1..Len(s) : <<s[j], t[j]>> \in R

\* Two sequences of sequences of the same lengths, element by element.
LEMMA FlattenedAlike ==
    ASSUME NEW S, NEW T, NEW R, NEW n \in Nat, NEW seqs \in [1..n -> Seq(S)], NEW tags \in [1..n -> Seq(T)],
           \A i \in 1..n : SameAlong(R, seqs[i], tags[i])
    PROVE  /\ FlattenSeq(seqs) \in Seq(S) /\ FlattenSeq(tags) \in Seq(T)
           /\ SameAlong(R, FlattenSeq(seqs), FlattenSeq(tags))
<1>1. FlattenSeq(seqs) \in Seq(S) /\ FlattenSeq(tags) \in Seq(T)
  BY Flattened
<1>2. CASE n = 0
  <2>1. FlattenSeq(seqs) = <<>> /\ FlattenSeq(tags) = <<>>
    BY <1>2 DEF FlattenSeq
  <2> QED BY <2>1, <1>1 DEF SameAlong
<1>3. CASE n # 0
  <2>1. PICK f : FlattenPath(f, n, S, seqs)
    BY <1>3, FlattenUnfolds
  <2>2. PICK g : FlattenPath(g, n, T, tags)
    BY <1>3, FlattenUnfolds
  <2> DEFINE Has(m) == Len(f[m]) = Len(g[m]) /\ \A j \in 1..Len(f[m]) : <<f[m][j], g[m][j]>> \in R
             U == {m \in 0..n : m = 0 \/ Has(m)}
  <2>3. 0 \in U
    OBVIOUS
  <2>4. ASSUME NEW m \in 1..n, m - 1 \in U PROVE m \in U
    <3>1. /\ f[m] = (IF m = 1 THEN seqs[m] ELSE f[m - 1] \o seqs[m]) /\ seqs[m] \in Seq(S)
          /\ g[m] = (IF m = 1 THEN tags[m] ELSE g[m - 1] \o tags[m]) /\ tags[m] \in Seq(T)
      BY <2>1, <2>2 DEF FlattenPath
    <3>2. Len(seqs[m]) = Len(tags[m]) /\ \A j \in 1..Len(seqs[m]) : <<seqs[m][j], tags[m][j]>> \in R
      BY DEF SameAlong
    <3>3. CASE m = 1
      <4>1. Has(m)
        BY <3>1, <3>2, <3>3
      <4> HIDE DEF Has
      <4> QED BY <4>1
    <3>4. CASE m # 1
      <4>1. Has(m - 1) /\ m - 1 \in 1..n
        <5> HIDE DEF Has
        <5> QED BY <2>4, <3>4
      <4>2. f[m - 1] \in Seq(S) /\ g[m - 1] \in Seq(T)
        BY <2>1, <2>2, <4>1 DEF FlattenPath
      <4> DEFINE a == f[m - 1]
                 b == seqs[m]
                 c == g[m - 1]
                 d == tags[m]
      <4>3. /\ a \in Seq(S) /\ b \in Seq(S) /\ c \in Seq(T) /\ d \in Seq(T)
            /\ f[m] = a \o b /\ g[m] = c \o d
            /\ Len(a) = Len(c) /\ Len(b) = Len(d)
            /\ \A j \in 1..Len(a) : <<a[j], c[j]>> \in R
            /\ \A j \in 1..Len(b) : <<b[j], d[j]>> \in R
        BY <3>1, <3>2, <3>4, <4>1, <4>2
      <4> HIDE DEF a, b, c, d
      <4>4. Len(a \o b) = Len(c \o d) /\ \A j \in 1..Len(a \o b) : <<(a \o b)[j], (c \o d)[j]>> \in R
        BY <4>3, JoinedAlike
      <4>5. Has(m)
        BY <4>3, <4>4
      <4> HIDE DEF Has
      <4> QED BY <4>5
    <3> QED BY <3>3, <3>4
  <2>5. 0..n \subseteq U
    <3> HIDE DEF U
    <3> QED BY <2>3, <2>4, UpTo
  <2>6. Has(n)
    <3> HIDE DEF Has
    <3> QED BY <1>3, <2>5
  <2> QED BY <1>1, <2>1, <2>2, <2>6 DEF FlattenPath, SameAlong
<1> QED BY <1>2, <1>3

-----------------------------------------------------------------------------
(* Productions. *)

\* The members of an alternative that are no trivia.
MembersKeptStays(g, alternative, n, V) ==
    \A i \in 1..n : \A v \in V : (IF ~Trivia(g, alternative[i]) THEN Append(v, alternative[i]) ELSE v) \in V

MembersKeptPath(g, alternative, n, acc) ==
    /\ acc[0] = <<>> /\ acc[n] = WithoutTrivia(g, alternative)
    /\ \A i \in 1..n : acc[i] = (IF ~Trivia(g, alternative[i]) THEN Append(acc[i - 1], alternative[i]) ELSE acc[i - 1])

LEMMA MembersKeptWorks ==
    ASSUME NEW g, NEW alternative, NEW n \in Nat, DOMAIN alternative = 1..n, NEW V, <<>> \in V,
           MembersKeptStays(g, alternative, n, V)
    PROVE  \E acc \in [0..n -> V] : MembersKeptPath(g, alternative, n, acc)
<1> DEFINE step == [p \in (1..n) \X V |-> (IF ~Trivia(g, alternative[p[1]]) THEN Append(p[2], alternative[p[1]]) ELSE p[2])]
           Visit(s, v) == (IF ~Trivia(g, alternative[Max(s)]) THEN Append(v, alternative[Max(s)]) ELSE v)
           it == CHOOSE f : f = [s \in SUBSET DOMAIN alternative |-> IF s = {} THEN <<>> ELSE Visit(s, f[s \ {Max(s)}])]
<1>1. step \in [(1..n) \X V -> V]
  BY DEF MembersKeptStays
<1>2. PICK sol \in [SUBSET (1..n) -> V] : Folds(sol, n, <<>>, step)
  <2> HIDE DEF step
  <2> QED BY <1>1, FoldSolution
<1>3. sol = [s \in SUBSET DOMAIN alternative |-> IF s = {} THEN <<>> ELSE Visit(s, sol[s \ {Max(s)}])]
  <2>1. ASSUME NEW s \in SUBSET (1..n) PROVE sol[s] = IF s = {} THEN <<>> ELSE Visit(s, sol[s \ {Max(s)}])
    <3>1. CASE s = {}
      BY <1>2, <3>1 DEF Folds
    <3>2. CASE s # {}
      <4>1. Max(s) \in 1..n /\ s \ {Max(s)} \in SUBSET (1..n)
        BY <3>2, MaxOfSome
      <4>2. sol[s] = step[<<Max(s), sol[s \ {Max(s)}]>>]
        <5> HIDE DEF step
        <5> QED BY <1>2, <3>2 DEF Folds
      <4> QED BY <4>1, <4>2, <3>2
    <3> QED BY <3>1, <3>2
  <2> HIDE DEF Visit
  <2> QED BY <2>1
<1>4. it = [s \in SUBSET DOMAIN alternative |-> IF s = {} THEN <<>> ELSE Visit(s, it[s \ {Max(s)}])]
  <2> HIDE DEF Visit
  <2> QED BY <1>3, Zenon
<1>5. WithoutTrivia(g, alternative) = it[1..n]
  BY Zenon DEF WithoutTrivia, Selected, FoldLeft, MapThenFoldSet
<1>6. it[1..0] = <<>>
  <2> HIDE DEF Visit, it
  <2> QED BY <1>4
<1>7. ASSUME NEW i \in 1..n PROVE it[1..i] = (IF ~Trivia(g, alternative[i]) THEN Append(it[1..(i - 1)], alternative[i]) ELSE it[1..(i - 1)])
  <2>1. 1..i \in SUBSET DOMAIN alternative /\ 1..i # {} /\ Max(1..i) = i /\ (1..i) \ {i} = 1..(i - 1)
    <3>1. /\ Max(1..i) = i /\ (1..i) \ {i} = 1..(i - 1)
          /\ 1..i \subseteq 1..n /\ 1..i # {}
      BY MaxOfFirst
    <3> QED BY <3>1
  <2>2. it[1..i] = Visit(1..i, it[(1..i) \ {Max(1..i)}])
    <3> HIDE DEF Visit, it
    <3> QED BY <1>4, <2>1
  <2> HIDE DEF it
  <2> QED BY <2>1, <2>2
<1>8. ASSUME NEW i \in 1..n, it[1..(i - 1)] \in V PROVE it[1..i] = step[<<i, it[1..(i - 1)]>>]
  <2> HIDE DEF it
  <2> QED BY <1>7, <1>8
<1>9. PICK acc \in [0..n -> V] : Follows(acc, n, <<>>, step, it)
  <2>1. Unfolds(it, n, V, <<>>, step)
    <3> HIDE DEF step, it
    <3> QED BY <1>6, <1>8 DEF Unfolds
  <2> HIDE DEF step, it
  <2> QED BY <1>1, <2>1, FoldPath
<1>10. ASSUME NEW i \in 1..n PROVE acc[i] = (IF ~Trivia(g, alternative[i]) THEN Append(acc[i - 1], alternative[i]) ELSE acc[i - 1])
  <2>1. acc[i] = step[<<i, acc[i - 1]>>]
    <3> HIDE DEF step, it
    <3> QED BY <1>9 DEF Follows
  <2>2. <<i, acc[i - 1]>> \in (1..n) \X V
    <3>1. i - 1 \in 0..n
      OBVIOUS
    <3> QED BY <3>1
  <2> QED BY <2>1, <2>2
<1> HIDE DEF it, step
<1>11. acc[0] = <<>> /\ acc[n] = it[1..n]
  BY <1>9 DEF Follows
<1>12. MembersKeptPath(g, alternative, n, acc)
  BY <1>5, <1>10, <1>11 DEF MembersKeptPath
<1> QED BY <1>12

\* The rules that are no whitespace helpers.
RulesKeptStays(g, n, V) ==
    \A i \in 1..n : \A v \in V : (IF ~(SkipsWhitespace(g) /\ g.rules[i].lhs \in WhitespaceHelpers(g)) THEN Append(v, g.rules[i]) ELSE v) \in V

RulesKeptPath(g, n, acc) ==
    /\ acc[0] = <<>> /\ acc[n] = ProperRules(g)
    /\ \A i \in 1..n : acc[i] = (IF ~(SkipsWhitespace(g) /\ g.rules[i].lhs \in WhitespaceHelpers(g)) THEN Append(acc[i - 1], g.rules[i]) ELSE acc[i - 1])

LEMMA RulesKeptWorks ==
    ASSUME NEW g, NEW n \in Nat, DOMAIN g.rules = 1..n, NEW V, <<>> \in V,
           RulesKeptStays(g, n, V)
    PROVE  \E acc \in [0..n -> V] : RulesKeptPath(g, n, acc)
<1> DEFINE step == [p \in (1..n) \X V |-> (IF ~(SkipsWhitespace(g) /\ g.rules[p[1]].lhs \in WhitespaceHelpers(g)) THEN Append(p[2], g.rules[p[1]]) ELSE p[2])]
           Visit(s, v) == (IF ~(SkipsWhitespace(g) /\ g.rules[Max(s)].lhs \in WhitespaceHelpers(g)) THEN Append(v, g.rules[Max(s)]) ELSE v)
           it == CHOOSE f : f = [s \in SUBSET DOMAIN g.rules |-> IF s = {} THEN <<>> ELSE Visit(s, f[s \ {Max(s)}])]
<1>1. step \in [(1..n) \X V -> V]
  BY DEF RulesKeptStays
<1>2. PICK sol \in [SUBSET (1..n) -> V] : Folds(sol, n, <<>>, step)
  <2> HIDE DEF step
  <2> QED BY <1>1, FoldSolution
<1>3. sol = [s \in SUBSET DOMAIN g.rules |-> IF s = {} THEN <<>> ELSE Visit(s, sol[s \ {Max(s)}])]
  <2>1. ASSUME NEW s \in SUBSET (1..n) PROVE sol[s] = IF s = {} THEN <<>> ELSE Visit(s, sol[s \ {Max(s)}])
    <3>1. CASE s = {}
      BY <1>2, <3>1 DEF Folds
    <3>2. CASE s # {}
      <4>1. Max(s) \in 1..n /\ s \ {Max(s)} \in SUBSET (1..n)
        BY <3>2, MaxOfSome
      <4>2. sol[s] = step[<<Max(s), sol[s \ {Max(s)}]>>]
        <5> HIDE DEF step
        <5> QED BY <1>2, <3>2 DEF Folds
      <4> QED BY <4>1, <4>2, <3>2
    <3> QED BY <3>1, <3>2
  <2> HIDE DEF Visit
  <2> QED BY <2>1
<1>4. it = [s \in SUBSET DOMAIN g.rules |-> IF s = {} THEN <<>> ELSE Visit(s, it[s \ {Max(s)}])]
  <2> HIDE DEF Visit
  <2> QED BY <1>3, Zenon
<1>5. ProperRules(g) = it[1..n]
  BY Zenon DEF ProperRules, Selected, FoldLeft, MapThenFoldSet
<1>6. it[1..0] = <<>>
  <2> HIDE DEF Visit, it
  <2> QED BY <1>4
<1>7. ASSUME NEW i \in 1..n PROVE it[1..i] = (IF ~(SkipsWhitespace(g) /\ g.rules[i].lhs \in WhitespaceHelpers(g)) THEN Append(it[1..(i - 1)], g.rules[i]) ELSE it[1..(i - 1)])
  <2>1. 1..i \in SUBSET DOMAIN g.rules /\ 1..i # {} /\ Max(1..i) = i /\ (1..i) \ {i} = 1..(i - 1)
    <3>1. /\ Max(1..i) = i /\ (1..i) \ {i} = 1..(i - 1)
          /\ 1..i \subseteq 1..n /\ 1..i # {}
      BY MaxOfFirst
    <3> QED BY <3>1
  <2>2. it[1..i] = Visit(1..i, it[(1..i) \ {Max(1..i)}])
    <3> HIDE DEF Visit, it
    <3> QED BY <1>4, <2>1
  <2> HIDE DEF it
  <2> QED BY <2>1, <2>2
<1>8. ASSUME NEW i \in 1..n, it[1..(i - 1)] \in V PROVE it[1..i] = step[<<i, it[1..(i - 1)]>>]
  <2> HIDE DEF it
  <2> QED BY <1>7, <1>8
<1>9. PICK acc \in [0..n -> V] : Follows(acc, n, <<>>, step, it)
  <2>1. Unfolds(it, n, V, <<>>, step)
    <3> HIDE DEF step, it
    <3> QED BY <1>6, <1>8 DEF Unfolds
  <2> HIDE DEF step, it
  <2> QED BY <1>1, <2>1, FoldPath
<1>10. ASSUME NEW i \in 1..n PROVE acc[i] = (IF ~(SkipsWhitespace(g) /\ g.rules[i].lhs \in WhitespaceHelpers(g)) THEN Append(acc[i - 1], g.rules[i]) ELSE acc[i - 1])
  <2>1. acc[i] = step[<<i, acc[i - 1]>>]
    <3> HIDE DEF step, it
    <3> QED BY <1>9 DEF Follows
  <2>2. <<i, acc[i - 1]>> \in (1..n) \X V
    <3>1. i - 1 \in 0..n
      OBVIOUS
    <3> QED BY <3>1
  <2> QED BY <2>1, <2>2
<1> HIDE DEF it, step
<1>11. acc[0] = <<>> /\ acc[n] = it[1..n]
  BY <1>9 DEF Follows
<1>12. RulesKeptPath(g, n, acc)
  BY <1>5, <1>10, <1>11 DEF RulesKeptPath
<1> QED BY <1>12

LEMMA MembersKept ==
    ASSUME NEW g, NEW S, NEW alternative \in Seq(S)
    PROVE  WithoutTrivia(g, alternative) \in Seq(S)
<1> DEFINE n == Len(alternative)
<1>1. n \in Nat /\ DOMAIN alternative = 1..n /\ <<>> \in Seq(S)
  OBVIOUS
<1>2. ASSUME NEW i \in 1..n, NEW v \in Seq(S)
      PROVE  (IF ~Trivia(g, alternative[i]) THEN Append(v, alternative[i]) ELSE v) \in Seq(S)
  <2>1. alternative[i] \in S
    OBVIOUS
  <2> QED BY <2>1
<1>3. PICK acc \in [0..n -> Seq(S)] : MembersKeptPath(g, alternative, n, acc)
  <2>1. MembersKeptStays(g, alternative, n, Seq(S))
    BY <1>2 DEF MembersKeptStays
  <2> HIDE DEF n
  <2> QED BY <1>1, <2>1, MembersKeptWorks
<1>4. n \in 0..n
  BY <1>1
<1> HIDE DEF n
<1> QED BY <1>3, <1>4 DEF MembersKeptPath

LEMMA RulesKept ==
    ASSUME NEW g, NEW S, g.rules \in Seq(S)
    PROVE  ProperRules(g) \in Seq(S)
<1> DEFINE n == Len(g.rules)
<1>1. n \in Nat /\ DOMAIN g.rules = 1..n /\ <<>> \in Seq(S)
  OBVIOUS
<1>2. ASSUME NEW i \in 1..n, NEW v \in Seq(S)
      PROVE  (IF ~(SkipsWhitespace(g) /\ g.rules[i].lhs \in WhitespaceHelpers(g)) THEN Append(v, g.rules[i]) ELSE v)
                \in Seq(S)
  <2>1. g.rules[i] \in S
    OBVIOUS
  <2> QED BY <2>1
<1>3. PICK acc \in [0..n -> Seq(S)] : RulesKeptPath(g, n, acc)
  <2>1. RulesKeptStays(g, n, Seq(S))
    BY <1>2 DEF RulesKeptStays
  <2> HIDE DEF n
  <2> QED BY <1>1, <2>1, RulesKeptWorks
<1>4. n \in 0..n
  BY <1>1
<1> HIDE DEF n
<1> QED BY <1>3, <1>4 DEF RulesKeptPath

MemberType == [name : STRING, auto : BOOLEAN, marked : BOOLEAN]
RuleType == [lhs : STRING, tail : BOOLEAN, alts : Seq(Seq(MemberType))]

Triple(lhs, rhs, gaps) == [lhs |-> lhs, rhs |-> rhs, gaps |-> gaps]

LEMMA ProductionIsGood ==
    ASSUME NEW g, NEW rule \in RuleType, NEW alternative \in Seq(MemberType)
    PROVE  LET p == Production(g, rule, alternative)
           IN  /\ p.lhs = rule.lhs /\ p.lhs \in STRING /\ p.rhs \in Seq(STRING)
               /\ p = Triple(p.lhs, p.rhs, p.gaps)
<1> DEFINE kept == WithoutTrivia(g, alternative)
           rhs == [i \in DOMAIN kept |-> kept[i].name]
           trivia == {j \in DOMAIN alternative : Trivia(g, alternative[j])}
           before(j) == {i \in 1..(j - 1) : i \notin trivia}
           gaps == {Cardinality(before(j)) : j \in trivia}
           plain == [lhs |-> rule.lhs, rhs |-> rhs, gaps |-> gaps]
<1>1. kept \in Seq(MemberType)
  BY MembersKept
<1>2. rhs \in Seq(STRING)
  <2> HIDE DEF kept
  <2>1. ASSUME NEW i \in DOMAIN kept PROVE kept[i].name \in STRING
    <3>1. kept[i] \in MemberType
      BY <1>1
    <3> QED BY <3>1 DEF MemberType
  <2>2. DOMAIN kept = 1..Len(kept) /\ Len(kept) \in Nat
    BY <1>1
  <2> QED BY <2>1, <2>2
<1>3. rule.lhs \in STRING
  BY DEF RuleType
<1>4. Production(g, rule, alternative) =
        IF rule.tail /\ Len(rhs) >= 2 /\ Last(rhs) = rule.lhs THEN Rotated(plain) ELSE plain
  BY DEF Production
<1> HIDE DEF rhs, gaps, kept
<1>5. CASE rule.tail /\ Len(rhs) >= 2 /\ Last(rhs) = rule.lhs
  <2>1. Production(g, rule, alternative) = Rotated(plain)
    BY <1>4, <1>5
  <2>2. Rotated(plain).lhs = rule.lhs
    BY DEF Rotated
  <2>3. Rotated(plain).rhs = <<Last(rhs)>> \o Front(rhs)
    BY DEF Rotated
  <2>4. Last(rhs) \in STRING /\ Front(rhs) \in Seq(STRING)
    <3>1. Last(rhs) = rhs[Len(rhs)] /\ Len(rhs) \in Nat /\ Len(rhs) \in 1..Len(rhs)
      BY <1>2, <1>5 DEF Last
    <3>2. Front(rhs) = SubSeq(rhs, 1, Len(rhs) - 1)
      BY DEF Front
    <3> QED BY <3>1, <3>2, <1>2
  <2>5. <<Last(rhs)>> \o Front(rhs) \in Seq(STRING)
    BY <2>4
  <2>6. Rotated(plain) = Triple(Rotated(plain).lhs, Rotated(plain).rhs, Rotated(plain).gaps)
    <3> DEFINE a == <<Last(plain.rhs)>> \o Front(plain.rhs)
               b == {gap + 1 : gap \in plain.gaps \ {Len(plain.rhs)}} \cup (plain.gaps \cap {Len(plain.rhs)})
    <3>1. Rotated(plain) = [plain EXCEPT !.rhs = a, !.gaps = b]
      BY Zenon DEF Rotated
    <3>2. plain = [lhs |-> rule.lhs, rhs |-> rhs, gaps |-> gaps]
      OBVIOUS
    <3> HIDE DEF a, b, plain
    <3>3. Rotated(plain) = [lhs |-> rule.lhs, rhs |-> a, gaps |-> b]
      BY <3>1, <3>2
    <3> QED BY <3>3 DEF Triple
  <2> QED BY <2>1, <2>2, <2>3, <2>5, <2>6, <1>3
<1>6. CASE ~(rule.tail /\ Len(rhs) >= 2 /\ Last(rhs) = rule.lhs)
  <2>1. Production(g, rule, alternative) = plain
    BY <1>4, <1>6
  <2>2. plain = Triple(plain.lhs, plain.rhs, plain.gaps)
    BY DEF Triple
  <2> QED BY <2>1, <2>2, <1>2, <1>3
<1> QED BY <1>5, <1>6

RuleNamesOf(g) == {rule.lhs : rule \in Range(g.rules)}

GoodProductions(ps) ==
    /\ \E n \in Nat : DOMAIN ps = 0..n
    /\ \A id \in DOMAIN ps : ps[id].lhs \in STRING /\ ps[id].rhs \in Seq(STRING)

LEMMA PreparedAreGood ==
    ASSUME NEW g, IsGrammar(g)
    PROVE  /\ GoodProductions(PrepareProductions(g))
           /\ PrepareProductions(g)[0].lhs = Augmented
           /\ PrepareProductions(g)[0].rhs = <<Main>> /\ PrepareProductions(g)[0].gaps = {}
           /\ \A id \in DOMAIN PrepareProductions(g) :
                 LET p == PrepareProductions(g)[id]
                 IN  /\ p = Triple(p.lhs, p.rhs, p.gaps)
                     /\ id # 0 => p.lhs \in RuleNamesOf(g)
<1> DEFINE kept == ProperRules(g)
           Own == {rule \in RuleType : rule \in Range(g.rules)}
           of(rule) == [a \in DOMAIN rule.alts |-> Production(g, rule, rule.alts[a])]
           seqs == [r \in DOMAIN kept |-> of(kept[r])]
           rows == FlattenSeq(seqs)
           Good(p) == /\ p.lhs \in STRING /\ p.rhs \in Seq(STRING) /\ p.lhs \in RuleNamesOf(g)
                      /\ p = Triple(p.lhs, p.rhs, p.gaps)
           S == {p \in {Production(g, x[1], x[2]) : x \in RuleType \X Seq(MemberType)} : Good(p)}
<1>1. kept \in Seq(Own)
  <2>1. g.rules \in Seq(RuleType)
    BY DEF IsGrammar, RuleType, MemberType
  <2>2. g.rules \in Seq(Own)
    <3>1. DOMAIN g.rules = 1..Len(g.rules) /\ Len(g.rules) \in Nat
      BY <2>1
    <3>2. ASSUME NEW r \in DOMAIN g.rules PROVE g.rules[r] \in Own
      <4>1. g.rules[r] \in RuleType
        BY <2>1
      <4>2. g.rules[r] \in Range(g.rules)
        BY DEF Range
      <4> QED BY <4>1, <4>2
    <3> HIDE DEF Own
    <3> QED BY <2>1, <3>1, <3>2
  <2> HIDE DEF Own
  <2> QED BY <2>2, RulesKept
<1>2. ASSUME NEW rule \in Own PROVE of(rule) \in Seq(S)
  <2>1. rule.alts \in Seq(Seq(MemberType)) /\ rule \in RuleType /\ rule.lhs \in RuleNamesOf(g)
    BY DEF RuleType, RuleNamesOf
  <2>2. ASSUME NEW a \in DOMAIN rule.alts PROVE Production(g, rule, rule.alts[a]) \in S
    <3>1. rule.alts[a] \in Seq(MemberType)
      BY <2>1
    <3>2. Good(Production(g, rule, rule.alts[a]))
      BY <2>1, <3>1, ProductionIsGood
    <3>3. <<rule, rule.alts[a]>> \in RuleType \X Seq(MemberType)
      BY <2>1, <3>1
    <3> HIDE DEF Good
    <3> QED BY <3>2, <3>3
  <2>3. DOMAIN rule.alts = 1..Len(rule.alts) /\ Len(rule.alts) \in Nat
    BY <2>1
  <2> HIDE DEF S
  <2> QED BY <2>2, <2>3
<1>3. seqs \in [1..Len(kept) -> Seq(S)] /\ Len(kept) \in Nat
  <2>1. DOMAIN kept = 1..Len(kept) /\ Len(kept) \in Nat /\ \A r \in DOMAIN kept : kept[r] \in Own
    <3> HIDE DEF kept, Own
    <3> QED BY <1>1
  <2>2. \A r \in DOMAIN kept : of(kept[r]) \in Seq(S)
    <3> HIDE DEF S, kept, of, Own
    <3> QED BY <2>1, <1>2
  <2> HIDE DEF kept, of, S
  <2> QED BY <2>1, <2>2
<1>4. rows \in Seq(S)
  <2> HIDE DEF kept, seqs, S
  <2> QED BY <1>3, Flattened
<1>5. Len(rows) \in Nat /\ \A id \in 1..Len(rows) : Good(rows[id])
  <2>1. \A p \in S : Good(p)
    OBVIOUS
  <2>2. Len(rows) \in Nat /\ \A id \in 1..Len(rows) : rows[id] \in S
    <3> HIDE DEF rows, S
    <3> QED BY <1>4
  <2> HIDE DEF rows, S, Good
  <2> QED BY <2>1, <2>2
<1>6. PrepareProductions(g) =
        [id \in 0..Len(rows) |->
            IF id = 0 THEN [lhs |-> Augmented, rhs |-> <<Main>>, gaps |-> {}] ELSE rows[id]]
  BY Zenon DEF PrepareProductions
<1> DEFINE ps == PrepareProductions(g)
<1> HIDE DEF rows
<1>7. DOMAIN ps = 0..Len(rows) /\ ps[0] = [lhs |-> Augmented, rhs |-> <<Main>>, gaps |-> {}]
      /\ \A id \in 1..Len(rows) : ps[id] = rows[id]
  BY <1>5, <1>6
<1>8. \A id \in DOMAIN ps : /\ ps[id].lhs \in STRING /\ ps[id].rhs \in Seq(STRING)
                            /\ ps[id] = Triple(ps[id].lhs, ps[id].rhs, ps[id].gaps)
                            /\ id # 0 => ps[id].lhs \in RuleNamesOf(g)
  <2>1. ps[0].lhs \in STRING /\ ps[0].rhs \in Seq(STRING) /\ ps[0] = Triple(ps[0].lhs, ps[0].rhs, ps[0].gaps)
    <3>1. Augmented \in STRING /\ Main \in STRING
      BY NamesAssumption
    <3>2. ps[0].lhs = Augmented /\ ps[0].rhs = <<Main>> /\ ps[0] = Triple(ps[0].lhs, ps[0].rhs, ps[0].gaps)
      <4> HIDE DEF ps
      <4> QED BY <1>7 DEF Triple
    <3> HIDE DEF ps
    <3> QED BY <3>1, <3>2
  <2>2. \A id \in 1..Len(rows) : Good(ps[id])
    <3> HIDE DEF ps, Good
    <3> QED BY <1>5, <1>7
  <2>3. \A id \in DOMAIN ps : id = 0 \/ id \in 1..Len(rows)
    <3> HIDE DEF ps
    <3> QED BY <1>5, <1>7
  <2> HIDE DEF ps
  <2> QED BY <2>1, <2>2, <2>3
<1> HIDE DEF ps
<1>9. GoodProductions(ps)
  BY <1>5, <1>7, <1>8 DEF GoodProductions
<1>10. ps[0].lhs = Augmented /\ ps[0].rhs = <<Main>> /\ ps[0].gaps = {}
  BY <1>7
<1> QED BY <1>8, <1>9, <1>10 DEF ps

\* The items of the productions: a production and a place in it.
CoresOf(ps) == {c \in (DOMAIN ps) \X Nat : c[2] <= Len(ps[c[1]].rhs)}

LEMMA OrderOfItems ==
    ASSUME NEW ps, GoodProductions(ps), NEW k, NEW first
    PROVE  /\ Analysis(ps, k, first).order \in Seq(CoresOf(ps))
           /\ Range(Analysis(ps, k, first).order) = CoresOf(ps)
<1>1. PICK n \in Nat : DOMAIN ps = 0..n
  BY DEF GoodProductions
<1>2. Cardinality(0..n) = n + 1
  BY FS_Interval
<1> DEFINE m == n + 1
           seqs == [i \in DOMAIN InOrder(ps) |-> [d \in 1..(Len(ps[i - 1].rhs) + 1) |-> <<i - 1, d - 1>>]]
<1>3. InOrder(ps) = [i \in 1..m |-> i - 1]
  BY <1>1, <1>2 DEF InOrder
<1>4. DOMAIN seqs = 1..m /\ m \in Nat
  BY <1>3
<1>5. ASSUME NEW i \in 1..m
      PROVE  /\ i - 1 \in DOMAIN ps /\ Len(ps[i - 1].rhs) \in Nat
             /\ seqs[i] = [d \in 1..(Len(ps[i - 1].rhs) + 1) |-> <<i - 1, d - 1>>]
             /\ seqs[i] \in Seq(CoresOf(ps))
  <2>1. i - 1 \in DOMAIN ps /\ Len(ps[i - 1].rhs) \in Nat
    BY <1>1 DEF GoodProductions
  <2>2. seqs[i] = [d \in 1..(Len(ps[i - 1].rhs) + 1) |-> <<i - 1, d - 1>>]
    BY <1>3
  <2>3. ASSUME NEW d \in 1..(Len(ps[i - 1].rhs) + 1) PROVE <<i - 1, d - 1>> \in CoresOf(ps)
    BY <2>1 DEF CoresOf
  <2> HIDE DEF seqs
  <2> QED BY <2>1, <2>2, <2>3
<1>6. seqs \in [1..m -> Seq(CoresOf(ps))]
  <2> HIDE DEF m
  <2> QED BY <1>4, <1>5
<1>7. Analysis(ps, k, first).order = FlattenSeq(seqs)
  BY DEF Analysis
<1>8. /\ FlattenSeq(seqs) \in Seq(CoresOf(ps))
      /\ \A e : e \in Range(FlattenSeq(seqs)) <=> \E i \in 1..m : e \in Range(seqs[i])
  <2> HIDE DEF seqs, m
  <2> QED BY <1>4, <1>6, Flattened
<1>9. ASSUME NEW c \in CoresOf(ps) PROVE \E i \in 1..m : c \in Range(seqs[i])
  <2>1. c = <<c[1], c[2]>> /\ c[1] \in 0..n /\ c[2] \in Nat /\ c[2] <= Len(ps[c[1]].rhs)
    BY <1>1 DEF CoresOf
  <2>2. c[1] + 1 \in 1..m /\ (c[1] + 1) - 1 = c[1]
    BY <2>1
  <2>3. Len(ps[c[1]].rhs) \in Nat /\ seqs[c[1] + 1] = [d \in 1..(Len(ps[c[1]].rhs) + 1) |-> <<c[1], d - 1>>]
    <3> HIDE DEF seqs, m
    <3> QED BY <2>2, <1>5
  <2>4. c[2] + 1 \in 1..(Len(ps[c[1]].rhs) + 1) /\ (c[2] + 1) - 1 = c[2]
    BY <2>1, <2>3
  <2> HIDE DEF seqs, m
  <2>5. seqs[c[1] + 1][c[2] + 1] = c /\ c[2] + 1 \in DOMAIN seqs[c[1] + 1]
    BY <2>1, <2>3, <2>4
  <2>6. c \in Range(seqs[c[1] + 1])
    BY <2>5 DEF Range
  <2> QED BY <2>2, <2>6
<1>10. ASSUME NEW i \in 1..m, NEW c \in Range(seqs[i]) PROVE c \in CoresOf(ps)
  <2>1. seqs[i] \in Seq(CoresOf(ps))
    BY <1>5
  <2> HIDE DEF seqs, m
  <2>2. PICK d \in DOMAIN seqs[i] : c = seqs[i][d]
    BY DEF Range
  <2> QED BY <2>1, <2>2
<1> HIDE DEF seqs, m
<1> QED BY <1>7, <1>8, <1>9, <1>10

-----------------------------------------------------------------------------
(* The marked members are places of the productions they are numbered like. *)

MarksOf(g, rule, a) ==
    IF rule.tail THEN {}
    ELSE {i \in DOMAIN WithoutTrivia(g, rule.alts[a]) : WithoutTrivia(g, rule.alts[a])[i].marked}

\* Marks that are places of a production, which names no reserved rule.
MarksFit(production, marks) ==
    marks \subseteq DOMAIN production.rhs /\ Augmented \notin Range(production.rhs)

JoinOf(c, a, b) ==
    /\ Len(c) = Len(a) + Len(b) /\ Len(a) \in Nat /\ Len(b) \in Nat
    /\ \A i \in 1..Len(a) : c[i] = a[i]
    /\ \A j \in 1..Len(b) : c[Len(a) + j] = b[j]

LEMMA JoinIs ==
    ASSUME NEW S, NEW a \in Seq(S), NEW b \in Seq(S)
    PROVE  a \o b \in Seq(S) /\ JoinOf(a \o b, a, b)
<1>1. a \o b \in Seq(S) /\ Len(a \o b) = Len(a) + Len(b) /\ Len(a) \in Nat /\ Len(b) \in Nat
  OBVIOUS
<1>2. \A i \in 1..Len(a) : (a \o b)[i] = a[i]
  OBVIOUS
<1>3. ASSUME NEW j \in 1..Len(b) PROVE (a \o b)[Len(a) + j] = b[j]
  <2>1. Len(a) + j \in 1..(Len(a) + Len(b)) /\ ~(Len(a) + j <= Len(a)) /\ (Len(a) + j) - Len(a) = j
    BY <1>1
  <2> DEFINE i == Len(a) + j
  <2>2. i \in 1..(Len(a) + Len(b)) /\ ~(i <= Len(a)) /\ i - Len(a) = j
    BY <2>1
  <2> HIDE DEF i
  <2>3. (a \o b)[i] = b[i - Len(a)]
    BY <2>2
  <2> QED BY <2>2, <2>3 DEF i
<1> QED BY <1>1, <1>2, <1>3 DEF JoinOf

LEMMA OneThenRest ==
    ASSUME NEW S, NEW a \in Seq(S), NEW b \in Seq(S), Len(a) = 1
    PROVE  /\ a \o b \in Seq(S) /\ Len(a \o b) = Len(b) + 1 /\ Len(b) \in Nat
           /\ (a \o b)[1] = a[1] /\ \A j \in 1..Len(b) : (a \o b)[j + 1] = b[j]
<1>0. a \o b \in Seq(S) /\ JoinOf(a \o b, a, b)
  BY JoinIs
<1> DEFINE c == a \o b
<1>1. /\ c \in Seq(S) /\ Len(c) = Len(a) + Len(b) /\ Len(a) \in Nat /\ Len(b) \in Nat
      /\ \A i \in 1..Len(a) : c[i] = a[i]
      /\ \A j \in 1..Len(b) : c[Len(a) + j] = b[j]
  <2> HIDE DEF c
  <2>1. c \in Seq(S) /\ JoinOf(c, a, b)
    BY <1>0 DEF c
  <2> QED BY <2>1 DEF JoinOf
<1> HIDE DEF c
<1>2. 1 \in 1..Len(a)
  BY <1>1
<1>3. ASSUME NEW j \in 1..Len(b) PROVE c[j + 1] = b[j]
  <2>1. c[Len(a) + j] = b[j]
    BY <1>1
  <2>2. Len(a) + j = j + 1
    OBVIOUS
  <2> QED BY <2>1, <2>2
<1> QED BY <1>1, <1>2, <1>3 DEF c

LEMMA ProductionHas ==
    ASSUME NEW g, NEW rule \in RuleType, NEW alternative \in Seq(MemberType),
           \A m \in Range(alternative) : m.name # Augmented
    PROVE  /\ DOMAIN Production(g, rule, alternative).rhs = DOMAIN WithoutTrivia(g, alternative)
           /\ Augmented \notin Range(Production(g, rule, alternative).rhs)
<1> DEFINE kept == WithoutTrivia(g, alternative)
           rhs == [i \in DOMAIN kept |-> kept[i].name]
           trivia == {j \in DOMAIN alternative : Trivia(g, alternative[j])}
           before(j) == {i \in 1..(j - 1) : i \notin trivia}
           gaps == {Cardinality(before(j)) : j \in trivia}
           plain == [lhs |-> rule.lhs, rhs |-> rhs, gaps |-> gaps]
           Own == {m \in MemberType : m.name # Augmented}
<1>1. kept \in Seq(Own)
  <2>1. alternative \in Seq(Own)
    <3>1. DOMAIN alternative = 1..Len(alternative) /\ Len(alternative) \in Nat
      OBVIOUS
    <3>2. ASSUME NEW i \in DOMAIN alternative PROVE alternative[i] \in Own
      BY DEF Range
    <3> HIDE DEF Own
    <3> QED BY <3>1, <3>2
  <2> HIDE DEF Own
  <2> QED BY <2>1, MembersKept
<1>2. rhs \in Seq(STRING) /\ DOMAIN rhs = DOMAIN kept /\ \A i \in DOMAIN rhs : rhs[i] # Augmented
  <2>1. DOMAIN kept = 1..Len(kept) /\ Len(kept) \in Nat /\ \A i \in DOMAIN kept : kept[i] \in Own
    <3> HIDE DEF Own, kept
    <3> QED BY <1>1
  <2> HIDE DEF kept
  <2>2. ASSUME NEW i \in DOMAIN kept PROVE kept[i].name \in STRING /\ kept[i].name # Augmented
    BY <2>1 DEF MemberType
  <2> QED BY <2>1, <2>2
<1>3. Production(g, rule, alternative) =
        IF rule.tail /\ Len(rhs) >= 2 /\ Last(rhs) = rule.lhs THEN Rotated(plain) ELSE plain
  BY DEF Production
<1> HIDE DEF rhs, gaps, kept
<1>4. CASE rule.tail /\ Len(rhs) >= 2 /\ Last(rhs) = rule.lhs
  <2>1. Production(g, rule, alternative).rhs = <<Last(rhs)>> \o Front(rhs)
    BY <1>3, <1>4 DEF Rotated
  <2>2. /\ Last(rhs) = rhs[Len(rhs)] /\ Len(rhs) \in Nat /\ Len(rhs) \in DOMAIN rhs
        /\ Front(rhs) = SubSeq(rhs, 1, Len(rhs) - 1)
    BY <1>2, <1>4 DEF Last, Front
  <2> DEFINE a == <<Last(rhs)>>
             b == Front(rhs)
  <2>3. /\ a \in Seq(STRING) /\ Len(a) = 1 /\ a[1] = rhs[Len(rhs)]
        /\ b \in Seq(STRING) /\ Len(b) = Len(rhs) - 1 /\ \A i \in 1..(Len(rhs) - 1) : b[i] = rhs[i]
    <3>1. Last(rhs) \in STRING
      BY <1>2, <2>2
    <3>2. a \in Seq(STRING) /\ Len(a) = 1 /\ a[1] = rhs[Len(rhs)]
      BY <2>2, <3>1
    <3>3. b \in Seq(STRING) /\ Len(b) = Len(rhs) - 1 /\ \A i \in 1..(Len(rhs) - 1) : b[i] = rhs[i]
      BY <1>2, <1>4, <2>2
    <3> QED BY <3>2, <3>3
  <2> HIDE DEF a, b
  <2>40. /\ a \o b \in Seq(STRING) /\ Len(a \o b) = Len(b) + 1 /\ Len(b) \in Nat
         /\ (a \o b)[1] = a[1] /\ \A j \in 1..Len(b) : (a \o b)[j + 1] = b[j]
    BY <2>3, OneThenRest
  <2>4. a \o b \in Seq(STRING) /\ Len(a \o b) = Len(rhs)
    <3>1. (Len(rhs) - 1) + 1 = Len(rhs)
      BY <2>2
    <3> QED BY <2>3, <2>40, <3>1
  <2>5. DOMAIN (a \o b) = DOMAIN rhs
    BY <1>2, <2>4
  <2>6. ASSUME NEW i \in DOMAIN (a \o b) PROVE (a \o b)[i] # Augmented
    <3>1. i \in 1..Len(rhs)
      BY <2>4
    <3>2. CASE i = 1
      <4>1. (a \o b)[i] = rhs[Len(rhs)]
        BY <2>3, <2>40, <3>2
      <4> QED BY <4>1, <1>2, <2>2
    <3>3. CASE i # 1
      <4>1. i - 1 \in 1..(Len(rhs) - 1) /\ i - 1 \in 1..Len(rhs)
        BY <2>2, <3>1, <3>3
      <4>2. (a \o b)[i] = b[i - 1]
        <5>1. i - 1 \in 1..Len(b) /\ (i - 1) + 1 = i
          BY <2>3, <4>1, <3>1, <2>2
        <5> QED BY <5>1, <2>40
      <4>3. i - 1 \in DOMAIN rhs
        BY <1>2, <4>1
      <4> QED BY <4>1, <4>2, <4>3, <1>2, <2>3
    <3> QED BY <3>2, <3>3
  <2>7. Production(g, rule, alternative).rhs = a \o b
    BY <2>1 DEF a, b
  <2> QED BY <2>5, <2>6, <2>7, <1>2 DEF Range, kept
<1>5. CASE ~(rule.tail /\ Len(rhs) >= 2 /\ Last(rhs) = rule.lhs)
  <2>1. Production(g, rule, alternative).rhs = rhs
    BY <1>3, <1>5
  <2> QED BY <2>1, <1>2 DEF Range, kept
<1> QED BY <1>4, <1>5

LEMMA PreparedWithMarks ==
    ASSUME NEW g, IsGrammar(g)
    PROVE  \A id \in DOMAIN PrepareProductions(g) :
              /\ id + 1 \in DOMAIN MarkedMembers(g)
              /\ MarkedMembers(g)[id + 1] \subseteq DOMAIN PrepareProductions(g)[id].rhs
              /\ id # 0 => Augmented \notin Range(PrepareProductions(g)[id].rhs)
<1> DEFINE kept == ProperRules(g)
           Own == {rule \in RuleType : rule \in Range(g.rules)}
           of(rule) == [a \in DOMAIN rule.alts |-> Production(g, rule, rule.alts[a])]
           marks(rule) == [a \in DOMAIN rule.alts |-> MarksOf(g, rule, a)]
           seqs == [r \in DOMAIN kept |-> of(kept[r])]
           tags == [r \in DOMAIN kept |-> marks(kept[r])]
           S == {Production(g, x[1], x[2]) : x \in RuleType \X Seq(MemberType)}
           T == SUBSET Nat
           R == {x \in S \X T : MarksFit(x[1], x[2])}
<1>1. kept \in Seq(Own)
  <2>1. g.rules \in Seq(RuleType)
    BY DEF IsGrammar, RuleType, MemberType
  <2>2. g.rules \in Seq(Own)
    <3>1. DOMAIN g.rules = 1..Len(g.rules) /\ Len(g.rules) \in Nat
      BY <2>1
    <3>2. ASSUME NEW r \in DOMAIN g.rules PROVE g.rules[r] \in Own
      <4>1. g.rules[r] \in RuleType
        BY <2>1
      <4>2. g.rules[r] \in Range(g.rules)
        BY DEF Range
      <4> QED BY <4>1, <4>2
    <3> HIDE DEF Own
    <3> QED BY <2>1, <3>1, <3>2
  <2> HIDE DEF Own
  <2> QED BY <2>2, RulesKept
<1>2. ASSUME NEW rule \in Own, NEW a \in DOMAIN rule.alts
      PROVE  /\ Production(g, rule, rule.alts[a]) \in S /\ MarksOf(g, rule, a) \in T
             /\ MarksFit(Production(g, rule, rule.alts[a]), MarksOf(g, rule, a))
  <2>1. rule.alts \in Seq(Seq(MemberType)) /\ rule \in RuleType
    BY DEF RuleType
  <2>2. rule.alts[a] \in Seq(MemberType)
    BY <2>1
  <2>3. ASSUME NEW m \in Range(rule.alts[a]) PROVE m.name # Augmented
    <3>1. m \in MembersOf(rule)
      BY DEF MembersOf, Range
    <3> QED BY <3>1 DEF IsGrammar
  <2>4. /\ DOMAIN Production(g, rule, rule.alts[a]).rhs = DOMAIN WithoutTrivia(g, rule.alts[a])
        /\ Augmented \notin Range(Production(g, rule, rule.alts[a]).rhs)
    BY <2>1, <2>2, <2>3, ProductionHas
  <2>5. WithoutTrivia(g, rule.alts[a]) \in Seq(MemberType)
    BY <2>2, MembersKept
  <2>6. DOMAIN WithoutTrivia(g, rule.alts[a]) \subseteq Nat
    BY <2>5
  <2>7. MarksOf(g, rule, a) \subseteq DOMAIN WithoutTrivia(g, rule.alts[a])
    BY DEF MarksOf
  <2>8. Production(g, rule, rule.alts[a]) \in S
    <3>1. <<rule, rule.alts[a]>> \in RuleType \X Seq(MemberType)
      BY <2>1, <2>2
    <3> QED BY <3>1
  <2> HIDE DEF S
  <2> QED BY <2>4, <2>6, <2>7, <2>8 DEF MarksFit
<1>3. ASSUME NEW rule \in Own
      PROVE  of(rule) \in Seq(S) /\ marks(rule) \in Seq(T) /\ SameAlong(R, of(rule), marks(rule))
  <2>1. DOMAIN rule.alts = 1..Len(rule.alts) /\ Len(rule.alts) \in Nat
    <3>1. rule.alts \in Seq(Seq(MemberType))
      BY DEF RuleType
    <3> QED BY <3>1
  <2>2. \A a \in DOMAIN rule.alts :
            /\ Production(g, rule, rule.alts[a]) \in S /\ MarksOf(g, rule, a) \in T
            /\ MarksFit(Production(g, rule, rule.alts[a]), MarksOf(g, rule, a))
    BY <1>2
  <2> HIDE DEF S, T
  <2>3. \A a \in DOMAIN rule.alts : <<Production(g, rule, rule.alts[a]), MarksOf(g, rule, a)>> \in R
    BY <2>2
  <2> HIDE DEF R
  <2>4. of(rule) \in Seq(S) /\ marks(rule) \in Seq(T) /\ Len(of(rule)) = Len(rule.alts) /\ Len(marks(rule)) = Len(rule.alts)
    BY <2>1, <2>2
  <2> QED BY <2>1, <2>3, <2>4 DEF SameAlong
<1>4. /\ seqs \in [1..Len(kept) -> Seq(S)] /\ tags \in [1..Len(kept) -> Seq(T)] /\ Len(kept) \in Nat
      /\ \A i \in 1..Len(kept) : SameAlong(R, seqs[i], tags[i])
  <2>1. DOMAIN kept = 1..Len(kept) /\ Len(kept) \in Nat /\ \A r \in DOMAIN kept : kept[r] \in Own
    <3> HIDE DEF kept, Own
    <3> QED BY <1>1
  <2>2. ASSUME NEW r \in DOMAIN kept
        PROVE  /\ seqs[r] = of(kept[r]) /\ tags[r] = marks(kept[r])
               /\ of(kept[r]) \in Seq(S) /\ marks(kept[r]) \in Seq(T) /\ SameAlong(R, of(kept[r]), marks(kept[r]))
    <3>1. kept[r] \in Own
      BY <2>1
    <3> HIDE DEF S, T, R, kept, of, marks, Own
    <3> QED BY <1>3, <3>1
  <2>3. DOMAIN seqs = DOMAIN kept /\ DOMAIN tags = DOMAIN kept
        /\ seqs = [r \in DOMAIN kept |-> seqs[r]] /\ tags = [r \in DOMAIN kept |-> tags[r]]
    OBVIOUS
  <2> HIDE DEF S, T, R, kept, of, marks, Own, seqs, tags
  <2> QED BY <2>1, <2>2, <2>3
<1> DEFINE rows == FlattenSeq(seqs)
           flat == FlattenSeq(tags)
<1>50. rows \in Seq(S) /\ flat \in Seq(T) /\ SameAlong(R, rows, flat)
  <2> DEFINE n == Len(kept)
  <2>1. /\ seqs \in [1..n -> Seq(S)] /\ tags \in [1..n -> Seq(T)] /\ n \in Nat
        /\ \A i \in 1..n : SameAlong(R, seqs[i], tags[i])
    BY <1>4
  <2> HIDE DEF S, T, R, kept, seqs, tags, n
  <2> QED BY <2>1, FlattenedAlike
<1>5. /\ rows \in Seq(S) /\ flat \in Seq(T) /\ Len(rows) = Len(flat)
      /\ \A j \in 1..Len(rows) : <<rows[j], flat[j]>> \in R
  <2> HIDE DEF S, T, R, rows, flat
  <2> QED BY <1>50 DEF SameAlong
<1>6. PrepareProductions(g) =
        [id \in 0..Len(rows) |->
            IF id = 0 THEN [lhs |-> Augmented, rhs |-> <<Main>>, gaps |-> {}] ELSE rows[id]]
  BY Zenon DEF PrepareProductions
<1>7. MarkedMembers(g) = <<{}>> \o flat
  BY Zenon DEF MarkedMembers, MarksOf
<1>8. \A x \in R : MarksFit(x[1], x[2])
  <2> HIDE DEF S, T
  <2> QED OBVIOUS
<1>9. {} \in T
  OBVIOUS
<1> HIDE DEF rows, flat, R, S, T
<1>10. \A j \in 1..Len(rows) : MarksFit(rows[j], flat[j])
  BY <1>5, <1>8
<1>11. /\ <<{}>> \o flat \in Seq(T) /\ Len(<<{}>> \o flat) = Len(rows) + 1
       /\ (<<{}>> \o flat)[1] = {} /\ \A j \in 1..Len(rows) : (<<{}>> \o flat)[j + 1] = flat[j]
  <2>1. <<{}>> \in Seq(T) /\ Len(<<{}>>) = 1 /\ <<{}>>[1] = {}
    BY <1>9
  <2> DEFINE a == <<{}>>
  <2>2. a \in Seq(T) /\ Len(a) = 1 /\ a[1] = {}
    BY <2>1
  <2>3. Len(rows) \in Nat
    BY <1>5
  <2> HIDE DEF a
  <2>31. /\ a \o flat \in Seq(T) /\ Len(a \o flat) = Len(flat) + 1 /\ Len(flat) \in Nat
         /\ (a \o flat)[1] = a[1] /\ \A j \in 1..Len(flat) : (a \o flat)[j + 1] = flat[j]
    BY <1>5, <2>2, OneThenRest
  <2>4. a \o flat \in Seq(T) /\ Len(a \o flat) = Len(rows) + 1 /\ (a \o flat)[1] = {}
    BY <1>5, <2>2, <2>31
  <2>5. \A j \in 1..Len(rows) : (a \o flat)[j + 1] = flat[j]
    BY <1>5, <2>31
  <2> QED BY <2>4, <2>5 DEF a
<1>12. Len(rows) \in Nat
  BY <1>5
<1> DEFINE all == MarkedMembers(g)
<1>13. DOMAIN all = 1..(Len(rows) + 1) /\ all[1] = {} /\ \A j \in 1..Len(rows) : all[j + 1] = flat[j]
  <2>1. all = <<{}>> \o flat
    BY <1>7
  <2> DEFINE b == <<{}>> \o flat
  <2>2. b \in Seq(T) /\ Len(b) = Len(rows) + 1 /\ b[1] = {} /\ \A j \in 1..Len(rows) : b[j + 1] = flat[j]
    BY <1>11
  <2> HIDE DEF all, b
  <2>3. DOMAIN b = 1..(Len(rows) + 1)
    BY <2>2
  <2>4. all = b
    BY <2>1 DEF b
  <2> QED BY <2>2, <2>3, <2>4
<1> HIDE DEF all
<1>14. ASSUME NEW id \in DOMAIN PrepareProductions(g)
       PROVE  /\ id + 1 \in DOMAIN all
              /\ all[id + 1] \subseteq DOMAIN PrepareProductions(g)[id].rhs
              /\ id # 0 => Augmented \notin Range(PrepareProductions(g)[id].rhs)
  <2>1. id \in 0..Len(rows)
    BY <1>6
  <2>2. CASE id = 0
    BY <2>2, <1>13, <1>12
  <2>3. CASE id # 0
    <3>1. id \in 1..Len(rows) /\ PrepareProductions(g)[id] = rows[id]
      BY <1>6, <2>1, <2>3
    <3>2. MarksFit(rows[id], flat[id]) /\ all[id + 1] = flat[id] /\ id + 1 \in DOMAIN all
      BY <1>10, <1>12, <1>13, <3>1
    <3> QED BY <3>1, <3>2 DEF MarksFit
  <2> QED BY <2>2, <2>3
<1> QED BY <1>14 DEF all

-----------------------------------------------------------------------------
(* Finite sets. *)

LEMMA RangeIsFinite ==
    ASSUME NEW f, IsFiniteSet(DOMAIN f), f = [x \in DOMAIN f |-> f[x]]
    PROVE  IsFiniteSet(Range(f))
<1>1. f \in Surjection(DOMAIN f, Range(f))
  BY DEF Surjection, Range
<1> QED BY <1>1, FS_Surjection

LEMMA SequenceIsFinite ==
    ASSUME NEW S, NEW s \in Seq(S)
    PROVE  IsFiniteSet(Range(s))
<1>1. DOMAIN s = 1..Len(s) /\ Len(s) \in Nat /\ s = [i \in DOMAIN s |-> s[i]]
  OBVIOUS
<1>2. IsFiniteSet(1..Len(s))
  <2>1. 1 \in Int /\ Len(s) \in Int
    BY <1>1
  <2> QED BY <2>1, FS_Interval
<1>3. IsFiniteSet(DOMAIN s)
  BY <1>1, <1>2
<1> QED BY <1>1, <1>3, RangeIsFinite

-----------------------------------------------------------------------------
(* Windows of one token. *)

Short(symbols) == {<<>>} \cup {<<s>> : s \in symbols}

SymbolsOf(ps) == {EndOfInput} \cup UNION {Range(ps[id].rhs) : id \in DOMAIN ps}
WindowsOf(ps) == Short(SymbolsOf(ps))

LEMMA OneElement ==
    ASSUME NEW S, NEW s \in S
    PROVE  <<s>> \in Seq(S)
OBVIOUS

LEMMA OneIsSome ==
    ASSUME NEW s
    PROVE  <<s>> # <<>>
<1>1. Len(<<s>>) = 1 /\ Len(<<>>) = 0
  OBVIOUS
<1> QED BY <1>1

LEMMA ShortAreSequences ==
    ASSUME NEW S, NEW w \in Short(S)
    PROVE  w \in Seq(S) /\ (w = <<>> \/ \E s \in S : w = <<s>>)
<1>1. w = <<>> \/ \E s \in S : w = <<s>>
  BY Zenon DEF Short
<1>2. CASE w = <<>>
  BY <1>2
<1>3. ASSUME NEW s \in S, w = <<s>> PROVE w \in Seq(S)
  BY <1>3
<1> QED BY <1>1, <1>2, <1>3

LEMMA TruncatedToOne ==
    ASSUME NEW S, NEW w \in Seq(S)
    PROVE  /\ w = <<>> => Truncate(w, 1) = <<>>
           /\ w # <<>> => Truncate(w, 1) = <<w[1]>>
<1>1. CASE w = <<>>
  BY <1>1 DEF Truncate
<1>2. CASE w # <<>>
  <2>1. Len(w) \in Nat /\ Len(w) >= 1
    BY <1>2
  <2>2. (IF Len(w) < 1 THEN Len(w) ELSE 1) = 1
    BY <2>1
  <2>3. Truncate(w, 1) = SubSeq(w, 1, 1)
    BY <2>2 DEF Truncate
  <2>4. Len(SubSeq(w, 1, 1)) = 1 /\ SubSeq(w, 1, 1)[1] = w[1] /\ SubSeq(w, 1, 1) \in Seq(S)
    BY <2>1
  <2>5. SubSeq(w, 1, 1) = <<w[1]>>
    <3>1. w[1] \in S
      BY <2>1
    <3>2. <<w[1]>> \in Seq(S) /\ Len(<<w[1]>>) = 1 /\ <<w[1]>>[1] = w[1]
      BY <3>1
    <3> DEFINE u == SubSeq(w, 1, 1)
               v == <<w[1]>>
    <3>3. u \in Seq(S) /\ v \in Seq(S) /\ Len(u) = Len(v)
      BY <2>4, <3>2
    <3>4. ASSUME NEW i \in 1..Len(u) PROVE u[i] = v[i]
      BY <2>4, <3>2
    <3> HIDE DEF u, v
    <3>5. u = v
      BY <3>3, <3>4, SeqEqual, Zenon
    <3> QED BY <3>5 DEF u, v
  <2> QED BY <2>3, <2>5, <1>2
<1> QED BY <1>1, <1>2

\* A window of one token is all that is seen of what follows it.
LEMMA TruncatedJoin ==
    ASSUME NEW S, NEW a \in Short(S), NEW T, NEW b \in Seq(T)
    PROVE  Truncate(a \o b, 1) = IF a = <<>> THEN Truncate(b, 1) ELSE a
<1>1. CASE a = <<>>
  <2>1. a \o b = b
    BY <1>1
  <2> QED BY <2>1, <1>1
<1>2. CASE a # <<>>
  <2>1. PICK s \in S : a = <<s>>
    BY <1>2, ShortAreSequences
  <2>2. a \in Seq(S \cup T) /\ b \in Seq(S \cup T)
    BY <2>1
  <2>3. a \o b \in Seq(S \cup T) /\ a \o b # <<>> /\ (a \o b)[1] = s
    BY <2>1, <2>2
  <2>4. Truncate(a \o b, 1) = <<s>>
    BY <2>3, TruncatedToOne
  <2> QED BY <2>1, <2>4, <1>2
<1> QED BY <1>1, <1>2

LEMMA TruncatedShort ==
    ASSUME NEW S, NEW a \in Short(S)
    PROVE  Truncate(a, 1) = a
<1>1. a \in Seq(S) /\ (a = <<>> \/ \E s \in S : a = <<s>>)
  BY ShortAreSequences
<1>2. a # <<>> => a = <<a[1]>>
  BY <1>1
<1> QED BY <1>1, <1>2, TruncatedToOne

LEMMA ConcatenationsOfShort ==
    ASSUME NEW S, NEW A, A \subseteq Short(S), NEW B, B \subseteq Short(S)
    PROVE  /\ Concatenate(A, B, 1) = {IF x[1] = <<>> THEN x[2] ELSE x[1] : x \in A \X B}
           /\ Concatenate(A, B, 1) \subseteq Short(S)
<1>1. ASSUME NEW x \in A \X B PROVE Truncate(x[1] \o x[2], 1) = IF x[1] = <<>> THEN x[2] ELSE x[1]
  <2>1. x[1] \in Short(S) /\ x[2] \in Short(S)
    OBVIOUS
  <2>2. x[2] \in Seq(S) /\ Truncate(x[2], 1) = x[2]
    BY <2>1, ShortAreSequences, TruncatedShort
  <2> QED BY <2>1, <2>2, TruncatedJoin
<1>2. Concatenate(A, B, 1) = {IF x[1] = <<>> THEN x[2] ELSE x[1] : x \in A \X B}
  BY <1>1 DEF Concatenate
<1> QED BY <1>2

LEMMA ShortIsFinite ==
    ASSUME NEW S, IsFiniteSet(S)
    PROVE  IsFiniteSet(Short(S))
<1> DEFINE singles == [s \in S |-> <<s>>]
<1>1. IsFiniteSet(Range(singles))
  <2>1. DOMAIN singles = S
    OBVIOUS
  <2> QED BY <2>1, RangeIsFinite
<1>2. Short(S) = {<<>>} \cup Range(singles)
  BY DEF Short, Range
<1>3. IsFiniteSet({<<>>})
  BY FS_Singleton
<1> HIDE DEF singles
<1>4. IsFiniteSet({<<>>} \cup Range(singles))
  BY <1>1, <1>3, FS_Union
<1> QED BY <1>2, <1>4

LEMMA SymbolsAreFinite ==
    ASSUME NEW ps, GoodProductions(ps)
    PROVE  IsFiniteSet(SymbolsOf(ps)) /\ IsFiniteSet(WindowsOf(ps)) /\ SymbolsOf(ps) \subseteq STRING
<1>1. PICK n \in Nat : DOMAIN ps = 0..n
  BY DEF GoodProductions
<1> DEFINE ranges == [id \in 0..n |-> Range(ps[id].rhs)]
<1>2. IsFiniteSet(0..n)
  BY FS_Interval
<1>3. IsFiniteSet(Range(ranges))
  BY <1>2, RangeIsFinite
<1>4. ASSUME NEW T \in Range(ranges) PROVE IsFiniteSet(T) /\ T \subseteq STRING
  <2>1. PICK id \in 0..n : T = Range(ps[id].rhs)
    BY DEF Range
  <2>2. ps[id].rhs \in Seq(STRING)
    BY <1>1 DEF GoodProductions
  <2>3. IsFiniteSet(Range(ps[id].rhs))
    BY <2>2, SequenceIsFinite
  <2>4. Range(ps[id].rhs) \subseteq STRING
    BY <2>2, RangeOfSeq
  <2> QED BY <2>1, <2>3, <2>4
<1>5. IsFiniteSet(UNION Range(ranges))
  BY <1>3, <1>4, FS_UNION
<1>6. SymbolsOf(ps) = {EndOfInput} \cup UNION Range(ranges)
  BY <1>1 DEF SymbolsOf, Range
<1>7. IsFiniteSet(SymbolsOf(ps))
  <2>1. IsFiniteSet({EndOfInput})
    BY FS_Singleton
  <2> HIDE DEF ranges
  <2>2. IsFiniteSet({EndOfInput} \cup UNION Range(ranges))
    BY <1>5, <2>1, FS_Union
  <2> QED BY <1>6, <2>2
<1>8. IsFiniteSet(WindowsOf(ps))
  BY <1>7, ShortIsFinite DEF WindowsOf
<1>9. SymbolsOf(ps) \subseteq STRING
  BY <1>4, <1>6, NamesAssumption
<1> QED BY <1>7, <1>8, <1>9

-----------------------------------------------------------------------------
(* The numbers of the merged states. *)

\* The states none of an earlier number has the cores of.
FirstStates(states) ==
    {i \in DOMAIN states : \A j \in 1..(i - 1) : states[j].cores # states[i].cores}

Before(states, i) == {j \in FirstStates(states) : j < i}

\* The first of the states with the cores of this one.
LEMMA FirstOfAState ==
    ASSUME NEW S, NEW states \in Seq(S), NEW i \in DOMAIN states
    PROVE  \E f \in FirstStates(states) : states[f].cores = states[i].cores
<1> DEFINE Like == {j \in DOMAIN states : states[j].cores = states[i].cores}
<1>1. DOMAIN states = 1..Len(states) /\ Len(states) \in Nat
  OBVIOUS
<1>2. Like \subseteq Nat /\ Like # {}
  BY <1>1
<1>3. PICK f \in Like : \A j \in Like : f <= j
  <2> HIDE DEF Like
  <2> QED BY <1>2, HasLeast
<1>4. f \in DOMAIN states /\ f \in Nat /\ states[f].cores = states[i].cores
  BY <1>1, <1>3
<1>5. ASSUME NEW j \in 1..(f - 1) PROVE states[j].cores # states[f].cores
  <2>1. j \in DOMAIN states /\ ~(f <= j)
    BY <1>1, <1>4
  <2> QED BY <2>1, <1>3, <1>4
<1>6. f \in FirstStates(states)
  BY <1>4, <1>5 DEF FirstStates
<1> QED BY <1>4, <1>6

LEMMA NumberOfAState ==
    ASSUME NEW c, NEW S, c.states \in Seq(S), NEW state, state + 1 \in DOMAIN c.states
    PROVE  \E f \in FirstStates(c.states) :
              /\ c.states[f].cores = c.states[state + 1].cores
              /\ MergedNumber(c, state) = Cardinality(Before(c.states, f))
<1> DEFINE firsts == {i \in DOMAIN c.states :
                         \A j \in 1..(i - 1) : c.states[j].cores # c.states[i].cores}
           mine == CHOOSE i \in firsts : c.states[i].cores = c.states[state + 1].cores
<1>1. firsts = FirstStates(c.states)
  BY DEF FirstStates
<1>2. \E f \in firsts : c.states[f].cores = c.states[state + 1].cores
  <2> HIDE DEF firsts
  <2> QED BY <1>1, FirstOfAState
<1>3. mine \in firsts /\ c.states[mine].cores = c.states[state + 1].cores
  <2> HIDE DEF firsts
  <2> QED BY <1>2
<1>4. MergedNumber(c, state) = Cardinality({i \in firsts : i < mine})
  BY Zenon DEF MergedNumber
<1>5. {i \in firsts : i < mine} = Before(c.states, mine)
  <2> HIDE DEF firsts, mine
  <2> QED BY <1>1 DEF Before
<1> HIDE DEF firsts, mine
<1> QED BY <1>1, <1>3, <1>4, <1>5

\* The first states are as many as the merged ones, and numbered in order.
LEMMA NumbersGrow ==
    ASSUME NEW S, NEW states \in Seq(S), NEW f \in FirstStates(states)
    PROVE  /\ IsFiniteSet(FirstStates(states)) /\ f \in Nat
           /\ Cardinality(Before(states, f)) \in 0..(Cardinality(FirstStates(states)) - 1)
           /\ \A g \in FirstStates(states) :
                 f < g => Cardinality(Before(states, f)) < Cardinality(Before(states, g))
<1>1. DOMAIN states = 1..Len(states) /\ Len(states) \in Nat
  OBVIOUS
<1>2. IsFiniteSet(1..Len(states))
  <2>1. 1 \in Int /\ Len(states) \in Int
    BY <1>1
  <2> QED BY <2>1, FS_Interval
<1>3. IsFiniteSet(FirstStates(states)) /\ FirstStates(states) \subseteq Nat
  <2>1. FirstStates(states) \subseteq 1..Len(states)
    BY <1>1 DEF FirstStates
  <2>2. IsFiniteSet(FirstStates(states))
    BY <2>1, <1>2, FS_Subset
  <2> QED BY <2>1, <2>2
<1>4. ASSUME NEW A, NEW B, A \subseteq B, IsFiniteSet(B), NEW x \in B, x \notin A
      PROVE  Cardinality(A) < Cardinality(B) /\ Cardinality(A) \in Nat /\ Cardinality(B) \in Nat
  <2>1. IsFiniteSet(A) /\ Cardinality(A) <= Cardinality(B) /\ Cardinality(A) # Cardinality(B)
    <3>1. A \in SUBSET B /\ A # B
      BY <1>4
    <3> QED BY <3>1, <1>4, FS_Subset
  <2> QED BY <2>1, <1>4, FS_CardinalityType
<1>5. Before(states, f) \subseteq FirstStates(states) /\ f \notin Before(states, f)
  BY <1>3 DEF Before
<1>6. Cardinality(Before(states, f)) \in 0..(Cardinality(FirstStates(states)) - 1)
  <2>1. /\ Cardinality(Before(states, f)) < Cardinality(FirstStates(states))
        /\ Cardinality(Before(states, f)) \in Nat /\ Cardinality(FirstStates(states)) \in Nat
    BY <1>3, <1>4, <1>5
  <2> QED BY <2>1
<1>7. ASSUME NEW g \in FirstStates(states), f < g
      PROVE  Cardinality(Before(states, f)) < Cardinality(Before(states, g))
  <2>1. /\ Before(states, f) \subseteq Before(states, g) /\ f \in Before(states, g)
        /\ Before(states, g) \subseteq FirstStates(states)
    <3>1. f \in Nat /\ g \in Nat /\ \A j \in FirstStates(states) : j \in Nat
      BY <1>3
    <3>2. \A j \in FirstStates(states) : j < f => j < g
      BY <3>1, <1>7
    <3> QED BY <3>2, <1>7 DEF Before
  <2>2. IsFiniteSet(Before(states, g))
    BY <2>1, <1>3, FS_Subset
  <2> QED BY <2>1, <2>2, <1>4, <1>5
<1> QED BY <1>3, <1>6, <1>7

\* The canonical states of a merged one.
NumbersOf(c) == [i \in DOMAIN c.states |-> MergedNumber(c, i - 1)]

MergedPart(c, n) ==
    [cores |-> UNION {part.cores : part \in {c.states[i] : i \in {j \in DOMAIN NumbersOf(c) : NumbersOf(c)[j] = n}}},
     windows |-> UNION {part.windows : part \in {c.states[i] : i \in {j \in DOMAIN NumbersOf(c) : NumbersOf(c)[j] = n}}}]

LEMMA MergeIs ==
    ASSUME NEW c
    PROVE  MergeLR0Cores(c) = [states |-> [i \in 1..Cardinality(Range(NumbersOf(c))) |-> MergedPart(c, i - 1)],
                               moves |-> MergedMoves(c)]
BY Zenon DEF MergeLR0Cores, NumbersOf, MergedPart

\* Two states have the same number just when they have the same cores, and the
\* numbers are those from 0 on.
LEMMA NumbersOfStates ==
    ASSUME NEW c, NEW S, c.states \in Seq(S)
    PROVE  /\ IsFiniteSet(Range(NumbersOf(c)))
           /\ Range(NumbersOf(c)) = 0..(Cardinality(Range(NumbersOf(c))) - 1)
           /\ \A i, j \in DOMAIN c.states :
                 NumbersOf(c)[i] = NumbersOf(c)[j] <=> c.states[i].cores = c.states[j].cores
<1> DEFINE Firsts == FirstStates(c.states)
           num(f) == Cardinality(Before(c.states, f))
<1>1. DOMAIN c.states = 1..Len(c.states) /\ Len(c.states) \in Nat /\ DOMAIN NumbersOf(c) = DOMAIN c.states
  BY DEF NumbersOf
<1>2. ASSUME NEW i \in DOMAIN c.states
      PROVE  \E f \in Firsts : c.states[f].cores = c.states[i].cores /\ NumbersOf(c)[i] = num(f)
  <2>1. (i - 1) + 1 = i /\ NumbersOf(c)[i] = MergedNumber(c, i - 1)
    BY <1>1 DEF NumbersOf
  <2> QED BY <2>1, NumberOfAState
<1>3. ASSUME NEW f \in Firsts
      PROVE  f \in DOMAIN c.states /\ f \in Nat /\ num(f) \in 0..(Cardinality(Firsts) - 1)
  BY NumbersGrow DEF FirstStates
<1>4. ASSUME NEW f \in Firsts, NEW g \in Firsts
      PROVE  /\ num(f) = num(g) => f = g
             /\ c.states[f].cores = c.states[g].cores => f = g
  <2>1. f \in Nat /\ g \in Nat
    BY <1>3
  <2>2. f < g => num(f) < num(g)
    BY NumbersGrow
  <2>3. g < f => num(g) < num(f)
    BY NumbersGrow
  <2>4. num(f) \in Nat /\ num(g) \in Nat
    <3>1. num(f) \in 0..(Cardinality(Firsts) - 1) /\ num(g) \in 0..(Cardinality(Firsts) - 1)
      BY <1>3
    <3> HIDE DEF num, Firsts
    <3> QED BY <3>1
  <2>5. num(f) = num(g) => f = g
    <3> HIDE DEF num, Firsts
    <3> QED BY <2>1, <2>2, <2>3, <2>4
  <2>6. f < g => c.states[f].cores # c.states[g].cores
    <3>1. f < g => f \in 1..(g - 1)
      BY <2>1, <1>1, <1>3
    <3>2. \A j \in 1..(g - 1) : c.states[j].cores # c.states[g].cores
      BY DEF FirstStates
    <3> QED BY <3>1, <3>2
  <2>7. g < f => c.states[f].cores # c.states[g].cores
    <3>1. g < f => g \in 1..(f - 1)
      BY <2>1, <1>1, <1>3
    <3>2. \A j \in 1..(f - 1) : c.states[j].cores # c.states[f].cores
      BY DEF FirstStates
    <3> QED BY <3>1, <3>2
  <2> HIDE DEF num, Firsts
  <2> QED BY <2>1, <2>5, <2>6, <2>7
<1>5. IsFiniteSet(Firsts)
  <2>1. CASE Firsts = {}
    BY <2>1, FS_EmptySet
  <2>2. CASE Firsts # {}
    BY <2>2, NumbersGrow
  <2> QED BY <2>1, <2>2
<1>6. ASSUME NEW f \in Firsts PROVE NumbersOf(c)[f] = num(f)
  <2>1. PICK g \in Firsts : c.states[g].cores = c.states[f].cores /\ NumbersOf(c)[f] = num(g)
    BY <1>2, <1>3
  <2> QED BY <2>1, <1>4
<1> HIDE DEF num, Firsts
<1> DEFINE of == [f \in Firsts |-> num(f)]
           R == Range(NumbersOf(c))
<1>7. R = Range(of)
  <2>1. ASSUME NEW n \in R PROVE n \in Range(of)
    <3>1. PICK i \in DOMAIN c.states : n = NumbersOf(c)[i]
      BY <1>1 DEF Range
    <3>2. PICK f \in Firsts : NumbersOf(c)[i] = num(f)
      BY <1>2
    <3> QED BY <3>1, <3>2 DEF Range
  <2>2. ASSUME NEW n \in Range(of) PROVE n \in R
    <3>1. PICK f \in Firsts : n = num(f)
      BY DEF Range
    <3> QED BY <3>1, <1>1, <1>3, <1>6 DEF Range
  <2> HIDE DEF of, R
  <2> QED BY <2>1, <2>2
<1>8. IsFiniteSet(R) /\ Cardinality(R) = Cardinality(Firsts)
  <2>1. of \in Bijection(Firsts, R)
    <3>1. of \in [Firsts -> R]
      BY <1>7 DEF Range
    <3>2. \A f, g \in Firsts : of[f] = of[g] => f = g
      BY <1>4
    <3>3. \A n \in R : \E f \in Firsts : of[f] = n
      <4> HIDE DEF R
      <4> QED BY <1>7 DEF Range
    <3> HIDE DEF of, R
    <3> QED BY <3>1, <3>2, <3>3 DEF Bijection, Injection, Surjection, IsInjective
  <2> HIDE DEF of, R
  <2>2. ExistsBijection(Firsts, R)
    BY <2>1 DEF ExistsBijection
  <2> QED BY <2>2, <1>5, FS_Bijection
<1>9. Cardinality(Firsts) \in Nat
  BY <1>5, FS_CardinalityType
<1>10. R \subseteq 0..(Cardinality(Firsts) - 1)
  <2>1. ASSUME NEW n \in Range(of) PROVE n \in 0..(Cardinality(Firsts) - 1)
    <3>1. PICK f \in Firsts : n = num(f)
      BY DEF Range
    <3> QED BY <3>1, <1>3
  <2> HIDE DEF of, R
  <2> QED BY <2>1, <1>7
<1>11. R = 0..(Cardinality(Firsts) - 1)
  <2>1. IsFiniteSet(0..(Cardinality(Firsts) - 1)) /\ Cardinality(0..(Cardinality(Firsts) - 1)) = Cardinality(Firsts)
    <3>1. 0 \in Int /\ Cardinality(Firsts) - 1 \in Int
      BY <1>9
    <3>2. /\ IsFiniteSet(0..(Cardinality(Firsts) - 1))
          /\ Cardinality(0..(Cardinality(Firsts) - 1)) = IF 0 > Cardinality(Firsts) - 1 THEN 0 ELSE (Cardinality(Firsts) - 1) - 0 + 1
      BY <3>1, FS_Interval
    <3> QED BY <3>2, <1>9
  <2> DEFINE I == 0..(Cardinality(Firsts) - 1)
  <2>2. R \in SUBSET I /\ IsFiniteSet(I) /\ Cardinality(R) = Cardinality(I)
    BY <1>8, <1>10, <2>1
  <2> HIDE DEF R, I
  <2>3. R = I
    BY <2>2, FS_Subset
  <2> QED BY <2>3 DEF I
<1>12. ASSUME NEW i \in DOMAIN c.states, NEW j \in DOMAIN c.states
       PROVE  NumbersOf(c)[i] = NumbersOf(c)[j] <=> c.states[i].cores = c.states[j].cores
  <2>1. PICK f \in Firsts : c.states[f].cores = c.states[i].cores /\ NumbersOf(c)[i] = num(f)
    BY <1>2
  <2>2. PICK g \in Firsts : c.states[g].cores = c.states[j].cores /\ NumbersOf(c)[j] = num(g)
    BY <1>2
  <2> QED BY <2>1, <2>2, <1>4
<1> HIDE DEF R, of
<1>13. /\ IsFiniteSet(R) /\ R = 0..(Cardinality(R) - 1)
       /\ \A i, j \in DOMAIN c.states :
                 NumbersOf(c)[i] = NumbersOf(c)[j] <=> c.states[i].cores = c.states[j].cores
  BY <1>8, <1>11, <1>12
<1> QED BY <1>13 DEF R

\* The transitions lead between states there are.
MovesWithin(c) ==
    \A move \in c.moves : move.from \in 0..(Len(c.states) - 1) /\ move.to \in 0..(Len(c.states) - 1)

IsSequence(s) == \E S : s \in Seq(S)

LEMMA MergeStaysWithin ==
    ASSUME NEW c, IsSequence(c.states), MovesWithin(c)
    PROVE  IsSequence(MergeLR0Cores(c).states) /\ MovesWithin(MergeLR0Cores(c))
<1>1. PICK S : c.states \in Seq(S)
  BY DEF IsSequence
<1> DEFINE n == Cardinality(Range(NumbersOf(c)))
           merged == [i \in 1..n |-> MergedPart(c, i - 1)]
<1>2. IsFiniteSet(Range(NumbersOf(c))) /\ Range(NumbersOf(c)) = 0..(n - 1)
  BY <1>1, NumbersOfStates
<1>3. n \in Nat
  BY <1>2, FS_CardinalityType
<1>4. MergeLR0Cores(c).states = merged /\ MergeLR0Cores(c).moves = MergedMoves(c)
  BY MergeIs
<1> HIDE DEF n
<1>5. merged \in Seq(Range(merged)) /\ Len(merged) = n
  <2>1. merged \in [1..n -> Range(merged)]
    BY DEF Range
  <2> HIDE DEF merged
  <2> QED BY <2>1, <1>3
<1>6. ASSUME NEW s \in 0..(Len(c.states) - 1) PROVE MergedNumber(c, s) \in 0..(n - 1)
  <2>1. s + 1 \in DOMAIN c.states /\ (s + 1) - 1 = s
    BY <1>1
  <2>2. NumbersOf(c)[s + 1] = MergedNumber(c, s) /\ DOMAIN NumbersOf(c) = DOMAIN c.states
    BY <2>1 DEF NumbersOf
  <2>3. MergedNumber(c, s) \in Range(NumbersOf(c))
    BY <2>1, <2>2 DEF Range
  <2> QED BY <2>3, <1>2
<1>7. ASSUME NEW move \in MergedMoves(c) PROVE move.from \in 0..(n - 1) /\ move.to \in 0..(n - 1)
  <2>1. PICK m \in c.moves : move = [from |-> MergedNumber(c, m.from), symbol |-> m.symbol,
                                     to |-> MergedNumber(c, m.to)]
    BY DEF MergedMoves
  <2>2. m.from \in 0..(Len(c.states) - 1) /\ m.to \in 0..(Len(c.states) - 1)
    BY DEF MovesWithin
  <2> QED BY <2>1, <2>2, <1>6
<1> HIDE DEF merged
<1>8. IsSequence(MergeLR0Cores(c).states) /\ Len(MergeLR0Cores(c).states) = n
  BY <1>4, <1>5 DEF IsSequence
<1> QED BY <1>4, <1>7, <1>8 DEF MovesWithin

LEMMA AddingStaysWithin ==
    ASSUME NEW c, IsSequence(c.states), MovesWithin(c), NEW from \in 0..(Len(c.states) - 1),
           NEW symbol, NEW items
    PROVE  /\ IsSequence(AddTransition(c, from, symbol, items).states)
           /\ MovesWithin(AddTransition(c, from, symbol, items))
           /\ Len(AddTransition(c, from, symbol, items).states) >= Len(c.states)
<1>1. PICK S : c.states \in Seq(S)
  BY DEF IsSequence
<1> DEFINE known == {i \in DOMAIN c.states : c.states[i] = items}
           to == IF known = {} THEN Len(c.states) ELSE (CHOOSE i \in known : TRUE) - 1
           states == IF known = {} THEN Append(c.states, items) ELSE c.states
           new == [from |-> from, symbol |-> symbol, to |-> to]
<1>2. AddTransition(c, from, symbol, items) = [states |-> states, moves |-> c.moves \cup {new}]
  BY Zenon DEF AddTransition
<1>3. Len(c.states) \in Nat /\ DOMAIN c.states = 1..Len(c.states)
  BY <1>1
<1>4. /\ IsSequence(states) /\ Len(states) \in Nat /\ Len(states) >= Len(c.states)
      /\ to \in 0..(Len(states) - 1)
  <2>1. CASE known = {}
    <3>1. states = Append(c.states, items) /\ to = Len(c.states)
      BY <2>1
    <3>2. Append(c.states, items) \in Seq(S \cup {items}) /\ Len(Append(c.states, items)) = Len(c.states) + 1
      <4>1. c.states \in Seq(S \cup {items})
        BY <1>1
      <4> QED BY <4>1
    <3>3. IsSequence(states) /\ Len(states) = Len(c.states) + 1
      <4> HIDE DEF states
      <4> QED BY <3>1, <3>2 DEF IsSequence
    <3> HIDE DEF states, to
    <3> QED BY <3>1, <3>3, <1>3
  <2>2. CASE known # {}
    <3>1. states = c.states /\ to = (CHOOSE i \in known : TRUE) - 1
      BY <2>2
    <3>2. (CHOOSE i \in known : TRUE) \in known
      BY <2>2, Zenon
    <3>3. to \in 0..(Len(c.states) - 1)
      BY <3>1, <3>2, <1>3
    <3> HIDE DEF states, to
    <3> QED BY <3>1, <3>3, <1>1, <1>3 DEF IsSequence
  <2> QED BY <2>1, <2>2
<1> HIDE DEF states, to
<1>5. ASSUME NEW move \in c.moves \cup {new}
      PROVE  move.from \in 0..(Len(states) - 1) /\ move.to \in 0..(Len(states) - 1)
  <2>1. CASE move = new
    BY <2>1, <1>3, <1>4
  <2>2. CASE move \in c.moves
    <3>1. move.from \in 0..(Len(c.states) - 1) /\ move.to \in 0..(Len(c.states) - 1)
      BY <2>2 DEF MovesWithin
    <3> QED BY <3>1, <1>3, <1>4
  <2> QED BY <2>1, <2>2
<1> HIDE DEF new
<1>6. /\ AddTransition(c, from, symbol, items).states = states
      /\ AddTransition(c, from, symbol, items).moves = c.moves \cup {new}
  BY <1>2
<1> QED BY <1>4, <1>5, <1>6 DEF MovesWithin

-----------------------------------------------------------------------------
(* FIRST sets of one token. *)

FirstWithin(ps, first, symbols) ==
    \A s \in Range(symbols) : FirstOfSymbol(first, s) \subseteq WindowsOf(ps)

LEMMA FirstIsShort ==
    ASSUME NEW ps, NEW first, NEW S, NEW symbols \in Seq(S), FirstWithin(ps, first, symbols)
    PROVE  FirstOfString(first, 1, symbols) \subseteq WindowsOf(ps)
<1> DEFINE n == Len(symbols)
           V == SUBSET WindowsOf(ps)
<1>1. n \in Nat /\ DOMAIN symbols = 1..n
  OBVIOUS
<1>2. {<<>>} \in V
  BY DEF WindowsOf, Short
<1>3. ASSUME NEW i \in 1..n, NEW v \in V PROVE Concatenate(v, FirstOfSymbol(first, symbols[i]), 1) \in V
  <2>1. symbols[i] \in Range(symbols)
    BY <1>1 DEF Range
  <2>2. v \subseteq Short(SymbolsOf(ps)) /\ FirstOfSymbol(first, symbols[i]) \subseteq Short(SymbolsOf(ps))
    BY <2>1 DEF FirstWithin, WindowsOf
  <2>3. Concatenate(v, FirstOfSymbol(first, symbols[i]), 1) \subseteq Short(SymbolsOf(ps))
    BY <2>2, ConcatenationsOfShort
  <2> QED BY <2>3 DEF WindowsOf
<1>4. FirstOfStringStays(first, 1, symbols, n, V)
  <2> HIDE DEF n, V
  <2> QED BY <1>3 DEF FirstOfStringStays
<1>5. PICK acc \in [0..n -> V] : FirstOfStringPath(first, 1, symbols, n, acc)
  <2> HIDE DEF n, V
  <2> QED BY <1>1, <1>2, <1>4, FirstOfStringWorks
<1>6. acc[n] \in V /\ acc[n] = FirstOfString(first, 1, symbols)
  <2>1. n \in 0..n
    BY <1>1
  <2> HIDE DEF n, V
  <2> QED BY <1>5, <2>1 DEF FirstOfStringPath
<1> QED BY <1>6

LEMMA ConcatenationIsSome ==
    ASSUME NEW u, u # {}, NEW v, v # {}, NEW k
    PROVE  Concatenate(u, v, k) # {}
<1>1. PICK a \in u : TRUE
  OBVIOUS
<1>2. PICK b \in v : TRUE
  OBVIOUS
<1>3. <<a, b>> \in u \X v
  BY <1>1, <1>2
<1>4. Truncate(<<a, b>>[1] \o <<a, b>>[2], k) \in Concatenate(u, v, k)
  BY <1>3, Zenon DEF Concatenate
<1> QED BY <1>4

\* A string of symbols that all begin with something begins with something.
LEMMA FirstIsSome ==
    ASSUME NEW ps, NEW first, NEW S, NEW symbols \in Seq(S), FirstWithin(ps, first, symbols),
           \A s \in Range(symbols) : FirstOfSymbol(first, s) # {}
    PROVE  FirstOfString(first, 1, symbols) # {}
<1> DEFINE n == Len(symbols)
           V == (SUBSET WindowsOf(ps)) \ {{}}
<1>1. n \in Nat /\ DOMAIN symbols = 1..n /\ n \in 0..n
  OBVIOUS
<1>2. {<<>>} \in V
  BY DEF WindowsOf, Short
<1>3. ASSUME NEW i \in 1..n, NEW v \in V PROVE Concatenate(v, FirstOfSymbol(first, symbols[i]), 1) \in V
  <2>1. symbols[i] \in Range(symbols)
    BY <1>1 DEF Range
  <2>2. v \subseteq Short(SymbolsOf(ps)) /\ FirstOfSymbol(first, symbols[i]) \subseteq Short(SymbolsOf(ps))
    BY <2>1 DEF FirstWithin, WindowsOf
  <2>3. Concatenate(v, FirstOfSymbol(first, symbols[i]), 1) \subseteq Short(SymbolsOf(ps))
    BY <2>2, ConcatenationsOfShort
  <2>4. v # {} /\ FirstOfSymbol(first, symbols[i]) # {}
    BY <2>1
  <2>5. Concatenate(v, FirstOfSymbol(first, symbols[i]), 1) # {}
    BY <2>4, ConcatenationIsSome
  <2> QED BY <2>3, <2>5 DEF WindowsOf
<1>4. FirstOfStringStays(first, 1, symbols, n, V)
  <2> HIDE DEF n, V
  <2> QED BY <1>3 DEF FirstOfStringStays
<1>5. PICK acc \in [0..n -> V] : FirstOfStringPath(first, 1, symbols, n, acc)
  <2> HIDE DEF n, V
  <2> QED BY <1>1, <1>2, <1>4, FirstOfStringWorks
<1>6. acc[n] \in V /\ acc[n] = FirstOfString(first, 1, symbols)
  <2> HIDE DEF n, V
  <2> QED BY <1>1, <1>5 DEF FirstOfStringPath
<1> QED BY <1>6

\* Only the symbols of the string matter.
LEMMA FirstAgrees ==
    ASSUME NEW ps, NEW first, NEW other, NEW S, NEW symbols \in Seq(S), FirstWithin(ps, first, symbols),
           \A s \in Range(symbols) : FirstOfSymbol(other, s) = FirstOfSymbol(first, s)
    PROVE  FirstOfString(other, 1, symbols) = FirstOfString(first, 1, symbols)
<1> DEFINE n == Len(symbols)
           V == SUBSET WindowsOf(ps)
<1>1. n \in Nat /\ DOMAIN symbols = 1..n /\ n \in 0..n
  OBVIOUS
<1>2. {<<>>} \in V
  BY DEF WindowsOf, Short
<1>3. ASSUME NEW i \in 1..n, NEW v \in V
      PROVE  /\ Concatenate(v, FirstOfSymbol(first, symbols[i]), 1) \in V
             /\ FirstOfSymbol(other, symbols[i]) = FirstOfSymbol(first, symbols[i])
  <2>1. symbols[i] \in Range(symbols)
    BY <1>1 DEF Range
  <2>2. v \subseteq Short(SymbolsOf(ps)) /\ FirstOfSymbol(first, symbols[i]) \subseteq Short(SymbolsOf(ps))
    BY <2>1 DEF FirstWithin, WindowsOf
  <2>3. Concatenate(v, FirstOfSymbol(first, symbols[i]), 1) \subseteq Short(SymbolsOf(ps))
    BY <2>2, ConcatenationsOfShort
  <2> QED BY <2>1, <2>3 DEF WindowsOf
<1>4. FirstOfStringStays(first, 1, symbols, n, V) /\ FirstOfStringStays(other, 1, symbols, n, V)
  <2> HIDE DEF n, V
  <2> QED BY <1>3 DEF FirstOfStringStays
<1>5. PICK a \in [0..n -> V] : FirstOfStringPath(first, 1, symbols, n, a)
  <2> HIDE DEF n, V
  <2> QED BY <1>1, <1>2, <1>4, FirstOfStringWorks
<1>6. PICK b \in [0..n -> V] : FirstOfStringPath(other, 1, symbols, n, b)
  <2> HIDE DEF n, V
  <2> QED BY <1>1, <1>2, <1>4, FirstOfStringWorks
<1> DEFINE T == {i \in 0..n : a[i] = b[i]}
<1>7. 0..n \subseteq T
  <2>1. 0 \in T
    <3>1. a[0] = {<<>>} /\ b[0] = {<<>>}
      BY <1>5, <1>6 DEF FirstOfStringPath
    <3>2. 0 \in 0..n
      BY <1>1
    <3> HIDE DEF n
    <3> QED BY <3>1, <3>2
  <2>2. ASSUME NEW i \in 1..n, i - 1 \in T PROVE i \in T
    <3>1. a[i - 1] = b[i - 1] /\ a[i - 1] \in V /\ i \in 0..n
      BY <2>2, <1>1, <1>5
    <3>2. a[i] = Concatenate(a[i - 1], FirstOfSymbol(first, symbols[i]), 1)
      BY <1>5 DEF FirstOfStringPath
    <3>3. b[i] = Concatenate(b[i - 1], FirstOfSymbol(other, symbols[i]), 1)
      BY <1>6 DEF FirstOfStringPath
    <3>4. FirstOfSymbol(other, symbols[i]) = FirstOfSymbol(first, symbols[i])
      BY <1>3, <3>1
    <3> HIDE DEF n, V
    <3> QED BY <3>1, <3>2, <3>3, <3>4
  <2> HIDE DEF T, n
  <2> QED BY <1>1, <2>1, <2>2, UpTo
<1>8. a[n] = b[n]
  BY <1>1, <1>7
<1> HIDE DEF n, V
<1> QED BY <1>5, <1>6, <1>8 DEF FirstOfStringPath

TypedFirst(ps, first) == first \in [LeftSides(ps) -> SUBSET WindowsOf(ps)]

LEMMA SymbolsHaveFirst ==
    ASSUME NEW ps, GoodProductions(ps), NEW first, TypedFirst(ps, first), NEW id \in DOMAIN ps
    PROVE  /\ \A s \in Range(ps[id].rhs) : FirstOfSymbol(first, s) \subseteq WindowsOf(ps)
           /\ FirstWithin(ps, first, ps[id].rhs)
<1>1. ASSUME NEW s \in Range(ps[id].rhs) PROVE FirstOfSymbol(first, s) \subseteq WindowsOf(ps)
  <2>1. CASE s \in DOMAIN first
    <3>1. FirstOfSymbol(first, s) = first[s] /\ first[s] \in SUBSET WindowsOf(ps)
      BY <2>1 DEF FirstOfSymbol, TypedFirst
    <3> QED BY <3>1
  <2>2. CASE s \notin DOMAIN first
    <3>1. FirstOfSymbol(first, s) = {<<s>>} /\ s \in SymbolsOf(ps)
      BY <2>2 DEF FirstOfSymbol, SymbolsOf
    <3>2. <<s>> \in Short(SymbolsOf(ps))
      BY <3>1, Zenon DEF Short
    <3> QED BY <3>1, <3>2 DEF WindowsOf
  <2> QED BY <2>1, <2>2
<1> QED BY <1>1 DEF FirstWithin

LEMMA SweepStaysTyped ==
    ASSUME NEW ps, GoodProductions(ps), NEW first, TypedFirst(ps, first)
    PROVE  TypedFirst(ps, FirstSweep(ps, 1, first))
<1>1. PICK m \in Nat : DOMAIN ps = 0..m
  BY DEF GoodProductions
<1> DEFINE n == m + 1
           V == [LeftSides(ps) -> SUBSET WindowsOf(ps)]
<1>2. InOrder(ps) = [i \in 1..n |-> i - 1] /\ n \in Nat
  <2>1. Cardinality(0..m) = m + 1
    <3>1. 0 \in Int /\ m \in Int
      OBVIOUS
    <3>2. Cardinality(0..m) = IF 0 > m THEN 0 ELSE m - 0 + 1
      BY <3>1, FS_Interval
    <3> QED BY <3>2
  <2> QED BY <2>1, <1>1 DEF InOrder
<1>3. ASSUME NEW i \in 1..n, NEW v \in V
      PROVE  [v EXCEPT ![ps[InOrder(ps)[i]].lhs] = @ \cup FirstOfString(v, 1, ps[InOrder(ps)[i]].rhs)] \in V
  <2> DEFINE id == InOrder(ps)[i]
  <2>1. id \in DOMAIN ps
    BY <1>1, <1>2
  <2> HIDE DEF id
  <2>2. ps[id].lhs \in LeftSides(ps) /\ ps[id].rhs \in Seq(STRING)
    BY <2>1 DEF LeftSides, GoodProductions
  <2>3. FirstWithin(ps, v, ps[id].rhs)
    BY <2>1, SymbolsHaveFirst DEF TypedFirst
  <2>4. FirstOfString(v, 1, ps[id].rhs) \subseteq WindowsOf(ps)
    BY <2>2, <2>3, FirstIsShort
  <2>5. [v EXCEPT ![ps[id].lhs] = @ \cup FirstOfString(v, 1, ps[id].rhs)] \in V
    <3> DEFINE more == FirstOfString(v, 1, ps[id].rhs)
               name == ps[id].lhs
    <3>1. v[name] \cup more \in SUBSET WindowsOf(ps)
      BY <2>2, <2>4
    <3> HIDE DEF more, name
    <3>2. [v EXCEPT ![name] = v[name] \cup more] \in V
      BY <3>1
    <3> QED BY <3>2 DEF more, name
  <2> QED BY <2>5 DEF id
<1>4. FirstSweepStays(ps, 1, first, n, V)
  <2> HIDE DEF n, V
  <2> QED BY <1>3, Zenon DEF FirstSweepStays
<1>5. DOMAIN InOrder(ps) = 1..n
  BY <1>2
<1>6. PICK acc \in [0..n -> V] : FirstSweepPath(ps, 1, first, n, acc)
  <2>1. first \in V
    BY DEF TypedFirst
  <2> HIDE DEF n, V
  <2> QED BY <1>2, <1>4, <1>5, <2>1, FirstSweepWorks
<1>7. n \in 0..n
  BY <1>2
<1>8. acc[n] \in V /\ acc[n] = FirstSweep(ps, 1, first)
  <2> HIDE DEF n, V
  <2> QED BY <1>6, <1>7 DEF FirstSweepPath
<1> QED BY <1>8 DEF TypedFirst

GoodAnalysis(A) ==
    /\ GoodProductions(A.productions) /\ A.k = 1
    /\ A.order \in Seq(CoresOf(A.productions)) /\ Range(A.order) = CoresOf(A.productions)
    /\ TypedFirst(A.productions, A.first)

LEMMA AnalysisIsGood ==
    ASSUME NEW ps, GoodProductions(ps), NEW first, TypedFirst(ps, first)
    PROVE  GoodAnalysis(Analysis(ps, 1, first))
<1>1. /\ Analysis(ps, 1, first).productions = ps /\ Analysis(ps, 1, first).k = 1
      /\ Analysis(ps, 1, first).first = first
  BY DEF Analysis
<1>2. /\ Analysis(ps, 1, first).order \in Seq(CoresOf(ps))
      /\ Range(Analysis(ps, 1, first).order) = CoresOf(ps)
  BY OrderOfItems
<1> QED BY <1>1, <1>2 DEF GoodAnalysis

\* The items of a good grammar are finitely many.
LEMMA CoresAreFinite ==
    ASSUME NEW A, GoodAnalysis(A)
    PROVE  IsFiniteSet(CoresOf(A.productions))
<1>1. A.order \in Seq(CoresOf(A.productions)) /\ Range(A.order) = CoresOf(A.productions)
  BY DEF GoodAnalysis
<1> QED BY <1>1, SequenceIsFinite

\* What can follow an item: a window of FIRST, or the whole window after it.
LEMMA SuffixWindows ==
    ASSUME NEW A, GoodAnalysis(A), NEW id \in DOMAIN A.productions,
           NEW begin \in 1..Len(A.productions[id].rhs)
    PROVE  /\ \A w \in Seq(STRING) :
                 /\ FirstOfSuffix(A, id, begin, w) \subseteq Seq(STRING)
                 /\ w # <<>> => <<>> \notin FirstOfSuffix(A, id, begin, w)
           /\ \A T : SymbolsOf(A.productions) \subseteq T =>
                 \A w \in Short(T) : FirstOfSuffix(A, id, begin, w) \subseteq Short(T)
<1> DEFINE ps == A.productions
           rhs == ps[id].rhs
           suffix == SubSeq(rhs, begin + 1, Len(rhs))
           heads == FirstOfString(A.first, 1, suffix)
<1>1. GoodProductions(ps) /\ TypedFirst(ps, A.first) /\ A.k = 1
  BY DEF GoodAnalysis
<1>2. rhs \in Seq(STRING)
  BY <1>1 DEF GoodProductions
<1>3. suffix \in Seq(STRING) /\ Range(suffix) \subseteq Range(rhs)
  <2> HIDE DEF rhs
  <2>1. suffix \in Seq(STRING)
    BY <1>2
  <2>2. ASSUME NEW i \in DOMAIN suffix PROVE suffix[i] \in Range(rhs)
    <3>1. /\ Len(suffix) = IF begin + 1 <= Len(rhs) THEN Len(rhs) - (begin + 1) + 1 ELSE 0
          /\ Len(rhs) \in Nat /\ begin \in Nat /\ begin >= 1 /\ begin <= Len(rhs)
      BY <1>2
    <3>2. i \in 1..Len(suffix)
      BY <2>1
    <3>3. begin + i \in DOMAIN rhs /\ suffix[i] = rhs[begin + i]
      BY <1>2, <3>1, <3>2
    <3> QED BY <3>3 DEF Range
  <2> QED BY <2>1, <2>2 DEF Range
<1>4. heads \subseteq WindowsOf(ps)
  <2>1. FirstWithin(ps, A.first, rhs)
    BY <1>1, SymbolsHaveFirst
  <2>2. FirstWithin(ps, A.first, suffix)
    BY <1>3, <2>1 DEF FirstWithin
  <2> HIDE DEF suffix, ps
  <2> QED BY <1>3, <2>2, FirstIsShort
<1>5. ASSUME NEW w PROVE FirstOfSuffix(A, id, begin, w) = Concatenate(heads, {w}, 1)
  BY <1>1 DEF FirstOfSuffix
<1>6. SymbolsOf(ps) \subseteq STRING
  BY <1>1, SymbolsAreFinite
<1> HIDE DEF heads, ps
<1>7. ASSUME NEW w \in Seq(STRING)
      PROVE  /\ FirstOfSuffix(A, id, begin, w) \subseteq Seq(STRING)
             /\ w # <<>> => <<>> \notin FirstOfSuffix(A, id, begin, w)
  <2>1. ASSUME NEW x \in heads \X {w}
        PROVE  /\ Truncate(x[1] \o x[2], 1) \in Seq(STRING)
               /\ w # <<>> => Truncate(x[1] \o x[2], 1) # <<>>
    <3>1. x[1] \in Short(SymbolsOf(ps)) /\ x[2] = w
      BY <1>4 DEF WindowsOf
    <3>2. Truncate(x[1] \o x[2], 1) = IF x[1] = <<>> THEN Truncate(w, 1) ELSE x[1]
      BY <3>1, TruncatedJoin
    <3>3. x[1] \in Seq(STRING)
      <4>1. x[1] \in Seq(SymbolsOf(ps))
        BY <3>1, ShortAreSequences
      <4> QED BY <4>1, <1>6
    <3>4. Truncate(w, 1) \in Seq(STRING)
      BY DEF Truncate
    <3>5. ASSUME w # <<>> PROVE Truncate(w, 1) # <<>>
      <4>1. Truncate(w, 1) = <<w[1]>>
        BY <3>5, TruncatedToOne
      <4> QED BY <4>1, OneIsSome
    <3> QED BY <3>2, <3>3, <3>4, <3>5
  <2>2. /\ Concatenate(heads, {w}, 1) \subseteq Seq(STRING)
        /\ w # <<>> => <<>> \notin Concatenate(heads, {w}, 1)
    BY <2>1 DEF Concatenate
  <2> QED BY <2>2, <1>5
<1>8. ASSUME NEW T, SymbolsOf(ps) \subseteq T, NEW w \in Short(T)
      PROVE  FirstOfSuffix(A, id, begin, w) \subseteq Short(T)
  <2>1. heads \subseteq Short(T) /\ {w} \subseteq Short(T)
    BY <1>4, <1>8 DEF WindowsOf, Short
  <2>2. Concatenate(heads, {w}, 1) \subseteq Short(T)
    BY <2>1, ConcatenationsOfShort
  <2> QED BY <2>2, <1>5
<1> QED BY <1>7, <1>8 DEF ps

\* Every rule begins with something: then so does what follows an item.
Filled(A) == \A lhs \in LeftSides(A.productions) : A.first[lhs] # {}

LEMMA SuffixIsSome ==
    ASSUME NEW A, GoodAnalysis(A), Filled(A), NEW id \in DOMAIN A.productions,
           NEW begin \in 1..Len(A.productions[id].rhs), NEW w
    PROVE  FirstOfSuffix(A, id, begin, w) # {}
<1> DEFINE ps == A.productions
           rhs == ps[id].rhs
           suffix == SubSeq(rhs, begin + 1, Len(rhs))
           heads == FirstOfString(A.first, 1, suffix)
<1>1. GoodProductions(ps) /\ TypedFirst(ps, A.first) /\ A.k = 1
  BY DEF GoodAnalysis
<1>2. rhs \in Seq(STRING)
  BY <1>1 DEF GoodProductions
<1>3. suffix \in Seq(STRING) /\ Range(suffix) \subseteq Range(rhs)
  <2> HIDE DEF rhs
  <2>1. suffix \in Seq(STRING)
    BY <1>2
  <2>2. ASSUME NEW i \in DOMAIN suffix PROVE suffix[i] \in Range(rhs)
    <3>1. /\ Len(suffix) = IF begin + 1 <= Len(rhs) THEN Len(rhs) - (begin + 1) + 1 ELSE 0
          /\ Len(rhs) \in Nat /\ begin \in Nat /\ begin >= 1 /\ begin <= Len(rhs)
      BY <1>2
    <3>2. i \in 1..Len(suffix)
      BY <2>1
    <3>3. begin + i \in DOMAIN rhs /\ suffix[i] = rhs[begin + i]
      BY <1>2, <3>1, <3>2
    <3> QED BY <3>3 DEF Range
  <2> QED BY <2>1, <2>2 DEF Range
<1>4. heads # {}
  <2>1. FirstWithin(ps, A.first, rhs)
    BY <1>1, SymbolsHaveFirst
  <2>2. FirstWithin(ps, A.first, suffix)
    BY <1>3, <2>1 DEF FirstWithin
  <2>3. ASSUME NEW s PROVE FirstOfSymbol(A.first, s) # {}
    BY <1>1 DEF FirstOfSymbol, Filled, TypedFirst
  <2> HIDE DEF suffix, ps
  <2> QED BY <1>3, <2>2, <2>3, FirstIsSome
<1>5. FirstOfSuffix(A, id, begin, w) = Concatenate(heads, {w}, 1)
  BY <1>1 DEF FirstOfSuffix
<1> HIDE DEF heads
<1>6. {w} # {}
  OBVIOUS
<1> QED BY <1>4, <1>5, <1>6, ConcatenationIsSome

-----------------------------------------------------------------------------
(* The closure of a set of items. *)

ItemsIn(ps, W) == [cores : SUBSET CoresOf(ps), windows : SUBSET (CoresOf(ps) \X W)]
Matched(items) == \A x \in items.windows : x[1] \in items.cores
Within(small, big) == small.cores \subseteq big.cores /\ small.windows \subseteq big.windows

Children(A, core) == ProductionsOf(A, NextSymbol(A, core)) \X {0}
FollowedBy(A, core, windows) == UNION {FirstOfSuffix(A, core[1], core[2] + 1, w) : w \in windows}

\* The children of an item are in the set, with all that can follow them.
ClosedAt(A, items, core) ==
    /\ Children(A, core) \subseteq items.cores
    /\ Children(A, core) \X FollowedBy(A, core, Lookaheads(items, core)) \subseteq items.windows

ClosedItems(A, items) == \A core \in items.cores : ~AtEnd(A, core) => ClosedAt(A, items, core)

\* An item without any lookahead need not have been looked at.
Settled(A, items) ==
    \A core \in items.cores :
        ~AtEnd(A, core) /\ Lookaheads(items, core) # {} => ClosedAt(A, items, core)

\* The windows that stay windows when the closure passes them on.
Passes(A, W) ==
    \A core \in CoresOf(A.productions) : ~AtEnd(A, core) =>
        \A w \in W : FirstOfSuffix(A, core[1], core[2] + 1, w) \subseteq W

LEMMA SuffixesPass ==
    ASSUME NEW A, GoodAnalysis(A)
    PROVE  /\ Passes(A, Seq(STRING))
           /\ \A T : SymbolsOf(A.productions) \subseteq T => Passes(A, Short(T))
<1>1. ASSUME NEW core \in CoresOf(A.productions), ~AtEnd(A, core)
      PROVE  core[1] \in DOMAIN A.productions /\ core[2] + 1 \in 1..Len(A.productions[core[1]].rhs)
  <2>1. core[1] \in DOMAIN A.productions /\ core[2] \in Nat /\ A.productions[core[1]].rhs \in Seq(STRING)
    BY DEF CoresOf, GoodAnalysis, GoodProductions
  <2>2. ~(core[2] >= Len(A.productions[core[1]].rhs))
    BY <1>1 DEF AtEnd
  <2> QED BY <2>1, <2>2
<1>2. ASSUME NEW core \in CoresOf(A.productions), ~AtEnd(A, core)
      PROVE  /\ \A w \in Seq(STRING) : FirstOfSuffix(A, core[1], core[2] + 1, w) \subseteq Seq(STRING)
             /\ \A T : SymbolsOf(A.productions) \subseteq T =>
                   \A w \in Short(T) : FirstOfSuffix(A, core[1], core[2] + 1, w) \subseteq Short(T)
  BY <1>1, <1>2, SuffixWindows
<1> QED BY <1>2, Zenon DEF Passes

LEMMA VisitIs ==
    ASSUME NEW A, NEW items, NEW core
    PROVE  /\ core \notin items.cores \/ AtEnd(A, core) => ClosureVisit(A, items, core) = items
           /\ core \in items.cores /\ ~AtEnd(A, core) =>
                 /\ ClosureVisit(A, items, core).cores = items.cores \cup Children(A, core)
                 /\ ClosureVisit(A, items, core).windows = items.windows \cup
                        (Children(A, core) \X FollowedBy(A, core, Lookaheads(items, core)))
                 /\ ClosureVisit(A, items, core) = [cores |-> items.cores \cup Children(A, core),
                        windows |-> items.windows \cup
                            (Children(A, core) \X FollowedBy(A, core, Lookaheads(items, core)))]
<1>1. CASE core \notin items.cores \/ AtEnd(A, core)
  BY <1>1, Zenon DEF ClosureVisit
<1>2. CASE ~(core \notin items.cores \/ AtEnd(A, core))
  <2>1. ClosureVisit(A, items, core) =
          Both(items, [cores |-> Children(A, core),
                       windows |-> Children(A, core) \X FollowedBy(A, core, Lookaheads(items, core))])
    BY <1>2, Zenon DEF ClosureVisit, Children, FollowedBy
  <2> QED BY <2>1, <1>2 DEF Both
<1> QED BY <1>1, <1>2

LEMMA ChildrenAreItems ==
    ASSUME NEW A, GoodAnalysis(A), NEW core
    PROVE  Children(A, core) \subseteq CoresOf(A.productions)
<1>1. ASSUME NEW c \in Children(A, core) PROVE c \in CoresOf(A.productions)
  <2>1. c[1] \in DOMAIN A.productions /\ c[2] = 0 /\ c = <<c[1], c[2]>>
    BY DEF Children, ProductionsOf
  <2>2. Len(A.productions[c[1]].rhs) \in Nat
    BY <2>1 DEF GoodAnalysis, GoodProductions
  <2> QED BY <2>1, <2>2 DEF CoresOf
<1> QED BY <1>1

LEMMA VisitStays ==
    ASSUME NEW A, GoodAnalysis(A), NEW W, Passes(A, W), NEW items \in ItemsIn(A.productions, W),
           NEW core \in CoresOf(A.productions)
    PROVE  /\ ClosureVisit(A, items, core) \in ItemsIn(A.productions, W)
           /\ Within(items, ClosureVisit(A, items, core))
           /\ Matched(items) => Matched(ClosureVisit(A, items, core))
<1> DEFINE next == ClosureVisit(A, items, core)
           new == Children(A, core) \X FollowedBy(A, core, Lookaheads(items, core))
<1>1. CASE core \notin items.cores \/ AtEnd(A, core)
  <2>1. next = items
    BY <1>1, VisitIs
  <2> QED BY <2>1 DEF Within
<1>2. CASE core \in items.cores /\ ~AtEnd(A, core)
  <2>1. /\ next.cores = items.cores \cup Children(A, core) /\ next.windows = items.windows \cup new
        /\ next = [cores |-> items.cores \cup Children(A, core), windows |-> items.windows \cup new]
    BY <1>2, VisitIs
  <2>2. Children(A, core) \subseteq CoresOf(A.productions)
    BY ChildrenAreItems
  <2>3. Lookaheads(items, core) \subseteq W
    BY DEF Lookaheads, ItemsIn
  <2>4. FollowedBy(A, core, Lookaheads(items, core)) \subseteq W
    BY <1>2, <2>3 DEF FollowedBy, Passes
  <2>5. items.cores \subseteq CoresOf(A.productions) /\ items.windows \subseteq CoresOf(A.productions) \X W
    BY DEF ItemsIn
  <2>6. new \subseteq CoresOf(A.productions) \X W /\ \A x \in new : x[1] \in Children(A, core)
    BY <2>2, <2>4
  <2> HIDE DEF new, next
  <2>7. next \in ItemsIn(A.productions, W)
    BY <2>1, <2>2, <2>5, <2>6 DEF ItemsIn
  <2>8. Within(items, next)
    BY <2>1 DEF Within
  <2>9. Matched(items) => Matched(next)
    BY <2>1, <2>6 DEF Matched
  <2> QED BY <2>7, <2>8, <2>9 DEF next
<1> QED BY <1>1, <1>2

LEMMA ALookahead ==
    ASSUME NEW items, NEW x \in items.windows
    PROVE  Lookaheads(items, x[1]) # {}
<1>1. x[2] \in Lookaheads(items, x[1])
  BY DEF Lookaheads
<1> QED BY <1>1

\* Every item has a lookahead.
Full(items) == \A core \in items.cores : Lookaheads(items, core) # {}

\* Of these cores, none is left out by a set that has the first and what those
\* it has expect.
Explained(A, first, cores) ==
    \A X : /\ \A c \in X \cap cores : ~AtEnd(A, c) => Children(A, c) \cap cores \subseteq X
           /\ first \subseteq X
           => cores \subseteq X

\* What a closure adds to its kernel begins a production some item expects.
Grown(A, kernel, items) ==
    /\ Explained(A, kernel.cores, items.cores)
    /\ \A core \in items.cores \ kernel.cores :
          \E parent \in items.cores : ~AtEnd(A, parent) /\ core \in Children(A, parent)
    /\ (\A x \in kernel.windows : x[2] # <<>>) => \A x \in items.windows : x[2] # <<>>
    /\ Filled(A) /\ Full(kernel) => Full(items)

LEMMA VisitGrows ==
    ASSUME NEW A, GoodAnalysis(A), NEW W, W \subseteq Seq(STRING), NEW items \in ItemsIn(A.productions, W),
           NEW core \in CoresOf(A.productions), NEW kernel, Grown(A, kernel, items)
    PROVE  Grown(A, kernel, ClosureVisit(A, items, core))
<1> DEFINE next == ClosureVisit(A, items, core)
<1>1. CASE core \notin items.cores \/ AtEnd(A, core)
  <2>1. next = items
    BY <1>1, VisitIs
  <2> QED BY <2>1
<1>2. CASE core \in items.cores /\ ~AtEnd(A, core)
  <2>1. /\ next.cores = items.cores \cup Children(A, core)
        /\ next.windows = items.windows \cup
               (Children(A, core) \X FollowedBy(A, core, Lookaheads(items, core)))
    BY <1>2, VisitIs
  <2> HIDE DEF next
  <2>2. ASSUME NEW c \in next.cores \ kernel.cores
        PROVE  \E parent \in next.cores : ~AtEnd(A, parent) /\ c \in Children(A, parent)
    <3>1. CASE c \in items.cores
      <4>1. \E parent \in items.cores : ~AtEnd(A, parent) /\ c \in Children(A, parent)
        BY <2>2, <3>1 DEF Grown
      <4> QED BY <4>1, <2>1
    <3>2. CASE c \in Children(A, core)
      BY <1>2, <2>1, <3>2
    <3> QED BY <2>1, <2>2, <3>1, <3>2
  <2>3. ASSUME \A x \in kernel.windows : x[2] # <<>>, NEW x \in next.windows PROVE x[2] # <<>>
    <3>1. \A y \in items.windows : y[2] # <<>> /\ y[2] \in Seq(STRING)
      BY <2>3 DEF Grown, ItemsIn
    <3>2. CASE x \in items.windows
      BY <3>1, <3>2
    <3>3. CASE x \in Children(A, core) \X FollowedBy(A, core, Lookaheads(items, core))
      <4>1. PICK w \in Lookaheads(items, core) : x[2] \in FirstOfSuffix(A, core[1], core[2] + 1, w)
        BY <3>3 DEF FollowedBy
      <4>2. w # <<>> /\ w \in Seq(STRING)
        BY <3>1 DEF Lookaheads
      <4>3. core[1] \in DOMAIN A.productions /\ core[2] + 1 \in 1..Len(A.productions[core[1]].rhs)
        <5>1. core[1] \in DOMAIN A.productions /\ core[2] \in Nat /\ A.productions[core[1]].rhs \in Seq(STRING)
          BY DEF CoresOf, GoodAnalysis, GoodProductions
        <5>2. ~(core[2] >= Len(A.productions[core[1]].rhs))
          BY <1>2 DEF AtEnd
        <5> QED BY <5>1, <5>2
      <4>4. <<>> \notin FirstOfSuffix(A, core[1], core[2] + 1, w)
        BY <4>2, <4>3, SuffixWindows
      <4> QED BY <4>1, <4>4
    <3> QED BY <2>1, <2>3, <3>2, <3>3
  <2>4. ASSUME Filled(A), Full(kernel) PROVE Full(next)
    <3>1. Full(items)
      BY <2>4 DEF Grown
    <3>2. FollowedBy(A, core, Lookaheads(items, core)) # {}
      <4>1. PICK w : w \in Lookaheads(items, core)
        BY <1>2, <3>1 DEF Full
      <4>2. core[1] \in DOMAIN A.productions /\ core[2] + 1 \in 1..Len(A.productions[core[1]].rhs)
        <5>1. core[1] \in DOMAIN A.productions /\ core[2] \in Nat /\ A.productions[core[1]].rhs \in Seq(STRING)
          BY DEF CoresOf, GoodAnalysis, GoodProductions
        <5>2. ~(core[2] >= Len(A.productions[core[1]].rhs))
          BY <1>2 DEF AtEnd
        <5> QED BY <5>1, <5>2
      <4>3. FirstOfSuffix(A, core[1], core[2] + 1, w) # {}
        BY <2>4, <4>2, SuffixIsSome
      <4> QED BY <4>1, <4>3 DEF FollowedBy
    <3>3. ASSUME NEW c \in next.cores PROVE Lookaheads(next, c) # {}
      <4>1. CASE c \in items.cores
        <5>1. PICK x \in items.windows : x[1] = c
          BY <3>1, <4>1 DEF Full, Lookaheads
        <5>2. x \in next.windows
          BY <5>1, <2>1
        <5> QED BY <5>1, <5>2, ALookahead
      <4>2. CASE c \in Children(A, core)
        <5>1. PICK v : v \in FollowedBy(A, core, Lookaheads(items, core))
          BY <3>2
        <5>2. <<c, v>> \in next.windows
          BY <4>2, <5>1, <2>1
        <5>3. <<c, v>>[1] = c
          OBVIOUS
        <5> QED BY <5>2, <5>3, ALookahead
      <4> QED BY <2>1, <3>3, <4>1, <4>2
    <3> QED BY <3>3 DEF Full
  <2>5. Explained(A, kernel.cores, next.cores)
    <3>1. SUFFICES ASSUME NEW X, kernel.cores \subseteq X,
                          \A c \in X \cap next.cores : ~AtEnd(A, c) => Children(A, c) \cap next.cores \subseteq X
                   PROVE  next.cores \subseteq X
      BY DEF Explained
    <3>2. \A c \in X \cap items.cores : ~AtEnd(A, c) => Children(A, c) \cap items.cores \subseteq X
      BY <2>1, <3>1
    <3>3. items.cores \subseteq X
      BY <3>1, <3>2 DEF Grown, Explained
    <3>4. Children(A, core) \subseteq X
      BY <1>2, <2>1, <3>1, <3>3
    <3> QED BY <2>1, <3>3, <3>4
  <2> QED BY <2>2, <2>3, <2>4, <2>5 DEF Grown, next
<1> QED BY <1>1, <1>2

\* A closed set that holds the items holds what a visit adds to them.
LEMMA VisitStaysWithin ==
    ASSUME NEW A, NEW items, NEW core, NEW big, ClosedItems(A, big), Within(items, big)
    PROVE  Within(ClosureVisit(A, items, core), big)
<1> DEFINE next == ClosureVisit(A, items, core)
<1>1. CASE core \notin items.cores \/ AtEnd(A, core)
  <2>1. next = items
    BY <1>1, VisitIs
  <2> QED BY <2>1
<1>2. CASE core \in items.cores /\ ~AtEnd(A, core)
  <2>1. /\ next.cores = items.cores \cup Children(A, core)
        /\ next.windows = items.windows \cup
               (Children(A, core) \X FollowedBy(A, core, Lookaheads(items, core)))
    BY <1>2, VisitIs
  <2>2. core \in big.cores /\ ClosedAt(A, big, core)
    BY <1>2 DEF Within, ClosedItems
  <2>3. Lookaheads(items, core) \subseteq Lookaheads(big, core)
    BY DEF Lookaheads, Within
  <2>4. FollowedBy(A, core, Lookaheads(items, core)) \subseteq FollowedBy(A, core, Lookaheads(big, core))
    BY <2>3 DEF FollowedBy
  <2> HIDE DEF next
  <2>5. Within(next, big)
    <3>1. items.cores \subseteq big.cores /\ items.windows \subseteq big.windows
      BY DEF Within
    <3>2. next.cores \subseteq big.cores
      BY <2>1, <2>2, <3>1 DEF ClosedAt
    <3>3. Children(A, core) \X FollowedBy(A, core, Lookaheads(items, core)) \subseteq big.windows
      BY <2>2, <2>4 DEF ClosedAt
    <3>4. next.windows \subseteq big.windows
      BY <2>1, <3>1, <3>3
    <3> QED BY <3>2, <3>4 DEF Within
  <2> QED BY <2>5 DEF next
<1> QED BY <1>1, <1>2

\* A round visits every item of the grammar.
Swept(A, items, n, acc) ==
    /\ acc[0] = items /\ acc[n] = ClosureSweep(A, items)
    /\ \A i \in 1..n : acc[i] = ClosureVisit(A, acc[i - 1], A.order[i])
    /\ \A i \in 0..n : Within(items, acc[i]) /\ Within(acc[i], acc[n])

LEMMA WithinPasses ==
    ASSUME NEW a, NEW b, NEW c, Within(a, b), Within(b, c)
    PROVE  Within(a, c)
BY DEF Within

LEMMA SweepWorks ==
    ASSUME NEW A, GoodAnalysis(A), NEW W, Passes(A, W), NEW items \in ItemsIn(A.productions, W)
    PROVE  \E acc \in [0..Len(A.order) -> ItemsIn(A.productions, W)] : Swept(A, items, Len(A.order), acc)
<1> DEFINE n == Len(A.order)
           V == ItemsIn(A.productions, W)
<1>1. n \in Nat /\ DOMAIN A.order = 1..n /\ \A i \in 1..n : A.order[i] \in CoresOf(A.productions)
  BY DEF GoodAnalysis
<1>2. ASSUME NEW i \in 1..n, NEW v \in V
      PROVE  ClosureVisit(A, v, A.order[i]) \in V /\ Within(v, ClosureVisit(A, v, A.order[i]))
  BY <1>1, VisitStays
<1> HIDE DEF n, V
<1>3. ClosureSweepStays(A, items, n, V)
  BY <1>2 DEF ClosureSweepStays
<1>4. PICK acc \in [0..n -> V] : ClosureSweepPath(A, items, n, acc)
  <2>1. items \in V
    BY DEF V
  <2> QED BY <1>1, <1>3, <2>1, ClosureSweepWorks
<1>5. \A i \in 1..n : acc[i] = ClosureVisit(A, acc[i - 1], A.order[i]) /\ Within(acc[i - 1], acc[i])
  <2>1. ASSUME NEW i \in 1..n PROVE acc[i] = ClosureVisit(A, acc[i - 1], A.order[i]) /\ Within(acc[i - 1], acc[i])
    <3>1. acc[i - 1] \in V
      BY <1>1
    <3>2. acc[i] = ClosureVisit(A, acc[i - 1], A.order[i])
      BY <1>4 DEF ClosureSweepPath
    <3> QED BY <3>1, <3>2, <1>2
  <2> QED BY <2>1
<1>6. ASSUME NEW i \in 0..n PROVE Within(items, acc[i])
  <2> DEFINE T == {j \in 0..n : Within(items, acc[j])}
  <2>1. 0 \in T
    <3>1. 0 \in 0..n /\ acc[0] = items
      BY <1>1, <1>4 DEF ClosureSweepPath
    <3> QED BY <3>1 DEF Within
  <2>2. ASSUME NEW j \in 1..n, j - 1 \in T PROVE j \in T
    <3>1. Within(items, acc[j - 1]) /\ Within(acc[j - 1], acc[j]) /\ j \in 0..n
      BY <2>2, <1>1, <1>5
    <3> QED BY <3>1, WithinPasses
  <2> HIDE DEF T
  <2>3. 0..n \subseteq T
    BY <1>1, <2>1, <2>2, UpTo
  <2> QED BY <2>3 DEF T
<1>7. ASSUME NEW i \in 0..n PROVE Within(acc[i], acc[n])
  <2> DEFINE T == {j \in 0..n : i <= j => Within(acc[i], acc[j])}
  <2>1. 0 \in T
    <3>1. i <= 0 => i = 0
      BY <1>1
    <3>2. Within(acc[i], acc[i]) /\ 0 \in 0..n
      BY <1>1 DEF Within
    <3> QED BY <3>1, <3>2
  <2>2. ASSUME NEW j \in 1..n, j - 1 \in T PROVE j \in T
    <3>1. (i <= j - 1 => Within(acc[i], acc[j - 1])) /\ Within(acc[j - 1], acc[j]) /\ j \in 0..n
      <4>1. i <= j - 1 => Within(acc[i], acc[j - 1])
        BY <2>2
      <4>2. Within(acc[j - 1], acc[j])
        BY <1>5
      <4>3. j \in 0..n
        BY <1>1
      <4> HIDE DEF T
      <4> QED BY <4>1, <4>2, <4>3
    <3>2. CASE i <= j - 1
      BY <3>1, <3>2, WithinPasses
    <3>3. CASE ~(i <= j - 1)
      <4>1. i <= j => i = j
        BY <3>3, <1>1
      <4>2. Within(acc[i], acc[i])
        BY DEF Within
      <4> QED BY <4>1, <4>2, <3>1
    <3> QED BY <3>2, <3>3
  <2> HIDE DEF T
  <2>3. 0..n \subseteq T
    BY <1>1, <2>1, <2>2, UpTo
  <2>4. n \in T /\ i <= n
    BY <1>1, <2>3
  <2> QED BY <2>4 DEF T
<1>8. Swept(A, items, n, acc)
  BY <1>4, <1>5, <1>6, <1>7 DEF Swept, ClosureSweepPath
<1> QED BY <1>8 DEF n, V

\* The least of the closed sets around the kernel is around the items too.
Needed(A, kernel, items) ==
    \A big : ClosedItems(A, big) /\ Within(kernel, big) => Within(items, big)

LEMMA SweepStays ==
    ASSUME NEW A, GoodAnalysis(A), NEW W, Passes(A, W), NEW items \in ItemsIn(A.productions, W)
    PROVE  /\ ClosureSweep(A, items) \in ItemsIn(A.productions, W)
           /\ Within(items, ClosureSweep(A, items))
           /\ Matched(items) => Matched(ClosureSweep(A, items))
           /\ \A kernel : Needed(A, kernel, items) => Needed(A, kernel, ClosureSweep(A, items))
           /\ Matched(items) /\ ClosureSweep(A, items).windows = items.windows
                 => Settled(A, ClosureSweep(A, items))
<1> DEFINE n == Len(A.order)
           V == ItemsIn(A.productions, W)
           next == ClosureSweep(A, items)
<1>1. n \in Nat /\ DOMAIN A.order = 1..n /\ \A i \in 1..n : A.order[i] \in CoresOf(A.productions)
  BY DEF GoodAnalysis
<1>2. PICK acc \in [0..n -> V] : Swept(A, items, n, acc)
  BY SweepWorks
<1> HIDE DEF n
<1>3. n \in 0..n /\ 0 \in 0..n /\ acc[n] = next /\ acc[0] = items
  BY <1>1, <1>2 DEF Swept
<1>4. next \in V /\ Within(items, next)
  BY <1>2, <1>3 DEF Swept
<1>5. ASSUME Matched(items) PROVE \A i \in 0..n : Matched(acc[i])
  <2> DEFINE T == {i \in 0..n : Matched(acc[i])}
  <2>1. 0 \in T
    BY <1>3, <1>5
  <2>2. ASSUME NEW j \in 1..n, j - 1 \in T PROVE j \in T
    <3>1. Matched(acc[j - 1])
      BY <2>2
    <3>2. acc[j - 1] \in V /\ j \in 0..n
      BY <1>1
    <3>3. acc[j] = ClosureVisit(A, acc[j - 1], A.order[j])
      BY <1>2 DEF Swept
    <3>4. Matched(acc[j])
      BY <3>1, <3>2, <3>3, <1>1, VisitStays
    <3> QED BY <3>2, <3>4
  <2> HIDE DEF T
  <2>3. 0..n \subseteq T
    BY <1>1, <2>1, <2>2, UpTo
  <2> QED BY <2>3 DEF T
<1>6. ASSUME NEW kernel, Needed(A, kernel, items) PROVE Needed(A, kernel, next)
  <2>1. SUFFICES ASSUME NEW big, ClosedItems(A, big), Within(kernel, big) PROVE Within(next, big)
    BY DEF Needed
  <2> DEFINE T == {i \in 0..n : Within(acc[i], big)}
  <2>2. 0 \in T
    <3>1. Within(items, big)
      BY <1>6, <2>1 DEF Needed
    <3> QED BY <3>1, <1>3
  <2>3. ASSUME NEW j \in 1..n, j - 1 \in T PROVE j \in T
    <3>1. Within(acc[j - 1], big)
      BY <2>3
    <3>2. acc[j] = ClosureVisit(A, acc[j - 1], A.order[j])
      BY <1>2 DEF Swept
    <3>3. Within(acc[j], big)
      BY <3>1, <3>2, <2>1, VisitStaysWithin
    <3>4. j \in 0..n
      BY <1>1
    <3> QED BY <3>3, <3>4
  <2> HIDE DEF T
  <2>4. 0..n \subseteq T
    BY <1>1, <2>2, <2>3, UpTo
  <2>5. n \in T
    BY <2>4, <1>3
  <2> QED BY <2>5, <1>3 DEF T
<1>7. ASSUME Matched(items), next.windows = items.windows PROVE Settled(A, next)
  <2>1. SUFFICES ASSUME NEW core \in next.cores, ~AtEnd(A, core), Lookaheads(next, core) # {}
                 PROVE  ClosedAt(A, next, core)
    BY DEF Settled
  <2>2. core \in CoresOf(A.productions) /\ core \in items.cores
    <3>1. core \in CoresOf(A.productions)
      BY <1>4 DEF ItemsIn
    <3>2. PICK x \in items.windows : x[1] = core
      BY <2>1, <1>7 DEF Lookaheads
    <3> QED BY <3>1, <3>2, <1>7 DEF Matched
  <2>3. PICK i \in 1..n : A.order[i] = core
    <3>1. core \in Range(A.order)
      BY <2>2 DEF GoodAnalysis
    <3> QED BY <3>1, <1>1 DEF Range
  <2>4. i - 1 \in 0..n /\ i \in 0..n
    BY <1>1
  <2> DEFINE before == acc[i - 1]
             after == acc[i]
  <2>5. /\ Within(items, before) /\ Within(before, next) /\ Within(after, next)
        /\ after = ClosureVisit(A, before, core)
    BY <1>2, <1>3, <2>3, <2>4 DEF Swept
  <2> HIDE DEF before, after, next
  <2>6. before.windows = next.windows /\ core \in before.cores
    <3>1. items.windows \subseteq before.windows /\ before.windows \subseteq next.windows /\ items.cores \subseteq before.cores
      BY <2>5 DEF Within
    <3> QED BY <3>1, <1>7, <2>2
  <2>7. Lookaheads(before, core) = Lookaheads(next, core)
    BY <2>6 DEF Lookaheads
  <2>8. /\ Children(A, core) \subseteq after.cores
        /\ Children(A, core) \X FollowedBy(A, core, Lookaheads(before, core)) \subseteq after.windows
    BY <2>1, <2>5, <2>6, VisitIs
  <2>9. after.cores \subseteq next.cores /\ after.windows \subseteq next.windows
    BY <2>5 DEF Within
  <2> QED BY <2>7, <2>8, <2>9 DEF ClosedAt
<1>8. Matched(items) => Matched(next)
  <2>1. ASSUME Matched(items) PROVE Matched(next)
    BY <1>3, <1>5, <2>1
  <2> QED BY <2>1
<1> QED BY <1>4, <1>6, <1>7, <1>8

LEMMA SweepGrows ==
    ASSUME NEW A, GoodAnalysis(A), NEW W, W \subseteq Seq(STRING), Passes(A, W),
           NEW items \in ItemsIn(A.productions, W), NEW kernel, Grown(A, kernel, items)
    PROVE  Grown(A, kernel, ClosureSweep(A, items))
<1> DEFINE n == Len(A.order)
           V == ItemsIn(A.productions, W)
<1>1. n \in Nat /\ DOMAIN A.order = 1..n /\ \A i \in 1..n : A.order[i] \in CoresOf(A.productions)
  BY DEF GoodAnalysis
<1>2. PICK acc \in [0..n -> V] : Swept(A, items, n, acc)
  BY SweepWorks
<1> HIDE DEF n
<1>3. n \in 0..n /\ 0 \in 0..n /\ acc[n] = ClosureSweep(A, items) /\ acc[0] = items
  BY <1>1, <1>2 DEF Swept
<1> DEFINE T == {i \in 0..n : Grown(A, kernel, acc[i])}
<1>4. 0 \in T
  BY <1>3
<1>5. ASSUME NEW j \in 1..n, j - 1 \in T PROVE j \in T
  <2>1. Grown(A, kernel, acc[j - 1])
    BY <1>5
  <2>2. acc[j - 1] \in V /\ j \in 0..n
    BY <1>1, <1>5
  <2>3. acc[j] = ClosureVisit(A, acc[j - 1], A.order[j])
    BY <1>2 DEF Swept
  <2>4. Grown(A, kernel, acc[j])
    BY <2>1, <2>2, <2>3, <1>1, VisitGrows
  <2> QED BY <2>2, <2>4
<1> HIDE DEF T
<1>6. 0..n \subseteq T
  BY <1>1, <1>4, <1>5, UpTo
<1> QED BY <1>3, <1>6 DEF T

LEMMA ItemSetsAre ==
    ASSUME NEW A, GoodAnalysis(A)
    PROVE  ItemSets(A) = ItemsIn(A.productions, Seq(STRING))
BY Zenon DEF ItemSets, ItemsIn, GoodAnalysis

\* The windows of the kernel are made of these symbols.
KernelIn(A, kernel, T) ==
    /\ IsFiniteSet(T) /\ SymbolsOf(A.productions) \subseteq T /\ T \subseteq STRING
    /\ kernel \in ItemsIn(A.productions, Short(T)) /\ Matched(kernel)

LEMMA ClosureIs ==
    ASSUME NEW A, GoodAnalysis(A), NEW kernel, NEW T, KernelIn(A, kernel, T)
    PROVE  /\ KernelIn(A, Closure(A, kernel), T)
           /\ Within(kernel, Closure(A, kernel)) /\ Needed(A, kernel, Closure(A, kernel))
           /\ Settled(A, Closure(A, kernel)) /\ Grown(A, kernel, Closure(A, kernel))
<1> DEFINE ps == A.productions
           S == ItemsIn(ps, Seq(STRING))
           N == [x \in S |-> ClosureSweep(A, x)]
           C == {x \in S : ClosureSweep(A, x).windows = x.windows}
           f == CHOOSE g : g = [x \in ItemSets(A) |->
                    IF ClosureSweep(A, x).windows = x.windows THEN ClosureSweep(A, x)
                    ELSE g[ClosureSweep(A, x)]]
           Kernels == ItemsIn(ps, Short(T))
           D == {x \in Kernels : /\ Matched(x) /\ Within(kernel, x)
                               /\ Needed(A, kernel, x) /\ Grown(A, kernel, x)}
           F == CoresOf(ps) \X Short(T)
           m == [x \in D |-> x.windows]
<1>1. Closure(A, kernel) = f[kernel]
  BY Zenon DEF Closure
<1>2. Passes(A, Seq(STRING)) /\ Passes(A, Short(T))
  BY SuffixesPass DEF KernelIn
<1>3. N \in [S -> S]
  <2>1. ASSUME NEW x \in S PROVE ClosureSweep(A, x) \in S
    BY <1>2, SweepStays
  <2> HIDE DEF S
  <2> QED BY <2>1
<1>4. \E g : g = [x \in S |-> IF x \in C THEN N[x] ELSE g[N[x]]]
  <2> HIDE DEF S, N, C
  <2> QED BY <1>3, LoopSolution
<1>5. PICK g : g = [x \in S |-> IF x \in C THEN N[x] ELSE g[N[x]]]
  BY <1>4
<1>6. ASSUME NEW x \in S PROVE (x \in C <=> ClosureSweep(A, x).windows = x.windows) /\ N[x] = ClosureSweep(A, x)
  <2> HIDE DEF S
  <2> QED OBVIOUS
<1>7. S = ItemSets(A)
  BY ItemSetsAre
<1> HIDE DEF S, N, C
<1>8. g = [x \in ItemSets(A) |-> IF ClosureSweep(A, x).windows = x.windows THEN ClosureSweep(A, x)
                                 ELSE g[ClosureSweep(A, x)]]
  <2>1. g = [x \in S |-> IF ClosureSweep(A, x).windows = x.windows THEN ClosureSweep(A, x)
                                 ELSE g[ClosureSweep(A, x)]]
    <3>1. ASSUME NEW x \in S
          PROVE  (IF x \in C THEN N[x] ELSE g[N[x]]) =
                 (IF ClosureSweep(A, x).windows = x.windows THEN ClosureSweep(A, x) ELSE g[ClosureSweep(A, x)])
      BY <1>6
    <3> QED BY <1>5, <3>1
  <2> QED BY <2>1, <1>7
<1>9. f = [x \in ItemSets(A) |-> IF ClosureSweep(A, x).windows = x.windows THEN ClosureSweep(A, x)
                                 ELSE f[ClosureSweep(A, x)]]
  BY <1>8, Zenon
<1> HIDE DEF f
<1>10. f = [x \in S |-> IF x \in C THEN N[x] ELSE f[N[x]]]
  <2>1. f = [x \in S |-> IF ClosureSweep(A, x).windows = x.windows THEN ClosureSweep(A, x)
                                 ELSE f[ClosureSweep(A, x)]]
    BY <1>9, <1>7
  <2>2. ASSUME NEW x \in S
        PROVE  (IF x \in C THEN N[x] ELSE f[N[x]]) =
               (IF ClosureSweep(A, x).windows = x.windows THEN ClosureSweep(A, x) ELSE f[ClosureSweep(A, x)])
    BY <1>6
  <2> QED BY <2>1, <2>2
<1>11. Short(T) \subseteq Seq(STRING) /\ IsFiniteSet(Short(T))
  <2>1. ASSUME NEW w \in Short(T) PROVE w \in Seq(STRING)
    <3>1. (w = <<>> \/ \E s \in T : w = <<s>>) /\ T \subseteq STRING
      BY ShortAreSequences DEF KernelIn
    <3>2. CASE w = <<>>
      BY <3>2
    <3>3. ASSUME NEW s \in STRING, w = <<s>> PROVE w \in Seq(STRING)
      BY <3>3, OneElement
    <3> QED BY <3>1, <3>2, <3>3
  <2>2. IsFiniteSet(Short(T))
    BY ShortIsFinite DEF KernelIn
  <2> QED BY <2>1, <2>2
<1>12. Kernels \subseteq S
  BY <1>11 DEF S, ItemsIn
<1>13. IsFiniteSet(F)
  <2>1. IsFiniteSet(CoresOf(ps))
    BY CoresAreFinite
  <2> QED BY <2>1, <1>11, FS_Product
<1>14. ASSUME NEW x \in D PROVE x \in S /\ N[x] = ClosureSweep(A, x) /\ N[x] \in D /\ m[x] \subseteq m[N[x]]
                                /\ (x \notin C => m[x] # m[N[x]])
  <2>1. x \in Kernels /\ Matched(x) /\ Within(kernel, x) /\ Needed(A, kernel, x) /\ Grown(A, kernel, x)
    OBVIOUS
  <2>2. x \in S /\ N[x] = ClosureSweep(A, x) /\ (x \in C <=> ClosureSweep(A, x).windows = x.windows)
    BY <2>1, <1>6, <1>12
  <2>3. /\ ClosureSweep(A, x) \in Kernels /\ Within(x, ClosureSweep(A, x)) /\ Matched(ClosureSweep(A, x))
        /\ Needed(A, kernel, ClosureSweep(A, x))
    <3> HIDE DEF D, m, F
    <3> QED BY <2>1, <1>2, SweepStays
  <2>4. Within(kernel, ClosureSweep(A, x)) /\ Grown(A, kernel, ClosureSweep(A, x))
    <3>1. Within(kernel, ClosureSweep(A, x))
      BY <2>1, <2>3, WithinPasses
    <3>2. Grown(A, kernel, ClosureSweep(A, x))
      <4> HIDE DEF D, m, F
      <4> QED BY <2>1, <1>2, <1>11, SweepGrows
    <3> QED BY <3>1, <3>2
  <2>5. N[x] \in D
    BY <2>2, <2>3, <2>4
  <2>6. m[x] = x.windows /\ m[N[x]] = N[x].windows
    BY <2>5
  <2>7. x.windows \subseteq ClosureSweep(A, x).windows
    BY <2>3 DEF Within
  <2> HIDE DEF D, m, Kernels
  <2> QED BY <2>2, <2>5, <2>6, <2>7
<1>15. m \in [D -> SUBSET F]
  BY DEF ItemsIn
<1>16. kernel \in D
  BY DEF KernelIn, Within, Needed, Grown, Explained
<1>17. D \subseteq S
  BY <1>12
<1>18. PICK y \in D : y \in C /\ f[kernel] = N[y]
  <2> HIDE DEF D, m, F
  <2>1. Gains(D, C, N, m)
    BY <1>14 DEF Gains
  <2>2. Loops(f, S, C, N)
    BY <1>10 DEF Loops
  <2> QED BY <1>3, <1>13, <1>15, <1>16, <1>17, <2>1, <2>2, LoopEnds
<1>19. f[kernel] \in D /\ f[kernel] = ClosureSweep(A, y) /\ ClosureSweep(A, y).windows = y.windows
  BY <1>6, <1>14, <1>18
<1>20. Settled(A, f[kernel])
  <2>1. y \in Kernels /\ Matched(y)
    BY <1>18
  <2> QED BY <2>1, <1>2, <1>19, SweepStays
<1>21. /\ f[kernel] \in Kernels /\ Matched(f[kernel]) /\ Within(kernel, f[kernel]) /\ Needed(A, kernel, f[kernel])
      /\ Grown(A, kernel, f[kernel])
  BY <1>19
<1> QED BY <1>1, <1>20, <1>21 DEF KernelIn

-----------------------------------------------------------------------------
(* The items a closure can reach. *)

Opened(A, known) ==
    known \cup UNION {ProductionsOf(A, NextSymbol(A, c)) \X {0} : c \in {d \in known : ~AtEnd(A, d)}}

ExpansionIn(A, cores) ==
    LET grow[known \in SUBSET Range(A.order)] ==
            LET next == Opened(A, known)
            IN  IF next = known THEN known ELSE grow[next]
    IN  grow[cores]

\* A set of items that has what its items expect.
OpenedIn(A, X) == \A c \in X : ~AtEnd(A, c) => Children(A, c) \subseteq X

LEMMA OpenedWithin ==
    ASSUME NEW A, NEW known, NEW X, OpenedIn(A, X), known \subseteq X
    PROVE  Opened(A, known) \subseteq X
<1>1. ASSUME NEW c \in known, ~AtEnd(A, c) PROVE ProductionsOf(A, NextSymbol(A, c)) \X {0} \subseteq X
  BY <1>1 DEF OpenedIn, Children
<1> QED BY <1>1 DEF Opened

LEMMA ExpansionIs ==
    ASSUME NEW A, GoodAnalysis(A), NEW cores, cores \subseteq CoresOf(A.productions)
    PROVE  /\ cores \subseteq ExpansionIn(A, cores)
           /\ ExpansionIn(A, cores) \subseteq CoresOf(A.productions)
           /\ \A c \in ExpansionIn(A, cores) : ~AtEnd(A, c) => Children(A, c) \subseteq ExpansionIn(A, cores)
           /\ \A X : OpenedIn(A, X) /\ cores \subseteq X => ExpansionIn(A, cores) \subseteq X
<1> DEFINE S == SUBSET CoresOf(A.productions)
           N == [x \in S |-> Opened(A, x)]
           C == {x \in S : Opened(A, x) = x}
           f == CHOOSE g : g = [x \in SUBSET Range(A.order) |->
                    IF Opened(A, x) = x THEN x ELSE g[Opened(A, x)]]
           Least(x) == \A X : OpenedIn(A, X) /\ cores \subseteq X => x \subseteq X
           D == {x \in S : cores \subseteq x /\ Least(x)}
           F == CoresOf(A.productions)
           m == [x \in D |-> x]
<1>1. ExpansionIn(A, cores) = f[cores]
  BY Zenon DEF ExpansionIn
<1>2. ASSUME NEW x \in S PROVE Opened(A, x) \in S /\ x \subseteq Opened(A, x)
  <2>1. ASSUME NEW c PROVE ProductionsOf(A, NextSymbol(A, c)) \X {0} \subseteq CoresOf(A.productions)
    BY ChildrenAreItems DEF Children
  <2> QED BY <2>1 DEF Opened
<1>3. N \in [S -> S]
  <2> HIDE DEF S
  <2> QED BY <1>2
<1>4. PICK g : g = [x \in S |-> IF x \in C THEN N[x] ELSE g[N[x]]]
  <2> HIDE DEF S, N, C
  <2> QED BY <1>3, LoopSolution
<1>5. ASSUME NEW x \in S PROVE (x \in C <=> Opened(A, x) = x) /\ N[x] = Opened(A, x)
  <2> HIDE DEF S
  <2> QED OBVIOUS
<1>6. S = SUBSET Range(A.order)
  BY DEF GoodAnalysis
<1> HIDE DEF S, N, C
<1>7. g = [x \in SUBSET Range(A.order) |-> IF Opened(A, x) = x THEN x ELSE g[Opened(A, x)]]
  <2>1. ASSUME NEW x \in S
        PROVE  (IF x \in C THEN N[x] ELSE g[N[x]]) = (IF Opened(A, x) = x THEN x ELSE g[Opened(A, x)])
    BY <1>5
  <2>2. g = [x \in S |-> IF Opened(A, x) = x THEN x ELSE g[Opened(A, x)]]
    BY <1>4, <2>1
  <2> QED BY <2>2, <1>6
<1>8. f = [x \in SUBSET Range(A.order) |-> IF Opened(A, x) = x THEN x ELSE f[Opened(A, x)]]
  BY <1>7, Zenon
<1> HIDE DEF f
<1>9. f = [x \in S |-> IF x \in C THEN N[x] ELSE f[N[x]]]
  <2>1. ASSUME NEW x \in S
        PROVE  (IF x \in C THEN N[x] ELSE f[N[x]]) = (IF Opened(A, x) = x THEN x ELSE f[Opened(A, x)])
    BY <1>5
  <2>2. f = [x \in S |-> IF Opened(A, x) = x THEN x ELSE f[Opened(A, x)]]
    BY <1>8, <1>6
  <2> QED BY <2>1, <2>2
<1>10. IsFiniteSet(F)
  BY CoresAreFinite
<1>11. ASSUME NEW x \in D, x \notin C PROVE N[x] \in D /\ m[x] \subseteq m[N[x]] /\ m[x] # m[N[x]]
  <2>1. x \in S /\ cores \subseteq x /\ Least(x)
    OBVIOUS
  <2>2. Opened(A, x) \in S /\ x \subseteq Opened(A, x) /\ Opened(A, x) # x /\ N[x] = Opened(A, x)
    BY <2>1, <1>2, <1>5, <1>11
  <2>3. N[x] \in D
    <3>1. Least(Opened(A, x))
      BY <2>1, OpenedWithin
    <3> HIDE DEF Least
    <3> QED BY <2>1, <2>2, <3>1
  <2>4. m[x] = x /\ m[N[x]] = N[x]
    BY <2>3
  <2> HIDE DEF D, m
  <2> QED BY <2>2, <2>3, <2>4
<1>12. m \in [D -> SUBSET F] /\ cores \in D /\ D \subseteq S
  BY DEF S
<1>13. PICK y \in D : y \in C /\ f[cores] = N[y]
  <2> HIDE DEF D, m, F
  <2>1. Gains(D, C, N, m)
    BY <1>11 DEF Gains
  <2>2. Loops(f, S, C, N)
    BY <1>9 DEF Loops
  <2> QED BY <1>3, <1>10, <1>12, <2>1, <2>2, LoopEnds
<1>14. f[cores] = y /\ Opened(A, y) = y /\ cores \subseteq y /\ y \in S /\ Least(y)
  <2>1. y \in S /\ cores \subseteq y /\ Least(y)
    BY <1>13
  <2> HIDE DEF Least, D
  <2> QED BY <2>1, <1>5, <1>13
<1>15. ASSUME NEW c \in y, ~AtEnd(A, c) PROVE Children(A, c) \subseteq y
  BY <1>14, <1>15 DEF Opened, Children
<1> QED BY <1>1, <1>14, <1>15 DEF S

-----------------------------------------------------------------------------
(* What a closure visits of the expansion of its kernel.                    *)

NextOf(A, visited) == {NextSymbol(A, c) : c \in visited} \cap LeftSides(A.productions)
VisitedIn(A, items) == {c \in ExpansionIn(A, items.cores) : ~AtEnd(A, c)}

LEMMA SuffixSymbols ==
    ASSUME NEW S, NEW s \in Seq(S), NEW m \in Nat \ {0}
    PROVE  SubSeq(s, m, Len(s)) \in Seq(S) /\ Range(SubSeq(s, m, Len(s))) \subseteq Range(s)
<1> DEFINE t == SubSeq(s, m, Len(s))
<1>1. t \in Seq(S) /\ Len(s) \in Nat /\ DOMAIN s = 1..Len(s)
  OBVIOUS
<1>2. Len(t) = IF m <= Len(s) THEN Len(s) - m + 1 ELSE 0
  OBVIOUS
<1>3. ASSUME NEW i \in 1..Len(t) PROVE t[i] \in Range(s)
  <2>1. (m - 1) + i \in 1..Len(s)
    <3> HIDE DEF t
    <3> QED BY <1>1, <1>2
  <2>2. t[i] = s[m + i - 1] /\ m + i - 1 = (m - 1) + i
    BY <1>2
  <2> HIDE DEF t
  <2> QED BY <1>1, <2>1, <2>2 DEF Range
<1>4. DOMAIN t = 1..Len(t)
  BY <1>1
<1> HIDE DEF t
<1>5. Range(t) \subseteq Range(s)
  <2>1. ASSUME NEW x \in Range(t) PROVE x \in Range(s)
    <3>1. PICK i \in 1..Len(t) : x = t[i]
      BY <1>4 DEF Range
    <3> QED BY <3>1, <1>3
  <2> QED BY <2>1
<1> QED BY <1>1, <1>5 DEF t

LEMMA WorkedOutIs == ASSUME NEW v PROVE WorkedOut(v) = v
BY Zenon DEF WorkedOut

LEMMA ClosureIsReached ==
    ASSUME NEW A, GoodAnalysis(A), NEW kernel, NEW T, KernelIn(A, kernel, T)
    PROVE  Closure(A, kernel).cores \subseteq ExpansionIn(A, kernel.cores)
<1> DEFINE ps == A.productions
           reached == ExpansionIn(A, kernel.cores)
           X == [cores |-> reached, windows |-> CoresOf(ps) \X Seq(STRING)]
<1>1. kernel.cores \subseteq CoresOf(ps) /\ kernel.windows \subseteq CoresOf(ps) \X Short(T) /\ T \subseteq STRING
  BY DEF KernelIn, ItemsIn
<1>2. /\ kernel.cores \subseteq reached /\ reached \subseteq CoresOf(ps)
      /\ \A c \in reached : ~AtEnd(A, c) => Children(A, c) \subseteq reached
  BY <1>1, ExpansionIs
<1>3. Within(kernel, X)
  <2>1. Short(T) \subseteq Seq(STRING)
    <3>1. ASSUME NEW w \in Short(T) PROVE w \in Seq(STRING)
      <4>1. (w = <<>> \/ \E s \in T : w = <<s>>) /\ T \subseteq STRING
        BY <1>1, ShortAreSequences
      <4>2. CASE w = <<>>
        BY <4>2
      <4>3. ASSUME NEW s \in STRING, w = <<s>> PROVE w \in Seq(STRING)
        BY <4>3, OneElement
      <4> QED BY <4>1, <4>2, <4>3
    <3> QED BY <3>1
  <2> HIDE DEF reached
  <2> QED BY <1>1, <1>2, <2>1 DEF Within
<1>4. Passes(A, Seq(STRING))
  BY SuffixesPass
<1> HIDE DEF reached
<1>5. ASSUME NEW c \in X.cores, ~AtEnd(A, c) PROVE ClosedAt(A, X, c)
  <2>1. c \in CoresOf(ps) /\ Children(A, c) \subseteq reached /\ Children(A, c) \subseteq CoresOf(ps)
    BY <1>2, <1>5
  <2>2. Lookaheads(X, c) \subseteq Seq(STRING)
    BY DEF Lookaheads
  <2>3. FollowedBy(A, c, Lookaheads(X, c)) \subseteq Seq(STRING)
    BY <1>4, <1>5, <2>1, <2>2 DEF FollowedBy, Passes
  <2> QED BY <2>1, <2>3 DEF ClosedAt
<1>6. ClosedItems(A, X)
  BY <1>5 DEF ClosedItems
<1>7. Within(Closure(A, kernel), X)
  <2> HIDE DEF X
  <2> QED BY <1>3, <1>6, ClosureIs DEF Needed
<1> QED BY <1>7 DEF Within, reached

-----------------------------------------------------------------------------
(* Sets of items that stay inside the grammar.                              *)

GoodItems(A, items) == KernelIn(A, items, SymbolsOf(A.productions))

LEMMA GoodSymbols ==
    ASSUME NEW A, GoodAnalysis(A)
    PROVE  LET T == SymbolsOf(A.productions) IN IsFiniteSet(T) /\ T \subseteq STRING /\ EndOfInput \in T
<1>1. GoodProductions(A.productions)
  BY DEF GoodAnalysis
<1> QED BY <1>1, SymbolsAreFinite DEF SymbolsOf

LEMMA GoodItemsAre ==
    ASSUME NEW A, GoodAnalysis(A), NEW items
    PROVE  /\ GoodItems(A, items) => items \in ItemsIn(A.productions, Short(SymbolsOf(A.productions)))
           /\ items \in ItemsIn(A.productions, Short(SymbolsOf(A.productions))) /\ Matched(items) => GoodItems(A, items)
BY GoodSymbols DEF GoodItems, KernelIn

LEMMA ClosureStaysGood ==
    ASSUME NEW A, GoodAnalysis(A), NEW items, GoodItems(A, items)
    PROVE  GoodItems(A, Closure(A, items))
<1>1. KernelIn(A, Closure(A, items), SymbolsOf(A.productions))
  BY ClosureIs DEF GoodItems
<1> QED BY <1>1 DEF GoodItems

LEMMA StartIsGood ==
    ASSUME NEW A, GoodAnalysis(A), 0 \in DOMAIN A.productions
    PROVE  GoodItems(A, StartKernel(1))
<1> DEFINE ps == A.productions
           T == SymbolsOf(ps)
<1>1. <<0, 0>> \in CoresOf(ps)
  <2>1. ps[0].rhs \in Seq(STRING)
    BY DEF GoodAnalysis, GoodProductions
  <2>2. Len(ps[0].rhs) \in Nat
    BY <2>1
  <2> QED BY <2>2 DEF CoresOf
<1>2. EndWindow(1) = <<EndOfInput>>
  <2>1. 1..1 = {1}
    OBVIOUS
  <2>2. EndWindow(1) = [i \in {1} |-> EndOfInput]
    BY <2>1 DEF EndWindow
  <2>3. <<EndOfInput>> = [i \in {1} |-> <<EndOfInput>>[i]] /\ <<EndOfInput>>[1] = EndOfInput
    BY <2>1
  <2> QED BY <2>2, <2>3
<1>3. EndWindow(1) \in Short(T)
  <2>1. EndOfInput \in T
    BY GoodSymbols
  <2> HIDE DEF T
  <2> QED BY <1>2, <2>1, Zenon DEF Short
<1> DEFINE w == EndWindow(1)
<1> HIDE DEF T, w
<1>4. StartKernel(1) = [cores |-> {<<0, 0>>}, windows |-> {<<<<0, 0>>, w>>}]
  BY Zenon DEF StartKernel, w
<1>5. w \in Short(T)
  BY <1>3 DEF w
<1>6. StartKernel(1) \in ItemsIn(ps, Short(T)) /\ Matched(StartKernel(1))
  BY <1>1, <1>4, <1>5 DEF ItemsIn, Matched
<1> QED BY <1>6, GoodItemsAre DEF T

LEMMA KernelIsGood ==
    ASSUME NEW A, GoodAnalysis(A), NEW items, GoodItems(A, items), NEW symbol
    PROVE  GoodItems(A, Kernel(A, items, symbol))
<1> DEFINE ps == A.productions
           W == Short(SymbolsOf(ps))
           moved == {core \in items.cores : ~AtEnd(A, core) /\ NextSymbol(A, core) = symbol}
           step(core) == <<core[1], core[2] + 1>>
           cores == {step(core) : core \in moved}
           windows == {<<step(x[1]), x[2]>> : x \in {y \in items.windows : y[1] \in moved}}
<1>1. Kernel(A, items, symbol) = [cores |-> cores, windows |-> windows]
  BY Zenon DEF Kernel
<1>2. items.cores \subseteq CoresOf(ps) /\ items.windows \subseteq CoresOf(ps) \X W
  BY GoodItemsAre DEF ItemsIn
<1>3. ASSUME NEW core \in moved PROVE step(core) \in CoresOf(ps) /\ step(core) \in cores
  <2>1. core \in CoresOf(ps) /\ ~AtEnd(A, core)
    BY <1>2
  <2>2. core[1] \in DOMAIN ps /\ core[2] \in Nat /\ ps[core[1]].rhs \in Seq(STRING)
    BY <2>1 DEF CoresOf, GoodAnalysis, GoodProductions
  <2>3. Len(ps[core[1]].rhs) \in Nat /\ core[2] + 1 <= Len(ps[core[1]].rhs) /\ core[2] + 1 \in Nat
    <3>1. Len(ps[core[1]].rhs) \in Nat
      BY <2>2
    <3> QED BY <2>1, <2>2, <3>1 DEF AtEnd
  <2> QED BY <2>2, <2>3 DEF CoresOf
<1>4. cores \subseteq CoresOf(ps)
  BY <1>3
<1>5. ASSUME NEW x \in windows PROVE x \in CoresOf(ps) \X W /\ x[1] \in cores
  <2>1. PICK y \in items.windows : y[1] \in moved /\ x = <<step(y[1]), y[2]>>
    OBVIOUS
  <2>2. y[2] \in W
    BY <1>2
  <2>3. step(y[1]) \in CoresOf(ps) /\ step(y[1]) \in cores
    BY <1>3, <2>1
  <2> HIDE DEF W, cores, moved
  <2> QED BY <2>1, <2>2, <2>3
<1> HIDE DEF cores, windows, W
<1>6. Kernel(A, items, symbol) \in ItemsIn(ps, W) /\ Matched(Kernel(A, items, symbol))
  BY <1>1, <1>4, <1>5 DEF ItemsIn, Matched
<1> QED BY <1>6, GoodItemsAre DEF W

-----------------------------------------------------------------------------
(* The states: no two alike, and after the merge no two with the same cores. *)

AllGood(A, states) == \A i \in DOMAIN states : GoodItems(A, states[i])
Distinct(states) == \A i, j \in DOMAIN states : states[i] = states[j] => i = j

\* What a transition adds: its target, unless there is such a state, and the move.
Moved(d, c, from, symbol, items) ==
    /\ IsSequence(d.states) /\ Len(d.states) >= Len(c.states) /\ DOMAIN d.states = 1..Len(d.states)
    /\ \A i \in DOMAIN c.states : d.states[i] = c.states[i]
    /\ Range(d.states) = Range(c.states) \cup {items}
    /\ Distinct(c.states) => Distinct(d.states)
    /\ \E to \in DOMAIN d.states :
          /\ d.states[to] = items
          /\ d.moves = c.moves \cup {[from |-> from, symbol |-> symbol, to |-> to - 1]}

LEMMA TransitionIs ==
    ASSUME NEW c, IsSequence(c.states), NEW from, NEW symbol, NEW items
    PROVE  Moved(AddTransition(c, from, symbol, items), c, from, symbol, items)
<1> DEFINE known == {i \in DOMAIN c.states : c.states[i] = items}
           to == IF known = {} THEN Len(c.states) ELSE (CHOOSE i \in known : TRUE) - 1
           states == IF known = {} THEN Append(c.states, items) ELSE c.states
           d == AddTransition(c, from, symbol, items)
<1>1. PICK S : c.states \in Seq(S)
  BY DEF IsSequence
<1>2. d.states = states /\ d.moves = c.moves \cup {[from |-> from, symbol |-> symbol, to |-> to]}
  <2>1. d = [states |-> states, moves |-> c.moves \cup {[from |-> from, symbol |-> symbol, to |-> to]}]
    BY Zenon DEF AddTransition
  <2> HIDE DEF d, states, to
  <2> QED BY <2>1
<1>3. Len(c.states) \in Nat /\ DOMAIN c.states = 1..Len(c.states)
  BY <1>1
<1> HIDE DEF d
<1>4. CASE known = {}
  <2>1. d.states = Append(c.states, items) /\ to = Len(c.states)
    BY <1>2, <1>4
  <2>2. Append(c.states, items) \in Seq(S \cup {items})
    <3>1. c.states \in Seq(S \cup {items})
      BY <1>1
    <3> QED BY <3>1
  <2>3. Len(d.states) = Len(c.states) + 1 /\ DOMAIN d.states = 1..(Len(c.states) + 1)
    BY <2>1, <1>1
  <2>4. /\ \A i \in DOMAIN c.states : d.states[i] = c.states[i]
        /\ d.states[Len(c.states) + 1] = items
    BY <2>1, <1>1
  <2>5. Range(d.states) = Range(c.states) \cup {items}
    <3>1. ASSUME NEW x \in Range(d.states) PROVE x \in Range(c.states) \cup {items}
      <4>1. PICK i \in DOMAIN d.states : x = d.states[i]
        BY DEF Range
      <4>2. i \in DOMAIN c.states \/ i = Len(c.states) + 1
        BY <2>3, <1>3
      <4> QED BY <4>1, <4>2, <2>4 DEF Range
    <3>2. ASSUME NEW x \in Range(c.states) PROVE x \in Range(d.states)
      <4>1. PICK i \in DOMAIN c.states : x = c.states[i]
        BY DEF Range
      <4>2. i \in DOMAIN d.states /\ d.states[i] = x
        BY <4>1, <2>3, <2>4, <1>3
      <4> QED BY <4>2 DEF Range
    <3>3. items \in Range(d.states)
      <4>1. Len(c.states) + 1 \in DOMAIN d.states
        BY <2>3, <1>3
      <4> QED BY <4>1, <2>4 DEF Range
    <3> QED BY <3>1, <3>2, <3>3
  <2>6. ASSUME Distinct(c.states) PROVE Distinct(d.states)
    <3>1. ASSUME NEW i \in DOMAIN d.states, NEW j \in DOMAIN d.states, d.states[i] = d.states[j] PROVE i = j
      <4>1. (i \in DOMAIN c.states \/ i = Len(c.states) + 1) /\ (j \in DOMAIN c.states \/ j = Len(c.states) + 1)
        BY <2>3, <1>3
      <4>2. \A m \in DOMAIN c.states : c.states[m] # items
        BY <1>4
      <4> HIDE DEF known
      <4> QED BY <4>1, <4>2, <3>1, <2>4, <2>6 DEF Distinct
    <3> QED BY <3>1 DEF Distinct
  <2>7. Len(c.states) + 1 \in DOMAIN d.states /\ to = (Len(c.states) + 1) - 1 /\ Len(d.states) >= Len(c.states)
        /\ DOMAIN d.states = 1..Len(d.states)
    BY <2>1, <2>3, <1>3
  <2>8. IsSequence(d.states)
    BY <2>1, <2>2 DEF IsSequence
  <2>9. \E n \in DOMAIN d.states :
           d.states[n] = items /\ d.moves = c.moves \cup {[from |-> from, symbol |-> symbol, to |-> n - 1]}
    <3> HIDE DEF to
    <3> QED BY <2>7, <2>4, <1>2
  <2> HIDE DEF to, states, known
  <2>10. Moved(d, c, from, symbol, items)
    BY <2>4, <2>5, <2>6, <2>7, <2>8, <2>9, Zenon DEF Moved
  <2> QED BY <2>10 DEF d
<1>5. CASE known # {}
  <2>1. PICK n \in known : to = n - 1
    BY <1>5
  <2>2. d.states = c.states /\ n \in DOMAIN c.states /\ c.states[n] = items
    BY <1>2, <1>5
  <2>3. Range(d.states) = Range(c.states) \cup {items}
    BY <2>2 DEF Range
  <2>4. \E m \in DOMAIN d.states :
           d.states[m] = items /\ d.moves = c.moves \cup {[from |-> from, symbol |-> symbol, to |-> m - 1]}
    <3> HIDE DEF to, known
    <3> QED BY <2>1, <2>2, <1>2
  <2>5. Len(d.states) >= Len(c.states)
    BY <2>2, <1>3
  <2>6. Distinct(c.states) => Distinct(d.states)
    BY <2>2
  <2>7. DOMAIN d.states = 1..Len(d.states) /\ IsSequence(d.states)
    BY <2>2, <1>3
  <2> HIDE DEF to, states, known
  <2>8. \A i \in DOMAIN c.states : d.states[i] = c.states[i]
    BY <2>2
  <2>10. Moved(d, c, from, symbol, items)
    BY <2>3, <2>4, <2>5, <2>6, <2>7, <2>8, Zenon DEF Moved
  <2> QED BY <2>10 DEF d
<1> QED BY <1>4, <1>5

\* The merged state of a state has its cores.
LEMMA MergedCores ==
    ASSUME NEW c, IsSequence(c.states)
    PROVE  LET states == MergeLR0Cores(c).states
           IN  /\ IsSequence(states) /\ DOMAIN states = 1..Cardinality(Range(NumbersOf(c)))
               /\ \A n \in DOMAIN states :
                     /\ states[n] = MergedPart(c, n - 1)
                     /\ \E i \in DOMAIN c.states : NumbersOf(c)[i] = n - 1
                     /\ \A i \in DOMAIN c.states : NumbersOf(c)[i] = n - 1 => states[n].cores = c.states[i].cores
               /\ \A i \in DOMAIN c.states : NumbersOf(c)[i] + 1 \in DOMAIN states
<1> DEFINE N == Cardinality(Range(NumbersOf(c)))
           number == NumbersOf(c)
           states == MergeLR0Cores(c).states
<1>1. PICK S : c.states \in Seq(S)
  BY DEF IsSequence
<1>2. /\ IsFiniteSet(Range(number)) /\ Range(number) = 0..(N - 1)
      /\ \A i, j \in DOMAIN c.states : number[i] = number[j] <=> c.states[i].cores = c.states[j].cores
  BY <1>1, NumbersOfStates
<1>3. N \in Nat
  BY <1>2, FS_CardinalityType
<1>4. states = [n \in 1..N |-> MergedPart(c, n - 1)]
  BY MergeIs
<1>5. DOMAIN number = DOMAIN c.states
  BY DEF NumbersOf
<1> HIDE DEF N, states, number
<1>6. DOMAIN states = 1..N /\ \A n \in DOMAIN states : states[n] = MergedPart(c, n - 1)
  BY <1>4
<1>7. ASSUME NEW n \in DOMAIN states PROVE \E i \in DOMAIN c.states : number[i] = n - 1
  <2>1. n - 1 \in Range(number)
    BY <1>2, <1>3, <1>6
  <2> QED BY <2>1, <1>5 DEF Range
<1>8. ASSUME NEW n \in DOMAIN states, NEW i \in DOMAIN c.states, number[i] = n - 1
      PROVE  states[n].cores = c.states[i].cores
  <2> DEFINE parts == {c.states[m] : m \in {j \in DOMAIN NumbersOf(c) : NumbersOf(c)[j] = n - 1}}
  <2>1. states[n].cores = UNION {part.cores : part \in parts}
    BY <1>6 DEF MergedPart
  <2>2. \A part \in parts : part.cores = c.states[i].cores
    BY <1>2, <1>5, <1>8 DEF number
  <2>3. c.states[i] \in parts
    BY <1>5, <1>8 DEF number
  <2> HIDE DEF parts
  <2> QED BY <2>1, <2>2, <2>3
<1>9. ASSUME NEW i \in DOMAIN c.states PROVE number[i] + 1 \in DOMAIN states
  <2>1. number[i] \in Range(number)
    BY <1>5 DEF Range
  <2> QED BY <2>1, <1>2, <1>3, <1>6
<1>10. IsSequence(states)
  <2> DEFINE V == {MergedPart(c, n - 1) : n \in 1..N}
  <2>1. states \in [1..N -> V]
    BY <1>4
  <2> HIDE DEF V
  <2>2. states \in Seq(V)
    BY <2>1, <1>3
  <2> QED BY <2>2 DEF IsSequence
<1> QED BY <1>6, <1>7, <1>8, <1>9, <1>10 DEF N, states, number

LEMMA MergeIsGood ==
    ASSUME NEW A, GoodAnalysis(A), NEW c, IsSequence(c.states), AllGood(A, c.states)
    PROVE  LET states == MergeLR0Cores(c).states
           IN  /\ AllGood(A, states) /\ Distinct(states)
               /\ {s.cores : s \in Range(states)} = {s.cores : s \in Range(c.states)}
<1> DEFINE states == MergeLR0Cores(c).states
           ps == A.productions
           W == Short(SymbolsOf(ps))
<1>1. /\ \A n \in DOMAIN states :
            /\ states[n] = MergedPart(c, n - 1)
            /\ \E i \in DOMAIN c.states : NumbersOf(c)[i] = n - 1
            /\ \A i \in DOMAIN c.states : NumbersOf(c)[i] = n - 1 => states[n].cores = c.states[i].cores
      /\ \A i \in DOMAIN c.states : NumbersOf(c)[i] + 1 \in DOMAIN states
      /\ DOMAIN states = 1..Cardinality(Range(NumbersOf(c)))
  BY MergedCores
<1>2. PICK S : c.states \in Seq(S)
  BY DEF IsSequence
<1>3. /\ IsFiniteSet(Range(NumbersOf(c))) /\ Range(NumbersOf(c)) = 0..(Cardinality(Range(NumbersOf(c))) - 1)
      /\ \A i, j \in DOMAIN c.states : NumbersOf(c)[i] = NumbersOf(c)[j] <=> c.states[i].cores = c.states[j].cores
  BY <1>2, NumbersOfStates
<1>4. Cardinality(Range(NumbersOf(c))) \in Nat /\ DOMAIN NumbersOf(c) = DOMAIN c.states
  BY <1>3, FS_CardinalityType DEF NumbersOf
<1> HIDE DEF states
<1>5. ASSUME NEW n \in DOMAIN states PROVE GoodItems(A, states[n])
  <2> DEFINE parts == {c.states[m] : m \in {j \in DOMAIN NumbersOf(c) : NumbersOf(c)[j] = n - 1}}
  <2>1. \A part \in parts : part \in ItemsIn(ps, W) /\ Matched(part)
    <3>1. ASSUME NEW m \in DOMAIN c.states PROVE c.states[m] \in ItemsIn(ps, W) /\ Matched(c.states[m])
      <4>1. GoodItems(A, c.states[m])
        BY DEF AllGood
      <4> QED BY <4>1 DEF GoodItems, KernelIn
    <3> QED BY <3>1, <1>4
  <2>2. states[n] = [cores |-> UNION {part.cores : part \in parts}, windows |-> UNION {part.windows : part \in parts}]
    BY <1>1 DEF MergedPart
  <2> HIDE DEF parts
  <2>3. states[n] \in ItemsIn(ps, W) /\ Matched(states[n])
    <3>1. \A part \in parts : part.cores \subseteq CoresOf(ps) /\ part.windows \subseteq CoresOf(ps) \X W
      BY <2>1 DEF ItemsIn
    <3>2. UNION {part.cores : part \in parts} \subseteq CoresOf(ps)
          /\ UNION {part.windows : part \in parts} \subseteq CoresOf(ps) \X W
      BY <3>1
    <3>3. \A x \in UNION {part.windows : part \in parts} : x[1] \in UNION {part.cores : part \in parts}
      BY <2>1 DEF Matched
    <3> QED BY <2>2, <3>2, <3>3 DEF ItemsIn, Matched
  <2> QED BY <2>3, GoodItemsAre
<1>6. ASSUME NEW n \in DOMAIN states, NEW m \in DOMAIN states, states[n] = states[m] PROVE n = m
  <2>1. PICK i \in DOMAIN c.states : NumbersOf(c)[i] = n - 1
    BY <1>1
  <2>2. PICK j \in DOMAIN c.states : NumbersOf(c)[j] = m - 1
    BY <1>1
  <2>3. c.states[i].cores = c.states[j].cores
    BY <1>1, <1>6, <2>1, <2>2
  <2>4. n - 1 = m - 1
    BY <1>3, <2>1, <2>2, <2>3
  <2>5. n \in Int /\ m \in Int
    BY <1>1, <1>4
  <2> QED BY <2>4, <2>5
<1>7. ASSUME NEW n \in DOMAIN states PROVE \E i \in DOMAIN c.states : states[n].cores = c.states[i].cores
  BY <1>1
<1>8. ASSUME NEW i \in DOMAIN c.states PROVE \E n \in DOMAIN states : states[n].cores = c.states[i].cores
  <2> DEFINE n == NumbersOf(c)[i] + 1
  <2>1. n \in DOMAIN states
    BY <1>1
  <2>2. NumbersOf(c)[i] \in Range(NumbersOf(c))
    BY <1>4 DEF Range
  <2>3. NumbersOf(c)[i] = n - 1
    BY <2>2, <1>3, <1>4
  <2> HIDE DEF n
  <2> QED BY <2>1, <2>3, <1>1
<1>9. {s.cores : s \in Range(states)} = {s.cores : s \in Range(c.states)}
  BY <1>7, <1>8 DEF Range
<1> QED BY <1>5, <1>6, <1>9 DEF AllGood, Distinct, states

LEMMA AnalysisHas ==
    ASSUME NEW ps, NEW first, NEW A, A = Analysis(ps, 1, first)
    PROVE  /\ A.productions = ps /\ A.k = 1 /\ A.first = first
           /\ \A other : [A EXCEPT !.first = other] = Analysis(ps, 1, other)
<1> DEFINE order == FlattenSeq([i \in DOMAIN InOrder(ps) |->
                        [d \in 1..(Len(ps[i - 1].rhs) + 1) |-> <<i - 1, d - 1>>]])
<1>1. \A f : Analysis(ps, 1, f) = [productions |-> ps, k |-> 1, first |-> f, order |-> order]
  BY Zenon DEF Analysis
<1> HIDE DEF order
<1>2. A = [productions |-> ps, k |-> 1, first |-> first, order |-> order]
  BY <1>1
<1> QED BY <1>1, <1>2

-----------------------------------------------------------------------------
(* The loops of the construction end where the builds go: each round of a   *)
(* build is a round of the loop.                                            *)

LoopsTo(f, S, C, B, N) == f = [x \in S |-> IF x \in C THEN B[x] ELSE f[N[x]]]

LEMMA LoopFrom ==
    ASSUME NEW S, NEW N \in [S -> S], NEW C, NEW B
    PROVE  \E f : LoopsTo(f, S, C, B, N)
<1> DEFINE M == [x \in S |-> IF x \in C THEN x ELSE N[x]]
<1>1. M \in [S -> S]
  OBVIOUS
<1>2. \E g : g = [x \in S |-> IF x \in C THEN M[x] ELSE g[M[x]]]
  <2> HIDE DEF M
  <2> QED BY <1>1, LoopSolution
<1>3. PICK g : g = [x \in S |-> IF x \in C THEN M[x] ELSE g[M[x]]]
  BY <1>2
<1> DEFINE f == [x \in S |-> B[g[x]]]
<1>4. ASSUME NEW x \in S PROVE f[x] = IF x \in C THEN B[x] ELSE f[N[x]]
  <2>1. CASE x \in C
    <3>1. g[x] = x
      BY <1>3, <2>1
    <3> QED BY <2>1, <3>1
  <2>2. CASE x \notin C
    <3>1. M[x] = N[x] /\ N[x] \in S
      BY <2>2
    <3>2. g[x] = g[M[x]]
      <4> HIDE DEF M
      <4> QED BY <1>3, <2>2
    <3>3. f[x] = B[g[x]] /\ f[N[x]] = B[g[N[x]]]
      BY <3>1
    <3> QED BY <2>2, <3>1, <3>2, <3>3
  <2> QED BY <2>1, <2>2
<1>5. f = [x \in S |-> f[x]]
  OBVIOUS
<1> HIDE DEF f
<1>6. f = [x \in S |-> IF x \in C THEN B[x] ELSE f[N[x]]]
  BY <1>4, <1>5, Zenon
<1> QED BY <1>6, Zenon DEF LoopsTo

\* Any windows at all, of which the loop of FIRST is defined.
WideFirst(ps, first) == first \in [LeftSides(ps) -> SUBSET Seq(STRING)]

LEMMA WideConcatenation ==
    ASSUME NEW u, u \subseteq Seq(STRING), NEW v, v \subseteq Seq(STRING), NEW k \in Nat
    PROVE  Concatenate(u, v, k) \subseteq Seq(STRING)
<1>1. ASSUME NEW x \in u \X v PROVE Truncate(x[1] \o x[2], k) \in Seq(STRING)
  <2>1. x[1] \o x[2] \in Seq(STRING)
    OBVIOUS
  <2> QED BY <2>1 DEF Truncate
<1> QED BY <1>1 DEF Concatenate

LEMMA FirstIsWide ==
    ASSUME NEW ps, NEW first, WideFirst(ps, first), NEW symbols \in Seq(STRING), NEW k \in Nat
    PROVE  FirstOfString(first, k, symbols) \subseteq Seq(STRING)
<1> DEFINE n == Len(symbols)
           V == SUBSET Seq(STRING)
<1>1. n \in Nat /\ DOMAIN symbols = 1..n
  OBVIOUS
<1>2. {<<>>} \in V
  OBVIOUS
<1>3. ASSUME NEW i \in 1..n, NEW v \in V PROVE Concatenate(v, FirstOfSymbol(first, symbols[i]), k) \in V
  <2>1. symbols[i] \in STRING
    BY <1>1
  <2>2. FirstOfSymbol(first, symbols[i]) \subseteq Seq(STRING)
    <3>1. CASE symbols[i] \in DOMAIN first
      BY <3>1 DEF FirstOfSymbol, WideFirst
    <3>2. CASE symbols[i] \notin DOMAIN first
      <4>1. FirstOfSymbol(first, symbols[i]) = {<<symbols[i]>>}
        BY <3>2 DEF FirstOfSymbol
      <4> HIDE DEF n
      <4> QED BY <4>1, <2>1, OneElement
    <3> QED BY <3>1, <3>2
  <2>3. v \subseteq Seq(STRING)
    OBVIOUS
  <2>4. Concatenate(v, FirstOfSymbol(first, symbols[i]), k) \subseteq Seq(STRING)
    BY <2>2, <2>3, WideConcatenation
  <2> QED BY <2>4
<1>4. FirstOfStringStays(first, k, symbols, n, V)
  <2> HIDE DEF n, V
  <2> QED BY <1>3 DEF FirstOfStringStays
<1>5. PICK acc \in [0..n -> V] : FirstOfStringPath(first, k, symbols, n, acc)
  <2> HIDE DEF n, V
  <2> QED BY <1>1, <1>2, <1>4, FirstOfStringWorks
<1>6. acc[n] \in V /\ acc[n] = FirstOfString(first, k, symbols)
  <2>1. n \in 0..n
    BY <1>1
  <2> HIDE DEF n, V
  <2> QED BY <1>5, <2>1 DEF FirstOfStringPath
<1> QED BY <1>6

LEMMA VisitingOrder ==
    ASSUME NEW ps, GoodProductions(ps)
    PROVE  \E n \in Nat : /\ DOMAIN InOrder(ps) = 1..n /\ DOMAIN ps = 0..(n - 1)
                          /\ \A i \in 1..n : InOrder(ps)[i] = i - 1 /\ i - 1 \in DOMAIN ps
<1>1. PICK m \in Nat : DOMAIN ps = 0..m
  BY DEF GoodProductions
<1>2. Cardinality(0..m) = m + 1
  <2>1. 0 \in Int /\ m \in Int
    OBVIOUS
  <2>2. Cardinality(0..m) = IF 0 > m THEN 0 ELSE m - 0 + 1
    BY <2>1, FS_Interval
  <2> QED BY <2>2
<1> DEFINE n == m + 1
<1>3. InOrder(ps) = [i \in 1..n |-> i - 1] /\ n \in Nat /\ n - 1 = m
  BY <1>1, <1>2 DEF InOrder
<1>4. \A i \in 1..n : i - 1 \in 0..m
  OBVIOUS
<1> HIDE DEF n
<1>5. DOMAIN InOrder(ps) = 1..n /\ \A i \in 1..n : InOrder(ps)[i] = i - 1
  BY <1>3
<1> QED BY <1>1, <1>3, <1>4, <1>5

LEMMA SweepStaysWide ==
    ASSUME NEW ps, GoodProductions(ps), NEW first, WideFirst(ps, first), NEW k \in Nat
    PROVE  WideFirst(ps, FirstSweep(ps, k, first))
<1>1. PICK n \in Nat : /\ DOMAIN InOrder(ps) = 1..n
                       /\ \A i \in 1..n : InOrder(ps)[i] = i - 1 /\ i - 1 \in DOMAIN ps
  BY VisitingOrder
<1> DEFINE V == [LeftSides(ps) -> SUBSET Seq(STRING)]
<1>2. ASSUME NEW i \in 1..n, NEW v \in V
      PROVE  [v EXCEPT ![ps[InOrder(ps)[i]].lhs] = @ \cup FirstOfString(v, k, ps[InOrder(ps)[i]].rhs)] \in V
  <2> DEFINE id == InOrder(ps)[i]
  <2>1. id \in DOMAIN ps
    BY <1>1
  <2> HIDE DEF id
  <2>2. ps[id].lhs \in LeftSides(ps) /\ ps[id].rhs \in Seq(STRING)
    BY <2>1 DEF LeftSides, GoodProductions
  <2>3. FirstOfString(v, k, ps[id].rhs) \subseteq Seq(STRING)
    BY <2>2, FirstIsWide DEF WideFirst
  <2>4. [v EXCEPT ![ps[id].lhs] = @ \cup FirstOfString(v, k, ps[id].rhs)] \in V
    <3> DEFINE more == FirstOfString(v, k, ps[id].rhs)
               name == ps[id].lhs
    <3>1. v[name] \cup more \in SUBSET Seq(STRING)
      BY <2>2, <2>3
    <3> HIDE DEF more, name
    <3>2. [v EXCEPT ![name] = v[name] \cup more] \in V
      BY <3>1
    <3> QED BY <3>2 DEF more, name
  <2> QED BY <2>4 DEF id
<1>3. FirstSweepStays(ps, k, first, n, V)
  <2> HIDE DEF V
  <2> QED BY <1>2, Zenon DEF FirstSweepStays
<1>4. PICK acc \in [0..n -> V] : FirstSweepPath(ps, k, first, n, acc)
  <2>1. first \in V
    BY DEF WideFirst
  <2> HIDE DEF V
  <2> QED BY <1>1, <1>3, <2>1, FirstSweepWorks
<1>5. acc[n] \in V /\ acc[n] = FirstSweep(ps, k, first)
  <2>1. n \in 0..n
    OBVIOUS
  <2> HIDE DEF V
  <2> QED BY <1>4, <2>1 DEF FirstSweepPath
<1> QED BY <1>5 DEF WideFirst

\* The loop of computeFirstK.
FirstLoop(ps, k) ==
    CHOOSE f : f = [first \in [LeftSides(ps) -> SUBSET Seq(STRING)] |->
        IF FirstSweep(ps, k, first) = first THEN first ELSE f[FirstSweep(ps, k, first)]]

LEMMA FirstLoopIs ==
    ASSUME NEW ps, GoodProductions(ps), NEW k \in Nat
    PROVE  /\ ComputeFirstK(ps, k) = FirstLoop(ps, k)[NoFirst(ps)]
           /\ \A first : WideFirst(ps, first) =>
                 FirstLoop(ps, k)[first] =
                     IF FirstSweep(ps, k, first) = first THEN first ELSE FirstLoop(ps, k)[FirstSweep(ps, k, first)]
<1> DEFINE S == [LeftSides(ps) -> SUBSET Seq(STRING)]
           N == [x \in S |-> FirstSweep(ps, k, x)]
           C == {x \in S : FirstSweep(ps, k, x) = x}
           B == [x \in S |-> x]
<1>1. ComputeFirstK(ps, k) = FirstLoop(ps, k)[NoFirst(ps)]
  BY Zenon DEF ComputeFirstK, FirstLoop
<1>2. N \in [S -> S]
  <2>1. ASSUME NEW x \in S PROVE FirstSweep(ps, k, x) \in S
    BY SweepStaysWide DEF WideFirst
  <2> HIDE DEF S
  <2> QED BY <2>1
<1>3. \E g : LoopsTo(g, S, C, B, N)
  <2> HIDE DEF S, N, C, B
  <2> QED BY <1>2, LoopFrom
<1>4. PICK g : g = [x \in S |-> IF x \in C THEN B[x] ELSE g[N[x]]]
  <2> HIDE DEF S, N, C, B
  <2> QED BY <1>3 DEF LoopsTo
<1>5. ASSUME NEW x \in S
      PROVE  (IF x \in C THEN B[x] ELSE g[N[x]]) =
             (IF FirstSweep(ps, k, x) = x THEN x ELSE g[FirstSweep(ps, k, x)])
  <2> HIDE DEF S
  <2> QED OBVIOUS
<1>6. g = [x \in S |-> IF FirstSweep(ps, k, x) = x THEN x ELSE g[FirstSweep(ps, k, x)]]
  <2> HIDE DEF S, N, C, B
  <2> QED BY <1>4, <1>5
<1> DEFINE f == FirstLoop(ps, k)
<1>7. f = [x \in S |-> IF FirstSweep(ps, k, x) = x THEN x ELSE f[FirstSweep(ps, k, x)]]
  BY <1>6, Zenon DEF FirstLoop
<1> HIDE DEF f
<1>8. \A x \in S : f[x] = IF FirstSweep(ps, k, x) = x THEN x ELSE f[FirstSweep(ps, k, x)]
  <2> HIDE DEF S
  <2> QED BY <1>7
<1> QED BY <1>1, <1>8 DEF WideFirst, f

-----------------------------------------------------------------------------
(* The breadth first loop of buildCanonical. *)

\* The symbols an item of a state expects.
SymbolsKeptStays(g, G, items, n, V) ==
    \A i \in 1..n : \A v \in V : (IF Vocabulary(g)[i] \in NextSymbols(G, items) THEN Append(v, Vocabulary(g)[i]) ELSE v) \in V

SymbolsKeptPath(g, G, items, n, acc) ==
    /\ acc[0] = <<>> /\ acc[n] = SymbolsAfter(g, G, items)
    /\ \A i \in 1..n : acc[i] = (IF Vocabulary(g)[i] \in NextSymbols(G, items) THEN Append(acc[i - 1], Vocabulary(g)[i]) ELSE acc[i - 1])

LEMMA SymbolsKeptWorks ==
    ASSUME NEW g, NEW G, NEW items, NEW n \in Nat, DOMAIN Vocabulary(g) = 1..n, NEW V, <<>> \in V,
           SymbolsKeptStays(g, G, items, n, V)
    PROVE  \E acc \in [0..n -> V] : SymbolsKeptPath(g, G, items, n, acc)
<1> DEFINE step == [p \in (1..n) \X V |-> (IF Vocabulary(g)[p[1]] \in NextSymbols(G, items) THEN Append(p[2], Vocabulary(g)[p[1]]) ELSE p[2])]
           Visit(s, v) == (IF Vocabulary(g)[Max(s)] \in NextSymbols(G, items) THEN Append(v, Vocabulary(g)[Max(s)]) ELSE v)
           it == CHOOSE f : f = [s \in SUBSET DOMAIN Vocabulary(g) |-> IF s = {} THEN <<>> ELSE Visit(s, f[s \ {Max(s)}])]
<1>1. step \in [(1..n) \X V -> V]
  BY DEF SymbolsKeptStays
<1>2. PICK sol \in [SUBSET (1..n) -> V] : Folds(sol, n, <<>>, step)
  <2> HIDE DEF step
  <2> QED BY <1>1, FoldSolution
<1>3. sol = [s \in SUBSET DOMAIN Vocabulary(g) |-> IF s = {} THEN <<>> ELSE Visit(s, sol[s \ {Max(s)}])]
  <2>1. ASSUME NEW s \in SUBSET (1..n) PROVE sol[s] = IF s = {} THEN <<>> ELSE Visit(s, sol[s \ {Max(s)}])
    <3>1. CASE s = {}
      BY <1>2, <3>1 DEF Folds
    <3>2. CASE s # {}
      <4>1. Max(s) \in 1..n /\ s \ {Max(s)} \in SUBSET (1..n)
        BY <3>2, MaxOfSome
      <4>2. sol[s] = step[<<Max(s), sol[s \ {Max(s)}]>>]
        <5> HIDE DEF step
        <5> QED BY <1>2, <3>2 DEF Folds
      <4> QED BY <4>1, <4>2, <3>2
    <3> QED BY <3>1, <3>2
  <2> HIDE DEF Visit
  <2> QED BY <2>1
<1>4. it = [s \in SUBSET DOMAIN Vocabulary(g) |-> IF s = {} THEN <<>> ELSE Visit(s, it[s \ {Max(s)}])]
  <2> HIDE DEF Visit
  <2> QED BY <1>3, Zenon
<1>5. SymbolsAfter(g, G, items) = it[1..n]
  BY Zenon DEF SymbolsAfter, Selected, FoldLeft, MapThenFoldSet
<1>6. it[1..0] = <<>>
  <2> HIDE DEF Visit, it
  <2> QED BY <1>4
<1>7. ASSUME NEW i \in 1..n PROVE it[1..i] = (IF Vocabulary(g)[i] \in NextSymbols(G, items) THEN Append(it[1..(i - 1)], Vocabulary(g)[i]) ELSE it[1..(i - 1)])
  <2>1. 1..i \in SUBSET DOMAIN Vocabulary(g) /\ 1..i # {} /\ Max(1..i) = i /\ (1..i) \ {i} = 1..(i - 1)
    <3>1. /\ Max(1..i) = i /\ (1..i) \ {i} = 1..(i - 1)
          /\ 1..i \subseteq 1..n /\ 1..i # {}
      BY MaxOfFirst
    <3> QED BY <3>1
  <2>2. it[1..i] = Visit(1..i, it[(1..i) \ {Max(1..i)}])
    <3> HIDE DEF Visit, it
    <3> QED BY <1>4, <2>1
  <2> HIDE DEF it
  <2> QED BY <2>1, <2>2
<1>8. ASSUME NEW i \in 1..n, it[1..(i - 1)] \in V PROVE it[1..i] = step[<<i, it[1..(i - 1)]>>]
  <2> HIDE DEF it
  <2> QED BY <1>7, <1>8
<1>9. PICK acc \in [0..n -> V] : Follows(acc, n, <<>>, step, it)
  <2>1. Unfolds(it, n, V, <<>>, step)
    <3> HIDE DEF step, it
    <3> QED BY <1>6, <1>8 DEF Unfolds
  <2> HIDE DEF step, it
  <2> QED BY <1>1, <2>1, FoldPath
<1>10. ASSUME NEW i \in 1..n PROVE acc[i] = (IF Vocabulary(g)[i] \in NextSymbols(G, items) THEN Append(acc[i - 1], Vocabulary(g)[i]) ELSE acc[i - 1])
  <2>1. acc[i] = step[<<i, acc[i - 1]>>]
    <3> HIDE DEF step, it
    <3> QED BY <1>9 DEF Follows
  <2>2. <<i, acc[i - 1]>> \in (1..n) \X V
    <3>1. i - 1 \in 0..n
      OBVIOUS
    <3> QED BY <3>1
  <2> QED BY <2>1, <2>2
<1> HIDE DEF it, step
<1>11. acc[0] = <<>> /\ acc[n] = it[1..n]
  BY <1>9 DEF Follows
<1>12. SymbolsKeptPath(g, G, items, n, acc)
  BY <1>5, <1>10, <1>11 DEF SymbolsKeptPath
<1> QED BY <1>12

\* The transitions of a state, one symbol after the other.
ExpandStateStays(g, G, collection, state, n, V) ==
    \A i \in 1..n : \A v \in V : AddTransition(v, state, SymbolsAfter(g, G, collection.states[state + 1])[i], Closure(G, Kernel(G, collection.states[state + 1], SymbolsAfter(g, G, collection.states[state + 1])[i]))) \in V

ExpandStatePath(g, G, collection, state, n, acc) ==
    /\ acc[0] = collection /\ acc[n] = ExpandState(g, G, collection, state)
    /\ \A i \in 1..n : acc[i] = AddTransition(acc[i - 1], state, SymbolsAfter(g, G, collection.states[state + 1])[i], Closure(G, Kernel(G, collection.states[state + 1], SymbolsAfter(g, G, collection.states[state + 1])[i])))

LEMMA ExpandStateWorks ==
    ASSUME NEW g, NEW G, NEW collection, NEW state, NEW n \in Nat, DOMAIN SymbolsAfter(g, G, collection.states[state + 1]) = 1..n, NEW V, collection \in V,
           ExpandStateStays(g, G, collection, state, n, V)
    PROVE  \E acc \in [0..n -> V] : ExpandStatePath(g, G, collection, state, n, acc)
<1> DEFINE step == [p \in (1..n) \X V |-> AddTransition(p[2], state, SymbolsAfter(g, G, collection.states[state + 1])[p[1]], Closure(G, Kernel(G, collection.states[state + 1], SymbolsAfter(g, G, collection.states[state + 1])[p[1]])))]
           Visit(s, v) == AddTransition(v, state, SymbolsAfter(g, G, collection.states[state + 1])[Max(s)], Closure(G, Kernel(G, collection.states[state + 1], SymbolsAfter(g, G, collection.states[state + 1])[Max(s)])))
           it == CHOOSE f : f = [s \in SUBSET DOMAIN SymbolsAfter(g, G, collection.states[state + 1]) |-> IF s = {} THEN collection ELSE Visit(s, f[s \ {Max(s)}])]
<1>1. step \in [(1..n) \X V -> V]
  BY DEF ExpandStateStays
<1>2. PICK sol \in [SUBSET (1..n) -> V] : Folds(sol, n, collection, step)
  <2> HIDE DEF step
  <2> QED BY <1>1, FoldSolution
<1>3. sol = [s \in SUBSET DOMAIN SymbolsAfter(g, G, collection.states[state + 1]) |-> IF s = {} THEN collection ELSE Visit(s, sol[s \ {Max(s)}])]
  <2>1. ASSUME NEW s \in SUBSET (1..n) PROVE sol[s] = IF s = {} THEN collection ELSE Visit(s, sol[s \ {Max(s)}])
    <3>1. CASE s = {}
      BY <1>2, <3>1 DEF Folds
    <3>2. CASE s # {}
      <4>1. Max(s) \in 1..n /\ s \ {Max(s)} \in SUBSET (1..n)
        BY <3>2, MaxOfSome
      <4>2. sol[s] = step[<<Max(s), sol[s \ {Max(s)}]>>]
        <5> HIDE DEF step
        <5> QED BY <1>2, <3>2 DEF Folds
      <4> QED BY <4>1, <4>2, <3>2
    <3> QED BY <3>1, <3>2
  <2> HIDE DEF Visit
  <2> QED BY <2>1
<1>4. it = [s \in SUBSET DOMAIN SymbolsAfter(g, G, collection.states[state + 1]) |-> IF s = {} THEN collection ELSE Visit(s, it[s \ {Max(s)}])]
  <2> HIDE DEF Visit
  <2> QED BY <1>3, Zenon
<1>5. ExpandState(g, G, collection, state) = it[1..n]
  BY Zenon DEF ExpandState, FoldLeft, MapThenFoldSet
<1>6. it[1..0] = collection
  <2> HIDE DEF Visit, it
  <2> QED BY <1>4
<1>7. ASSUME NEW i \in 1..n PROVE it[1..i] = AddTransition(it[1..(i - 1)], state, SymbolsAfter(g, G, collection.states[state + 1])[i], Closure(G, Kernel(G, collection.states[state + 1], SymbolsAfter(g, G, collection.states[state + 1])[i])))
  <2>1. 1..i \in SUBSET DOMAIN SymbolsAfter(g, G, collection.states[state + 1]) /\ 1..i # {} /\ Max(1..i) = i /\ (1..i) \ {i} = 1..(i - 1)
    <3>1. /\ Max(1..i) = i /\ (1..i) \ {i} = 1..(i - 1)
          /\ 1..i \subseteq 1..n /\ 1..i # {}
      BY MaxOfFirst
    <3> QED BY <3>1
  <2>2. it[1..i] = Visit(1..i, it[(1..i) \ {Max(1..i)}])
    <3> HIDE DEF Visit, it
    <3> QED BY <1>4, <2>1
  <2> HIDE DEF it
  <2> QED BY <2>1, <2>2
<1>8. ASSUME NEW i \in 1..n, it[1..(i - 1)] \in V PROVE it[1..i] = step[<<i, it[1..(i - 1)]>>]
  <2> HIDE DEF it
  <2> QED BY <1>7, <1>8
<1>9. PICK acc \in [0..n -> V] : Follows(acc, n, collection, step, it)
  <2>1. Unfolds(it, n, V, collection, step)
    <3> HIDE DEF step, it
    <3> QED BY <1>6, <1>8 DEF Unfolds
  <2> HIDE DEF step, it
  <2> QED BY <1>1, <2>1, FoldPath
<1>10. ASSUME NEW i \in 1..n PROVE acc[i] = AddTransition(acc[i - 1], state, SymbolsAfter(g, G, collection.states[state + 1])[i], Closure(G, Kernel(G, collection.states[state + 1], SymbolsAfter(g, G, collection.states[state + 1])[i])))
  <2>1. acc[i] = step[<<i, acc[i - 1]>>]
    <3> HIDE DEF step, it
    <3> QED BY <1>9 DEF Follows
  <2>2. <<i, acc[i - 1]>> \in (1..n) \X V
    <3>1. i - 1 \in 0..n
      OBVIOUS
    <3> QED BY <3>1
  <2> QED BY <2>1, <2>2
<1> HIDE DEF it, step
<1>11. acc[0] = collection /\ acc[n] = it[1..n]
  BY <1>9 DEF Follows
<1>12. ExpandStatePath(g, G, collection, state, n, acc)
  BY <1>5, <1>10, <1>11 DEF ExpandStatePath
<1> QED BY <1>12

LEMMA OneMore ==
    ASSUME NEW S, NEW v \in Seq(S), NEW e \in S
    PROVE  Append(v, e) \in Seq(S)
OBVIOUS

\* What is followed is what some item expects, and all of it.
LEMMA SymbolsFollowed ==
    ASSUME NEW g, IsGrammar(g), NEW G, NEW items
    PROVE  /\ Vocabulary(g) \in Seq(STRING) /\ SymbolsAfter(g, G, items) \in Seq(STRING)
           /\ Range(SymbolsAfter(g, G, items)) = Range(Vocabulary(g)) \cap NextSymbols(G, items)
<1> DEFINE voc == Vocabulary(g)
           n == Len(voc)
           names == [r \in DOMAIN g.rules |-> g.rules[r].lhs]
           T == NextSymbols(G, items)
<1>1. names \in Seq(STRING)
  <2> DEFINE S == [lhs : STRING, tail : BOOLEAN, alts : Seq(Seq([name : STRING, auto : BOOLEAN, marked : BOOLEAN]))]
  <2>1. g.rules \in Seq(S)
    BY DEF IsGrammar
  <2>2. \A rule \in S : rule.lhs \in STRING
    OBVIOUS
  <2> HIDE DEF S
  <2>3. DOMAIN g.rules = 1..Len(g.rules) /\ Len(g.rules) \in Nat
    BY <2>1
  <2>4. names \in [1..Len(g.rules) -> STRING]
    BY <2>1, <2>2, <2>3
  <2> HIDE DEF names
  <2> QED BY <2>3, <2>4
<1>2. voc \in Seq(STRING)
  <2>1. g.tokens \in Seq(STRING)
    BY DEF IsGrammar
  <2> HIDE DEF names
  <2>2. g.tokens \o names \in Seq(STRING)
    BY <1>1, <2>1
  <2>3. voc = g.tokens \o names
    BY Zenon DEF Vocabulary, names
  <2> QED BY <2>2, <2>3
<1>3. n \in Nat /\ DOMAIN voc = 1..n /\ <<>> \in Seq(STRING)
  <2> HIDE DEF voc
  <2> QED BY <1>2
<1>4. SymbolsKeptStays(g, G, items, n, Seq(STRING))
  <2>1. ASSUME NEW i \in 1..n, NEW v \in Seq(STRING)
        PROVE  (IF voc[i] \in T THEN Append(v, voc[i]) ELSE v) \in Seq(STRING)
    <3> HIDE DEF voc, T
    <3>1. voc[i] \in STRING
      BY <1>2, <1>3
    <3>2. Append(v, voc[i]) \in Seq(STRING)
      BY <3>1, OneMore
    <3> QED BY <3>2
  <2> HIDE DEF n
  <2> QED BY <2>1 DEF SymbolsKeptStays
<1>5. PICK acc \in [0..n -> Seq(STRING)] : SymbolsKeptPath(g, G, items, n, acc)
  <2> HIDE DEF n, voc
  <2> QED BY <1>3, <1>4, SymbolsKeptWorks DEF voc
<1>6. /\ acc[0] = <<>> /\ acc[n] = SymbolsAfter(g, G, items)
      /\ \A i \in 1..n : acc[i] = (IF voc[i] \in T THEN Append(acc[i - 1], voc[i]) ELSE acc[i - 1])
  <2> HIDE DEF n
  <2> QED BY <1>5 DEF SymbolsKeptPath
<1> DEFINE P == {i \in 0..n : Range(acc[i]) = {voc[j] : j \in 1..i} \cap T}
<1> HIDE DEF voc, T
<1>7. 0 \in P
  <2>1. DOMAIN <<>> = {}
    OBVIOUS
  <2>2. Range(acc[0]) = {}
    BY <1>6, <2>1 DEF Range
  <2>3. 1..0 = {} /\ 0 \in 0..n
    BY <1>3
  <2> QED BY <2>2, <2>3
<1>8. ASSUME NEW i \in 1..n, i - 1 \in P PROVE i \in P
  <2> DEFINE u == acc[i - 1]
             x == voc[i]
  <2>1. u \in Seq(STRING) /\ i \in 0..n
    BY <1>3, <1>8
  <2>2. Range(u) = {voc[j] : j \in 1..(i - 1)} \cap T
    BY <1>8
  <2>3. 1..i = (1..(i - 1)) \cup {i}
    OBVIOUS
  <2>4. {voc[j] : j \in 1..i} = {voc[j] : j \in 1..(i - 1)} \cup {x}
    BY <2>3
  <2>5. acc[i] = IF x \in T THEN Append(u, x) ELSE u
    BY <1>6
  <2> HIDE DEF u, x
  <2>6. CASE x \in T
    <3>1. acc[i] = Append(u, x)
      BY <2>5, <2>6
    <3>2. Range(Append(u, x)) = Range(u) \cup {x}
      <4>1. DOMAIN u = 1..Len(u) /\ Len(u) \in Nat /\ DOMAIN Append(u, x) = 1..(Len(u) + 1)
            /\ Append(u, x)[Len(u) + 1] = x /\ \A j \in 1..Len(u) : Append(u, x)[j] = u[j]
        BY <2>1
      <4>2. 1..(Len(u) + 1) = (1..Len(u)) \cup {Len(u) + 1}
        BY <4>1
      <4> QED BY <4>1, <4>2 DEF Range
    <3> QED BY <2>1, <2>2, <2>4, <2>6, <3>1, <3>2
  <2>7. CASE x \notin T
    BY <2>1, <2>2, <2>4, <2>5, <2>7
  <2> QED BY <2>6, <2>7
<1>9. n \in P
  <2>1. 0..n \subseteq P
    <3> HIDE DEF P
    <3> QED BY <1>3, <1>7, <1>8, UpTo
  <2>2. n \in 0..n
    BY <1>3
  <2> QED BY <2>1, <2>2
<1>10. {voc[j] : j \in 1..n} = Range(voc)
  BY <1>3 DEF Range
<1>11. acc[n] \in Seq(STRING)
  <2>1. n \in 0..n
    BY <1>3
  <2> HIDE DEF n
  <2> QED BY <2>1
<1>12. Range(acc[n]) = Range(voc) \cap T
  BY <1>9, <1>10
<1> QED BY <1>2, <1>6, <1>11, <1>12 DEF voc, T

LEMMA StateSetsAre ==
    ASSUME NEW A, GoodAnalysis(A), NEW items
    PROVE  items \in StateSets(A) <=> GoodItems(A, items)
<1> DEFINE ps == A.productions
           symbols == {EndOfInput} \cup UNION {Range(ps[id].rhs) : id \in DOMAIN ps}
           T == SymbolsOf(ps)
<1>1. symbols = T
  BY Zenon DEF SymbolsOf
<1>2. items \in StateSets(A) <=>
          items \in ItemSets(A) /\ \A x \in items.windows :
              x[1] \in items.cores /\ Len(x[2]) <= A.k /\ Range(x[2]) \subseteq symbols
  BY Zenon DEF StateSets
<1>3. ItemSets(A) = ItemsIn(ps, Seq(STRING)) /\ A.k = 1 /\ T \subseteq STRING
  BY ItemSetsAre, GoodSymbols DEF GoodAnalysis
<1> HIDE DEF symbols, T
<1>4. ASSUME NEW w \in Seq(STRING), Len(w) <= 1, Range(w) \subseteq T PROVE w \in Short(T)
  <2>1. CASE w = <<>>
    BY <2>1, Zenon DEF Short
  <2>2. CASE w # <<>>
    <3>1. Len(w) = 1 /\ w[1] \in Range(w)
      <4>1. Len(w) \in Nat /\ Len(w) # 0 /\ DOMAIN w = 1..Len(w)
        BY <2>2
      <4>2. Len(w) = 1 /\ 1 \in DOMAIN w
        BY <4>1, <1>4
      <4> QED BY <4>2 DEF Range
    <3>2. w = <<w[1]>>
      BY <3>1
    <3>3. w[1] \in T
      BY <3>1, <1>4
    <3> QED BY <3>2, <3>3, Zenon DEF Short
  <2> QED BY <2>1, <2>2
<1>5. ASSUME NEW w \in Short(T) PROVE w \in Seq(STRING) /\ Len(w) <= 1 /\ Range(w) \subseteq T
  <2>1. w \in Seq(T) /\ (w = <<>> \/ \E s \in T : w = <<s>>)
    BY <1>5, ShortAreSequences
  <2>2. w \in Seq(STRING) /\ Len(w) <= 1
    <3>1. CASE w = <<>>
      <4>1. <<>> \in Seq(STRING) /\ Len(<<>>) = 0
        OBVIOUS
      <4> QED BY <3>1, <4>1
    <3>2. ASSUME NEW s \in T, w = <<s>> PROVE w \in Seq(STRING) /\ Len(w) <= 1
      <4>1. s \in STRING
        BY <1>3
      <4>2. Len(<<s>>) = 1
        OBVIOUS
      <4>3. <<s>> \in Seq(STRING)
        BY <4>1, OneElement
      <4> QED BY <3>2, <4>2, <4>3
    <3> QED BY <2>1, <3>1, <3>2
  <2>3. Range(w) \subseteq T
    BY <2>1, RangeOfSeq
  <2> QED BY <2>2, <2>3
<1>6. ASSUME items \in StateSets(A) PROVE GoodItems(A, items)
  <2>1. /\ items \in ItemsIn(ps, Seq(STRING))
        /\ \A x \in items.windows : x[1] \in items.cores /\ Len(x[2]) <= 1 /\ Range(x[2]) \subseteq T
    BY <1>1, <1>2, <1>3, <1>6
  <2>2. items.windows \subseteq CoresOf(ps) \X Short(T)
    <3>1. ASSUME NEW x \in items.windows PROVE x \in CoresOf(ps) \X Short(T)
      <4>1. x = <<x[1], x[2]>> /\ x[1] \in CoresOf(ps) /\ x[2] \in Seq(STRING)
        BY <2>1 DEF ItemsIn
      <4>2. x[2] \in Short(T)
        BY <2>1, <4>1, <1>4
      <4> QED BY <4>1, <4>2
    <3> QED BY <3>1
  <2>3. items \in ItemsIn(ps, Short(T)) /\ Matched(items)
    BY <2>1, <2>2 DEF ItemsIn, Matched
  <2> QED BY <2>3, GoodItemsAre DEF T
<1>7. ASSUME GoodItems(A, items) PROVE items \in StateSets(A)
  <2>1. items \in ItemsIn(ps, Short(T)) /\ Matched(items)
    BY <1>7 DEF GoodItems, KernelIn, T
  <2>2. ASSUME NEW x \in items.windows
        PROVE  /\ x \in CoresOf(ps) \X Seq(STRING)
               /\ x[1] \in items.cores /\ Len(x[2]) <= 1 /\ Range(x[2]) \subseteq T
    <3>1. x = <<x[1], x[2]>> /\ x[1] \in CoresOf(ps) /\ x[2] \in Short(T) /\ x[1] \in items.cores
      BY <2>1 DEF ItemsIn, Matched
    <3> QED BY <3>1, <1>5
  <2>3. items \in ItemsIn(ps, Seq(STRING))
    BY <2>1, <2>2 DEF ItemsIn
  <2> QED BY <1>1, <1>2, <1>3, <2>2, <2>3
<1> QED BY <1>6, <1>7

\* The states a state leads to, one after the other.
Expands(A, symbols, items, state, n, acc) ==
    \A i \in 1..n : acc[i] = AddTransition(acc[i - 1], state, symbols[i], Closure(A, Kernel(A, items, symbols[i])))

LEMMA CollectionsAre ==
    ASSUME NEW A, NEW c \in Collections(A)
    PROVE  /\ c = [states |-> c.states, moves |-> c.moves]
           /\ c.states \in Seq(StateSets(A)) /\ IsSequence(c.states)
           /\ DOMAIN c.states = 1..Len(c.states) /\ Len(c.states) \in Nat
<1>1. c = [states |-> c.states, moves |-> c.moves] /\ c.states \in Seq(StateSets(A))
  BY DEF Collections
<1>2. IsSequence(c.states)
  BY <1>1, Zenon DEF IsSequence
<1>3. DOMAIN c.states = 1..Len(c.states) /\ Len(c.states) \in Nat
  BY <1>1
<1> QED BY <1>1, <1>2, <1>3

LEMMA AddingStays ==
    ASSUME NEW A, NEW c \in Collections(A), NEW from \in Nat, NEW symbol \in STRING, NEW items \in StateSets(A)
    PROVE  /\ AddTransition(c, from, symbol, items) \in Collections(A)
           /\ Moved(AddTransition(c, from, symbol, items), c, from, symbol, items)
<1> DEFINE d == AddTransition(c, from, symbol, items)
<1>1. /\ IsSequence(c.states) /\ DOMAIN c.states = 1..Len(c.states) /\ Len(c.states) \in Nat
      /\ c.states \in Seq(StateSets(A)) /\ c.moves \subseteq [from : Nat, symbol : STRING, to : Nat]
  BY CollectionsAre DEF Collections
<1>0. Moved(d, c, from, symbol, items)
  BY <1>1, TransitionIs, Zenon
<1>2. /\ IsSequence(d.states) /\ Len(d.states) >= Len(c.states)
      /\ DOMAIN d.states = 1..Len(d.states)
      /\ \A i \in DOMAIN c.states : d.states[i] = c.states[i]
      /\ Range(d.states) = Range(c.states) \cup {items}
  BY <1>0, Zenon DEF Moved
<1>20. \E to \in DOMAIN d.states :
            d.moves = c.moves \cup {[from |-> from, symbol |-> symbol, to |-> to - 1]}
  BY <1>0, Zenon DEF Moved
<1>3. d = [states |-> d.states, moves |-> d.moves]
  BY DEF AddTransition
<1> HIDE DEF d
<1>4. PICK S : d.states \in Seq(S)
  BY <1>2 DEF IsSequence
<1>5. Range(c.states) \subseteq StateSets(A)
  BY <1>1, RangeOfSeq
<1>6. \A i \in DOMAIN d.states : d.states[i] \in StateSets(A)
  <2>1. \A i \in DOMAIN d.states : d.states[i] \in Range(d.states)
    BY DEF Range
  <2> QED BY <2>1, <1>2, <1>5
<1>7. d.states \in Seq(StateSets(A))
  <2>1. Len(d.states) \in Nat
    BY <1>4
  <2>2. d.states = [i \in 1..Len(d.states) |-> d.states[i]]
    BY <1>4
  <2>3. d.states \in [1..Len(d.states) -> StateSets(A)]
    BY <1>2, <1>6, <2>2
  <2> QED BY <2>1, <2>3
<1>8. d.moves \subseteq [from : Nat, symbol : STRING, to : Nat]
  <2>1. PICK to \in DOMAIN d.states : d.moves = c.moves \cup {[from |-> from, symbol |-> symbol, to |-> to - 1]}
    BY <1>20
  <2>2. to - 1 \in Nat
    BY <1>2, <1>4
  <2> QED BY <1>1, <2>1, <2>2
<1>9. d \in Collections(A)
  BY <1>3, <1>7, <1>8 DEF Collections
<1> QED BY <1>0, <1>9 DEF d

LEMMA StateAfter ==
    ASSUME NEW A, GoodAnalysis(A), NEW items \in StateSets(A), NEW symbol
    PROVE  Closure(A, Kernel(A, items, symbol)) \in StateSets(A)
<1>1. GoodItems(A, items)
  BY StateSetsAre
<1>2. GoodItems(A, Kernel(A, items, symbol))
  BY <1>1, KernelIsGood
<1>3. GoodItems(A, Closure(A, Kernel(A, items, symbol)))
  BY <1>2, ClosureStaysGood
<1> QED BY <1>3, StateSetsAre

LEMMA ExpandStateIs ==
    ASSUME NEW A, GoodAnalysis(A), NEW g, IsGrammar(g), NEW c \in Collections(A),
           NEW state \in Nat, state < Len(c.states)
    PROVE  LET items == c.states[state + 1]
               symbols == SymbolsAfter(g, A, items)
           IN  \E acc \in [0..Len(symbols) -> Collections(A)] :
                  /\ acc[0] = c /\ acc[Len(symbols)] = ExpandState(g, A, c, state)
                  /\ Expands(A, symbols, items, state, Len(symbols), acc)
<1> DEFINE items == c.states[state + 1]
           symbols == SymbolsAfter(g, A, items)
           n == Len(symbols)
<1>1. items \in StateSets(A)
  <2>1. state + 1 \in DOMAIN c.states /\ c.states \in Seq(StateSets(A))
    BY CollectionsAre
  <2> QED BY <2>1
<1>2. symbols \in Seq(STRING)
  BY SymbolsFollowed
<1> HIDE DEF items, symbols
<1>3. n \in Nat /\ DOMAIN symbols = 1..n
  BY <1>2
<1>4. ASSUME NEW i \in 1..n, NEW v \in Collections(A)
      PROVE  AddTransition(v, state, symbols[i], Closure(A, Kernel(A, items, symbols[i]))) \in Collections(A)
  <2>1. symbols[i] \in STRING
    BY <1>2
  <2>2. Closure(A, Kernel(A, items, symbols[i])) \in StateSets(A)
    BY <1>1, StateAfter
  <2> QED BY <2>1, <2>2, AddingStays
<1>5. ExpandStateStays(g, A, c, state, n, Collections(A))
  <2> HIDE DEF n
  <2> QED BY <1>4, Zenon DEF ExpandStateStays, symbols, items
<1>6. PICK acc \in [0..n -> Collections(A)] : ExpandStatePath(g, A, c, state, n, acc)
  <2>1. DOMAIN SymbolsAfter(g, A, c.states[state + 1]) = 1..n
    BY <1>3 DEF symbols, items
  <2> HIDE DEF n
  <2> QED BY <1>3, <1>5, <2>1, ExpandStateWorks
<1>7. /\ acc[0] = c /\ acc[n] = ExpandState(g, A, c, state)
      /\ Expands(A, symbols, items, state, n, acc)
  <2> HIDE DEF n
  <2> QED BY <1>6, Zenon DEF ExpandStatePath, Expands, symbols, items
<1> QED BY <1>7, Zenon DEF items, symbols

\* The loop of buildCanonical.
ExpandLoop(g, A) ==
    CHOOSE f : f = [work \in Nat \X Collections(A) |->
        IF work[1] >= Len(work[2].states) THEN work[2]
        ELSE f[<<work[1] + 1, ExpandState(g, A, work[2], work[1])>>]]

LEMMA ExpandLoopIs ==
    ASSUME NEW A, GoodAnalysis(A), NEW g, IsGrammar(g)
    PROVE  /\ Canonical(g, A) = ExpandLoop(g, A)[<<0, [states |-> <<Closure(A, StartKernel(1))>>, moves |-> {}]>>]
           /\ \A state \in Nat, c \in Collections(A) :
                 ExpandLoop(g, A)[<<state, c>>] =
                     IF state >= Len(c.states) THEN c
                     ELSE ExpandLoop(g, A)[<<state + 1, ExpandState(g, A, c, state)>>]
<1> DEFINE S == Nat \X Collections(A)
           Next_(x) == <<x[1] + 1, ExpandState(g, A, x[2], x[1])>>
           C == {x \in S : x[1] >= Len(x[2].states)}
           N == [x \in S |-> IF x \in C THEN x ELSE Next_(x)]
           B == [x \in S |-> x[2]]
<1>1. Canonical(g, A) = ExpandLoop(g, A)[<<0, [states |-> <<Closure(A, StartKernel(1))>>, moves |-> {}]>>]
  BY Zenon DEF Canonical, ExpandLoop, GoodAnalysis
<1>2. ASSUME NEW x \in S, x \notin C PROVE Next_(x) \in S
  <2>1. x[1] \in Nat /\ x[2] \in Collections(A) /\ x[1] < Len(x[2].states)
    <3>1. x[1] \in Nat /\ x[2] \in Collections(A) /\ ~(x[1] >= Len(x[2].states))
      BY <1>2
    <3>2. Len(x[2].states) \in Nat
      BY <3>1, CollectionsAre
    <3> QED BY <3>1, <3>2
  <2> DEFINE symbols == SymbolsAfter(g, A, x[2].states[x[1] + 1])
  <2>2. PICK acc \in [0..Len(symbols) -> Collections(A)] : acc[Len(symbols)] = ExpandState(g, A, x[2], x[1])
    BY <2>1, ExpandStateIs
  <2>3. Len(symbols) \in 0..Len(symbols)
    <3>1. symbols \in Seq(STRING)
      BY SymbolsFollowed
    <3> HIDE DEF symbols
    <3> QED BY <3>1
  <2>4. ExpandState(g, A, x[2], x[1]) \in Collections(A)
    <3> HIDE DEF symbols
    <3> QED BY <2>2, <2>3
  <2> QED BY <2>1, <2>4
<1>3. N \in [S -> S]
  <2> HIDE DEF S, C, Next_
  <2> QED BY <1>2
<1>4. \E f : LoopsTo(f, S, C, B, N)
  <2> HIDE DEF S, N, C, B
  <2> QED BY <1>3, LoopFrom
<1>5. PICK f : f = [x \in S |-> IF x \in C THEN B[x] ELSE f[N[x]]]
  <2> HIDE DEF S, N, C, B
  <2> QED BY <1>4 DEF LoopsTo
<1>6. ASSUME NEW x \in S
      PROVE  (IF x \in C THEN B[x] ELSE f[N[x]]) =
             (IF x[1] >= Len(x[2].states) THEN x[2] ELSE f[<<x[1] + 1, ExpandState(g, A, x[2], x[1])>>])
  <2>1. x \in C <=> x[1] >= Len(x[2].states)
    OBVIOUS
  <2>2. B[x] = x[2]
    OBVIOUS
  <2>3. x \notin C => N[x] = Next_(x)
    <3> HIDE DEF S, C, Next_
    <3> QED OBVIOUS
  <2> HIDE DEF S, C, N, B
  <2> QED BY <2>1, <2>2, <2>3
<1>7. f = [x \in S |-> IF x[1] >= Len(x[2].states) THEN x[2]
                       ELSE f[<<x[1] + 1, ExpandState(g, A, x[2], x[1])>>]]
  <2> HIDE DEF S, N, C, B
  <2> QED BY <1>5, <1>6
<1> DEFINE h == ExpandLoop(g, A)
<1>8. h = [x \in S |-> IF x[1] >= Len(x[2].states) THEN x[2]
                       ELSE h[<<x[1] + 1, ExpandState(g, A, x[2], x[1])>>]]
  BY <1>7, Zenon DEF ExpandLoop
<1> HIDE DEF h
<1>9. ASSUME NEW state \in Nat, NEW c \in Collections(A)
      PROVE  h[<<state, c>>] = IF state >= Len(c.states) THEN c
                               ELSE h[<<state + 1, ExpandState(g, A, c, state)>>]
  <2> DEFINE x == <<state, c>>
  <2>1. x \in S /\ x[1] = state /\ x[2] = c
    OBVIOUS
  <2> HIDE DEF x, S
  <2>2. h[x] = IF x[1] >= Len(x[2].states) THEN x[2] ELSE h[<<x[1] + 1, ExpandState(g, A, x[2], x[1])>>]
    BY <1>8, <2>1
  <2>3. h[x] = IF state >= Len(c.states) THEN c ELSE h[<<state + 1, ExpandState(g, A, c, state)>>]
    BY <2>1, <2>2
  <2> QED BY <2>3 DEF x
<1> QED BY <1>1, <1>9 DEF h

-----------------------------------------------------------------------------
(* A traversal under way: what is left of it leads to the same collection.  *)

\* The states that a state leads to with these symbols take c to goal.
Leads(A, items, state, symbols, c, goal) ==
    \E acc \in [0..Len(symbols) -> Collections(A)] :
        /\ acc[0] = c /\ acc[Len(symbols)] = goal
        /\ Expands(A, symbols, items, state, Len(symbols), acc)

LEMMA LeadsNowhere ==
    ASSUME NEW A, NEW items, NEW state, NEW c, NEW goal
    PROVE  Leads(A, items, state, <<>>, c, goal) <=> c \in Collections(A) /\ goal = c
<1>1. Len(<<>>) = 0 /\ 0..0 = {0} /\ 1..0 = {}
  OBVIOUS
<1>2. ASSUME Leads(A, items, state, <<>>, c, goal) PROVE c \in Collections(A) /\ goal = c
  BY <1>1, <1>2 DEF Leads
<1>3. ASSUME c \in Collections(A), goal = c PROVE Leads(A, items, state, <<>>, c, goal)
  <2> DEFINE acc == [i \in 0..0 |-> c]
  <2>1. acc \in [0..0 -> Collections(A)] /\ acc[0] = c
    BY <1>1, <1>3
  <2>2. Expands(A, <<>>, items, state, 0, acc)
    BY <1>1 DEF Expands
  <2> HIDE DEF acc
  <2> QED BY <1>1, <1>3, <2>1, <2>2 DEF Leads
<1> QED BY <1>2, <1>3

LEMMA LeadsOn ==
    ASSUME NEW A, NEW items, NEW state, NEW symbols \in Seq(STRING), symbols # <<>>, NEW c, NEW goal,
           Leads(A, items, state, symbols, c, goal),
           NEW d, d = AddTransition(c, state, Head(symbols), Closure(A, Kernel(A, items, Head(symbols))))
    PROVE  Leads(A, items, state, Tail(symbols), d, goal) /\ d \in Collections(A)
<1> DEFINE n == Len(symbols)
           next(v, symbol) == AddTransition(v, state, symbol, Closure(A, Kernel(A, items, symbol)))
           rest == Tail(symbols)
<1>1. /\ n \in Nat /\ n >= 1 /\ Len(rest) = n - 1 /\ rest \in Seq(STRING)
      /\ Head(symbols) = symbols[1] /\ \A i \in 1..(n - 1) : rest[i] = symbols[i + 1]
  <2>1. n \in Nat /\ n # 0
    OBVIOUS
  <2>2. Len(rest) = n - 1 /\ rest \in Seq(STRING) /\ Head(symbols) = symbols[1]
        /\ \A i \in 1..(n - 1) : rest[i] = symbols[i + 1]
    OBVIOUS
  <2> HIDE DEF n, rest
  <2> QED BY <2>1, <2>2
<1>2. PICK acc \in [0..n -> Collections(A)] :
          acc[0] = c /\ acc[n] = goal /\ Expands(A, symbols, items, state, n, acc)
  BY Zenon DEF Leads
<1> HIDE DEF n, rest, next
<1>3. \A i \in 1..n : acc[i] = next(acc[i - 1], symbols[i])
  BY <1>2 DEF Expands, next
<1> DEFINE tail == [i \in 0..(n - 1) |-> acc[i + 1]]
<1>4. tail \in [0..(n - 1) -> Collections(A)] /\ tail[0] = acc[1] /\ tail[n - 1] = acc[n] /\ acc[1] \in Collections(A)
  <2>1. \A i \in 0..(n - 1) : i + 1 \in 0..n
    BY <1>1
  <2>2. 0 \in 0..(n - 1) /\ n - 1 \in 0..(n - 1) /\ 0 + 1 = 1 /\ (n - 1) + 1 = n
    BY <1>1
  <2> QED BY <1>2, <2>1, <2>2
<1>5. acc[1] = d
  <2>1. 1 \in 1..n /\ 1 - 1 = 0
    BY <1>1
  <2>2. acc[1] = next(acc[0], symbols[1])
    BY <1>3, <2>1
  <2> QED BY <1>1, <1>2, <2>2 DEF next
<1>6. ASSUME NEW i \in 1..(n - 1) PROVE tail[i] = next(tail[i - 1], rest[i])
  <2>1. i + 1 \in 1..n /\ (i + 1) - 1 = i /\ i \in 0..(n - 1) /\ i - 1 \in 0..(n - 1) /\ (i - 1) + 1 = i
    BY <1>1
  <2>2. acc[i + 1] = next(acc[i], symbols[i + 1])
    BY <1>3, <2>1
  <2>3. tail[i] = acc[i + 1] /\ tail[i - 1] = acc[i]
    BY <2>1
  <2> QED BY <1>1, <2>2, <2>3
<1> HIDE DEF tail
<1>7. Expands(A, rest, items, state, n - 1, tail)
  BY <1>6 DEF Expands, next
<1>8. Leads(A, items, state, rest, d, goal)
  BY <1>1, <1>2, <1>4, <1>5, <1>7 DEF Leads
<1> QED BY <1>4, <1>5, <1>8 DEF rest

\* What the traversal still does ends with the canonical collection.
Underway(g, A, c, expandedStates, symbols) ==
    /\ c \in Collections(A) /\ symbols \in Seq(STRING)
    /\ \E goal \in Collections(A) :
          /\ Leads(A, c.states[expandedStates], expandedStates - 1, symbols, c, goal)
          /\ ExpandLoop(g, A)[<<expandedStates, goal>>] = Canonical(g, A)

LEMMA UnderwayStarts ==
    ASSUME NEW A, GoodAnalysis(A), 0 \in DOMAIN A.productions, NEW g, IsGrammar(g)
    PROVE  Underway(g, A, [states |-> <<Closure(A, StartKernel(1))>>, moves |-> {}], 0, <<>>)
<1> DEFINE R == Closure(A, StartKernel(1))
           c == [states |-> <<R>>, moves |-> {}]
<1>1. R \in StateSets(A)
  <2>1. GoodItems(A, R)
    BY StartIsGood, ClosureStaysGood
  <2> QED BY <2>1, StateSetsAre
<1>2. ExpandLoop(g, A)[<<0, c>>] = Canonical(g, A)
  BY ExpandLoopIs, Zenon
<1> HIDE DEF R
<1>3. c \in Collections(A)
  <2>1. <<R>> \in Seq(StateSets(A))
    BY <1>1, OneElement
  <2> QED BY <2>1 DEF Collections
<1>4. <<>> \in Seq(STRING)
  OBVIOUS
<1> HIDE DEF c
<1>5. Leads(A, c.states[0], 0 - 1, <<>>, c, c)
  BY <1>3, LeadsNowhere
<1>6. Underway(g, A, c, 0, <<>>)
  BY <1>2, <1>3, <1>4, <1>5, Zenon DEF Underway
<1> QED BY <1>6 DEF c, R

LEMMA UnderwayEnds ==
    ASSUME NEW A, GoodAnalysis(A), NEW g, IsGrammar(g), NEW c, NEW n \in Nat, Underway(g, A, c, n, <<>>)
    PROVE  /\ n >= Len(c.states) => c = Canonical(g, A)
           /\ n < Len(c.states) => Underway(g, A, c, n + 1, SymbolsAfter(g, A, c.states[n + 1]))
<1>1. c \in Collections(A) /\ ExpandLoop(g, A)[<<n, c>>] = Canonical(g, A)
  <2>1. PICK goal \in Collections(A) :
            /\ Leads(A, c.states[n], n - 1, <<>>, c, goal)
            /\ ExpandLoop(g, A)[<<n, goal>>] = Canonical(g, A)
    BY Zenon DEF Underway
  <2>2. c \in Collections(A) /\ goal = c
    BY <2>1, LeadsNowhere
  <2> QED BY <2>1, <2>2
<1>2. Len(c.states) \in Nat
  BY <1>1, CollectionsAre
<1>3. ExpandLoop(g, A)[<<n, c>>] = IF n >= Len(c.states) THEN c
                                   ELSE ExpandLoop(g, A)[<<n + 1, ExpandState(g, A, c, n)>>]
  BY <1>1, ExpandLoopIs
<1>4. ASSUME n < Len(c.states) PROVE Underway(g, A, c, n + 1, SymbolsAfter(g, A, c.states[n + 1]))
  <2> DEFINE items == c.states[n + 1]
             symbols == SymbolsAfter(g, A, items)
             goal == ExpandState(g, A, c, n)
  <2>1. PICK acc \in [0..Len(symbols) -> Collections(A)] :
            /\ acc[0] = c /\ acc[Len(symbols)] = goal
            /\ Expands(A, symbols, items, n, Len(symbols), acc)
    BY <1>1, <1>4, ExpandStateIs
  <2>2. symbols \in Seq(STRING)
    BY SymbolsFollowed
  <2>3. ExpandLoop(g, A)[<<n + 1, goal>>] = Canonical(g, A)
    BY <1>1, <1>2, <1>3, <1>4
  <2> HIDE DEF items, symbols, goal
  <2>4. Leads(A, items, n, symbols, c, goal) /\ goal \in Collections(A)
    <3>1. Len(symbols) \in 0..Len(symbols)
      BY <2>2
    <3> QED BY <2>1, <3>1 DEF Leads
  <2>5. (n + 1) - 1 = n
    OBVIOUS
  <2>6. Leads(A, c.states[n + 1], (n + 1) - 1, symbols, c, goal)
    BY <2>4, <2>5 DEF items
  <2>7. Underway(g, A, c, n + 1, symbols)
    BY <1>1, <2>2, <2>3, <2>4, <2>6, Zenon DEF Underway
  <2> QED BY <2>7 DEF symbols, items
<1> QED BY <1>1, <1>3, <1>4

LEMMA UnderwayGoes ==
    ASSUME NEW A, GoodAnalysis(A), NEW g, IsGrammar(g), NEW c, NEW n, n \in DOMAIN c.states,
           NEW symbols, symbols # <<>>, Underway(g, A, c, n, symbols),
           NEW d, d = AddTransition(c, n - 1, Head(symbols), Closure(A, Kernel(A, c.states[n], Head(symbols))))
    PROVE  Underway(g, A, d, n, Tail(symbols))
<1>1. c \in Collections(A) /\ symbols \in Seq(STRING)
  BY DEF Underway
<1>2. PICK goal \in Collections(A) :
          /\ Leads(A, c.states[n], n - 1, symbols, c, goal)
          /\ ExpandLoop(g, A)[<<n, goal>>] = Canonical(g, A)
  BY DEF Underway
<1>3. Leads(A, c.states[n], n - 1, Tail(symbols), d, goal) /\ d \in Collections(A)
  BY <1>1, <1>2, LeadsOn
<1>4. d.states[n] = c.states[n]
  <2>1. IsSequence(c.states)
    BY <1>1, CollectionsAre
  <2>2. Moved(d, c, n - 1, Head(symbols), Closure(A, Kernel(A, c.states[n], Head(symbols))))
    BY <2>1, TransitionIs
  <2> QED BY <2>2, Zenon DEF Moved
<1>5. Tail(symbols) \in Seq(STRING)
  BY <1>1
<1> QED BY <1>2, <1>3, <1>4, <1>5, Zenon DEF Underway

LEMMA TypedIsWide ==
    ASSUME NEW ps, GoodProductions(ps), NEW first, TypedFirst(ps, first)
    PROVE  WideFirst(ps, first)
<1>1. WindowsOf(ps) \subseteq Seq(STRING)
  <2>1. SymbolsOf(ps) \subseteq STRING
    BY SymbolsAreFinite
  <2>2. ASSUME NEW w \in WindowsOf(ps) PROVE w \in Seq(STRING)
    <3>1. w \in Seq(SymbolsOf(ps))
      BY ShortAreSequences DEF WindowsOf
    <3> QED BY <2>1, <3>1
  <2> QED BY <2>2
<1> QED BY <1>1 DEF TypedFirst, WideFirst

-----------------------------------------------------------------------------
(* Item sets in which every item has a lookahead.  The cores of such a      *)
(* closure are all its kernel can reach, lookaheads or not.                 *)

LEMMA FullClosure ==
    ASSUME NEW A, GoodAnalysis(A), Filled(A), NEW kernel, NEW T, KernelIn(A, kernel, T), Full(kernel)
    PROVE  /\ Full(Closure(A, kernel)) /\ ClosedItems(A, Closure(A, kernel))
           /\ Closure(A, kernel).cores = ExpansionIn(A, kernel.cores)
<1> DEFINE items == Closure(A, kernel)
<1>1. Within(kernel, items) /\ Settled(A, items) /\ Grown(A, kernel, items)
  BY ClosureIs
<1> HIDE DEF items
<1>2. Full(items)
  BY <1>1 DEF Grown
<1>3. ClosedItems(A, items)
  BY <1>1, <1>2 DEF ClosedItems, Settled, Full
<1>4. kernel.cores \subseteq CoresOf(A.productions)
  BY DEF KernelIn, ItemsIn
<1>5. OpenedIn(A, items.cores) /\ kernel.cores \subseteq items.cores
  BY <1>1, <1>3 DEF OpenedIn, ClosedItems, ClosedAt, Within
<1>6. ExpansionIn(A, kernel.cores) \subseteq items.cores
  BY <1>4, <1>5, ExpansionIs
<1>7. items.cores \subseteq ExpansionIn(A, kernel.cores)
  BY ClosureIsReached DEF items
<1> QED BY <1>2, <1>3, <1>6, <1>7 DEF items

\* The items after a symbol, without their lookaheads.
AfterIn(A, cores, symbol) ==
    {<<c[1], c[2] + 1>> : c \in {d \in cores : ~AtEnd(A, d) /\ NextSymbol(A, d) = symbol}}

\* The items of the state a symbol leads to.
TargetCores(A, cores, symbol) == ExpansionIn(A, AfterIn(A, cores, symbol))

LEMMA FullKernel ==
    ASSUME NEW A, NEW items, Full(items), NEW symbol
    PROVE  /\ Full(Kernel(A, items, symbol))
           /\ Kernel(A, items, symbol).cores = AfterIn(A, items.cores, symbol)
<1> DEFINE moved == {core \in items.cores : ~AtEnd(A, core) /\ NextSymbol(A, core) = symbol}
           step(core) == <<core[1], core[2] + 1>>
           cores == {step(core) : core \in moved}
           windows == {<<step(x[1]), x[2]>> : x \in {y \in items.windows : y[1] \in moved}}
           kernel == Kernel(A, items, symbol)
<1>1. Kernel(A, items, symbol) = [cores |-> cores, windows |-> windows]
  BY Zenon DEF Kernel
<1>2. kernel.cores = cores /\ kernel.windows = windows
  BY <1>1
<1>3. cores = AfterIn(A, items.cores, symbol)
  BY DEF AfterIn
<1> HIDE DEF kernel
<1>4. ASSUME NEW c \in kernel.cores PROVE Lookaheads(kernel, c) # {}
  <2>1. PICK core \in moved : c = step(core)
    BY <1>2
  <2>2. PICK x \in items.windows : x[1] = core
    BY <2>1 DEF Full, Lookaheads
  <2>3. <<step(x[1]), x[2]>> \in kernel.windows
    BY <1>2, <2>1, <2>2
  <2>4. <<step(x[1]), x[2]>>[1] = c
    BY <2>1, <2>2
  <2> HIDE DEF step, moved
  <2> QED BY <2>3, <2>4, ALookahead
<1> QED BY <1>2, <1>3, <1>4 DEF Full, kernel

LEMMA FullStart ==
    /\ Full(StartKernel(1)) /\ StartKernel(1).cores = {<<0, 0>>}
<1>1. /\ StartKernel(1).cores = {<<0, 0>>} /\ StartKernel(1).windows = {<<<<0, 0>>, EndWindow(1)>>}
  BY DEF StartKernel
<1>2. <<<<0, 0>>, EndWindow(1)>>[1] = <<0, 0>>
  OBVIOUS
<1> QED BY <1>1, <1>2, ALookahead DEF Full

\* The state a symbol leads to has every item it can reach.
LEMMA FullTarget ==
    ASSUME NEW A, GoodAnalysis(A), Filled(A), NEW items, GoodItems(A, items), Full(items), NEW symbol
    PROVE  LET to == Closure(A, Kernel(A, items, symbol))
           IN  Full(to) /\ to.cores = TargetCores(A, items.cores, symbol)
<1>1. GoodItems(A, Kernel(A, items, symbol)) /\ Full(Kernel(A, items, symbol))
      /\ Kernel(A, items, symbol).cores = AfterIn(A, items.cores, symbol)
  BY KernelIsGood, FullKernel
<1> QED BY <1>1, FullClosure DEF GoodItems, TargetCores

LEMMA FullFirst ==
    ASSUME NEW A, GoodAnalysis(A), 0 \in DOMAIN A.productions, Filled(A)
    PROVE  LET items == Closure(A, StartKernel(1))
           IN  Full(items) /\ items.cores = ExpansionIn(A, {<<0, 0>>})
<1>1. GoodItems(A, StartKernel(1))
  BY StartIsGood
<1> QED BY <1>1, FullStart, FullClosure DEF GoodItems

-----------------------------------------------------------------------------
(* The LR(0) states: what the cores of the first state lead to.             *)

StatesAfterIn(A, cores) ==
    {TargetCores(A, cores, NextSymbol(A, c)) : c \in {d \in cores : ~AtEnd(A, d)}}

LR0More(A, found) == found \cup UNION {StatesAfterIn(A, cores) : cores \in found}

LR0In(A) ==
    LET grow[found \in SUBSET SUBSET Range(A.order)] ==
            LET next == LR0More(A, found)
            IN  IF next = found THEN found ELSE grow[next]
    IN  grow[{ExpansionIn(A, {<<0, 0>>})}]

LeadsWithin(A, X) == \A cores \in X : StatesAfterIn(A, cores) \subseteq X

LEMMA AfterIsItems ==
    ASSUME NEW A, GoodAnalysis(A), NEW cores, cores \subseteq CoresOf(A.productions), NEW symbol
    PROVE  /\ AfterIn(A, cores, symbol) \subseteq CoresOf(A.productions)
           /\ TargetCores(A, cores, symbol) \subseteq CoresOf(A.productions)
<1> DEFINE ps == A.productions
<1>1. ASSUME NEW core \in cores, ~AtEnd(A, core) PROVE <<core[1], core[2] + 1>> \in CoresOf(ps)
  <2>1. core \in CoresOf(ps) /\ ~AtEnd(A, core)
    BY <1>1
  <2>2. core[1] \in DOMAIN ps /\ core[2] \in Nat /\ ps[core[1]].rhs \in Seq(STRING)
    BY <2>1 DEF CoresOf, GoodAnalysis, GoodProductions
  <2>3. Len(ps[core[1]].rhs) \in Nat /\ core[2] + 1 <= Len(ps[core[1]].rhs) /\ core[2] + 1 \in Nat
    <3>1. Len(ps[core[1]].rhs) \in Nat
      BY <2>2
    <3> QED BY <2>1, <2>2, <3>1 DEF AtEnd
  <2> QED BY <2>2, <2>3 DEF CoresOf
<1>2. AfterIn(A, cores, symbol) \subseteq CoresOf(ps)
  BY <1>1 DEF AfterIn
<1> QED BY <1>2, ExpansionIs DEF TargetCores

\* They are the least set with the first state and what its states lead to.
LEMMA LR0Is ==
    ASSUME NEW A, GoodAnalysis(A), 0 \in DOMAIN A.productions
    PROVE  /\ ExpansionIn(A, {<<0, 0>>}) \in LR0In(A) /\ LR0In(A) \subseteq SUBSET CoresOf(A.productions)
           /\ LeadsWithin(A, LR0In(A))
           /\ \A X : ExpansionIn(A, {<<0, 0>>}) \in X /\ LeadsWithin(A, X) => LR0In(A) \subseteq X
<1> DEFINE F == SUBSET CoresOf(A.productions)
           S == SUBSET F
           start == ExpansionIn(A, {<<0, 0>>})
           N == [x \in S |-> LR0More(A, x)]
           C == {x \in S : LR0More(A, x) = x}
           f == CHOOSE g : g = [x \in SUBSET SUBSET Range(A.order) |->
                    IF LR0More(A, x) = x THEN x ELSE g[LR0More(A, x)]]
           Least(x) == \A X : start \in X /\ LeadsWithin(A, X) => x \subseteq X
           D == {x \in S : start \in x /\ Least(x)}
           m == [x \in D |-> x]
<1>1. LR0In(A) = f[{start}]
  BY Zenon DEF LR0In
<1>2. ASSUME NEW x \in S PROVE LR0More(A, x) \in S /\ x \subseteq LR0More(A, x)
  <2>1. ASSUME NEW cores \in x, NEW symbol PROVE TargetCores(A, cores, symbol) \in F
    BY AfterIsItems
  <2>2. ASSUME NEW cores \in x PROVE StatesAfterIn(A, cores) \subseteq F
    BY <2>1 DEF StatesAfterIn
  <2> HIDE DEF F
  <2> QED BY <2>2 DEF LR0More
<1>3. N \in [S -> S]
  <2> HIDE DEF S
  <2> QED BY <1>2
<1>4. PICK g : g = [x \in S |-> IF x \in C THEN N[x] ELSE g[N[x]]]
  <2> HIDE DEF S, N, C
  <2> QED BY <1>3, LoopSolution
<1>5. ASSUME NEW x \in S PROVE (x \in C <=> LR0More(A, x) = x) /\ N[x] = LR0More(A, x)
  <2> HIDE DEF S
  <2> QED OBVIOUS
<1>6. S = SUBSET SUBSET Range(A.order)
  BY DEF GoodAnalysis
<1> HIDE DEF S, N, C
<1>7. g = [x \in SUBSET SUBSET Range(A.order) |-> IF LR0More(A, x) = x THEN x ELSE g[LR0More(A, x)]]
  <2>1. ASSUME NEW x \in S
        PROVE  (IF x \in C THEN N[x] ELSE g[N[x]]) = (IF LR0More(A, x) = x THEN x ELSE g[LR0More(A, x)])
    BY <1>5
  <2>2. g = [x \in S |-> IF LR0More(A, x) = x THEN x ELSE g[LR0More(A, x)]]
    BY <1>4, <2>1
  <2> QED BY <2>2, <1>6
<1>8. f = [x \in SUBSET SUBSET Range(A.order) |-> IF LR0More(A, x) = x THEN x ELSE f[LR0More(A, x)]]
  BY <1>7, Zenon
<1> HIDE DEF f
<1>9. f = [x \in S |-> IF x \in C THEN N[x] ELSE f[N[x]]]
  <2>1. ASSUME NEW x \in S
        PROVE  (IF x \in C THEN N[x] ELSE f[N[x]]) = (IF LR0More(A, x) = x THEN x ELSE f[LR0More(A, x)])
    BY <1>5
  <2>2. f = [x \in S |-> IF LR0More(A, x) = x THEN x ELSE f[LR0More(A, x)]]
    BY <1>8, <1>6
  <2> QED BY <2>1, <2>2
<1>10. IsFiniteSet(F)
  <2>1. IsFiniteSet(CoresOf(A.productions))
    BY CoresAreFinite
  <2> QED BY <2>1, FS_SUBSET
<1>11. ASSUME NEW x \in S, Least(x) PROVE Least(LR0More(A, x))
  <2>1. SUFFICES ASSUME NEW X, start \in X, LeadsWithin(A, X) PROVE LR0More(A, x) \subseteq X
    <3> HIDE DEF start
    <3> QED OBVIOUS
  <2>2. x \subseteq X
    BY <1>11, <2>1
  <2>3. \A cores \in x : StatesAfterIn(A, cores) \subseteq X
    BY <2>1, <2>2 DEF LeadsWithin
  <2> QED BY <2>2, <2>3 DEF LR0More
<1>12. ASSUME NEW x \in D, x \notin C PROVE N[x] \in D /\ m[x] \subseteq m[N[x]] /\ m[x] # m[N[x]]
  <2>1. x \in S /\ start \in x /\ Least(x)
    BY <1>12
  <2>2. LR0More(A, x) \in S /\ x \subseteq LR0More(A, x) /\ LR0More(A, x) # x /\ N[x] = LR0More(A, x)
    BY <2>1, <1>2, <1>5, <1>12
  <2>3. Least(LR0More(A, x))
    <3> HIDE DEF Least
    <3> QED BY <2>1, <1>11
  <2>4. N[x] \in D
    <3> HIDE DEF Least, start
    <3> QED BY <2>1, <2>2, <2>3
  <2>5. m[x] = x /\ m[N[x]] = N[x]
    BY <2>4, <1>12
  <2> HIDE DEF D, m
  <2> QED BY <2>2, <2>4, <2>5
<1>13. m \in [D -> SUBSET F] /\ D \subseteq S
  BY DEF S
<1>14. {start} \in D
  <2>1. start \subseteq CoresOf(A.productions)
    <3>1. {<<0, 0>>} \subseteq CoresOf(A.productions)
      <4>1. A.productions[0].rhs \in Seq(STRING)
        BY DEF GoodAnalysis, GoodProductions
      <4>2. Len(A.productions[0].rhs) \in Nat
        BY <4>1
      <4> QED BY <4>2 DEF CoresOf
    <3> QED BY <3>1, ExpansionIs
  <2>2. {start} \in S
    BY <2>1 DEF S
  <2> HIDE DEF start
  <2> QED BY <2>2
<1>15. PICK y \in D : y \in C /\ f[{start}] = N[y]
  <2> HIDE DEF D, m, F, start
  <2>1. Gains(D, C, N, m)
    BY <1>12 DEF Gains
  <2>2. Loops(f, S, C, N)
    BY <1>9 DEF Loops
  <2> QED BY <1>3, <1>10, <1>13, <1>14, <2>1, <2>2, LoopEnds
<1>16. f[{start}] = y /\ LR0More(A, y) = y /\ start \in y /\ y \in S /\ Least(y)
  <2>1. y \in S /\ start \in y /\ Least(y)
    BY <1>15
  <2> HIDE DEF Least, D, start
  <2> QED BY <2>1, <1>5, <1>15
<1>17. LeadsWithin(A, y)
  BY <1>16 DEF LR0More, LeadsWithin
<1>18. LR0In(A) = y
  BY <1>1, <1>16
<1> HIDE DEF f
<1> QED BY <1>16, <1>17, <1>18 DEF S
-----------------------------------------------------------------------------
(* From every state there is one transition with every symbol it expects.  *)

MovesLead(A, c) ==
    \A m \in c.moves : c.states[m.to + 1] = Closure(A, Kernel(A, c.states[m.from + 1], m.symbol))

HasMove(c, i, symbol) == \E m \in c.moves : m.from = i - 1 /\ m.symbol = symbol

\* The first n states have their transitions, but for these symbols of the last.
Followed(g, A, c, n, symbols) ==
    \A i \in 1..n : \A s \in NextSymbols(A, c.states[i]) \cap Range(Vocabulary(g)) :
        HasMove(c, i, s) \/ (i = n /\ s \in Range(symbols))

AllMoves(g, A, c) ==
    \A i \in DOMAIN c.states : \A s \in NextSymbols(A, c.states[i]) \cap Range(Vocabulary(g)) : HasMove(c, i, s)

OneTarget(c) ==
    \A m1, m2 \in c.moves : m1.from = m2.from /\ m1.symbol = m2.symbol => m1.to = m2.to

LEMMA MovesAdded ==
    ASSUME NEW A, NEW g, NEW c, IsSequence(c.states), MovesWithin(c), MovesLead(A, c),
           NEW n, n \in DOMAIN c.states, NEW symbols, NEW S, symbols \in Seq(S), symbols # <<>>,
           Followed(g, A, c, n, symbols),
           NEW d, d = AddTransition(c, n - 1, Head(symbols), Closure(A, Kernel(A, c.states[n], Head(symbols))))
    PROVE  MovesLead(A, d) /\ Followed(g, A, d, n, Tail(symbols))
<1> DEFINE items == Closure(A, Kernel(A, c.states[n], Head(symbols)))
           s0 == Head(symbols)
<1>1. PICK T : c.states \in Seq(T)
  BY DEF IsSequence
<1>2. Len(c.states) \in Nat /\ DOMAIN c.states = 1..Len(c.states) /\ n \in Nat /\ n \in Int
  BY <1>1
<1>3. Moved(d, c, n - 1, s0, items)
  BY TransitionIs
<1> HIDE DEF s0, items
<1>4. /\ \A i \in DOMAIN c.states : d.states[i] = c.states[i]
      /\ DOMAIN d.states = 1..Len(d.states) /\ Len(d.states) >= Len(c.states)
  BY <1>3, Zenon DEF Moved
<1>5. PICK to \in DOMAIN d.states :
          d.states[to] = items /\ d.moves = c.moves \cup {[from |-> n - 1, symbol |-> s0, to |-> to - 1]}
  BY <1>3, Zenon DEF Moved
<1>6. to \in Int
  <2>1. PICK U : d.states \in Seq(U)
    BY <1>3 DEF Moved, IsSequence
  <2> QED BY <1>5, <2>1
<1> DEFINE new == [from |-> n - 1, symbol |-> s0, to |-> to - 1]
<1>7. new.from = n - 1 /\ new.symbol = s0 /\ new.to = to - 1 /\ (n - 1) + 1 = n /\ (to - 1) + 1 = to
  BY <1>2, <1>6
<1>70. d.moves = c.moves \cup {new}
  BY <1>5
<1> HIDE DEF new
<1>8. MovesLead(A, d)
  <2>1. ASSUME NEW m \in c.moves
        PROVE  d.states[m.to + 1] = Closure(A, Kernel(A, d.states[m.from + 1], m.symbol))
    <3>1. m.to + 1 \in DOMAIN c.states /\ m.from + 1 \in DOMAIN c.states
      BY <1>2 DEF MovesWithin
    <3>2. d.states[m.to + 1] = c.states[m.to + 1] /\ d.states[m.from + 1] = c.states[m.from + 1]
      BY <1>4, <3>1
    <3> QED BY <3>2 DEF MovesLead
  <2>2. d.states[new.to + 1] = Closure(A, Kernel(A, d.states[new.from + 1], new.symbol))
    <3>1. d.states[n] = c.states[n]
      BY <1>4
    <3>2. items = Closure(A, Kernel(A, c.states[n], s0))
      BY DEF items, s0
    <3> QED BY <3>1, <3>2, <1>5, <1>7
  <2> QED BY <2>1, <2>2, <1>70 DEF MovesLead
<1>9. Followed(g, A, d, n, Tail(symbols))
  <2>1. ASSUME NEW s \in Range(symbols), s # s0 PROVE s \in Range(Tail(symbols))
    <3>1. PICK j \in DOMAIN symbols : s = symbols[j]
      BY DEF Range
    <3>2. s0 = symbols[1] /\ Len(symbols) \in Nat /\ DOMAIN symbols = 1..Len(symbols)
      BY DEF s0
    <3>3. Tail(symbols) \in Seq(S) /\ Len(Tail(symbols)) = Len(symbols) - 1
          /\ \A i \in 1..(Len(symbols) - 1) : Tail(symbols)[i] = symbols[i + 1]
      OBVIOUS
    <3>4. j - 1 \in 1..(Len(symbols) - 1) /\ (j - 1) + 1 = j
      BY <2>1, <3>1, <3>2
    <3>5. Tail(symbols)[j - 1] = s /\ j - 1 \in DOMAIN Tail(symbols)
      BY <3>1, <3>3, <3>4
    <3> QED BY <3>5 DEF Range
  <2>2. ASSUME NEW i \in 1..n, NEW s \in NextSymbols(A, d.states[i]) \cap Range(Vocabulary(g))
        PROVE  HasMove(d, i, s) \/ (i = n /\ s \in Range(Tail(symbols)))
    <3>1. i \in DOMAIN c.states
      BY <1>2
    <3>2. d.states[i] = c.states[i]
      BY <1>4, <3>1
    <3>3. HasMove(c, i, s) \/ (i = n /\ s \in Range(symbols))
      BY <3>2 DEF Followed
    <3>4. CASE HasMove(c, i, s)
      BY <3>4, <1>70 DEF HasMove
    <3>5. CASE i = n /\ s \in Range(symbols) /\ s # s0
      BY <3>5, <2>1
    <3>6. CASE i = n /\ s = s0
      <4>1. new \in d.moves /\ new.from = i - 1 /\ new.symbol = s
        BY <1>7, <1>70, <3>6
      <4> QED BY <4>1 DEF HasMove
    <3> QED BY <3>3, <3>4, <3>5, <3>6
  <2> QED BY <2>2 DEF Followed
<1> QED BY <1>8, <1>9

LEMMA MovesFollow ==
    ASSUME NEW A, NEW g, IsGrammar(g), NEW c, IsSequence(c.states), NEW n \in Nat, n <= Len(c.states),
           Followed(g, A, c, n, <<>>)
    PROVE  /\ n = Len(c.states) => AllMoves(g, A, c)
           /\ n # Len(c.states) => Followed(g, A, c, n + 1, SymbolsAfter(g, A, c.states[n + 1]))
<1>1. PICK T : c.states \in Seq(T)
  BY DEF IsSequence
<1>2. DOMAIN c.states = 1..Len(c.states)
  BY <1>1
<1>3. Range(<<>>) = {}
  <2>1. DOMAIN <<>> = {}
    OBVIOUS
  <2> QED BY <2>1 DEF Range
<1>4. \A i \in 1..n : \A s \in NextSymbols(A, c.states[i]) \cap Range(Vocabulary(g)) : HasMove(c, i, s)
  BY <1>3 DEF Followed
<1>5. n = Len(c.states) => AllMoves(g, A, c)
  BY <1>2, <1>4 DEF AllMoves
<1>6. Followed(g, A, c, n + 1, SymbolsAfter(g, A, c.states[n + 1]))
  <2> DEFINE symbols == SymbolsAfter(g, A, c.states[n + 1])
  <2>1. Range(symbols) = Range(Vocabulary(g)) \cap NextSymbols(A, c.states[n + 1])
    BY SymbolsFollowed
  <2> HIDE DEF symbols
  <2>2. ASSUME NEW i \in 1..(n + 1), NEW s \in NextSymbols(A, c.states[i]) \cap Range(Vocabulary(g))
        PROVE  HasMove(c, i, s) \/ (i = n + 1 /\ s \in Range(symbols))
    <3>1. i \in 1..n \/ i = n + 1
      OBVIOUS
    <3> QED BY <3>1, <2>1, <1>4
  <2>3. Followed(g, A, c, n + 1, symbols)
    BY <2>2 DEF Followed
  <2> QED BY <2>3 DEF symbols
<1> QED BY <1>5, <1>6

\* The numbers of the states two moves lead to are those of the same state.
LEMMA OneTargetOf ==
    ASSUME NEW A, NEW c, MovesWithin(c), IsSequence(c.states), MovesLead(A, c), Distinct(c.states)
    PROVE  OneTarget(c)
<1>1. PICK T : c.states \in Seq(T)
  BY DEF IsSequence
<1>2. ASSUME NEW m1 \in c.moves, NEW m2 \in c.moves, m1.from = m2.from, m1.symbol = m2.symbol
      PROVE  m1.to = m2.to
  <2>1. c.states[m1.to + 1] = c.states[m2.to + 1]
    BY <1>2 DEF MovesLead
  <2>2. /\ m1.to \in 0..(Len(c.states) - 1) /\ m2.to \in 0..(Len(c.states) - 1)
        /\ Len(c.states) \in Nat /\ DOMAIN c.states = 1..Len(c.states)
    BY <1>1 DEF MovesWithin
  <2>3. m1.to + 1 \in DOMAIN c.states /\ m2.to + 1 \in DOMAIN c.states
    BY <2>2
  <2>4. m1.to + 1 = m2.to + 1
    BY <2>1, <2>3 DEF Distinct
  <2> QED BY <2>2, <2>4
<1> QED BY <1>2 DEF OneTarget

LEMMA MergedMovesAre ==
    ASSUME NEW A, NEW g, NEW c, IsSequence(c.states), AllMoves(g, A, c), ~InconsistentMerge(c)
    PROVE  AllMoves(g, A, MergeLR0Cores(c)) /\ OneTarget(MergeLR0Cores(c))
<1> DEFINE d == MergeLR0Cores(c)
<1>1. d.moves = MergedMoves(c)
  BY MergeIs
<1>2. OneTarget(d)
  BY <1>1, Zenon DEF OneTarget, InconsistentMerge
<1>3. /\ \A n \in DOMAIN d.states :
            /\ \E i \in DOMAIN c.states : NumbersOf(c)[i] = n - 1
            /\ \A i \in DOMAIN c.states : NumbersOf(c)[i] = n - 1 => d.states[n].cores = c.states[i].cores
  BY MergedCores
<1>4. PICK T : c.states \in Seq(T)
  BY DEF IsSequence
<1> HIDE DEF d
<1>5. ASSUME NEW n \in DOMAIN d.states, NEW s \in NextSymbols(A, d.states[n]) \cap Range(Vocabulary(g))
      PROVE  HasMove(d, n, s)
  <2>1. PICK i \in DOMAIN c.states : NumbersOf(c)[i] = n - 1 /\ d.states[n].cores = c.states[i].cores
    BY <1>3
  <2>2. s \in NextSymbols(A, c.states[i])
    BY <2>1 DEF NextSymbols
  <2>3. PICK m \in c.moves : m.from = i - 1 /\ m.symbol = s
    BY <2>2 DEF AllMoves, HasMove
  <2>4. NumbersOf(c)[i] = MergedNumber(c, i - 1)
    BY DEF NumbersOf
  <2> DEFINE e == [from |-> MergedNumber(c, m.from), symbol |-> m.symbol, to |-> MergedNumber(c, m.to)]
  <2>5. e \in d.moves /\ e.from = n - 1 /\ e.symbol = s
    BY <1>1, <2>1, <2>3, <2>4 DEF MergedMoves
  <2> QED BY <2>5 DEF HasMove
<1>6. AllMoves(g, A, d)
  BY <1>5 DEF AllMoves
<1> QED BY <1>2, <1>6 DEF d

-----------------------------------------------------------------------------
(* The proposals of a state, one kind of action at a time.                  *)

After(A, core, w) == Concatenate({<<NextSymbol(A, core)>>}, FirstOfSuffix(A, core[1], core[2] + 1, w), A.k)
OnToken(A, core) == ~AtEnd(A, core) /\ NextSymbol(A, core) \notin LeftSides(A.productions)

AShift(A, c, state, p) ==
    \E core \in c.states[state + 1].cores : \E w \in Lookaheads(c.states[state + 1], core) :
    \E v \in After(A, core, w) :
        /\ OnToken(A, core)
        /\ p = [window |-> v, item |-> core, action |-> Shift(GotoOf(c, state, NextSymbol(A, core)))]

AReduction(A, c, state, p) ==
    \E x \in c.states[state + 1].windows :
        /\ x[1] \in c.states[state + 1].cores /\ AtEnd(A, x[1]) /\ x[1][1] # 0
        /\ p = [window |-> x[2], item |-> x[1], action |-> Reduce(x[1][1])]

AnAccept(A, c, state, p) ==
    \E x \in c.states[state + 1].windows :
        /\ x[1] \in c.states[state + 1].cores /\ AtEnd(A, x[1]) /\ x[1][1] = 0 /\ x[2] = EndWindow(A.k)
        /\ p = [window |-> x[2], item |-> x[1], action |-> AcceptAction]

LEMMA ProposalsAre ==
    ASSUME NEW A, NEW c, NEW state, NEW p
    PROVE  p \in Proposals(A, c, state) <=>
              AShift(A, c, state, p) \/ AReduction(A, c, state, p) \/ AnAccept(A, c, state, p)
<1> DEFINE items == c.states[state + 1]
           shifts == {core \in items.cores : ~AtEnd(A, core) /\ NextSymbol(A, core) \notin LeftSides(A.productions)}
           windowsAfter(core) == UNION {After(A, core, w) : w \in Lookaheads(items, core)}
           ended == {core \in items.cores : AtEnd(A, core)}
           first == UNION {{[window |-> w, item |-> core, action |-> Shift(GotoOf(c, state, NextSymbol(A, core)))] :
                       w \in windowsAfter(core)} : core \in shifts}
           second == {[window |-> x[2], item |-> x[1], action |-> Reduce(x[1][1])] :
                         x \in {y \in items.windows : y[1] \in ended /\ y[1][1] # 0}}
           third == {[window |-> x[2], item |-> x[1], action |-> AcceptAction] :
                        x \in {y \in items.windows : y[1] \in ended /\ y[1][1] = 0 /\ y[2] = EndWindow(A.k)}}
<1>1. Proposals(A, c, state) = first \cup second \cup third
  BY Zenon DEF Proposals, After
<1>2. p \in first <=> AShift(A, c, state, p)
  <2> DEFINE made(core, w) == [window |-> w, item |-> core, action |-> Shift(GotoOf(c, state, NextSymbol(A, core)))]
  <2> HIDE DEF made
  <2>1. first = UNION {{made(core, w) : w \in windowsAfter(core)} : core \in shifts}
    BY Zenon DEF made
  <2>2. p \in first <=> \E core \in shifts : \E w \in windowsAfter(core) : p = made(core, w)
    <3> HIDE DEF first, shifts, windowsAfter
    <3> QED BY <2>1
  <2>3. \A core, v : v \in windowsAfter(core) <=> \E w \in Lookaheads(items, core) : v \in After(A, core, w)
    OBVIOUS
  <2>4. \A core : core \in shifts <=> core \in items.cores /\ OnToken(A, core)
    BY Zenon DEF OnToken
  <2>5. AShift(A, c, state, p) <=> \E core \in items.cores : \E w \in Lookaheads(items, core) :
            \E v \in After(A, core, w) : OnToken(A, core) /\ p = made(core, v)
    BY Zenon DEF AShift, made
  <2> HIDE DEF first, shifts, windowsAfter, items
  <2> QED BY <2>2, <2>3, <2>4, <2>5
<1>3. p \in second <=> AReduction(A, c, state, p)
  <2> DEFINE made(x) == [window |-> x[2], item |-> x[1], action |-> Reduce(x[1][1])]
  <2> HIDE DEF made
  <2>1. second = {made(x) : x \in {y \in items.windows : y[1] \in ended /\ y[1][1] # 0}}
    BY Zenon DEF made
  <2>2. AReduction(A, c, state, p) <=>
            \E x \in items.windows : x[1] \in items.cores /\ AtEnd(A, x[1]) /\ x[1][1] # 0 /\ p = made(x)
    BY Zenon DEF AReduction, made
  <2> HIDE DEF second, items
  <2> QED BY <2>1, <2>2
<1>4. p \in third <=> AnAccept(A, c, state, p)
  <2> DEFINE made(x) == [window |-> x[2], item |-> x[1], action |-> AcceptAction]
  <2> HIDE DEF made
  <2>1. third = {made(x) : x \in {y \in items.windows : y[1] \in ended /\ y[1][1] = 0 /\ y[2] = EndWindow(A.k)}}
    BY Zenon DEF made
  <2>2. AnAccept(A, c, state, p) <=>
            \E x \in items.windows :
               x[1] \in items.cores /\ AtEnd(A, x[1]) /\ x[1][1] = 0 /\ x[2] = EndWindow(A.k) /\ p = made(x)
    BY Zenon DEF AnAccept, made
  <2> HIDE DEF third, items
  <2> QED BY <2>1, <2>2
<1> HIDE DEF first, second, third
<1> QED BY <1>1, <1>2, <1>3, <1>4

StartsWell(ps) ==
    GoodProductions(ps) /\ 0 \in DOMAIN ps /\ ps[0].lhs = Augmented /\ ps[0].rhs = <<Main>> /\ ps[0].gaps = {}

\* What the row of a state needs: a good state, and one transition with every
\* token it expects.
RowReady(A, c, state) ==
    /\ GoodAnalysis(A) /\ StartsWell(A.productions)
    /\ state \in Int /\ GoodItems(A, c.states[state + 1])
    /\ OneTarget(c)
    /\ \A s \in NextSymbols(A, c.states[state + 1]) :
          s \notin LeftSides(A.productions) => HasMove(c, state + 1, s)

LEMMA GotoIs ==
    ASSUME NEW c, NEW state \in Int, NEW s, HasMove(c, state + 1, s)
    PROVE  \E m \in c.moves : m.from = state /\ m.symbol = s /\ GotoOf(c, state, s) = m.to
<1> DEFINE m == CHOOSE x \in c.moves : x.from = state /\ x.symbol = s
<1>1. (state + 1) - 1 = state
  OBVIOUS
<1>2. \E x \in c.moves : x.from = state /\ x.symbol = s
  BY <1>1 DEF HasMove
<1>3. m \in c.moves /\ m.from = state /\ m.symbol = s
  BY <1>2, Zenon
<1>4. GotoOf(c, state, s) = m.to
  BY Zenon DEF GotoOf
<1> HIDE DEF m
<1> QED BY <1>3, <1>4

\* A state has a transition with every token it expects.
LEMMA TokensAreFollowed ==
    ASSUME NEW g, IsGrammar(g), ~Malformed(g), NEW A, A.productions = PrepareProductions(g), NEW c, NEW i,
           AllMoves(g, A, c), i \in DOMAIN c.states, c.states[i].cores \subseteq CoresOf(A.productions),
           NEW s \in NextSymbols(A, c.states[i]), s \notin LeftSides(A.productions)
    PROVE  HasMove(c, i, s)
<1> DEFINE ps == PrepareProductions(g)
<1>1. PICK core \in c.states[i].cores : ~AtEnd(A, core) /\ s = NextSymbol(A, core)
  BY DEF NextSymbols
<1>2. GoodProductions(ps)
  BY PreparedAreGood
<1>3. s \in Range(ps[core[1]].rhs) /\ core[1] \in DOMAIN ps
  <2>1. core \in CoresOf(ps)
    BY <1>1
  <2>2. core[1] \in DOMAIN ps /\ core[2] \in Nat
    BY <2>1 DEF CoresOf
  <2> DEFINE rhs == ps[core[1]].rhs
  <2>3. rhs \in Seq(STRING)
    BY <1>2, <2>2 DEF GoodProductions
  <2>4. ~(core[2] >= Len(rhs)) /\ s = rhs[core[2] + 1]
    BY <1>1 DEF AtEnd, NextSymbol
  <2> HIDE DEF rhs
  <2>5. Len(rhs) \in Nat /\ DOMAIN rhs = 1..Len(rhs)
    BY <2>3
  <2>6. core[2] + 1 \in DOMAIN rhs
    BY <2>2, <2>4, <2>5
  <2>7. s \in Range(rhs)
    BY <2>4, <2>6 DEF Range
  <2> QED BY <2>2, <2>7 DEF rhs
<1>4. s \in LeftSides(ps) \cup Range(g.tokens)
  <2> HIDE DEF ps
  <2>1. ~\E id \in DOMAIN ps : \E symbol \in Range(ps[id].rhs) :
            symbol = EndOfInput \/ symbol \notin LeftSides(ps) \cup Range(g.tokens)
    BY Zenon DEF Malformed, ps
  <2> QED BY <1>3, <2>1
<1>5. s \in Range(g.tokens)
  BY <1>4
<1>6. s \in Range(Vocabulary(g))
  <2> DEFINE names == [r \in DOMAIN g.rules |-> g.rules[r].lhs]
  <2>1. g.tokens \in Seq(STRING) /\ Vocabulary(g) \in Seq(STRING)
    BY SymbolsFollowed DEF IsGrammar
  <2>2. PICK n \in DOMAIN g.tokens : s = g.tokens[n]
    BY <1>5 DEF Range
  <2>3. Vocabulary(g) = g.tokens \o names
    BY Zenon DEF Vocabulary
  <2>30. names \in Seq(STRING)
    <3> DEFINE S == [lhs : STRING, tail : BOOLEAN, alts : Seq(Seq([name : STRING, auto : BOOLEAN, marked : BOOLEAN]))]
    <3>1. g.rules \in Seq(S)
      BY DEF IsGrammar
    <3>2. \A rule \in S : rule.lhs \in STRING
      OBVIOUS
    <3> HIDE DEF S
    <3>3. DOMAIN g.rules = 1..Len(g.rules) /\ Len(g.rules) \in Nat
      BY <3>1
    <3>4. names \in [1..Len(g.rules) -> STRING]
      BY <3>1, <3>2, <3>3
    <3> HIDE DEF names
    <3> QED BY <3>3, <3>4
  <2> HIDE DEF names
  <2>4. n \in DOMAIN Vocabulary(g) /\ Vocabulary(g)[n] = s
    BY <2>1, <2>2, <2>3, <2>30
  <2> QED BY <2>4 DEF Range
<1> QED BY <1>6 DEF AllMoves

-----------------------------------------------------------------------------
(* The order in which the symbols of a state are followed is that of the    *)
(* productions: another grammar with the same productions has it too.       *)

\* The sequence has the one before the other.
Precedes(seq, x, y) == \E i, j \in DOMAIN seq : i < j /\ seq[i] = x /\ seq[j] = y

OrderedBy(s, voc) == \A i, j \in DOMAIN s : i < j => Precedes(voc, s[i], s[j])

Agree(one, other) == \A x, y : ~(Precedes(one, x, y) /\ Precedes(other, y, x))

LEMMA NoneTwice ==
    ASSUME NEW s \in Seq(STRING), NEW one, OrderedBy(s, one), Agree(one, one),
           NEW i \in DOMAIN s, NEW j \in DOMAIN s, s[i] = s[j]
    PROVE  i = j
<1>1. i \in Int /\ j \in Int
  OBVIOUS
<1>2. ~(i < j)
  BY DEF OrderedBy, Agree
<1>3. ~(j < i)
  BY DEF OrderedBy, Agree
<1> QED BY <1>1, <1>2, <1>3

LEMMA OneOrder ==
    ASSUME NEW s \in Seq(STRING), NEW t \in Seq(STRING), Range(s) = Range(t), NEW one, NEW other,
           OrderedBy(s, one), OrderedBy(t, other), Agree(one, other), Agree(one, one), Agree(other, other)
    PROVE  s = t
<1>0. /\ DOMAIN s = 1..Len(s) /\ Len(s) \in Nat
      /\ DOMAIN t = 1..Len(t) /\ Len(t) \in Nat
  OBVIOUS
<1>1. \A i \in DOMAIN s : \E j \in DOMAIN t : s[i] = t[j]
  BY DEF Range
<1>2. \A i \in DOMAIN t : \E j \in DOMAIN s : t[i] = s[j]
  BY DEF Range
<1> DEFINE D == {i \in Nat : i \in DOMAIN s /\ i \in DOMAIN t /\ s[i] # t[i]}
<1>3. D = {}
  <2> SUFFICES ASSUME D # {} PROVE FALSE
    OBVIOUS
  <2>1. PICK i \in D : \A j \in D : i <= j
    <3>1. D \subseteq Nat
      OBVIOUS
    <3> HIDE DEF D
    <3> QED BY <3>1, HasLeast
  <2>2. i \in Nat /\ i \in DOMAIN s /\ i \in DOMAIN t /\ s[i] # t[i]
    OBVIOUS
  <2>3. ASSUME NEW k \in Nat, k < i, k >= 1 PROVE k \in DOMAIN s /\ k \in DOMAIN t /\ s[k] = t[k]
    <3>1. k \in DOMAIN s /\ k \in DOMAIN t
      BY <1>0, <2>2, <2>3
    <3>2. k \notin D
      <4> HIDE DEF D
      <4> QED BY <2>1, <2>2, <2>3
    <3> QED BY <3>1, <3>2
  <2> HIDE DEF D
  <2>4. PICK j \in DOMAIN t : s[i] = t[j]
    BY <1>1, <2>2
  <2>5. PICK l \in DOMAIN s : t[i] = s[l]
    BY <1>2, <2>2
  <2>6. i < j
    <3>1. j # i
      BY <2>2, <2>4
    <3>2. ~(j < i)
      <4> SUFFICES ASSUME j < i PROVE FALSE
        OBVIOUS
      <4>1. j \in Nat /\ j >= 1
        BY <1>0
      <4>2. j \in DOMAIN s /\ s[j] = s[i]
        BY <4>1, <2>3, <2>4
      <4>3. j = i
        BY <4>2, <2>2, NoneTwice
      <4> QED BY <4>3, <3>1
    <3> QED BY <3>1, <3>2, <2>2, <1>0
  <2>7. i < l
    <3>1. l # i
      BY <2>2, <2>5
    <3>2. ~(l < i)
      <4> SUFFICES ASSUME l < i PROVE FALSE
        OBVIOUS
      <4>1. l \in Nat /\ l >= 1
        BY <1>0
      <4>2. l \in DOMAIN t /\ t[l] = t[i]
        BY <4>1, <2>3, <2>5
      <4>3. l = i
        BY <4>2, <2>2, NoneTwice
      <4> QED BY <4>3, <3>1
    <3> QED BY <3>1, <3>2, <2>2, <1>0
  <2>8. Precedes(one, s[i], t[i])
    BY <2>2, <2>5, <2>7 DEF OrderedBy
  <2>9. Precedes(other, t[i], s[i])
    BY <2>2, <2>4, <2>6 DEF OrderedBy
  <2> QED BY <2>8, <2>9 DEF Agree
<1>4. \A i \in DOMAIN s : i \in DOMAIN t => s[i] = t[i]
  <2>1. \A i \in DOMAIN s : i \in Nat
    BY <1>0
  <2> QED BY <2>1, <1>3
<1>5. ~(Len(s) < Len(t))
  <2> SUFFICES ASSUME Len(s) < Len(t) PROVE FALSE
    OBVIOUS
  <2> DEFINE n == Len(s) + 1
  <2>1. n \in DOMAIN t
    BY <1>0
  <2>2. PICK k \in DOMAIN s : t[n] = s[k]
    BY <1>2, <2>1
  <2>3. k \in DOMAIN t /\ k # n
    BY <1>0
  <2>4. t[k] = t[n]
    BY <1>4, <2>2, <2>3
  <2> QED BY <2>1, <2>3, <2>4, NoneTwice
<1>6. ~(Len(t) < Len(s))
  <2> SUFFICES ASSUME Len(t) < Len(s) PROVE FALSE
    OBVIOUS
  <2> DEFINE n == Len(t) + 1
  <2>1. n \in DOMAIN s
    BY <1>0
  <2>2. PICK k \in DOMAIN t : s[n] = t[k]
    BY <1>1, <2>1
  <2>3. k \in DOMAIN s /\ k # n
    BY <1>0
  <2>4. s[k] = s[n]
    BY <1>4, <2>2, <2>3
  <2> QED BY <2>1, <2>3, <2>4, NoneTwice
<1>7. Len(s) = Len(t)
  <2>1. Len(s) \in Nat /\ Len(t) \in Nat
    BY <1>0
  <2> QED BY <2>1, <1>5, <1>6
<1> QED BY <1>0, <1>4, <1>7

LEMMA SymbolsInOrder ==
    ASSUME NEW g, IsGrammar(g), NEW G, NEW items
    PROVE  OrderedBy(SymbolsAfter(g, G, items), Vocabulary(g))
<1> DEFINE voc == Vocabulary(g)
           n == Len(voc)
           T == NextSymbols(G, items)
<1>2. voc \in Seq(STRING)
  BY SymbolsFollowed
<1> HIDE DEF voc
<1>3. n \in Nat /\ DOMAIN voc = 1..n /\ <<>> \in Seq(STRING)
  BY <1>2
<1>4. SymbolsKeptStays(g, G, items, n, Seq(STRING))
  <2>1. ASSUME NEW i \in 1..n, NEW v \in Seq(STRING)
        PROVE  (IF voc[i] \in T THEN Append(v, voc[i]) ELSE v) \in Seq(STRING)
    <3> HIDE DEF T
    <3>1. voc[i] \in STRING
      BY <1>2, <1>3
    <3>2. Append(v, voc[i]) \in Seq(STRING)
      BY <3>1, OneMore
    <3> QED BY <3>2
  <2> HIDE DEF n
  <2> QED BY <2>1 DEF SymbolsKeptStays, voc
<1>5. PICK acc \in [0..n -> Seq(STRING)] : SymbolsKeptPath(g, G, items, n, acc)
  <2> HIDE DEF n
  <2> QED BY <1>3, <1>4, SymbolsKeptWorks DEF voc
<1>6. /\ acc[0] = <<>> /\ acc[n] = SymbolsAfter(g, G, items)
      /\ \A i \in 1..n : acc[i] = (IF voc[i] \in T THEN Append(acc[i - 1], voc[i]) ELSE acc[i - 1])
  <2> HIDE DEF n
  <2> QED BY <1>5 DEF SymbolsKeptPath, voc
<1> DEFINE Early(v, i) == \A a \in DOMAIN v : \E m \in 1..i : v[a] = voc[m]
           P == {i \in 0..n : OrderedBy(acc[i], voc) /\ Early(acc[i], i)}
<1> HIDE DEF T
<1>7. 0 \in P
  <2>1. DOMAIN <<>> = {} /\ 0 \in 0..n
    BY <1>3
  <2> QED BY <1>6, <2>1 DEF OrderedBy
<1>8. ASSUME NEW i \in 1..n, i - 1 \in P PROVE i \in P
  <2> DEFINE u == acc[i - 1]
             x == voc[i]
             w == Append(u, x)
  <2>1. u \in Seq(STRING) /\ i \in 0..n /\ i - 1 \in 0..n /\ i \in DOMAIN voc
    BY <1>3
  <2>2. OrderedBy(u, voc) /\ Early(u, i - 1)
    BY <1>8
  <2>5. acc[i] = IF x \in T THEN w ELSE u
    BY <1>6
  <2>6. Early(u, i)
    <3>1. 1..(i - 1) \subseteq 1..i
      OBVIOUS
    <3> HIDE DEF u
    <3> QED BY <2>2, <3>1
  <2>7. OrderedBy(w, voc) /\ Early(w, i)
    <3>1. DOMAIN u = 1..Len(u) /\ Len(u) \in Nat /\ DOMAIN w = 1..(Len(u) + 1)
          /\ w[Len(u) + 1] = x /\ \A j \in 1..Len(u) : w[j] = u[j]
      BY <2>1
    <3> HIDE DEF u, w
    <3>2. ASSUME NEW a \in DOMAIN w, NEW b \in DOMAIN w, a < b PROVE Precedes(voc, w[a], w[b])
      <4>1. a \in 1..Len(u) /\ w[a] = u[a] /\ a \in DOMAIN u
        BY <3>1, <3>2
      <4>2. CASE b \in 1..Len(u)
        BY <4>1, <4>2, <3>1, <3>2, <2>2 DEF OrderedBy
      <4>3. CASE b \notin 1..Len(u)
        <5>1. w[b] = x
          BY <4>3, <3>1
        <5>2. PICK m \in 1..(i - 1) : u[a] = voc[m]
          BY <2>2, <4>1
        <5>3. m \in DOMAIN voc /\ m < i
          BY <1>3, <2>1
        <5> QED BY <5>1, <5>2, <5>3, <4>1, <2>1 DEF Precedes
      <4> QED BY <4>2, <4>3
    <3>3. ASSUME NEW a \in DOMAIN w PROVE \E m \in 1..i : w[a] = voc[m]
      <4>1. CASE a \in 1..Len(u)
        BY <4>1, <3>1, <2>6
      <4>2. CASE a \notin 1..Len(u)
        <5>1. w[a] = voc[i] /\ i \in 1..i
          BY <4>2, <3>1
        <5> QED BY <5>1
      <4> QED BY <4>1, <4>2
    <3> QED BY <3>2, <3>3 DEF OrderedBy
  <2>8. OrderedBy(acc[i], voc) /\ Early(acc[i], i)
    <3> HIDE DEF u, w, Early
    <3> QED BY <2>2, <2>5, <2>6, <2>7
  <2> QED BY <2>1, <2>8
<1>9. n \in P
  <2>1. 0..n \subseteq P
    <3> HIDE DEF P
    <3> QED BY <1>3, <1>7, <1>8, UpTo
  <2>2. n \in 0..n
    BY <1>3
  <2> QED BY <2>1, <2>2
<1> QED BY <1>6, <1>9 DEF voc

\* Of the symbols of a state, the names of a grammar are all but the reserved one.
LEMMA NamesOfProductions ==
    ASSUME NEW g, IsGrammar(g), ~Malformed(g), NEW A, A.productions = PrepareProductions(g),
           NEW items, items.cores \subseteq CoresOf(A.productions), NEW s \in NextSymbols(A, items)
    PROVE  s \in Range(Vocabulary(g)) <=> s # Augmented
<1> DEFINE ps == PrepareProductions(g)
           names == [r \in DOMAIN g.rules |-> g.rules[r].lhs]
<1>1. PICK core \in items.cores : ~AtEnd(A, core) /\ s = NextSymbol(A, core)
  BY DEF NextSymbols
<1>2. GoodProductions(ps)
  BY PreparedAreGood
<1>3. s \in Range(ps[core[1]].rhs) /\ core[1] \in DOMAIN ps
  <2>1. core \in CoresOf(ps)
    BY <1>1
  <2>2. core[1] \in DOMAIN ps /\ core[2] \in Nat
    BY <2>1 DEF CoresOf
  <2> DEFINE rhs == ps[core[1]].rhs
  <2>3. rhs \in Seq(STRING)
    BY <1>2, <2>2 DEF GoodProductions
  <2>4. ~(core[2] >= Len(rhs)) /\ s = rhs[core[2] + 1]
    BY <1>1 DEF AtEnd, NextSymbol
  <2> HIDE DEF rhs
  <2>5. Len(rhs) \in Nat /\ DOMAIN rhs = 1..Len(rhs)
    BY <2>3
  <2>6. core[2] + 1 \in DOMAIN rhs
    BY <2>2, <2>4, <2>5
  <2>7. s \in Range(rhs)
    BY <2>4, <2>6 DEF Range
  <2> QED BY <2>2, <2>7 DEF rhs
<1>4. s \in LeftSides(ps) \cup Range(g.tokens)
  <2> HIDE DEF ps
  <2>1. ~\E id \in DOMAIN ps : \E symbol \in Range(ps[id].rhs) :
            symbol = EndOfInput \/ symbol \notin LeftSides(ps) \cup Range(g.tokens)
    BY Zenon DEF Malformed, ps
  <2> QED BY <1>3, <2>1
<1>5. Range(Vocabulary(g)) = Range(g.tokens) \cup RuleNamesOf(g)
  <2>1. g.tokens \in Seq(STRING)
    BY DEF IsGrammar
  <2>2. Vocabulary(g) = g.tokens \o names
    BY Zenon DEF Vocabulary
  <2>3. names \in Seq(STRING) /\ DOMAIN names = DOMAIN g.rules
    <3> DEFINE S == [lhs : STRING, tail : BOOLEAN, alts : Seq(Seq([name : STRING, auto : BOOLEAN, marked : BOOLEAN]))]
    <3>1. g.rules \in Seq(S)
      BY DEF IsGrammar
    <3>2. \A rule \in S : rule.lhs \in STRING
      OBVIOUS
    <3> HIDE DEF S
    <3>3. DOMAIN g.rules = 1..Len(g.rules) /\ Len(g.rules) \in Nat
      BY <3>1
    <3>4. names \in [1..Len(g.rules) -> STRING]
      BY <3>1, <3>2, <3>3
    <3> HIDE DEF names
    <3> QED BY <3>3, <3>4
  <2>4. Range(names) = RuleNamesOf(g)
    BY DEF Range, RuleNamesOf
  <2> HIDE DEF names
  <2>5. Range(g.tokens \o names) = Range(g.tokens) \cup Range(names)
    <3> DEFINE t == g.tokens
               v == t \o names
    <3>1. /\ DOMAIN t = 1..Len(t) /\ Len(t) \in Nat /\ DOMAIN names = 1..Len(names) /\ Len(names) \in Nat
          /\ DOMAIN v = 1..(Len(t) + Len(names))
          /\ \A i \in 1..Len(t) : v[i] = t[i]
          /\ \A i \in 1..Len(names) : v[Len(t) + i] = names[i]
      BY <2>1, <2>3
    <3> HIDE DEF t, v
    <3>2. ASSUME NEW e \in Range(v) PROVE e \in Range(t) \cup Range(names)
      <4>1. PICK i \in DOMAIN v : e = v[i]
        BY DEF Range
      <4>2. CASE i \in 1..Len(t)
        BY <4>1, <4>2, <3>1 DEF Range
      <4>3. CASE i \notin 1..Len(t)
        <5> DEFINE j == i - Len(t)
        <5>1. j \in 1..Len(names) /\ Len(t) + j = i
          BY <4>3, <3>1
        <5> HIDE DEF j
        <5> QED BY <4>1, <5>1, <3>1 DEF Range
      <4> QED BY <4>2, <4>3
    <3>3. ASSUME NEW e \in Range(t) PROVE e \in Range(v)
      <4>1. PICK i \in DOMAIN t : e = t[i]
        BY DEF Range
      <4>2. i \in DOMAIN v /\ v[i] = e
        BY <4>1, <3>1
      <4> QED BY <4>2 DEF Range
    <3>4. ASSUME NEW e \in Range(names) PROVE e \in Range(v)
      <4>1. PICK i \in DOMAIN names : e = names[i]
        BY DEF Range
      <4>2. Len(t) + i \in DOMAIN v /\ v[Len(t) + i] = e
        BY <4>1, <3>1
      <4> QED BY <4>2 DEF Range
    <3>5. Range(v) = Range(t) \cup Range(names)
      BY <3>2, <3>3, <3>4
    <3> QED BY <3>5 DEF t, v
  <2> QED BY <2>2, <2>4, <2>5
<1>6. Augmented \notin Range(g.tokens)
  BY DEF IsGrammar
<1>7. Augmented \notin RuleNamesOf(g)
  BY DEF Malformed, RuleNamesOf
<1>8. ASSUME s \in LeftSides(ps), s # Augmented PROVE s \in RuleNamesOf(g)
  <2>1. PICK id \in DOMAIN ps : s = ps[id].lhs
    BY <1>8 DEF LeftSides
  <2>2. /\ ps[0].lhs = Augmented
        /\ \A i \in DOMAIN ps : LET p == ps[i] IN i # 0 => p.lhs \in RuleNamesOf(g)
    BY PreparedAreGood
  <2> HIDE DEF ps
  <2> QED BY <1>8, <2>1, <2>2
<1> HIDE DEF ps
<1> QED BY <1>4, <1>5, <1>6, <1>7, <1>8

-----------------------------------------------------------------------------
(* The resolution of conflicts, one depth after the other.                  *)

DecisionsOf(ps, d, c) ==
    DecisionsAt(ps, d, ComputeFirstK(ps, d), Follow(ps, d, ComputeFirstK(ps, d)), c)

FoundAt(ps, d, open) == IF open = {} THEN <<>> ELSE ResolveAt(ps, d, open)
Deeper(ps, d, v) == Extended(v, d, FoundAt(ps, d, v.open))

\* A decision is an action that some origin of a conflict asks for.
DecisionFor(C, x) ==
    \E cell \in C : \E origin \in cell.origins :
        x = [state |-> cell.state, window |-> x.window, action |-> origin.action]

GoodVerdict(C, v) ==
    /\ v = [open |-> v.open, decisions |-> v.decisions, k |-> v.k]
    /\ v.open \subseteq C /\ \A x \in v.decisions : DecisionFor(C, x)

LEMMA DecisionsAreFor ==
    ASSUME NEW ps, NEW d, NEW C, NEW c \in C, NEW x \in DecisionsOf(ps, d, c)
    PROVE  DecisionFor(C, x)
<1> DEFINE first == ComputeFirstK(ps, d)
           follow == Follow(ps, d, first)
           ways(origin) == Continuations(ps, d, first, follow, c, origin)
           proposals == UNION {{[window |-> w, action |-> origin.action] : w \in ways(origin)} : origin \in c.origins}
           disjoint == \A p, q \in proposals : p.window = q.window => p.action = q.action
           complete == \A action \in c.actions : \E p \in proposals : p.action = action
           made(p) == [state |-> c.state, window |-> p.window, action |-> p.action]
<1>1. DecisionsOf(ps, d, c) = IF disjoint /\ complete THEN {made(p) : p \in proposals} ELSE {}
  BY Zenon DEF DecisionsOf, DecisionsAt
<1>2. PICK p \in proposals : x = made(p)
  <2> HIDE DEF disjoint, complete, proposals, made
  <2> QED BY <1>1
<1>3. PICK origin \in c.origins : \E w : p = [window |-> w, action |-> origin.action]
  <2> HIDE DEF ways
  <2> QED OBVIOUS
<1>4. p.action = origin.action
  BY <1>3
<1> HIDE DEF proposals, disjoint, complete
<1>5. x = [state |-> c.state, window |-> p.window, action |-> origin.action]
  BY <1>2, <1>4
<1>6. x.window = p.window
  BY <1>5
<1> QED BY <1>5, <1>6 DEF DecisionFor

LEMMA ResolvedAtIs ==
    ASSUME NEW ps, NEW d, NEW open
    PROVE  /\ DOMAIN FoundAt(ps, d, open) \subseteq open
           /\ UNION Range(FoundAt(ps, d, open)) \subseteq UNION {DecisionsOf(ps, d, c) : c \in open}
<1> DEFINE found == [c \in open |-> DecisionsOf(ps, d, c)]
           some == {c \in open : found[c] # {}}
           f == [c \in some |-> found[c]]
<1>1. ResolveAt(ps, d, open) = f
  <2>1. ResolveAt(ps, d, open) = DecidedWith(ps, d, ComputeFirstK(ps, d), open)
    BY WorkedOutIs, Zenon DEF ResolveAt
  <2>2. ASSUME NEW first PROVE DecidedWith(ps, d, first, open) = Decided(ps, d, first, Follow(ps, d, first), open)
    BY WorkedOutIs, Zenon DEF DecidedWith
  <2>3. Decided(ps, d, ComputeFirstK(ps, d), Follow(ps, d, ComputeFirstK(ps, d)), open) = f
    BY Zenon DEF Decided, DecisionsOf
  <2> HIDE DEF f
  <2> QED BY <2>1, <2>2, <2>3
<1>2. DOMAIN f = some /\ \A c \in some : f[c] = DecisionsOf(ps, d, c)
  OBVIOUS
<1>3. CASE open = {}
  <2>1. DOMAIN <<>> = {}
    OBVIOUS
  <2>2. FoundAt(ps, d, open) = <<>>
    BY <1>3 DEF FoundAt
  <2> QED BY <2>1, <2>2 DEF Range
<1>4. CASE open # {}
  <2>1. FoundAt(ps, d, open) = f
    BY <1>1, <1>4 DEF FoundAt
  <2>2. some \subseteq open
    OBVIOUS
  <2> HIDE DEF f, some
  <2>3. ASSUME NEW x \in UNION Range(f) PROVE x \in UNION {DecisionsOf(ps, d, c) : c \in open}
    <3>1. PICK c \in some : x \in f[c]
      BY <1>2 DEF Range
    <3> QED BY <1>2, <2>2, <3>1
  <2> QED BY <1>2, <2>1, <2>2, <2>3
<1> QED BY <1>3, <1>4

Verdicts(C, D) == [open : SUBSET C, decisions : SUBSET D, k : Nat]

LEMMA DeeperStays ==
    ASSUME NEW ps, NEW C, NEW D, NEW d \in Nat, NEW v \in Verdicts(C, D),
           \A c \in C : DecisionsOf(ps, d, c) \subseteq D
    PROVE  Deeper(ps, d, v) \in Verdicts(C, D)
<1> DEFINE found == FoundAt(ps, d, v.open)
           w == [open |-> v.open \ DOMAIN found, decisions |-> v.decisions \cup UNION Range(found), k |-> d]
<1>1. v.open \subseteq C /\ v.decisions \subseteq D
  BY DEF Verdicts
<1>2. UNION Range(found) \subseteq UNION {DecisionsOf(ps, d, c) : c \in v.open}
  BY ResolvedAtIs
<1>3. Deeper(ps, d, v) = IF DOMAIN found = {} THEN v ELSE w
  BY Zenon DEF Deeper, Extended
<1> HIDE DEF found
<1>4. UNION Range(found) \subseteq D
  BY <1>1, <1>2
<1>5. w \in Verdicts(C, D)
  BY <1>1, <1>4 DEF Verdicts
<1> QED BY <1>3, <1>5

Resolves(f, ps, C, n) ==
    /\ f[1] = Unresolved(1, C)
    /\ \A d \in 2..n : f[d] = Deeper(ps, d, f[d - 1])

\* Every decision was made at some depth for some of the conflicts.
DecidedBy(ps, C, n, v) ==
    \A x \in v.decisions : \E c \in C : \E d \in 1..n : x \in DecisionsOf(ps, d, c)

LEMMA ResolveIs ==
    ASSUME NEW ps, NEW C, NEW n \in Nat, n >= 1
    PROVE  \E f : /\ Resolves(f, ps, C, n) /\ ResolveConflicts(ps, 1, n, C) = f[n]
                  /\ GoodVerdict(C, f[n]) /\ DecidedBy(ps, C, n, f[n])
<1> DEFINE D == UNION {UNION {DecisionsOf(ps, d, c) : c \in C} : d \in 1..n}
           V == Verdicts(C, D)
           base == Unresolved(1, C)
           step == [p \in (1..n) \X V |-> Deeper(ps, p[1], p[2])]
           next(d, r) == Extended(r, d, IF r.open = {} THEN <<>> ELSE WorkedOut(ResolveAt(ps, d, r.open)))
           turn(d, f) == IF d = 1 THEN base ELSE next(d, f[d - 1])
           after == CHOOSE f : f = [d \in 1..n |-> turn(d, f)]
<1>1. base \in V
  BY DEF Unresolved, Verdicts
<1>2. ASSUME NEW d \in 1..n, NEW v \in V PROVE Deeper(ps, d, v) \in V
  <2>1. \A c \in C : DecisionsOf(ps, d, c) \subseteq D
    OBVIOUS
  <2> HIDE DEF D
  <2> QED BY <2>1, DeeperStays
<1>3. step \in [(1..n) \X V -> V]
  <2> HIDE DEF V
  <2> QED BY <1>2
<1>4. PICK sol \in [SUBSET (1..n) -> V] : Folds(sol, n, base, step)
  <2> HIDE DEF V, base, step
  <2> QED BY <1>1, <1>3, FoldSolution
<1>5. ASSUME NEW d, NEW r PROVE next(d, r) = Deeper(ps, d, r)
  BY WorkedOutIs, Zenon DEF Deeper, FoundAt
<1> HIDE DEF base, next
<1> DEFINE g == [d \in 1..n |-> sol[2..d]]
<1>6. g \in [1..n -> V]
  <2>1. \A d \in 1..n : 2..d \in SUBSET (1..n)
    OBVIOUS
  <2> HIDE DEF V
  <2> QED BY <2>1
<1>7. ASSUME NEW d \in 1..n PROVE g[d] = turn(d, g)
  <2>1. CASE d = 1
    <3>1. 2..1 = {}
      OBVIOUS
    <3>2. sol[{}] = base
      <4>1. {} \in SUBSET (1..n)
        OBVIOUS
      <4> HIDE DEF step
      <4> QED BY <1>4, <4>1 DEF Folds
    <3> QED BY <2>1, <3>1, <3>2
  <2>2. CASE d # 1
    <3>1. d - 1 \in 1..n /\ 2..d \in SUBSET (1..n) /\ 2..d # {} /\ (2..d) \ {d} = 2..(d - 1)
      BY <2>2
    <3>2. Max(2..d) = d
      <4>1. Max(2..d) \in 2..d /\ \A j \in 2..d : j <= Max(2..d)
        BY <3>1, MaxOfSome
      <4>2. d \in 2..d
        BY <2>2
      <4> HIDE DEF Max
      <4> QED BY <4>1, <4>2
    <3>3. sol[2..d] = step[<<d, sol[2..(d - 1)]>>]
      <4> HIDE DEF step
      <4> QED BY <1>4, <3>1, <3>2 DEF Folds
    <3>4. g[d - 1] = sol[2..(d - 1)] /\ g[d - 1] \in V /\ g[d] = sol[2..d]
      <4> HIDE DEF V
      <4> QED BY <1>6, <3>1
    <3>5. step[<<d, g[d - 1]>>] = Deeper(ps, d, g[d - 1])
      <4> HIDE DEF V, g
      <4> QED BY <3>4
    <3> HIDE DEF g, step
    <3> QED BY <1>5, <2>2, <3>3, <3>4, <3>5
  <2> QED BY <2>1, <2>2
<1>8. g = [d \in 1..n |-> turn(d, g)]
  <2>1. g = [d \in 1..n |-> g[d]]
    OBVIOUS
  <2> HIDE DEF g, turn
  <2> QED BY <1>7, <2>1
<1>9. after = [d \in 1..n |-> turn(d, after)]
  <2> HIDE DEF g, turn
  <2> QED BY <1>8, Zenon
<1>10. ResolveConflicts(ps, 1, n, C) = after[IF n > 1 THEN n ELSE 1]
  BY Zenon DEF ResolveConflicts, next, base
<1> HIDE DEF after
<1>11. \A d \in 1..n : after[d] = turn(d, after)
  <2> HIDE DEF turn
  <2> QED BY <1>9
<1>12. Resolves(after, ps, C, n)
  <2>1. after[1] = base
    <3>1. 1 \in 1..n
      OBVIOUS
    <3> QED BY <1>11, <3>1
  <2>2. ASSUME NEW d \in 2..n PROVE after[d] = Deeper(ps, d, after[d - 1])
    <3>1. d \in 1..n /\ d # 1
      OBVIOUS
    <3> QED BY <1>5, <1>11, <3>1
  <2> QED BY <2>1, <2>2 DEF Resolves, base
<1>13. \A d \in 1..n : after[d] \in V
  <2> DEFINE P == {i \in 0..n : i = 0 \/ after[i] \in V}
  <2>1. 0 \in P
    OBVIOUS
  <2>2. ASSUME NEW i \in 1..n, i - 1 \in P PROVE i \in P
    <3>1. CASE i = 1
      <4>1. after[i] = base
        BY <3>1, <1>12 DEF Resolves, base
      <4> HIDE DEF V
      <4> QED BY <4>1, <1>1
    <3>2. CASE i # 1
      <4>1. after[i - 1] \in V /\ i \in 2..n
        <5> HIDE DEF V
        <5> QED BY <2>2, <3>2
      <4>2. after[i] = Deeper(ps, i, after[i - 1])
        BY <4>1, <1>12 DEF Resolves
      <4> HIDE DEF V
      <4> QED BY <4>1, <4>2, <1>2
    <3> QED BY <3>1, <3>2
  <2>3. 0..n \subseteq P
    <3> HIDE DEF P
    <3> QED BY <2>1, <2>2, UpTo
  <2> HIDE DEF V
  <2> QED BY <2>3
<1>14. (IF n > 1 THEN n ELSE 1) = n /\ n \in 1..n
  OBVIOUS
<1>15. GoodVerdict(C, after[n])
  <2>1. after[n] \in V
    <3> HIDE DEF V
    <3> QED BY <1>13, <1>14
  <2>2. \A x \in D : DecisionFor(C, x)
    BY DecisionsAreFor
  <2> HIDE DEF D
  <2> QED BY <2>1, <2>2 DEF Verdicts, GoodVerdict
<1>16. DecidedBy(ps, C, n, after[n])
  <2>1. after[n] \in V
    <3> HIDE DEF V
    <3> QED BY <1>13, <1>14
  <2>2. ASSUME NEW x \in D PROVE \E c \in C : \E d \in 1..n : x \in DecisionsOf(ps, d, c)
    OBVIOUS
  <2> HIDE DEF D
  <2> QED BY <2>1, <2>2 DEF Verdicts, DecidedBy
<1> QED BY <1>10, <1>12, <1>14, <1>15, <1>16

\* The depths before are resolved the same, however deep the resolution goes.
LEMMA ResolvesAlike ==
    ASSUME NEW ps, NEW C, NEW n \in Nat, NEW m \in Nat, n <= m, NEW f, Resolves(f, ps, C, n),
           NEW g, Resolves(g, ps, C, m)
    PROVE  \A d \in 1..n : f[d] = g[d]
<1> DEFINE P == {i \in 0..n : i = 0 \/ f[i] = g[i]}
<1>1. 0 \in P
  OBVIOUS
<1>2. ASSUME NEW i \in 1..n, i - 1 \in P PROVE i \in P
  <2>1. CASE i = 1
    BY <2>1 DEF Resolves
  <2>2. CASE i # 1
    <3>1. i \in 2..n /\ i \in 2..m /\ f[i - 1] = g[i - 1]
      BY <1>2, <2>2
    <3>2. f[i] = Deeper(ps, i, f[i - 1]) /\ g[i] = Deeper(ps, i, g[i - 1])
      BY <3>1 DEF Resolves
    <3> QED BY <3>1, <3>2
  <2> QED BY <2>1, <2>2
<1>3. 0..n \subseteq P
  <2> HIDE DEF P
  <2> QED BY <1>1, <1>2, UpTo
<1> QED BY <1>3

LEMMA ResolutionGoesOn ==
    ASSUME NEW ps, NEW C, NEW n \in Nat, n >= 1
    PROVE  /\ ResolveConflicts(ps, 1, 1, C) = Unresolved(1, C)
           /\ ResolveConflicts(ps, 1, n + 1, C) = Deeper(ps, n + 1, ResolveConflicts(ps, 1, n, C))
<1>1. PICK f : Resolves(f, ps, C, n) /\ ResolveConflicts(ps, 1, n, C) = f[n]
  BY ResolveIs
<1>2. n + 1 \in Nat /\ n + 1 >= 1 /\ n <= n + 1 /\ (n + 1) - 1 = n /\ n + 1 \in 2..(n + 1) /\ n \in 1..n
  OBVIOUS
<1>3. PICK g : Resolves(g, ps, C, n + 1) /\ ResolveConflicts(ps, 1, n + 1, C) = g[n + 1]
  BY <1>2, ResolveIs
<1>4. PICK h : Resolves(h, ps, C, 1) /\ ResolveConflicts(ps, 1, 1, C) = h[1]
  BY ResolveIs
<1>5. f[n] = g[n]
  BY <1>1, <1>2, <1>3, ResolvesAlike
<1>6. g[n + 1] = Deeper(ps, n + 1, g[n])
  BY <1>2, <1>3 DEF Resolves
<1> QED BY <1>1, <1>3, <1>4, <1>5, <1>6 DEF Resolves

\* Once every conflict is decided, more lookahead changes nothing.
LEMMA NothingLeft ==
    ASSUME NEW ps, NEW C, NEW n \in Nat, n >= 1, NEW m \in Nat, n <= m,
           ResolveConflicts(ps, 1, n, C).open = {}
    PROVE  ResolveConflicts(ps, 1, m, C) = ResolveConflicts(ps, 1, n, C)
<1> DEFINE v == ResolveConflicts(ps, 1, n, C)
           P == {i \in 0..m : i < n \/ ResolveConflicts(ps, 1, i, C) = v}
<1>1. 0 \in P
  OBVIOUS
<1>2. ASSUME NEW i \in 1..m, i - 1 \in P PROVE i \in P
  <2>1. CASE i <= n
    BY <2>1
  <2>2. CASE ~(i <= n)
    <3>1. i - 1 \in Nat /\ i - 1 >= 1 /\ (i - 1) + 1 = i /\ ~(i - 1 < n)
      BY <2>2
    <3>2. ResolveConflicts(ps, 1, i - 1, C) = v
      BY <1>2, <3>1
    <3>3. ResolveConflicts(ps, 1, i, C) = Deeper(ps, i, v)
      <4>1. ResolveConflicts(ps, 1, (i - 1) + 1, C) = Deeper(ps, (i - 1) + 1, ResolveConflicts(ps, 1, i - 1, C))
        <5> HIDE DEF v
        <5> QED BY <3>1, ResolutionGoesOn
      <4> HIDE DEF v
      <4> QED BY <3>1, <3>2, <4>1
    <3>4. Deeper(ps, i, v) = v
      <4>1. FoundAt(ps, i, v.open) = <<>>
        BY DEF FoundAt
      <4>2. DOMAIN <<>> = {}
        OBVIOUS
      <4> HIDE DEF v
      <4> QED BY <4>1, <4>2, Zenon DEF Deeper, Extended
    <3> HIDE DEF v
    <3> QED BY <3>3, <3>4
  <2> QED BY <2>1, <2>2
<1>3. 0..m \subseteq P
  <2> HIDE DEF P
  <2> QED BY <1>1, <1>2, UpTo
<1>4. m \in 0..m /\ ~(m < n)
  OBVIOUS
<1> HIDE DEF v
<1>5. ResolveConflicts(ps, 1, m, C) = v
  BY <1>3, <1>4
<1> QED BY <1>5 DEF v

\* The states of a build whose rows can be made.
BuildReady(A, c) ==
    /\ GoodAnalysis(A) /\ AllGood(A, c.states) /\ Distinct(c.states)
    /\ MovesWithin(c) /\ IsSequence(c.states)
    /\ \A i \in DOMAIN c.states : RowReady(A, c, i - 1)

-----------------------------------------------------------------------------
(* The automaton: every item is there for a reason.  The reserved rule is   *)
(* expected nowhere, so its first item is in the first state alone.         *)

Reserved(ps) == StartsWell(ps) /\ \A id \in DOMAIN ps : Augmented \notin Range(ps[id].rhs)

\* The items a closure begins with.
KernelCores(cores) == {core \in cores : core[2] # 0 \/ core[1] = 0}

\* An item that has read nothing was added for one that expects its rule, and
\* no set that has the kernel and what its items expect leaves one out.
Grounded(A, items) ==
    /\ items.cores # {}
    /\ Explained(A, KernelCores(items.cores), items.cores)
    /\ \A core \in items.cores :
          core[2] = 0 /\ core[1] # 0 =>
              \E parent \in items.cores : ~AtEnd(A, parent) /\ core \in Children(A, parent)
    /\ \A x \in items.windows : x[2] # <<>>

\* The items that have read something read it from an item of the other state.
LeadsBy(A, from, symbol, to) ==
    /\ symbol \in STRING /\ \E core \in to : core[2] > 0
    /\ \A core \in to : core[2] > 0 =>
          LET before == <<core[1], core[2] - 1>>
          IN  before \in from /\ ~AtEnd(A, before) /\ NextSymbol(A, before) = symbol

Machine(A, c) ==
    /\ 1 \in DOMAIN c.states /\ \A core \in c.states[1].cores : core[2] = 0
    /\ \A i \in DOMAIN c.states : <<0, 0>> \in c.states[i].cores => i = 1
    /\ \A i \in DOMAIN c.states : Grounded(A, c.states[i])
    /\ \A m \in c.moves : LeadsBy(A, c.states[m.from + 1].cores, m.symbol, c.states[m.to + 1].cores)

LEMMA PreparedIsReserved ==
    ASSUME NEW g, IsGrammar(g)
    PROVE  Reserved(PrepareProductions(g))
<1> DEFINE ps == PrepareProductions(g)
<1>1. StartsWell(ps)
  <2>1. GoodProductions(ps) /\ ps[0].lhs = Augmented /\ ps[0].rhs = <<Main>> /\ ps[0].gaps = {}
    BY PreparedAreGood
  <2> HIDE DEF ps
  <2>2. 0 \in DOMAIN ps
    BY <2>1 DEF GoodProductions
  <2> QED BY <2>1, <2>2 DEF StartsWell
<1>2. \A id \in DOMAIN ps : id # 0 => Augmented \notin Range(ps[id].rhs)
  BY PreparedWithMarks
<1>3. Augmented \notin Range(<<Main>>)
  <2>1. Augmented # Main
    BY DEF Augmented, Main
  <2>2. Range(<<Main>>) = {Main}
    BY DEF Range
  <2> QED BY <2>1, <2>2
<1>4. Augmented \notin Range(ps[0].rhs)
  BY <1>1, <1>3 DEF StartsWell
<1> HIDE DEF ps
<1>5. Reserved(ps)
  BY <1>1, <1>2, <1>4 DEF Reserved
<1> QED BY <1>5 DEF ps

LEMMA ItemsOfCores ==
    ASSUME NEW A, GoodAnalysis(A), NEW items, GoodItems(A, items), NEW core \in items.cores
    PROVE  /\ core = <<core[1], core[2]>> /\ core[1] \in DOMAIN A.productions /\ core[2] \in Nat
           /\ A.productions[core[1]].rhs \in Seq(STRING) /\ core[1] \in Nat
           /\ core[2] <= Len(A.productions[core[1]].rhs)
           /\ AtEnd(A, core) => core[2] = Len(A.productions[core[1]].rhs)
           /\ ~AtEnd(A, core) => /\ core[2] + 1 \in DOMAIN A.productions[core[1]].rhs
                                 /\ NextSymbol(A, core) \in Range(A.productions[core[1]].rhs)
                                 /\ NextSymbol(A, core) \in STRING
<1>1. core \in CoresOf(A.productions)
  BY DEF GoodItems, KernelIn, ItemsIn
<1>2. PICK n \in Nat : DOMAIN A.productions = 0..n
  BY DEF GoodAnalysis, GoodProductions
<1>3. /\ core = <<core[1], core[2]>> /\ core[1] \in DOMAIN A.productions /\ core[2] \in Nat
      /\ core[2] <= Len(A.productions[core[1]].rhs)
  BY <1>1 DEF CoresOf
<1>4. A.productions[core[1]].rhs \in Seq(STRING) /\ core[1] \in Nat
  BY <1>2, <1>3 DEF GoodAnalysis, GoodProductions
<1>5. Len(A.productions[core[1]].rhs) \in Nat
  BY <1>4
<1>6. AtEnd(A, core) => core[2] = Len(A.productions[core[1]].rhs)
  BY <1>3, <1>5 DEF AtEnd
<1>7. ASSUME ~AtEnd(A, core)
      PROVE  /\ core[2] + 1 \in DOMAIN A.productions[core[1]].rhs
             /\ NextSymbol(A, core) \in Range(A.productions[core[1]].rhs)
             /\ NextSymbol(A, core) \in STRING
  <2>1. core[2] + 1 \in 1..Len(A.productions[core[1]].rhs)
    BY <1>3, <1>5, <1>7 DEF AtEnd
  <2>2. core[2] + 1 \in DOMAIN A.productions[core[1]].rhs
    BY <1>4, <2>1
  <2>3. NextSymbol(A, core) = A.productions[core[1]].rhs[core[2] + 1]
    BY DEF NextSymbol
  <2>4. NextSymbol(A, core) \in STRING
    BY <1>4, <2>1, <2>3
  <2> QED BY <2>2, <2>3, <2>4 DEF Range
<1> QED BY <1>3, <1>4, <1>6, <1>7

\* What Closure adds to a kernel that has no first item of the reserved rule.
LEMMA GrownIsGrounded ==
    ASSUME NEW A, GoodAnalysis(A), Reserved(A.productions), NEW kernel, GoodItems(A, kernel), NEW items,
           items = Closure(A, kernel), kernel.cores # {},
           \A core \in kernel.cores : core[2] = 0 => core[1] = 0,
           \A x \in kernel.windows : x[2] # <<>>
    PROVE  /\ Grounded(A, items)
           /\ <<0, 0>> \in items.cores => <<0, 0>> \in kernel.cores
           /\ \A core \in items.cores : core \in kernel.cores \/ core[2] = 0
<1>0. GoodItems(A, items) /\ Grown(A, kernel, items) /\ kernel.cores \subseteq items.cores
  BY ClosureIs DEF GoodItems, Within
<1>1. ASSUME NEW core \in items.cores, core \notin kernel.cores
      PROVE  /\ core[2] = 0 /\ core # <<0, 0>>
             /\ \E parent \in items.cores : ~AtEnd(A, parent) /\ core \in Children(A, parent)
  <2>1. PICK parent \in items.cores : ~AtEnd(A, parent) /\ core \in Children(A, parent)
    BY <1>0, <1>1 DEF Grown
  <2>2. core[2] = 0 /\ core[1] \in ProductionsOf(A, NextSymbol(A, parent))
    BY <2>1 DEF Children
  <2>3. A.productions[core[1]].lhs = NextSymbol(A, parent)
    BY <2>2 DEF ProductionsOf
  <2>4. parent[1] \in DOMAIN A.productions /\ NextSymbol(A, parent) \in Range(A.productions[parent[1]].rhs)
    BY <1>0, <2>1, ItemsOfCores
  <2>5. NextSymbol(A, parent) # Augmented
    BY <2>4 DEF Reserved
  <2>6. A.productions[0].lhs = Augmented
    BY DEF Reserved, StartsWell
  <2>7. core[1] # 0
    BY <2>3, <2>5, <2>6
  <2>8. core # <<0, 0>>
    BY <2>7
  <2> QED BY <2>1, <2>2, <2>8
<1>2. ASSUME NEW core \in items.cores, core[2] = 0, core[1] # 0
      PROVE  \E parent \in items.cores : ~AtEnd(A, parent) /\ core \in Children(A, parent)
  BY <1>1, <1>2
<1>3. \A x \in items.windows : x[2] # <<>>
  BY <1>0 DEF Grown
<1>4. Explained(A, KernelCores(items.cores), items.cores)
  <2>1. kernel.cores \subseteq KernelCores(items.cores)
    BY <1>0 DEF KernelCores
  <2>2. Explained(A, kernel.cores, items.cores)
    BY <1>0 DEF Grown
  <2> QED BY <2>1, <2>2 DEF Explained
<1>5. Grounded(A, items)
  BY <1>0, <1>2, <1>3, <1>4 DEF Grounded
<1> QED BY <1>1, <1>5

LEMMA StartIsGrounded ==
    ASSUME NEW A, GoodAnalysis(A), Reserved(A.productions)
    PROVE  LET items == Closure(A, StartKernel(1))
           IN  Grounded(A, items) /\ \A core \in items.cores : core[2] = 0
<1> DEFINE kernel == StartKernel(1)
           items == Closure(A, kernel)
<1>1. GoodItems(A, kernel)
  <2>1. 0 \in DOMAIN A.productions
    BY DEF Reserved, StartsWell
  <2> QED BY <2>1, StartIsGood
<1>2. GoodItems(A, items) /\ Grown(A, kernel, items)
  BY <1>1, ClosureIs DEF GoodItems
<1>3. kernel.cores = {<<0, 0>>} /\ kernel.windows = {<<<<0, 0>>, EndWindow(1)>>}
  BY DEF StartKernel
<1>4. EndWindow(1) # <<>>
  <2>1. DOMAIN EndWindow(1) = 1..1 /\ DOMAIN <<>> = {}
    BY DEF EndWindow
  <2>2. 1 \in 1..1
    OBVIOUS
  <2> QED BY <2>1, <2>2
<1>5. \A x \in kernel.windows : x[2] # <<>>
  BY <1>3, <1>4
<1>6. \A core \in kernel.cores : core[2] = 0 /\ core[1] = 0
  BY <1>3
<1> HIDE DEF kernel
<1>7. /\ Grounded(A, items)
      /\ \A core \in items.cores : core \in kernel.cores \/ core[2] = 0
  BY <1>1, <1>3, <1>5, <1>6, GrownIsGrounded DEF items
<1>8. Grounded(A, items) /\ \A core \in items.cores : core[2] = 0
  BY <1>6, <1>7
<1> QED BY <1>8 DEF items, kernel

LEMMA TargetIsGrounded ==
    ASSUME NEW A, GoodAnalysis(A), Reserved(A.productions), NEW from, GoodItems(A, from), Grounded(A, from),
           NEW symbol \in NextSymbols(A, from)
    PROVE  LET to == Closure(A, Kernel(A, from, symbol))
           IN  Grounded(A, to) /\ <<0, 0>> \notin to.cores /\ LeadsBy(A, from.cores, symbol, to.cores)
<1> DEFINE kernel == Kernel(A, from, symbol)
           to == Closure(A, kernel)
           moved == {core \in from.cores : ~AtEnd(A, core) /\ NextSymbol(A, core) = symbol}
<1>1. GoodItems(A, kernel)
  BY KernelIsGood
<1>2. GoodItems(A, to) /\ Grown(A, kernel, to) /\ Within(kernel, to)
  BY <1>1, ClosureIs DEF GoodItems
<1>3. /\ kernel.cores = {<<core[1], core[2] + 1>> : core \in moved}
      /\ kernel.windows = {<<<<x[1][1], x[1][2] + 1>>, x[2]>> : x \in {y \in from.windows : y[1] \in moved}}
  BY DEF Kernel
<1>4. PICK one \in moved : TRUE
  BY DEF NextSymbols
<1>5. \A core \in moved : /\ core = <<core[1], core[2]>> /\ core[2] \in Nat /\ ~AtEnd(A, core)
                          /\ NextSymbol(A, core) = symbol /\ core \in from.cores
                          /\ NextSymbol(A, core) \in STRING
  BY ItemsOfCores
<1>6. \A x \in kernel.windows : x[2] # <<>>
  BY <1>3 DEF Grounded
<1> HIDE DEF moved
<1>7. ASSUME NEW core \in kernel.cores
      PROVE  /\ core[2] > 0 /\ core[2] # 0
             /\ LET before == <<core[1], core[2] - 1>>
                IN  before \in from.cores /\ ~AtEnd(A, before) /\ NextSymbol(A, before) = symbol
  <2>1. PICK c \in moved : core = <<c[1], c[2] + 1>>
    BY <1>3
  <2>2. c[2] \in Nat /\ c = <<c[1], c[2]>>
    BY <1>5
  <2>3. core[1] = c[1] /\ core[2] - 1 = c[2] /\ core[2] > 0 /\ core[2] # 0
    BY <2>1, <2>2
  <2>4. <<core[1], core[2] - 1>> = c
    BY <2>2, <2>3
  <2> QED BY <1>5, <2>3, <2>4
<1> HIDE DEF kernel
<1>8. (\A core \in kernel.cores : core[2] # 0) /\ kernel.cores # {}
  BY <1>3, <1>4, <1>7
<1>9. /\ Grounded(A, to) /\ (<<0, 0>> \in to.cores => <<0, 0>> \in kernel.cores)
      /\ \A core \in to.cores : core \in kernel.cores \/ core[2] = 0
  BY <1>1, <1>6, <1>8, GrownIsGrounded
<1> HIDE DEF to
<1>10. <<0, 0>> \notin to.cores
  BY <1>8, <1>9
<1>11. \E core \in to.cores : core[2] > 0
  <2>1. <<one[1], one[2] + 1>> \in kernel.cores
    BY <1>3, <1>4
  <2> QED BY <2>1, <1>2, <1>7 DEF Within
<1>12. symbol \in STRING
  BY <1>4, <1>5
<1>13. ASSUME NEW core \in to.cores, core[2] > 0
       PROVE  LET before == <<core[1], core[2] - 1>>
              IN  before \in from.cores /\ ~AtEnd(A, before) /\ NextSymbol(A, before) = symbol
  <2>1. core \in kernel.cores
    BY <1>9, <1>13
  <2> QED BY <2>1, <1>7
<1>14. LeadsBy(A, from.cores, symbol, to.cores)
  BY <1>11, <1>12, <1>13 DEF LeadsBy
<1>15. Grounded(A, to) /\ <<0, 0>> \notin to.cores /\ LeadsBy(A, from.cores, symbol, to.cores)
  BY <1>9, <1>10, <1>14
<1> QED BY <1>15 DEF to, kernel

LEMMA MachineStarts ==
    ASSUME NEW A, GoodAnalysis(A), Reserved(A.productions)
    PROVE  Machine(A, [states |-> <<Closure(A, StartKernel(1))>>, moves |-> {}])
<1> DEFINE items == Closure(A, StartKernel(1))
           c == [states |-> <<items>>, moves |-> {}]
<1>1. Grounded(A, items) /\ \A core \in items.cores : core[2] = 0
  BY StartIsGrounded
<1> HIDE DEF items
<1>2. DOMAIN c.states = {1} /\ c.states[1] = items /\ c.moves = {}
  OBVIOUS
<1> HIDE DEF c
<1>3. Machine(A, c)
  BY <1>1, <1>2 DEF Machine
<1> QED BY <1>3 DEF c, items

LEMMA MachineAdded ==
    ASSUME NEW A, GoodAnalysis(A), Reserved(A.productions), NEW c, IsSequence(c.states), MovesWithin(c),
           AllGood(A, c.states), Distinct(c.states), Machine(A, c),
           NEW n, n \in DOMAIN c.states, NEW symbol \in NextSymbols(A, c.states[n]),
           NEW d, d = AddTransition(c, n - 1, symbol, Closure(A, Kernel(A, c.states[n], symbol)))
    PROVE  Machine(A, d)
<1> DEFINE items == Closure(A, Kernel(A, c.states[n], symbol))
<1>1. PICK T : c.states \in Seq(T)
  BY DEF IsSequence
<1>2. Len(c.states) \in Nat /\ DOMAIN c.states = 1..Len(c.states) /\ n \in Nat
  BY <1>1
<1>3. Moved(d, c, n - 1, symbol, items)
  BY TransitionIs
<1>4. /\ Grounded(A, items) /\ <<0, 0>> \notin items.cores
      /\ LeadsBy(A, c.states[n].cores, symbol, items.cores)
  <2>1. GoodItems(A, c.states[n]) /\ Grounded(A, c.states[n])
    BY DEF AllGood, Machine
  <2> QED BY <2>1, TargetIsGrounded
<1> HIDE DEF items
<1>5. /\ \A i \in DOMAIN c.states : d.states[i] = c.states[i]
      /\ DOMAIN d.states = 1..Len(d.states) /\ Len(d.states) >= Len(c.states)
      /\ Range(d.states) = Range(c.states) \cup {items} /\ Distinct(d.states)
  BY <1>3, Zenon DEF Moved
<1>6. PICK to \in DOMAIN d.states :
          d.states[to] = items /\ d.moves = c.moves \cup {[from |-> n - 1, symbol |-> symbol, to |-> to - 1]}
  BY <1>3, Zenon DEF Moved
<1>7. to \in Int /\ Len(d.states) \in Nat
  <2>1. PICK U : d.states \in Seq(U)
    BY <1>3 DEF Moved, IsSequence
  <2> QED BY <1>6, <2>1
<1>8. \A i \in DOMAIN c.states : i \in DOMAIN d.states
  BY <1>2, <1>5, <1>7
<1>9. ASSUME NEW i \in DOMAIN d.states PROVE d.states[i] = items \/ i \in DOMAIN c.states
  <2>1. d.states[i] \in Range(c.states) \cup {items}
    BY <1>5 DEF Range
  <2>2. CASE d.states[i] \in Range(c.states)
    <3>1. PICK j \in DOMAIN c.states : d.states[i] = c.states[j]
      BY <2>2 DEF Range
    <3>2. d.states[j] = c.states[j] /\ j \in DOMAIN d.states
      BY <1>5, <1>8
    <3>3. i = j
      BY <1>5, <3>1, <3>2 DEF Distinct
    <3> QED BY <3>3
  <2> QED BY <2>1, <2>2
<1>10. ASSUME NEW i \in DOMAIN d.states PROVE Grounded(A, d.states[i]) /\ (<<0, 0>> \in d.states[i].cores => i = 1)
  <2>1. CASE d.states[i] = items
    BY <1>4, <2>1
  <2>2. CASE i \in DOMAIN c.states
    BY <1>5, <2>2 DEF Machine
  <2> QED BY <1>9, <2>1, <2>2
<1>11. 1 \in DOMAIN d.states /\ \A core \in d.states[1].cores : core[2] = 0
  BY <1>5, <1>8 DEF Machine
<1> DEFINE new == [from |-> n - 1, symbol |-> symbol, to |-> to - 1]
<1>12. new.from + 1 = n /\ new.symbol = symbol /\ new.to + 1 = to
  BY <1>2, <1>7
<1>13. d.moves = c.moves \cup {new}
  BY <1>6
<1> HIDE DEF new
<1>14. ASSUME NEW m \in c.moves PROVE LeadsBy(A, d.states[m.from + 1].cores, m.symbol, d.states[m.to + 1].cores)
  <2>1. m.to + 1 \in DOMAIN c.states /\ m.from + 1 \in DOMAIN c.states
    BY <1>2 DEF MovesWithin
  <2>2. d.states[m.to + 1] = c.states[m.to + 1] /\ d.states[m.from + 1] = c.states[m.from + 1]
    BY <1>5, <2>1
  <2> QED BY <2>2 DEF Machine
<1>15. LeadsBy(A, d.states[new.from + 1].cores, new.symbol, d.states[new.to + 1].cores)
  <2>1. d.states[n] = c.states[n]
    BY <1>5
  <2> QED BY <1>4, <1>6, <1>12, <2>1
<1>16. \A m \in d.moves : LeadsBy(A, d.states[m.from + 1].cores, m.symbol, d.states[m.to + 1].cores)
  BY <1>13, <1>14, <1>15
<1> QED BY <1>10, <1>11, <1>16 DEF Machine

LEMMA FirstNumber ==
    ASSUME NEW c, IsSequence(c.states), 1 \in DOMAIN c.states
    PROVE  NumbersOf(c)[1] = 0
<1>1. PICK T : c.states \in Seq(T)
  BY DEF IsSequence
<1>2. 0 + 1 \in DOMAIN c.states /\ 0 + 1 = 1 /\ 1 - 1 = 0
  OBVIOUS
<1>3. PICK f \in FirstStates(c.states) :
          c.states[f].cores = c.states[1].cores /\ MergedNumber(c, 0) = Cardinality(Before(c.states, f))
  BY <1>1, <1>2, NumberOfAState
<1>4. f = 1
  <2>1. f \in DOMAIN c.states /\ \A j \in 1..(f - 1) : c.states[j].cores # c.states[f].cores
    BY DEF FirstStates
  <2>2. f \in Nat /\ f >= 1
    BY <1>1, <2>1
  <2>3. 1 \notin 1..(f - 1)
    BY <1>3, <2>1
  <2> QED BY <2>2, <2>3
<1>5. Before(c.states, 1) = {}
  <2>1. FirstStates(c.states) \subseteq 1..Len(c.states) /\ Len(c.states) \in Nat
    BY <1>1 DEF FirstStates
  <2> QED BY <2>1 DEF Before
<1>6. Cardinality({}) = 0
  BY FS_EmptySet
<1> QED BY <1>2, <1>3, <1>4, <1>5, <1>6 DEF NumbersOf

LEMMA NumberIsInt ==
    ASSUME NEW c, NEW S, c.states \in Seq(S), NEW i \in DOMAIN c.states
    PROVE  NumbersOf(c)[i] \in Int
<1> DEFINE R == Range(NumbersOf(c))
           n == Cardinality(R) - 1
<1>1. R = 0..n
  BY NumbersOfStates
<1>2. NumbersOf(c)[i] \in R
  BY DEF Range, NumbersOf
<1> HIDE DEF R, n
<1>3. NumbersOf(c)[i] \in 0..n
  BY <1>1, <1>2
<1> QED BY <1>3

LEMMA MachineMerged ==
    ASSUME NEW A, NEW c, IsSequence(c.states), MovesWithin(c), Machine(A, c)
    PROVE  Machine(A, MergeLR0Cores(c))
<1> DEFINE d == MergeLR0Cores(c)
<1>1. d.moves = MergedMoves(c)
  BY MergeIs
<1>2. /\ \A n \in DOMAIN d.states :
            /\ d.states[n] = MergedPart(c, n - 1)
            /\ \E i \in DOMAIN c.states : NumbersOf(c)[i] = n - 1
            /\ \A i \in DOMAIN c.states : NumbersOf(c)[i] = n - 1 => d.states[n].cores = c.states[i].cores
      /\ \A i \in DOMAIN c.states : NumbersOf(c)[i] + 1 \in DOMAIN d.states
      /\ DOMAIN d.states \subseteq Int
  <2>1. DOMAIN d.states = 1..Cardinality(Range(NumbersOf(c)))
    BY MergedCores
  <2>2. DOMAIN d.states \subseteq Int
    BY <2>1
  <2> HIDE DEF d
  <2>3. DOMAIN d.states \subseteq Int
    BY <2>2 DEF d
  <2> QED BY <2>3, MergedCores DEF d
<1>3. PICK T : c.states \in Seq(T)
  BY DEF IsSequence
<1>4. 1 \in DOMAIN c.states /\ NumbersOf(c)[1] = 0
  BY FirstNumber DEF Machine
<1> HIDE DEF d
<1>5. 1 \in DOMAIN d.states /\ d.states[1].cores = c.states[1].cores
  <2>1. 0 + 1 \in DOMAIN d.states
    BY <1>2, <1>4
  <2> QED BY <1>2, <1>4, <2>1
<1>6. ASSUME NEW n \in DOMAIN d.states
      PROVE  /\ <<0, 0>> \in d.states[n].cores => n = 1
             /\ Grounded(A, d.states[n])
  <2>1. PICK i \in DOMAIN c.states : NumbersOf(c)[i] = n - 1 /\ d.states[n].cores = c.states[i].cores
    BY <1>2
  <2>2. ASSUME <<0, 0>> \in d.states[n].cores PROVE n = 1
    <3>1. i = 1
      BY <2>1, <2>2 DEF Machine
    <3> QED BY <1>2, <1>4, <2>1, <3>1
  <2>3. ASSUME NEW x \in d.states[n].windows PROVE x[2] # <<>>
    <3>1. d.states[n].windows = UNION {part.windows : part \in {c.states[j] : j \in {k \in DOMAIN NumbersOf(c) : NumbersOf(c)[k] = n - 1}}}
      <4>1. d.states[n] = MergedPart(c, n - 1)
        BY <1>2
      <4>2. MergedPart(c, n - 1).windows = UNION {part.windows : part \in {c.states[j] : j \in {k \in DOMAIN NumbersOf(c) : NumbersOf(c)[k] = n - 1}}}
        BY DEF MergedPart
      <4> QED BY <4>1, <4>2
    <3>2. PICK j \in DOMAIN NumbersOf(c) : x \in c.states[j].windows
      BY <2>3, <3>1
    <3>3. j \in DOMAIN c.states
      BY <3>2 DEF NumbersOf
    <3> QED BY <3>2, <3>3 DEF Machine, Grounded
  <2>4. \A core \in d.states[n].cores :
          core[2] = 0 /\ core[1] # 0 =>
              \E parent \in d.states[n].cores : ~AtEnd(A, parent) /\ core \in Children(A, parent)
    <3>1. Grounded(A, c.states[i])
      BY DEF Machine
    <3> QED BY <2>1, <3>1 DEF Grounded
  <2>5. /\ d.states[n].cores # {}
        /\ Explained(A, KernelCores(d.states[n].cores), d.states[n].cores)
    <3>1. Grounded(A, c.states[i])
      BY DEF Machine
    <3> QED BY <2>1, <3>1 DEF Grounded
  <2>6. Grounded(A, d.states[n])
    BY <2>3, <2>4, <2>5 DEF Grounded
  <2> QED BY <2>2, <2>6
<1>7. ASSUME NEW e \in d.moves PROVE LeadsBy(A, d.states[e.from + 1].cores, e.symbol, d.states[e.to + 1].cores)
  <2>1. PICK m \in c.moves : e = [from |-> MergedNumber(c, m.from), symbol |-> m.symbol, to |-> MergedNumber(c, m.to)]
    BY <1>1 DEF MergedMoves
  <2>2. /\ m.to + 1 \in DOMAIN c.states /\ m.from + 1 \in DOMAIN c.states
        /\ (m.to + 1) - 1 = m.to /\ (m.from + 1) - 1 = m.from
    BY <1>3 DEF MovesWithin
  <2>3. NumbersOf(c)[m.to + 1] = e.to /\ NumbersOf(c)[m.from + 1] = e.from /\ e.symbol = m.symbol
    BY <2>1, <2>2 DEF NumbersOf
  <2>4. e.to + 1 \in DOMAIN d.states /\ e.from + 1 \in DOMAIN d.states
    BY <1>2, <2>2, <2>3
  <2>5. (e.to + 1) - 1 = e.to /\ (e.from + 1) - 1 = e.from
    <3>1. NumbersOf(c)[m.to + 1] \in Int /\ NumbersOf(c)[m.from + 1] \in Int
      BY <1>3, <2>2, NumberIsInt
    <3> QED BY <2>3, <3>1
  <2>6. d.states[e.to + 1].cores = c.states[m.to + 1].cores /\ d.states[e.from + 1].cores = c.states[m.from + 1].cores
    BY <1>2, <2>2, <2>3, <2>4, <2>5
  <2> QED BY <2>3, <2>6 DEF Machine
<1>8. Machine(A, d)
  BY <1>5, <1>6, <1>7 DEF Machine
<1> QED BY <1>8 DEF d

LEMMA TailOfSome ==
    ASSUME NEW S, NEW s \in Seq(S), s # <<>>
    PROVE  Head(s) \in Range(s) /\ Range(Tail(s)) \subseteq Range(s)
<1>1. Len(s) \in Nat /\ DOMAIN s = 1..Len(s) /\ 1 \in DOMAIN s /\ Head(s) = s[1]
  OBVIOUS
<1>2. Tail(s) \in Seq(S) /\ Len(Tail(s)) = Len(s) - 1 /\ \A i \in 1..(Len(s) - 1) : Tail(s)[i] = s[i + 1]
  OBVIOUS
<1>3. ASSUME NEW x \in Range(Tail(s)) PROVE x \in Range(s)
  <2>1. PICK j \in DOMAIN Tail(s) : x = Tail(s)[j]
    BY DEF Range
  <2>2. j \in 1..(Len(s) - 1)
    BY <1>2, <2>1
  <2>3. x = s[j + 1] /\ j + 1 \in DOMAIN s
    BY <1>1, <1>2, <2>1, <2>2
  <2> QED BY <2>3 DEF Range
<1> QED BY <1>1, <1>3 DEF Range

-----------------------------------------------------------------------------
(* FIRST and FOLLOW of more tokens.  The windows of the grammar of some     *)
(* length are finitely many, so the loops end inside them.                  *)

\* The places of a production where a rule stands.
PlacesKeptStays(ps, places, n, V) ==
    \A i \in 1..n : \A v \in V : (IF ps[places[i][1]].rhs[places[i][2]] \in LeftSides(ps) THEN Append(v, places[i]) ELSE v) \in V

PlacesKeptPath(ps, places, n, acc) ==
    /\ acc[0] = <<>> /\ acc[n] = Selected(places, LAMBDA place : ps[place[1]].rhs[place[2]] \in LeftSides(ps))
    /\ \A i \in 1..n : acc[i] = (IF ps[places[i][1]].rhs[places[i][2]] \in LeftSides(ps) THEN Append(acc[i - 1], places[i]) ELSE acc[i - 1])

LEMMA PlacesKeptWorks ==
    ASSUME NEW ps, NEW places, NEW n \in Nat, DOMAIN places = 1..n, NEW V, <<>> \in V,
           PlacesKeptStays(ps, places, n, V)
    PROVE  \E acc \in [0..n -> V] : PlacesKeptPath(ps, places, n, acc)
<1> DEFINE step == [p \in (1..n) \X V |-> (IF ps[places[p[1]][1]].rhs[places[p[1]][2]] \in LeftSides(ps) THEN Append(p[2], places[p[1]]) ELSE p[2])]
           Visit(s, v) == (IF ps[places[Max(s)][1]].rhs[places[Max(s)][2]] \in LeftSides(ps) THEN Append(v, places[Max(s)]) ELSE v)
           it == CHOOSE f : f = [s \in SUBSET DOMAIN places |-> IF s = {} THEN <<>> ELSE Visit(s, f[s \ {Max(s)}])]
<1>1. step \in [(1..n) \X V -> V]
  BY DEF PlacesKeptStays
<1>2. PICK sol \in [SUBSET (1..n) -> V] : Folds(sol, n, <<>>, step)
  <2> HIDE DEF step
  <2> QED BY <1>1, FoldSolution
<1>3. sol = [s \in SUBSET DOMAIN places |-> IF s = {} THEN <<>> ELSE Visit(s, sol[s \ {Max(s)}])]
  <2>1. ASSUME NEW s \in SUBSET (1..n) PROVE sol[s] = IF s = {} THEN <<>> ELSE Visit(s, sol[s \ {Max(s)}])
    <3>1. CASE s = {}
      BY <1>2, <3>1 DEF Folds
    <3>2. CASE s # {}
      <4>1. Max(s) \in 1..n /\ s \ {Max(s)} \in SUBSET (1..n)
        BY <3>2, MaxOfSome
      <4>2. sol[s] = step[<<Max(s), sol[s \ {Max(s)}]>>]
        <5> HIDE DEF step
        <5> QED BY <1>2, <3>2 DEF Folds
      <4> QED BY <4>1, <4>2, <3>2
    <3> QED BY <3>1, <3>2
  <2> HIDE DEF Visit
  <2> QED BY <2>1
<1>4. it = [s \in SUBSET DOMAIN places |-> IF s = {} THEN <<>> ELSE Visit(s, it[s \ {Max(s)}])]
  <2> HIDE DEF Visit
  <2> QED BY <1>3, Zenon
<1>5. Selected(places, LAMBDA place : ps[place[1]].rhs[place[2]] \in LeftSides(ps)) = it[1..n]
  BY Zenon DEF Selected, FoldLeft, MapThenFoldSet
<1>6. it[1..0] = <<>>
  <2> HIDE DEF Visit, it
  <2> QED BY <1>4
<1>7. ASSUME NEW i \in 1..n PROVE it[1..i] = (IF ps[places[i][1]].rhs[places[i][2]] \in LeftSides(ps) THEN Append(it[1..(i - 1)], places[i]) ELSE it[1..(i - 1)])
  <2>1. 1..i \in SUBSET DOMAIN places /\ 1..i # {} /\ Max(1..i) = i /\ (1..i) \ {i} = 1..(i - 1)
    <3>1. /\ Max(1..i) = i /\ (1..i) \ {i} = 1..(i - 1)
          /\ 1..i \subseteq 1..n /\ 1..i # {}
      BY MaxOfFirst
    <3> QED BY <3>1
  <2>2. it[1..i] = Visit(1..i, it[(1..i) \ {Max(1..i)}])
    <3> HIDE DEF Visit, it
    <3> QED BY <1>4, <2>1
  <2> HIDE DEF it
  <2> QED BY <2>1, <2>2
<1>8. ASSUME NEW i \in 1..n, it[1..(i - 1)] \in V PROVE it[1..i] = step[<<i, it[1..(i - 1)]>>]
  <2> HIDE DEF it
  <2> QED BY <1>7, <1>8
<1>9. PICK acc \in [0..n -> V] : Follows(acc, n, <<>>, step, it)
  <2>1. Unfolds(it, n, V, <<>>, step)
    <3> HIDE DEF step, it
    <3> QED BY <1>6, <1>8 DEF Unfolds
  <2> HIDE DEF step, it
  <2> QED BY <1>1, <2>1, FoldPath
<1>10. ASSUME NEW i \in 1..n PROVE acc[i] = (IF ps[places[i][1]].rhs[places[i][2]] \in LeftSides(ps) THEN Append(acc[i - 1], places[i]) ELSE acc[i - 1])
  <2>1. acc[i] = step[<<i, acc[i - 1]>>]
    <3> HIDE DEF step, it
    <3> QED BY <1>9 DEF Follows
  <2>2. <<i, acc[i - 1]>> \in (1..n) \X V
    <3>1. i - 1 \in 0..n
      OBVIOUS
    <3> QED BY <3>1
  <2> QED BY <2>1, <2>2
<1> HIDE DEF it, step
<1>11. acc[0] = <<>> /\ acc[n] = it[1..n]
  BY <1>9 DEF Follows
<1>12. PlacesKeptPath(ps, places, n, acc)
  BY <1>5, <1>10, <1>11 DEF PlacesKeptPath
<1> QED BY <1>12

\* A round of FOLLOW, one place after the other.
FollowSweepStays(ps, depth, first, follow, n, V) ==
    \A i \in 1..n : \A v \in V : [v EXCEPT ![ps[RulePlaces(ps)[i][1]].rhs[RulePlaces(ps)[i][2]]] = @ \cup
                Concatenate(FirstOfString(first, depth, SubSeq(ps[RulePlaces(ps)[i][1]].rhs, RulePlaces(ps)[i][2] + 1, Len(ps[RulePlaces(ps)[i][1]].rhs))),
                            v[ps[RulePlaces(ps)[i][1]].lhs], depth)] \in V

FollowSweepPath(ps, depth, first, follow, n, acc) ==
    /\ acc[0] = follow /\ acc[n] = FollowSweep(ps, depth, first, follow)
    /\ \A i \in 1..n : acc[i] = [acc[i - 1] EXCEPT ![ps[RulePlaces(ps)[i][1]].rhs[RulePlaces(ps)[i][2]]] = @ \cup
                Concatenate(FirstOfString(first, depth, SubSeq(ps[RulePlaces(ps)[i][1]].rhs, RulePlaces(ps)[i][2] + 1, Len(ps[RulePlaces(ps)[i][1]].rhs))),
                            acc[i - 1][ps[RulePlaces(ps)[i][1]].lhs], depth)]

LEMMA FollowSweepWorks ==
    ASSUME NEW ps, NEW depth, NEW first, NEW follow, NEW n \in Nat, DOMAIN RulePlaces(ps) = 1..n, NEW V, follow \in V,
           FollowSweepStays(ps, depth, first, follow, n, V)
    PROVE  \E acc \in [0..n -> V] : FollowSweepPath(ps, depth, first, follow, n, acc)
<1> DEFINE step == [p \in (1..n) \X V |-> [p[2] EXCEPT ![ps[RulePlaces(ps)[p[1]][1]].rhs[RulePlaces(ps)[p[1]][2]]] = @ \cup
                Concatenate(FirstOfString(first, depth, SubSeq(ps[RulePlaces(ps)[p[1]][1]].rhs, RulePlaces(ps)[p[1]][2] + 1, Len(ps[RulePlaces(ps)[p[1]][1]].rhs))),
                            p[2][ps[RulePlaces(ps)[p[1]][1]].lhs], depth)]]
           Visit(s, v) == [v EXCEPT ![ps[RulePlaces(ps)[Max(s)][1]].rhs[RulePlaces(ps)[Max(s)][2]]] = @ \cup
                Concatenate(FirstOfString(first, depth, SubSeq(ps[RulePlaces(ps)[Max(s)][1]].rhs, RulePlaces(ps)[Max(s)][2] + 1, Len(ps[RulePlaces(ps)[Max(s)][1]].rhs))),
                            v[ps[RulePlaces(ps)[Max(s)][1]].lhs], depth)]
           it == CHOOSE f : f = [s \in SUBSET DOMAIN RulePlaces(ps) |-> IF s = {} THEN follow ELSE Visit(s, f[s \ {Max(s)}])]
<1>1. step \in [(1..n) \X V -> V]
  BY DEF FollowSweepStays
<1>2. PICK sol \in [SUBSET (1..n) -> V] : Folds(sol, n, follow, step)
  <2> HIDE DEF step
  <2> QED BY <1>1, FoldSolution
<1>3. sol = [s \in SUBSET DOMAIN RulePlaces(ps) |-> IF s = {} THEN follow ELSE Visit(s, sol[s \ {Max(s)}])]
  <2>1. ASSUME NEW s \in SUBSET (1..n) PROVE sol[s] = IF s = {} THEN follow ELSE Visit(s, sol[s \ {Max(s)}])
    <3>1. CASE s = {}
      BY <1>2, <3>1 DEF Folds
    <3>2. CASE s # {}
      <4>1. Max(s) \in 1..n /\ s \ {Max(s)} \in SUBSET (1..n)
        BY <3>2, MaxOfSome
      <4>2. sol[s] = step[<<Max(s), sol[s \ {Max(s)}]>>]
        <5> HIDE DEF step
        <5> QED BY <1>2, <3>2 DEF Folds
      <4> QED BY <4>1, <4>2, <3>2
    <3> QED BY <3>1, <3>2
  <2> HIDE DEF Visit
  <2> QED BY <2>1
<1>4. it = [s \in SUBSET DOMAIN RulePlaces(ps) |-> IF s = {} THEN follow ELSE Visit(s, it[s \ {Max(s)}])]
  <2> HIDE DEF Visit
  <2> QED BY <1>3, Zenon
<1>5. FollowSweep(ps, depth, first, follow) = it[1..n]
  BY Zenon DEF FollowSweep, FoldLeft, MapThenFoldSet
<1>6. it[1..0] = follow
  <2> HIDE DEF Visit, it
  <2> QED BY <1>4
<1>7. ASSUME NEW i \in 1..n PROVE it[1..i] = [it[1..(i - 1)] EXCEPT ![ps[RulePlaces(ps)[i][1]].rhs[RulePlaces(ps)[i][2]]] = @ \cup
                Concatenate(FirstOfString(first, depth, SubSeq(ps[RulePlaces(ps)[i][1]].rhs, RulePlaces(ps)[i][2] + 1, Len(ps[RulePlaces(ps)[i][1]].rhs))),
                            it[1..(i - 1)][ps[RulePlaces(ps)[i][1]].lhs], depth)]
  <2>1. 1..i \in SUBSET DOMAIN RulePlaces(ps) /\ 1..i # {} /\ Max(1..i) = i /\ (1..i) \ {i} = 1..(i - 1)
    <3>1. /\ Max(1..i) = i /\ (1..i) \ {i} = 1..(i - 1)
          /\ 1..i \subseteq 1..n /\ 1..i # {}
      BY MaxOfFirst
    <3> QED BY <3>1
  <2>2. it[1..i] = Visit(1..i, it[(1..i) \ {Max(1..i)}])
    <3> HIDE DEF Visit, it
    <3> QED BY <1>4, <2>1
  <2> HIDE DEF it
  <2> QED BY <2>1, <2>2
<1>8. ASSUME NEW i \in 1..n, it[1..(i - 1)] \in V PROVE it[1..i] = step[<<i, it[1..(i - 1)]>>]
  <2> HIDE DEF it
  <2> QED BY <1>7, <1>8
<1>9. PICK acc \in [0..n -> V] : Follows(acc, n, follow, step, it)
  <2>1. Unfolds(it, n, V, follow, step)
    <3> HIDE DEF step, it
    <3> QED BY <1>6, <1>8 DEF Unfolds
  <2> HIDE DEF step, it
  <2> QED BY <1>1, <2>1, FoldPath
<1>10. ASSUME NEW i \in 1..n PROVE acc[i] = [acc[i - 1] EXCEPT ![ps[RulePlaces(ps)[i][1]].rhs[RulePlaces(ps)[i][2]]] = @ \cup
                Concatenate(FirstOfString(first, depth, SubSeq(ps[RulePlaces(ps)[i][1]].rhs, RulePlaces(ps)[i][2] + 1, Len(ps[RulePlaces(ps)[i][1]].rhs))),
                            acc[i - 1][ps[RulePlaces(ps)[i][1]].lhs], depth)]
  <2>1. acc[i] = step[<<i, acc[i - 1]>>]
    <3> HIDE DEF step, it
    <3> QED BY <1>9 DEF Follows
  <2>2. <<i, acc[i - 1]>> \in (1..n) \X V
    <3>1. i - 1 \in 0..n
      OBVIOUS
    <3> QED BY <3>1
  <2> QED BY <2>1, <2>2
<1> HIDE DEF it, step
<1>11. acc[0] = follow /\ acc[n] = it[1..n]
  BY <1>9 DEF Follows
<1>12. FollowSweepPath(ps, depth, first, follow, n, acc)
  BY <1>5, <1>10, <1>11 DEF FollowSweepPath
<1> QED BY <1>12

Bounded(T, d) == {w \in Seq(T) : Len(w) <= d}

LEMMA BoundedIsFinite ==
    ASSUME NEW T, IsFiniteSet(T), NEW d \in Nat
    PROVE  IsFiniteSet(Bounded(T, d))
<1> DEFINE graph(w) == {<<i, w[i]>> : i \in DOMAIN w}
           B == Bounded(T, d)
           C == SUBSET ((1..d) \X T)
           f == [w \in B |-> graph(w)]
<1>1. IsFiniteSet(C)
  <2>1. IsFiniteSet(1..d)
    BY FS_Interval
  <2>2. IsFiniteSet((1..d) \X T)
    BY <2>1, FS_Product
  <2> QED BY <2>2, FS_SUBSET
<1>2. ASSUME NEW w \in B PROVE w \in Seq(T) /\ Len(w) \in Nat /\ DOMAIN w = 1..Len(w) /\ Len(w) <= d
  BY DEF Bounded
<1>3. ASSUME NEW w \in B PROVE graph(w) \in C
  <2>1. ASSUME NEW i \in DOMAIN w PROVE <<i, w[i]>> \in (1..d) \X T
    <3>1. i \in 1..d /\ w[i] \in T
      BY <1>2
    <3> QED BY <3>1
  <2> QED BY <2>1
<1>4. ASSUME NEW v \in B, NEW w \in B, graph(v) = graph(w) PROVE v = w
  <2>1. ASSUME NEW i \in DOMAIN v PROVE i \in DOMAIN w /\ w[i] = v[i]
    <3>1. <<i, v[i]>> \in graph(w)
      BY <1>4
    <3>2. PICK j \in DOMAIN w : <<i, v[i]>> = <<j, w[j]>>
      BY <3>1
    <3> QED BY <3>2
  <2>2. ASSUME NEW i \in DOMAIN w PROVE i \in DOMAIN v
    <3>1. <<i, w[i]>> \in graph(v)
      BY <1>4
    <3>2. PICK j \in DOMAIN v : <<i, w[i]>> = <<j, v[j]>>
      BY <3>1
    <3> QED BY <3>2
  <2>3. DOMAIN v = DOMAIN w
    BY <2>1, <2>2
  <2>4. Len(v) = Len(w)
    BY <1>2, <2>3
  <2>5. \A i \in 1..Len(v) : v[i] = w[i]
    BY <1>2, <2>1
  <2> QED BY <1>2, <2>4, <2>5, SeqEqual, Zenon
<1> HIDE DEF B, C, graph
<1>5. f \in Injection(B, C)
  <2>1. f \in [B -> C]
    BY <1>3
  <2>2. ASSUME NEW v \in B, NEW w \in B, f[v] = f[w] PROVE v = w
    <3>1. f[v] = graph(v) /\ f[w] = graph(w)
      OBVIOUS
    <3> QED BY <1>4, <2>2, <3>1
  <2> HIDE DEF f
  <2> QED BY <2>1, <2>2 DEF Injection, IsInjective
<1>6. IsFiniteSet(B)
  <2> HIDE DEF f
  <2> QED BY <1>1, <1>5, FS_Injection
<1> QED BY <1>6 DEF B

\* The sets of windows that have what the loops put together.
Windowed(W, d, T) ==
    /\ <<>> \in W /\ EndWindow(d) \in W /\ \A s \in T : <<s>> \in W
    /\ \A a, b \in W : Truncate(a \o b, d) \in W

LEMMA EndIsAWindow ==
    ASSUME NEW d \in Nat, NEW T, EndOfInput \in T
    PROVE  EndWindow(d) \in Seq(T) /\ Len(EndWindow(d)) = d
<1> DEFINE e == EndOfInput
<1>1. EndWindow(d) = [i \in 1..d |-> e]
  BY DEF EndWindow
<1> HIDE DEF e
<1>2. e \in T
  BY DEF e
<1>3. EndWindow(d) \in [1..d -> T]
  BY <1>1, <1>2
<1> QED BY <1>3

LEMMA BoundedIsWindowed ==
    ASSUME NEW T, NEW d \in Nat, d >= 1, EndOfInput \in T
    PROVE  Windowed(Bounded(T, d), d, T)
<1>1. <<>> \in Bounded(T, d)
  <2>1. <<>> \in Seq(T) /\ Len(<<>>) = 0
    OBVIOUS
  <2> QED BY <2>1 DEF Bounded
<1>2. EndWindow(d) \in Bounded(T, d)
  BY EndIsAWindow DEF Bounded
<1>3. ASSUME NEW s \in T PROVE <<s>> \in Bounded(T, d)
  <2>1. <<s>> \in Seq(T) /\ Len(<<s>>) = 1
    OBVIOUS
  <2> QED BY <2>1 DEF Bounded
<1>4. ASSUME NEW a \in Bounded(T, d), NEW b \in Bounded(T, d) PROVE Truncate(a \o b, d) \in Bounded(T, d)
  <2> DEFINE c == a \o b
             m == IF Len(c) < d THEN Len(c) ELSE d
  <2>1. a \in Seq(T) /\ b \in Seq(T)
    BY DEF Bounded
  <2>2. c \in Seq(T)
    BY <2>1
  <2> HIDE DEF c
  <2>3. m \in 0..Len(c) /\ m <= d /\ Len(c) \in Nat
    BY <2>2
  <2> HIDE DEF m
  <2>4. SubSeq(c, 1, m) \in Seq(T) /\ Len(SubSeq(c, 1, m)) = m
    BY <2>2, <2>3
  <2>5. Truncate(c, d) = SubSeq(c, 1, m)
    BY DEF Truncate, m
  <2> QED BY <2>3, <2>4, <2>5 DEF Bounded, c
<1> QED BY <1>1, <1>2, <1>3, <1>4 DEF Windowed

LEMMA AllAreWindowed ==
    ASSUME NEW T, T \subseteq STRING, NEW d \in Nat
    PROVE  Windowed(Seq(STRING), d, T)
<1>1. <<>> \in Seq(STRING)
  OBVIOUS
<1>2. EndWindow(d) \in Seq(STRING)
  BY NamesAssumption, EndIsAWindow
<1>3. \A s \in T : <<s>> \in Seq(STRING)
  BY OneElement
<1>4. ASSUME NEW a \in Seq(STRING), NEW b \in Seq(STRING) PROVE Truncate(a \o b, d) \in Seq(STRING)
  <2> DEFINE c == a \o b
  <2>1. c \in Seq(STRING)
    OBVIOUS
  <2> HIDE DEF c
  <2>2. Truncate(c, d) \in Seq(STRING)
    BY <2>1 DEF Truncate
  <2> QED BY <2>2 DEF c
<1> QED BY <1>1, <1>2, <1>3, <1>4 DEF Windowed

LEMMA ConcatenationIn ==
    ASSUME NEW T, NEW d, NEW W, Windowed(W, d, T), NEW u, u \subseteq W, NEW v, v \subseteq W
    PROVE  Concatenate(u, v, d) \subseteq W
<1>1. ASSUME NEW x \in u \X v PROVE Truncate(x[1] \o x[2], d) \in W
  BY DEF Windowed
<1> QED BY <1>1 DEF Concatenate

LEMMA StringIn ==
    ASSUME NEW L, NEW T, NEW d, NEW W, Windowed(W, d, T), NEW first \in [L -> SUBSET W],
           NEW symbols \in Seq(T)
    PROVE  FirstOfString(first, d, symbols) \subseteq W
<1> DEFINE n == Len(symbols)
           V == SUBSET W
<1>1. n \in Nat /\ DOMAIN symbols = 1..n
  OBVIOUS
<1>2. {<<>>} \in V
  BY DEF Windowed
<1>3. ASSUME NEW i \in 1..n, NEW v \in V PROVE Concatenate(v, FirstOfSymbol(first, symbols[i]), d) \in V
  <2>1. symbols[i] \in T
    BY <1>1
  <2>2. FirstOfSymbol(first, symbols[i]) \subseteq W
    <3>1. CASE symbols[i] \in DOMAIN first
      BY <3>1 DEF FirstOfSymbol
    <3>2. CASE symbols[i] \notin DOMAIN first
      <4>1. FirstOfSymbol(first, symbols[i]) = {<<symbols[i]>>}
        BY <3>2 DEF FirstOfSymbol
      <4> HIDE DEF n
      <4> QED BY <4>1, <2>1 DEF Windowed
    <3> QED BY <3>1, <3>2
  <2>3. v \subseteq W
    OBVIOUS
  <2>4. Concatenate(v, FirstOfSymbol(first, symbols[i]), d) \subseteq W
    BY <2>2, <2>3, ConcatenationIn
  <2> QED BY <2>4
<1>4. FirstOfStringStays(first, d, symbols, n, V)
  <2> HIDE DEF n, V
  <2> QED BY <1>3 DEF FirstOfStringStays
<1>5. PICK acc \in [0..n -> V] : FirstOfStringPath(first, d, symbols, n, acc)
  <2> HIDE DEF n, V
  <2> QED BY <1>1, <1>2, <1>4, FirstOfStringWorks
<1>6. acc[n] \in V /\ acc[n] = FirstOfString(first, d, symbols)
  <2>1. n \in 0..n
    BY <1>1
  <2> HIDE DEF n, V
  <2> QED BY <1>5, <2>1 DEF FirstOfStringPath
<1> QED BY <1>6

\* The sets of windows by rule that a round can make of those it starts from.
More(L, W, f) == {v \in [L -> SUBSET W] : \A l \in L : f[l] \subseteq v[l]}

LEMMA MoreStill ==
    ASSUME NEW L, NEW W, NEW f, NEW v \in More(L, W, f), NEW name \in L, NEW more, more \subseteq W
    PROVE  [v EXCEPT ![name] = @ \cup more] \in More(L, W, f)
<1> DEFINE u == [v EXCEPT ![name] = v[name] \cup more]
<1>1. v \in [L -> SUBSET W] /\ \A l \in L : f[l] \subseteq v[l]
  BY DEF More
<1>2. v[name] \cup more \in SUBSET W
  BY <1>1
<1>3. u \in [L -> SUBSET W]
  BY <1>1, <1>2
<1>4. ASSUME NEW l \in L PROVE f[l] \subseteq u[l]
  <2>1. v[l] \subseteq u[l]
    BY <1>1
  <2> QED BY <1>1, <2>1
<1> HIDE DEF u
<1>5. u \in More(L, W, f)
  BY <1>3, <1>4 DEF More
<1> QED BY <1>5 DEF u

LEMMA RightSidesOfSymbols ==
    ASSUME NEW ps, GoodProductions(ps), NEW id \in DOMAIN ps
    PROVE  ps[id].rhs \in Seq(SymbolsOf(ps)) /\ Range(ps[id].rhs) \subseteq SymbolsOf(ps)
<1> DEFINE rhs == ps[id].rhs
<1>1. rhs \in Seq(STRING)
  BY DEF GoodProductions
<1>2. Range(rhs) \subseteq SymbolsOf(ps)
  BY DEF SymbolsOf
<1> HIDE DEF rhs
<1>3. rhs \in Seq(SymbolsOf(ps))
  <2>1. \A i \in DOMAIN rhs : rhs[i] \in SymbolsOf(ps)
    BY <1>2 DEF Range
  <2> QED BY <1>1, <2>1
<1> QED BY <1>2, <1>3 DEF rhs

LEMMA FirstSweepIn ==
    ASSUME NEW ps, GoodProductions(ps), NEW d, NEW W, Windowed(W, d, SymbolsOf(ps)),
           NEW first \in [LeftSides(ps) -> SUBSET W]
    PROVE  FirstSweep(ps, d, first) \in More(LeftSides(ps), W, first)
<1>1. PICK n \in Nat : /\ DOMAIN InOrder(ps) = 1..n
                       /\ \A i \in 1..n : InOrder(ps)[i] = i - 1 /\ i - 1 \in DOMAIN ps
  BY VisitingOrder
<1> DEFINE V == More(LeftSides(ps), W, first)
<1>2. ASSUME NEW i \in 1..n, NEW v \in V
      PROVE  [v EXCEPT ![ps[InOrder(ps)[i]].lhs] = @ \cup FirstOfString(v, d, ps[InOrder(ps)[i]].rhs)] \in V
  <2> DEFINE id == InOrder(ps)[i]
  <2>1. id \in DOMAIN ps
    BY <1>1
  <2> HIDE DEF id
  <2>2. ps[id].lhs \in LeftSides(ps) /\ ps[id].rhs \in Seq(SymbolsOf(ps))
    BY <2>1, RightSidesOfSymbols DEF LeftSides
  <2>3. v \in [LeftSides(ps) -> SUBSET W]
    BY DEF More
  <2>4. FirstOfString(v, d, ps[id].rhs) \subseteq W
    BY <2>2, <2>3, StringIn
  <2>5. [v EXCEPT ![ps[id].lhs] = @ \cup FirstOfString(v, d, ps[id].rhs)] \in V
    BY <2>2, <2>4, MoreStill
  <2> QED BY <2>5 DEF id
<1>3. FirstSweepStays(ps, d, first, n, V)
  <2> HIDE DEF V
  <2> QED BY <1>2, Zenon DEF FirstSweepStays
<1>4. PICK acc \in [0..n -> V] : FirstSweepPath(ps, d, first, n, acc)
  <2>1. first \in V
    BY DEF More
  <2> HIDE DEF V
  <2> QED BY <1>1, <1>3, <2>1, FirstSweepWorks
<1>5. acc[n] \in V /\ acc[n] = FirstSweep(ps, d, first)
  <2>1. n \in 0..n
    OBVIOUS
  <2> HIDE DEF V
  <2> QED BY <1>4, <2>1 DEF FirstSweepPath
<1> QED BY <1>5

\* The places FOLLOW visits are those of rules.
PlacesOf(ps) ==
    {place \in (DOMAIN ps) \X Nat :
        place[2] \in DOMAIN ps[place[1]].rhs /\ ps[place[1]].rhs[place[2]] \in LeftSides(ps)}

LEMMA PlacesKept ==
    ASSUME NEW ps, GoodProductions(ps), NEW id \in DOMAIN ps
    PROVE  Selected([d \in DOMAIN ps[id].rhs |-> <<id, d>>],
                    LAMBDA place : ps[place[1]].rhs[place[2]] \in LeftSides(ps)) \in Seq(PlacesOf(ps))
<1> DEFINE rhs == ps[id].rhs
           n == Len(rhs)
           places == [d \in DOMAIN rhs |-> <<id, d>>]
           V == Seq(PlacesOf(ps))
<1>1. rhs \in Seq(STRING)
  BY DEF GoodProductions
<1>2. n \in Nat /\ DOMAIN rhs = 1..n
  BY <1>1
<1>3. DOMAIN places = 1..n /\ \A i \in 1..n : places[i] = <<id, i>>
  BY <1>2
<1>4. ASSUME NEW i \in 1..n, NEW v \in V
      PROVE  (IF ps[places[i][1]].rhs[places[i][2]] \in LeftSides(ps) THEN Append(v, places[i]) ELSE v) \in V
  <2>1. places[i] = <<id, i>> /\ places[i][1] = id /\ places[i][2] = i
    BY <1>3
  <2>2. CASE ps[id].rhs[i] \in LeftSides(ps)
    <3>1. <<id, i>> \in PlacesOf(ps)
      BY <1>2, <2>2 DEF PlacesOf
    <3> HIDE DEF places
    <3>2. Append(v, places[i]) \in V
      BY <2>1, <3>1
    <3> QED BY <3>2, <2>1, <2>2
  <2>3. CASE ps[id].rhs[i] \notin LeftSides(ps)
    BY <2>1, <2>3
  <2> QED BY <2>2, <2>3
<1> HIDE DEF places
<1>5. PlacesKeptStays(ps, places, n, V)
  <2> HIDE DEF n, V
  <2> QED BY <1>4, Zenon DEF PlacesKeptStays
<1>6. PICK acc \in [0..n -> V] : PlacesKeptPath(ps, places, n, acc)
  <2>1. <<>> \in V
    OBVIOUS
  <2> HIDE DEF n, V
  <2> QED BY <1>2, <1>3, <1>5, <2>1, PlacesKeptWorks
<1>7. n \in 0..n
  BY <1>2
<1>8. acc[n] \in V
  <2> HIDE DEF n, V
  <2> QED BY <1>6, <1>7
<1>9. acc[n] = Selected(places, LAMBDA place : ps[place[1]].rhs[place[2]] \in LeftSides(ps))
  <2> HIDE DEF n, V
  <2> QED BY <1>6, Zenon DEF PlacesKeptPath
<1>10. Selected(places, LAMBDA place : ps[place[1]].rhs[place[2]] \in LeftSides(ps)) \in V
  BY <1>8, <1>9
<1> QED BY <1>10 DEF places, rhs

LEMMA PlacesVisited ==
    ASSUME NEW ps, GoodProductions(ps)
    PROVE  RulePlaces(ps) \in Seq(PlacesOf(ps))
<1>1. PICK n \in Nat : /\ DOMAIN InOrder(ps) = 1..n
                       /\ \A i \in 1..n : InOrder(ps)[i] = i - 1 /\ i - 1 \in DOMAIN ps
  BY VisitingOrder
<1> DEFINE row(i) == Selected([d \in DOMAIN ps[i - 1].rhs |-> <<i - 1, d>>],
                              LAMBDA place : ps[place[1]].rhs[place[2]] \in LeftSides(ps))
           seqs == [i \in DOMAIN InOrder(ps) |-> row(i)]
<1>2. \A i \in 1..n : row(i) \in Seq(PlacesOf(ps))
  BY <1>1, PlacesKept
<1>3. RulePlaces(ps) = FlattenSeq(seqs)
  BY Zenon DEF RulePlaces
<1> HIDE DEF row
<1>4. seqs \in [1..n -> Seq(PlacesOf(ps))]
  BY <1>1, <1>2
<1> HIDE DEF seqs
<1>5. FlattenSeq(seqs) \in Seq(PlacesOf(ps))
  BY <1>4, Flattened
<1> QED BY <1>3, <1>5

LEMMA SuffixIn ==
    ASSUME NEW T, NEW rhs \in Seq(T), NEW d \in Nat
    PROVE  SubSeq(rhs, d + 1, Len(rhs)) \in Seq(T)
OBVIOUS

LEMMA FollowSweepIn ==
    ASSUME NEW ps, GoodProductions(ps), NEW depth, NEW W, Windowed(W, depth, SymbolsOf(ps)),
           NEW first \in [LeftSides(ps) -> SUBSET W], NEW follow \in [LeftSides(ps) -> SUBSET W]
    PROVE  FollowSweep(ps, depth, first, follow) \in More(LeftSides(ps), W, follow)
<1> DEFINE places == RulePlaces(ps)
           n == Len(places)
           V == More(LeftSides(ps), W, follow)
           more(v, place) == Concatenate(FirstOfString(first, depth, SubSeq(ps[place[1]].rhs, place[2] + 1, Len(ps[place[1]].rhs))),
                                         v[ps[place[1]].lhs], depth)
<1>1. places \in Seq(PlacesOf(ps))
  BY PlacesVisited
<1> HIDE DEF places
<1>2. n \in Nat /\ DOMAIN places = 1..n /\ \A i \in 1..n : places[i] \in PlacesOf(ps)
  BY <1>1
<1> HIDE DEF n
<1>3. ASSUME NEW i \in 1..n, NEW v \in V
      PROVE  [v EXCEPT ![ps[places[i][1]].rhs[places[i][2]]] = @ \cup more(v, places[i])] \in V
  <2> DEFINE id == places[i][1]
             d == places[i][2]
             rest == SubSeq(ps[id].rhs, d + 1, Len(ps[id].rhs))
  <2>1. id \in DOMAIN ps /\ d \in Nat /\ ps[id].rhs[d] \in LeftSides(ps)
    BY <1>2 DEF PlacesOf
  <2> HIDE DEF id, d
  <2>2. rest \in Seq(SymbolsOf(ps))
    BY <2>1, RightSidesOfSymbols, SuffixIn
  <2> HIDE DEF rest
  <2>3. FirstOfString(first, depth, rest) \subseteq W
    BY <2>2, StringIn
  <2>4. v \in [LeftSides(ps) -> SUBSET W] /\ ps[id].lhs \in LeftSides(ps)
    BY <2>1 DEF More, LeftSides
  <2>5. v[ps[id].lhs] \subseteq W
    BY <2>4
  <2>6. Concatenate(FirstOfString(first, depth, rest), v[ps[id].lhs], depth) \subseteq W
    BY <2>3, <2>5, ConcatenationIn
  <2>7. more(v, places[i]) \subseteq W
    BY <2>6 DEF rest, id, d
  <2> HIDE DEF more, V
  <2>8. [v EXCEPT ![ps[id].rhs[d]] = @ \cup more(v, places[i])] \in V
    BY <2>1, <2>7, MoreStill DEF V
  <2> QED BY <2>8 DEF id, d
<1>4. FollowSweepStays(ps, depth, first, follow, n, V)
  <2> HIDE DEF V
  <2> QED BY <1>3, Zenon DEF FollowSweepStays, places
<1>5. PICK acc \in [0..n -> V] : FollowSweepPath(ps, depth, first, follow, n, acc)
  <2>1. follow \in V
    BY DEF More
  <2>2. DOMAIN RulePlaces(ps) = 1..n
    BY <1>2 DEF places
  <2> HIDE DEF V
  <2> QED BY <1>2, <1>4, <2>1, <2>2, FollowSweepWorks
<1>6. acc[n] \in V /\ acc[n] = FollowSweep(ps, depth, first, follow)
  <2>1. n \in 0..n
    BY <1>2
  <2> HIDE DEF V
  <2> QED BY <1>5, <2>1 DEF FollowSweepPath
<1> QED BY <1>6

LoopSolves(f, S, N) == \A x \in S : f[x] = IF N[x] = x THEN x ELSE f[N[x]]
OnlyAdds(N, L, W) == \A x \in [L -> SUBSET W] : N[x] \in More(L, W, x)

\* A loop that only adds ends where a round adds nothing, inside any set that
\* the rounds stay in.
Inside(L, W, Z, S, D, N) ==
    /\ IsFiniteSet(L) /\ IsFiniteSet(W) /\ W \subseteq Z
    /\ S = [L -> SUBSET Z] /\ D \subseteq [L -> SUBSET W] /\ \A x \in D : N[x] \in D

LEMMA GrowingLoopIn ==
    ASSUME NEW L, NEW W, NEW Z, NEW S, NEW D, NEW N \in [S -> S], Inside(L, W, Z, S, D, N),
           NEW f, LoopSolves(f, S, N), OnlyAdds(N, L, W), NEW start \in D
    PROVE  f[start] \in D /\ N[f[start]] = f[start]
<1> DEFINE C == {x \in S : N[x] = x}
           g == [x \in S |-> f[x]]
           F == L \X W
           measure(x) == {p \in F : p[2] \in x[p[1]]}
           m == [x \in D |-> measure(x)]
<1>1. D \subseteq S
  BY DEF Inside
<1>2. ASSUME NEW x \in D PROVE N[x] \in D /\ \A l \in L : x[l] \subseteq N[x][l]
  BY DEF More, OnlyAdds, Inside
<1>3. Loops(g, S, C, N)
  <2>1. ASSUME NEW x \in S PROVE f[x] = IF x \in C THEN N[x] ELSE g[N[x]]
    <3>1. N[x] \in S
      OBVIOUS
    <3>2. g[N[x]] = f[N[x]]
      BY <3>1
    <3>3. x \in C <=> N[x] = x
      OBVIOUS
    <3> HIDE DEF g, C
    <3> QED BY <3>2, <3>3, <2>1 DEF LoopSolves
  <2>2. g = [x \in S |-> IF x \in C THEN N[x] ELSE g[N[x]]]
    <3> HIDE DEF C
    <3> QED BY <2>1
  <2> QED BY <2>2 DEF Loops
<1>4. IsFiniteSet(F) /\ m \in [D -> SUBSET F]
  BY FS_Product DEF Inside
<1>5. Gains(D, C, N, m)
  <2>1. ASSUME NEW x \in D, x \notin C PROVE N[x] \in D /\ m[x] \subseteq m[N[x]] /\ m[x] # m[N[x]]
    <3>1. N[x] \in D /\ \A l \in L : x[l] \subseteq N[x][l]
      BY <1>2
    <3>2. N[x] # x
      BY <2>1, <1>1
    <3> DEFINE y == N[x]
    <3>3. y \in D /\ x \in D /\ x # y /\ \A l \in L : x[l] \subseteq y[l]
      BY <3>1, <3>2
    <3> HIDE DEF y
    <3>4. PICK l \in L : x[l] # y[l]
      BY <3>3 DEF Inside
    <3>5. PICK w \in W : w \in y[l] /\ w \notin x[l]
      BY <3>3, <3>4 DEF Inside
    <3>6. <<l, w>> \in measure(y) /\ <<l, w>> \notin measure(x) /\ measure(x) \subseteq measure(y)
      BY <3>3, <3>5
    <3>7. m[x] = measure(x) /\ m[y] = measure(y)
      BY <3>3
    <3> HIDE DEF m, measure
    <3> QED BY <3>1, <3>6, <3>7 DEF y
  <2> HIDE DEF m, C
  <2> QED BY <2>1 DEF Gains
<1> HIDE DEF C, g, F, m
<1>6. PICK y \in D : y \in C /\ g[start] = N[y]
  <2>1. start \in D
    OBVIOUS
  <2>2. IsFiniteSet(F)
    BY <1>4
  <2>3. m \in [D -> SUBSET F]
    BY <1>4
  <2>4. \E y \in D : y \in C /\ g[start] = N[y]
    <3>1. N \in [S -> S]
      OBVIOUS
    <3> QED BY <1>1, <1>3, <1>5, <2>1, <2>2, <2>3, <3>1, LoopEnds
  <2> QED BY <2>4
<1>7. g[start] = y /\ N[y] = y
  <2>1. N[y] = y
    BY <1>6 DEF C
  <2> QED BY <1>6, <2>1
<1>8. g[start] = f[start]
  <2>1. start \in S
    BY <1>1
  <2> QED BY <2>1 DEF g
<1> QED BY <1>7, <1>8

\* Its windows are of the sort it started with.
LEMMA GrowingLoop ==
    ASSUME NEW L, IsFiniteSet(L), NEW W, IsFiniteSet(W), NEW Z, W \subseteq Z,
           NEW S, S = [L -> SUBSET Z], NEW N \in [S -> S], NEW f, LoopSolves(f, S, N), OnlyAdds(N, L, W),
           NEW start \in [L -> SUBSET W]
    PROVE  f[start] \in [L -> SUBSET W]
<1> DEFINE D == [L -> SUBSET W]
<1>1. \A x \in D : N[x] \in D
  BY DEF OnlyAdds, More
<1>2. D \subseteq [L -> SUBSET W] /\ start \in D
  OBVIOUS
<1> HIDE DEF D
<1>3. f[start] \in D
  <2>1. Inside(L, W, Z, S, D, N)
    BY <1>1, <1>2 DEF Inside
  <2> QED BY <1>2, <2>1, GrowingLoopIn
<1> QED BY <1>3 DEF D

\* The loop of computeFollowK.
FollowLoop(ps, depth, first) ==
    CHOOSE f : f = [follow \in [LeftSides(ps) -> SUBSET Seq(STRING)] |->
        IF FollowSweep(ps, depth, first, follow) = follow THEN follow
        ELSE f[FollowSweep(ps, depth, first, follow)]]

LEMMA FollowLoopIs ==
    ASSUME NEW ps, GoodProductions(ps), NEW depth \in Nat,
           NEW first \in [LeftSides(ps) -> SUBSET Seq(STRING)]
    PROVE  /\ Follow(ps, depth, first) =
                  FollowLoop(ps, depth, first)[[NoFirst(ps) EXCEPT ![Augmented] = {EndWindow(depth)}]]
           /\ \A follow \in [LeftSides(ps) -> SUBSET Seq(STRING)] :
                 /\ FollowSweep(ps, depth, first, follow) \in [LeftSides(ps) -> SUBSET Seq(STRING)]
                 /\ FollowLoop(ps, depth, first)[follow] =
                       IF FollowSweep(ps, depth, first, follow) = follow THEN follow
                       ELSE FollowLoop(ps, depth, first)[FollowSweep(ps, depth, first, follow)]
<1> DEFINE S == [LeftSides(ps) -> SUBSET Seq(STRING)]
           next(x) == FollowSweep(ps, depth, first, x)
           N == [x \in S |-> next(x)]
           C == {x \in S : next(x) = x}
           B == [x \in S |-> x]
<1>1. Follow(ps, depth, first) =
          FollowLoop(ps, depth, first)[[NoFirst(ps) EXCEPT ![Augmented] = {EndWindow(depth)}]]
  BY Zenon DEF Follow, FollowLoop
<1>2. ASSUME NEW x \in S PROVE next(x) \in S
  <2>1. SymbolsOf(ps) \subseteq STRING
    BY SymbolsAreFinite
  <2>2. Windowed(Seq(STRING), depth, SymbolsOf(ps))
    BY <2>1, AllAreWindowed
  <2>3. FollowSweep(ps, depth, first, x) \in More(LeftSides(ps), Seq(STRING), x)
    BY <2>2, FollowSweepIn
  <2> QED BY <2>3 DEF More
<1> HIDE DEF next
<1>3. N \in [S -> S]
  <2> HIDE DEF S
  <2> QED BY <1>2
<1>4. PICK g : g = [x \in S |-> IF x \in C THEN B[x] ELSE g[N[x]]]
  <2>1. \E g : LoopsTo(g, S, C, B, N)
    <3> HIDE DEF S, N, C, B
    <3> QED BY <1>3, LoopFrom
  <2> HIDE DEF S, N, C, B
  <2> QED BY <2>1 DEF LoopsTo
<1>5. ASSUME NEW x \in S
      PROVE  (IF x \in C THEN B[x] ELSE g[N[x]]) = (IF next(x) = x THEN x ELSE g[next(x)])
  <2> HIDE DEF S
  <2> QED OBVIOUS
<1>6. g = [x \in S |-> IF next(x) = x THEN x ELSE g[next(x)]]
  <2> HIDE DEF S, N, C, B
  <2> QED BY <1>4, <1>5
<1> DEFINE f == FollowLoop(ps, depth, first)
<1>7. f = [x \in S |-> IF next(x) = x THEN x ELSE f[next(x)]]
  BY <1>6, Zenon DEF FollowLoop, next
<1> HIDE DEF f
<1>8. \A x \in S : f[x] = IF next(x) = x THEN x ELSE f[next(x)]
  <2> HIDE DEF S
  <2> QED BY <1>7
<1> HIDE DEF S
<1>9. \A x \in S : next(x) \in S /\ f[x] = IF next(x) = x THEN x ELSE f[next(x)]
  BY <1>2, <1>8
<1> QED BY <1>1, <1>9 DEF f, next, S

LEMMA LeftSidesAreFinite ==
    ASSUME NEW ps, GoodProductions(ps)
    PROVE  IsFiniteSet(LeftSides(ps))
<1>1. PICK n \in Nat : DOMAIN ps = 0..n
  BY DEF GoodProductions
<1> DEFINE names == [id \in 0..n |-> ps[id].lhs]
<1>2. IsFiniteSet(Range(names))
  <2>1. IsFiniteSet(0..n)
    BY FS_Interval
  <2> QED BY <2>1, RangeIsFinite
<1>3. Range(names) = LeftSides(ps)
  BY <1>1 DEF Range, LeftSides
<1> QED BY <1>2, <1>3

\* FIRST and FOLLOW of a depth are made of windows of the grammar.
LEMMA LoopsEndTyped ==
    ASSUME NEW ps, StartsWell(ps), NEW depth \in Nat, depth >= 1
    PROVE  /\ ComputeFirstK(ps, depth) \in [LeftSides(ps) -> SUBSET Bounded(SymbolsOf(ps), depth)]
           /\ Follow(ps, depth, ComputeFirstK(ps, depth)) \in [LeftSides(ps) -> SUBSET Bounded(SymbolsOf(ps), depth)]
<1> DEFINE L == LeftSides(ps)
           W == Bounded(SymbolsOf(ps), depth)
           Z == Seq(STRING)
           S == [L -> SUBSET Z]
           first == ComputeFirstK(ps, depth)
<1>1. GoodProductions(ps) /\ 0 \in DOMAIN ps /\ ps[0].lhs = Augmented
  BY DEF StartsWell
<1>2. IsFiniteSet(L) /\ IsFiniteSet(SymbolsOf(ps)) /\ SymbolsOf(ps) \subseteq STRING
  BY <1>1, LeftSidesAreFinite, SymbolsAreFinite
<1>3. IsFiniteSet(W) /\ W \subseteq Z
  <2>1. IsFiniteSet(W)
    BY <1>2, BoundedIsFinite
  <2>2. ASSUME NEW w \in W PROVE w \in Z
    <3>1. w \in Seq(SymbolsOf(ps))
      BY DEF Bounded
    <3> QED BY <3>1, <1>2
  <2> QED BY <2>1, <2>2
<1>4. Windowed(W, depth, SymbolsOf(ps))
  BY BoundedIsWindowed DEF SymbolsOf
<1>5. Windowed(Z, depth, SymbolsOf(ps))
  BY <1>2, AllAreWindowed
<1> HIDE DEF W
<1>6. first \in [L -> SUBSET W]
  <2> DEFINE N == [x \in S |-> FirstSweep(ps, depth, x)]
             f == FirstLoop(ps, depth)
  <2>1. ASSUME NEW x \in S PROVE FirstSweep(ps, depth, x) \in S
    <3>1. FirstSweep(ps, depth, x) \in More(L, Z, x)
      BY <1>1, <1>5, FirstSweepIn
    <3> QED BY <3>1 DEF More
  <2>2. ASSUME NEW x \in [L -> SUBSET W] PROVE x \in S /\ FirstSweep(ps, depth, x) \in More(L, W, x)
    BY <1>1, <1>3, <1>4, FirstSweepIn
  <2>3. /\ first = f[NoFirst(ps)]
        /\ \A x \in S : f[x] = IF FirstSweep(ps, depth, x) = x THEN x ELSE f[FirstSweep(ps, depth, x)]
    BY <1>1, FirstLoopIs DEF WideFirst
  <2> HIDE DEF f, first, S
  <2>4. N \in [S -> S] /\ \A x \in S : N[x] = FirstSweep(ps, depth, x)
    BY <2>1
  <2> HIDE DEF N
  <2>5. LoopSolves(f, S, N)
    BY <2>3, <2>4 DEF LoopSolves
  <2>6. OnlyAdds(N, L, W)
    BY <2>2, <2>4 DEF OnlyAdds
  <2>7. NoFirst(ps) \in [L -> SUBSET W]
    BY DEF NoFirst
  <2>8. f[NoFirst(ps)] \in [L -> SUBSET W]
    <3>1. IsFiniteSet(L) /\ IsFiniteSet(W) /\ W \subseteq Z /\ S = [L -> SUBSET Z] /\ N \in [S -> S]
      BY <1>2, <1>3, <2>4 DEF S
    <3> HIDE DEF L, Z
    <3> QED BY <2>5, <2>6, <2>7, <3>1, GrowingLoop
  <2> QED BY <2>3, <2>8
<1>7. first \in S
  BY <1>3, <1>6
<1> HIDE DEF first
<1>8. Follow(ps, depth, first) \in [L -> SUBSET W]
  <2> DEFINE N == [x \in S |-> FollowSweep(ps, depth, first, x)]
             f == FollowLoop(ps, depth, first)
             start == [NoFirst(ps) EXCEPT ![Augmented] = {EndWindow(depth)}]
  <2>1. /\ Follow(ps, depth, first) = f[start]
        /\ \A x \in S : /\ FollowSweep(ps, depth, first, x) \in S
                        /\ f[x] = IF FollowSweep(ps, depth, first, x) = x THEN x ELSE f[FollowSweep(ps, depth, first, x)]
    BY <1>1, <1>7, FollowLoopIs
  <2>2. ASSUME NEW x \in [L -> SUBSET W] PROVE x \in S /\ FollowSweep(ps, depth, first, x) \in More(L, W, x)
    BY <1>1, <1>3, <1>4, <1>6, FollowSweepIn
  <2>3. start \in [L -> SUBSET W]
    <3>1. {EndWindow(depth)} \in SUBSET W
      BY <1>4 DEF Windowed
    <3>2. NoFirst(ps) \in [L -> SUBSET W]
      BY DEF NoFirst
    <3> QED BY <3>1, <3>2
  <2> HIDE DEF f, start, S
  <2>4. N \in [S -> S] /\ \A x \in S : N[x] = FollowSweep(ps, depth, first, x)
    BY <2>1
  <2> HIDE DEF N
  <2>5. LoopSolves(f, S, N)
    BY <2>1, <2>4 DEF LoopSolves
  <2>6. OnlyAdds(N, L, W)
    BY <2>2, <2>4 DEF OnlyAdds
  <2>7. f[start] \in [L -> SUBSET W]
    <3>1. IsFiniteSet(L) /\ IsFiniteSet(W) /\ W \subseteq Z /\ S = [L -> SUBSET Z] /\ N \in [S -> S]
      BY <1>2, <1>3, <2>4 DEF S
    <3> HIDE DEF L, Z
    <3> QED BY <2>3, <2>5, <2>6, <3>1, GrowingLoop
  <2> QED BY <2>1, <2>7
<1> QED BY <1>6, <1>8 DEF first, W

LEMMA PrefixOfOne ==
    ASSUME NEW T, NEW w \in Seq(T), NEW t, IsPrefix(<<t>>, w)
    PROVE  w # <<>> /\ w[1] = t
<1> DEFINE s == <<t>>
<1>1. s \in Seq({t}) /\ Len(s) = 1 /\ s[1] = t
  OBVIOUS
<1>2. Len(s) <= Len(w) /\ SubSeq(s, 1, Len(s)) = SubSeq(w, 1, Len(s))
  BY Zenon DEF IsPrefix
<1> HIDE DEF s
<1>3. 1 <= Len(w) /\ SubSeq(s, 1, 1) = SubSeq(w, 1, 1)
  BY <1>1, <1>2
<1>4. SubSeq(s, 1, 1)[1] = s[1] /\ SubSeq(w, 1, 1)[1] = w[1] /\ w # <<>>
  BY <1>1, <1>3
<1> QED BY <1>1, <1>3, <1>4

\* The window of a decision begins with the token of the cell it is made for.
LEMMA DecisionFits ==
    ASSUME NEW ps, StartsWell(ps), NEW d \in Nat, d >= 1, NEW c, NEW t, c.window = <<t>>,
           \A origin \in c.origins : origin.item \in CoresOf(ps),
           NEW x \in DecisionsOf(ps, d, c)
    PROVE  /\ x.window \in Seq(STRING) /\ x.window # <<>> /\ x.window[1] = t /\ x.state = c.state
           /\ \E origin \in c.origins : x.action = origin.action
<1> DEFINE W == Bounded(SymbolsOf(ps), d)
           first == ComputeFirstK(ps, d)
           follow == Follow(ps, d, first)
           ways(origin) == Continuations(ps, d, first, follow, c, origin)
           proposals == UNION {{[window |-> w, action |-> origin.action] : w \in ways(origin)} : origin \in c.origins}
           disjoint == \A p, q \in proposals : p.window = q.window => p.action = q.action
           complete == \A action \in c.actions : \E p \in proposals : p.action = action
           made(p) == [state |-> c.state, window |-> p.window, action |-> p.action]
<1>1. DecisionsOf(ps, d, c) = IF disjoint /\ complete THEN {made(p) : p \in proposals} ELSE {}
  BY Zenon DEF DecisionsOf, DecisionsAt
<1>2. PICK p \in proposals : x = made(p)
  <2> HIDE DEF disjoint, complete, proposals, made
  <2> QED BY <1>1
<1>3. PICK origin \in c.origins : \E w \in ways(origin) : p = [window |-> w, action |-> origin.action]
  <2> HIDE DEF ways
  <2> QED OBVIOUS
<1>4. PICK w \in ways(origin) : p = [window |-> w, action |-> origin.action]
  BY <1>3
<1>5. x.window = w /\ x.action = origin.action /\ x.state = c.state
  BY <1>2, <1>4
<1>6. first \in [LeftSides(ps) -> SUBSET W] /\ follow \in [LeftSides(ps) -> SUBSET W]
  BY LoopsEndTyped
<1>7. GoodProductions(ps) /\ Windowed(W, d, SymbolsOf(ps)) /\ SymbolsOf(ps) \subseteq STRING
  BY BoundedIsWindowed, SymbolsAreFinite DEF StartsWell, SymbolsOf
<1> DEFINE id == origin.item[1]
           rest == SubSeq(ps[id].rhs, origin.item[2] + 1, Len(ps[id].rhs))
           windows == IF origin.action.type = "shift"
                      THEN Concatenate(FirstOfString(first, d, rest), follow[ps[id].lhs], d)
                      ELSE follow[ps[id].lhs]
<1>8. w \in windows /\ Len(w) = d /\ IsPrefix(c.window, w)
  <2>1. ways(origin) = {v \in windows : Len(v) = d /\ IsPrefix(c.window, v)}
    BY Zenon DEF Continuations
  <2> HIDE DEF windows, ways
  <2> QED BY <2>1
<1>9. w \in W
  <2>1. id \in DOMAIN ps /\ origin.item[2] \in Nat
    BY DEF CoresOf
  <2> HIDE DEF id, W, first, follow
  <2>2. rest \in Seq(SymbolsOf(ps))
    BY <1>7, <2>1, RightSidesOfSymbols, SuffixIn
  <2>3. FirstOfString(first, d, rest) \subseteq W
    <3> HIDE DEF rest
    <3> QED BY <1>6, <1>7, <2>2, StringIn
  <2>4. ps[id].lhs \in LeftSides(ps)
    BY <2>1 DEF LeftSides
  <2>5. follow[ps[id].lhs] \subseteq W
    BY <1>6, <2>4
  <2>6. Concatenate(FirstOfString(first, d, rest), follow[ps[id].lhs], d) \subseteq W
    <3> HIDE DEF rest
    <3> QED BY <1>7, <2>3, <2>5, ConcatenationIn
  <2>7. windows \subseteq W
    <3> HIDE DEF rest
    <3> QED BY <2>5, <2>6
  <2> HIDE DEF windows
  <2> QED BY <1>8, <2>7
<1>10. w \in Seq(SymbolsOf(ps))
  BY <1>9 DEF Bounded
<1> HIDE DEF W, first, follow, ways, proposals, disjoint, complete, made, windows
<1>11. w \in Seq(STRING)
  BY <1>7, <1>10
<1>12. w # <<>> /\ w[1] = t
  BY <1>8, <1>11, PrefixOfOne
<1> QED BY <1>5, <1>11, <1>12

-----------------------------------------------------------------------------
(* The emitted tables have what the drivers take for granted of them.       *)

\* A finished automaton of a grammar that is not malformed.
Finished(g, A, c) ==
    /\ IsGrammar(g) /\ ~Malformed(g) /\ A.productions = PrepareProductions(g) /\ Reserved(A.productions)
    /\ BuildReady(A, c) /\ AllMoves(g, A, c) /\ OneTarget(c) /\ Machine(A, c)

StateNumbers(c) == 0..(Len(c.states) - 1)

LEMMA StatesAreNumbered ==
    ASSUME NEW c, IsSequence(c.states)
    PROVE  /\ Len(c.states) \in Nat
           /\ \A s : s \in StateNumbers(c) <=> s \in Int /\ s + 1 \in DOMAIN c.states
<1>1. DOMAIN c.states = 1..Len(c.states) /\ Len(c.states) \in Nat
  BY DEF IsSequence
<1> QED BY <1>1 DEF StateNumbers

LEMMA EmittedIs ==
    ASSUME NEW g, NEW ps, NEW c, NEW entries, NEW v, NEW P, P = Emit(g, ps, c, entries, v)
    PROVE  /\ P.productions = ps /\ P.entries = entries /\ P.decisions = v.decisions /\ P.open = v.open /\ P.k = v.k
           /\ DOMAIN P.items = StateNumbers(c) /\ \A s \in StateNumbers(c) : P.items[s] = c.states[s + 1].cores
           /\ DOMAIN P.goto = {<<m.from, m.symbol>> : m \in c.moves}
           /\ \A pair \in DOMAIN P.goto : P.goto[pair] = GotoOf(c, pair[1], pair[2])
           /\ P.failSites = FailSites(MarkedMembers(g), ps, c)
<1> DEFINE items == [i \in StateNumbers(c) |-> c.states[i + 1].cores]
           pairs == {<<m.from, m.symbol>> : m \in c.moves}
           goto == [pair \in pairs |-> GotoOf(c, pair[1], pair[2])]
           sites == FailSites(MarkedMembers(g), ps, c)
           skips == SkipsWhitespace(g)
<1>1. P = [productions |-> ps, items |-> items, goto |-> goto, entries |-> entries,
           decisions |-> v.decisions, open |-> v.open, k |-> v.k, skipsSpace |-> skips, failSites |-> sites]
  BY Zenon DEF Emit, StateNumbers
<1>2. DOMAIN items = StateNumbers(c) /\ \A s \in StateNumbers(c) : items[s] = c.states[s + 1].cores
  OBVIOUS
<1>3. DOMAIN goto = pairs /\ \A pair \in pairs : goto[pair] = GotoOf(c, pair[1], pair[2])
  OBVIOUS
<1> HIDE DEF items, goto, sites, skips, pairs
<1>4. /\ P.productions = ps /\ P.entries = entries /\ P.decisions = v.decisions /\ P.open = v.open /\ P.k = v.k
      /\ P.items = items /\ P.goto = goto /\ P.failSites = sites
  BY <1>1
<1> QED BY <1>2, <1>3, <1>4 DEF pairs, sites

\* Every transition has two ends in the automaton, and is the only one there.
LEMMA MovesAreGotos ==
    ASSUME NEW g, NEW A, NEW c, Finished(g, A, c), NEW m \in c.moves
    PROVE  /\ m.from \in StateNumbers(c) /\ m.to \in StateNumbers(c)
           /\ GotoOf(c, m.from, m.symbol) = m.to
<1>1. m.from \in StateNumbers(c) /\ m.to \in StateNumbers(c)
  BY DEF Finished, BuildReady, MovesWithin, StateNumbers
<1>2. m.from \in Int /\ m.from + 1 - 1 = m.from
  BY <1>1 DEF StateNumbers
<1>3. HasMove(c, m.from + 1, m.symbol)
  BY <1>2 DEF HasMove
<1>4. OneTarget(c)
  BY DEF Finished
<1>5. PICK n \in c.moves : n.from = m.from /\ n.symbol = m.symbol /\ GotoOf(c, m.from, m.symbol) = n.to
  <2> DEFINE from == m.from
             symbol == m.symbol
  <2>1. from \in Int /\ HasMove(c, from + 1, symbol)
    BY <1>2, <1>3
  <2> HIDE DEF from, symbol
  <2>2. \E n \in c.moves : n.from = from /\ n.symbol = symbol /\ GotoOf(c, from, symbol) = n.to
    BY <2>1, GotoIs
  <2> QED BY <2>2 DEF from, symbol
<1>6. n.to = m.to
  BY <1>4, <1>5 DEF OneTarget
<1> QED BY <1>1, <1>5, <1>6

Leaves(c, state, symbol) == \E m \in c.moves : m.from = state /\ m.symbol = symbol

\* The transition there is for a symbol some item of a state expects.
LEMMA GotoThere ==
    ASSUME NEW g, NEW A, NEW c, Finished(g, A, c), NEW entries, NEW v,
           NEW P, P = Emit(g, A.productions, c, entries, v),
           NEW state, NEW symbol, Leaves(c, state, symbol)
    PROVE  <<state, symbol>> \in DOMAIN P.goto /\ P.goto[<<state, symbol>>] = GotoOf(c, state, symbol)
<1>1. <<state, symbol>> \in {<<n.from, n.symbol>> : n \in c.moves}
  BY DEF Leaves
<1>2. /\ DOMAIN P.goto = {<<n.from, n.symbol>> : n \in c.moves}
      /\ \A pair \in DOMAIN P.goto : P.goto[pair] = GotoOf(c, pair[1], pair[2])
  BY EmittedIs
<1> QED BY <1>1, <1>2

LEMMA MoveLeaves ==
    ASSUME NEW c, NEW state \in StateNumbers(c), NEW symbol, HasMove(c, state + 1, symbol)
    PROVE  Leaves(c, state, symbol)
<1>1. state \in Int
  BY DEF StateNumbers
<1> QED BY <1>1 DEF HasMove, Leaves

LEMMA LeastCore ==
    ASSUME NEW S, S # {}, \A c \in S : c[1] \in Nat /\ c[2] \in Nat
    PROVE  \E c \in S : \A d \in S : c[1] < d[1] \/ (c[1] = d[1] /\ c[2] <= d[2])
<1> DEFINE ids == {c[1] : c \in S}
<1>1. ids \subseteq Nat /\ ids # {}
  OBVIOUS
<1>2. PICK id \in ids : \A j \in ids : id <= j
  <2> HIDE DEF ids
  <2> QED BY <1>1, HasLeast
<1> DEFINE dots == {c[2] : c \in {d \in S : d[1] = id}}
<1>3. dots \subseteq Nat /\ dots # {}
  BY <1>2
<1>4. PICK dot \in dots : \A j \in dots : dot <= j
  <2> HIDE DEF dots
  <2> QED BY <1>3, HasLeast
<1>5. PICK c \in S : c[1] = id /\ c[2] = dot
  BY <1>4
<1>6. ASSUME NEW d \in S PROVE c[1] < d[1] \/ (c[1] = d[1] /\ c[2] <= d[2])
  <2>1. d[1] \in ids /\ d[1] \in Nat /\ id \in Nat
    BY <1>1, <1>2
  <2>2. id <= d[1]
    BY <1>2, <2>1
  <2>3. CASE id = d[1]
    <3>1. d[2] \in dots
      BY <2>3
    <3>2. dot <= d[2]
      BY <1>4, <3>1
    <3> QED BY <1>5, <2>3, <3>2
  <2>4. CASE id # d[1]
    <3>1. id < d[1]
      BY <2>1, <2>2, <2>4
    <3> QED BY <1>5, <3>1
  <2> QED BY <2>3, <2>4
<1> QED BY <1>5, <1>6

\* What a fail site expects is a symbol of the production the item is of.
LEMMA FailSitesAreNamed ==
    ASSUME NEW g, NEW A, NEW c, Finished(g, A, c),
           NEW sites, sites = FailSites(MarkedMembers(g), A.productions, c), NEW i \in DOMAIN sites
    PROVE  sites[i].symbol \in STRING
<1> DEFINE ps == A.productions
           marks == MarkedMembers(g)
           marked(n) == {core \in c.states[n + 1].cores : core[2] + 1 \in marks[core[1] + 1]}
           first(cores) == CHOOSE core \in cores : \A d \in cores :
                              core[1] < d[1] \/ (core[1] = d[1] /\ core[2] <= d[2])
           expected(core) == ps[core[1]].rhs[core[2] + 1]
           sited == {n \in StateNumbers(c) : marked(n) # {}}
           site(core) == [symbol |-> expected(core), dot |-> core[2],
                          isToken |-> expected(core) \notin LeftSides(ps)]
<1>1. sites = [n \in sited |-> site(first(marked(n)))]
  BY Zenon DEF FailSites, StateNumbers
<1>2. i \in sited /\ sites[i] = site(first(marked(i)))
  <2> HIDE DEF sited, marked, first, site
  <2> QED BY <1>1
<1>3. i \in StateNumbers(c) /\ marked(i) # {}
  BY <1>2
<1>4. GoodAnalysis(A) /\ AllGood(A, c.states) /\ IsSequence(c.states) /\ IsGrammar(g)
      /\ A.productions = PrepareProductions(g)
  BY DEF Finished, BuildReady
<1>5. i + 1 \in DOMAIN c.states
  BY <1>3, <1>4, StatesAreNumbered
<1>6. GoodItems(A, c.states[i + 1])
  BY <1>4, <1>5 DEF AllGood
<1>7. ASSUME NEW core \in marked(i)
      PROVE  core[1] \in Nat /\ core[2] \in Nat /\ expected(core) \in STRING
  <2>1. core \in c.states[i + 1].cores /\ core[2] + 1 \in marks[core[1] + 1]
    OBVIOUS
  <2>2. core[1] \in DOMAIN ps /\ core[1] \in Nat /\ core[2] \in Nat /\ ps[core[1]].rhs \in Seq(STRING)
    BY <1>4, <1>6, <2>1, ItemsOfCores
  <2>3. marks[core[1] + 1] \subseteq DOMAIN ps[core[1]].rhs
    BY <1>4, <2>2, PreparedWithMarks
  <2>4. core[2] + 1 \in DOMAIN ps[core[1]].rhs
    BY <2>1, <2>3
  <2> HIDE DEF marked, marks
  <2> QED BY <2>2, <2>4
<1> DEFINE core == first(marked(i))
<1>8. core \in marked(i)
  <2> HIDE DEF marked, expected
  <2>1. \A d \in marked(i) : d[1] \in Nat /\ d[2] \in Nat
    BY <1>7
  <2>2. \E e \in marked(i) : \A d \in marked(i) : e[1] < d[1] \/ (e[1] = d[1] /\ e[2] <= d[2])
    <3> DEFINE S == marked(i)
    <3>1. S # {} /\ \A d \in S : d[1] \in Nat /\ d[2] \in Nat
      BY <1>3, <2>1
    <3> HIDE DEF S
    <3>2. \E e \in S : \A d \in S : e[1] < d[1] \/ (e[1] = d[1] /\ e[2] <= d[2])
      BY <3>1, LeastCore
    <3> QED BY <3>2 DEF S
  <2> QED BY <2>2, Zenon
<1>9. expected(core) \in STRING
  <2> HIDE DEF core, marked, expected
  <2> QED BY <1>7, <1>8
<1>10. sites[i].symbol = expected(core)
  <2>1. sites[i] = site(core)
    BY <1>2
  <2> HIDE DEF core, expected
  <2> QED BY <2>1
<1> QED BY <1>9, <1>10

LEMMA EmittedWellFormed ==
    ASSUME NEW g, NEW A, NEW c, Finished(g, A, c), NEW entries, NEW v, v.k \in Nat \ {0},
           NEW P, P = Emit(g, A.productions, c, entries, v)
    PROVE  Gen!WellFormed(P)
<1>1. /\ P.productions = A.productions /\ P.k = v.k
      /\ DOMAIN P.items = StateNumbers(c) /\ \A s \in StateNumbers(c) : P.items[s] = c.states[s + 1].cores
      /\ P.failSites = FailSites(MarkedMembers(g), A.productions, c)
  BY EmittedIs
<1>2. GoodAnalysis(A) /\ AllGood(A, c.states) /\ IsSequence(c.states) /\ 1 \in DOMAIN c.states
      /\ StartsWell(A.productions)
  BY DEF Finished, BuildReady, Machine, Reserved
<1>3. /\ 0 \in DOMAIN A.productions /\ DOMAIN A.productions \subseteq Nat
      /\ \A id \in DOMAIN A.productions : A.productions[id].lhs \in STRING /\ A.productions[id].rhs \in Seq(STRING)
  <2>1. GoodProductions(A.productions) /\ 0 \in DOMAIN A.productions
    BY <1>2 DEF StartsWell
  <2>2. PICK n \in Nat : DOMAIN A.productions = 0..n
    BY <2>1 DEF GoodProductions
  <2> QED BY <2>1, <2>2 DEF GoodProductions
<1>4. 0 \in StateNumbers(c)
  BY <1>2, StatesAreNumbered
<1>5. ASSUME NEW s \in StateNumbers(c), NEW item \in P.items[s]
      PROVE  item \in (DOMAIN A.productions) \X Nat /\ item[2] <= Len(A.productions[item[1]].rhs)
  <2>1. s + 1 \in DOMAIN c.states /\ item \in c.states[s + 1].cores
    BY <1>1, <1>2, StatesAreNumbered
  <2>2. GoodItems(A, c.states[s + 1])
    BY <1>2, <2>1 DEF AllGood
  <2>3. item \in CoresOf(A.productions)
    BY <2>1, <2>2 DEF GoodItems, KernelIn, ItemsIn
  <2> QED BY <2>3 DEF CoresOf
<1>6. ASSUME NEW site \in DOMAIN P.failSites PROVE P.failSites[site].symbol \in STRING
  BY <1>1, FailSitesAreNamed
<1> QED BY <1>1, <1>3, <1>4, <1>5, <1>6 DEF Gen!WellFormed

LEMMA EmittedTransitions ==
    ASSUME NEW g, NEW A, NEW c, Finished(g, A, c), NEW entries, NEW v,
           NEW P, P = Emit(g, A.productions, c, entries, v)
    PROVE  Gen!Transitions(P)
<1>1. /\ P.productions = A.productions
      /\ DOMAIN P.items = StateNumbers(c) /\ \A s \in StateNumbers(c) : P.items[s] = c.states[s + 1].cores
      /\ DOMAIN P.goto = {<<m.from, m.symbol>> : m \in c.moves}
      /\ \A pair \in DOMAIN P.goto : P.goto[pair] = GotoOf(c, pair[1], pair[2])
  BY EmittedIs
<1>2. IsSequence(c.states) /\ Machine(A, c) /\ GoodAnalysis(A) /\ AllGood(A, c.states)
  BY DEF Finished, BuildReady
<1>3. 0 \in StateNumbers(c) /\ P.items[0] = c.states[1].cores
  <2>1. 1 \in DOMAIN c.states
    BY <1>2 DEF Machine
  <2>2. 0 \in StateNumbers(c)
    BY <1>2, <2>1, StatesAreNumbered
  <2> QED BY <1>1, <2>2
<1>4. \A item \in P.items[0] : item[2] = 0
  BY <1>2, <1>3 DEF Machine
<1>5. ASSUME NEW s \in StateNumbers(c), <<0, 0>> \in P.items[s] PROVE s = 0
  <2>1. s \in Int /\ s + 1 \in DOMAIN c.states
    BY <1>2, StatesAreNumbered
  <2>2. s + 1 = 1
    BY <1>1, <1>2, <1>5, <2>1 DEF Machine
  <2> QED BY <2>1, <2>2
<1>6. ASSUME NEW edge \in DOMAIN P.goto
      PROVE  /\ edge \in (DOMAIN P.items) \X STRING
             /\ P.goto[edge] \in DOMAIN P.items \ {0}
             /\ \A item \in P.items[P.goto[edge]] :
                   item[2] > 0 =>
                       /\ P.productions[item[1]].rhs[item[2]] = edge[2]
                       /\ <<item[1], item[2] - 1>> \in P.items[edge[1]]
  <2>1. PICK m \in c.moves : edge = <<m.from, m.symbol>>
    BY <1>1
  <2>2. m.from \in StateNumbers(c) /\ m.to \in StateNumbers(c) /\ GotoOf(c, m.from, m.symbol) = m.to
    BY MovesAreGotos
  <2> DEFINE from == c.states[m.from + 1].cores
             to == c.states[m.to + 1].cores
  <2>3. LeadsBy(A, from, m.symbol, to)
    BY <1>2 DEF Machine
  <2>4. P.goto[edge] = m.to /\ edge[1] = m.from /\ edge[2] = m.symbol
    BY <1>1, <2>1, <2>2
  <2>5. P.items[m.from] = from /\ P.items[m.to] = to
    BY <1>1, <2>2
  <2>6. m.symbol \in STRING /\ \E core \in to : core[2] > 0
    <3> HIDE DEF from, to
    <3> QED BY <2>3 DEF LeadsBy
  <2>7. m.to # 0
    <3>1. PICK core \in to : core[2] > 0
      BY <2>6
    <3>2. m.to + 1 \in DOMAIN c.states /\ m.to \in Int
      BY <1>2, <2>2, StatesAreNumbered
    <3>3. GoodItems(A, c.states[m.to + 1])
      BY <1>2, <3>2 DEF AllGood
    <3>4. core[2] \in Nat
      BY <1>2, <3>1, <3>3, ItemsOfCores
    <3>5. core[2] # 0
      BY <3>1, <3>4
    <3>6. m.to = 0 => to = P.items[0]
      BY <2>5
    <3> QED BY <1>4, <3>1, <3>5, <3>6
  <2>8. ASSUME NEW item \in to, item[2] > 0
        PROVE  /\ A.productions[item[1]].rhs[item[2]] = m.symbol
               /\ <<item[1], item[2] - 1>> \in from
    <3> DEFINE before == <<item[1], item[2] - 1>>
    <3>1. before \in from /\ NextSymbol(A, before) = m.symbol
      <4> HIDE DEF from, to
      <4> QED BY <2>3, <2>8 DEF LeadsBy
    <3>2. m.to + 1 \in DOMAIN c.states
      BY <1>2, <2>2, StatesAreNumbered
    <3>3. GoodItems(A, c.states[m.to + 1])
      BY <1>2, <3>2 DEF AllGood
    <3>4. item[2] \in Nat
      BY <1>2, <3>3, ItemsOfCores
    <3>5. before[2] + 1 = item[2] /\ before[1] = item[1]
      BY <3>4
    <3>6. A.productions[item[1]].rhs[item[2]] = NextSymbol(A, before)
      BY <3>5 DEF NextSymbol
    <3> QED BY <3>1, <3>6
  <2> HIDE DEF from, to
  <2>9. edge \in (DOMAIN P.items) \X STRING
    BY <1>1, <2>1, <2>2, <2>6
  <2>10. P.goto[edge] \in DOMAIN P.items \ {0}
    BY <1>1, <2>2, <2>4, <2>7
  <2>11. ASSUME NEW item \in P.items[P.goto[edge]], item[2] > 0
         PROVE  /\ P.productions[item[1]].rhs[item[2]] = edge[2]
                /\ <<item[1], item[2] - 1>> \in P.items[edge[1]]
    BY <1>1, <2>4, <2>5, <2>8, <2>11
  <2> QED BY <2>9, <2>10, <2>11
<1> QED BY <1>1, <1>4, <1>5, <1>6 DEF Gen!Transitions

\* A state that can begin a rule has an item that expects it, so the symbol is
\* followed.
LEMMA EmittedGotos ==
    ASSUME NEW g, NEW A, NEW c, Finished(g, A, c), NEW entries, NEW v,
           NEW P, P = Emit(g, A.productions, c, entries, v)
    PROVE  Gen!GotosExist(P)
<1>1. /\ P.productions = A.productions
      /\ DOMAIN P.items = StateNumbers(c) /\ \A s \in StateNumbers(c) : P.items[s] = c.states[s + 1].cores
  BY EmittedIs
<1>2. /\ IsSequence(c.states) /\ Machine(A, c) /\ GoodAnalysis(A) /\ AllGood(A, c.states)
      /\ IsGrammar(g) /\ ~Malformed(g) /\ A.productions = PrepareProductions(g) /\ Reserved(A.productions)
      /\ AllMoves(g, A, c)
  BY DEF Finished, BuildReady
<1>3. ASSUME NEW s \in StateNumbers(c), NEW item \in P.items[s], item[1] # 0, item[2] = 0
      PROVE  <<s, A.productions[item[1]].lhs>> \in DOMAIN P.goto
  <2> DEFINE items == c.states[s + 1]
             lhs == A.productions[item[1]].lhs
  <2>1. s + 1 \in DOMAIN c.states /\ item \in items.cores
    BY <1>1, <1>2, StatesAreNumbered
  <2>2. GoodItems(A, items) /\ Grounded(A, items)
    BY <1>2, <2>1 DEF AllGood, Machine
  <2> HIDE DEF items
  <2>3. PICK parent \in items.cores : ~AtEnd(A, parent) /\ item \in Children(A, parent)
    BY <1>3, <2>1, <2>2 DEF Grounded
  <2>4. lhs = NextSymbol(A, parent)
    BY <2>3 DEF Children, ProductionsOf
  <2>5. lhs \in NextSymbols(A, items)
    BY <2>3, <2>4 DEF NextSymbols
  <2>6. parent[1] \in DOMAIN A.productions /\ NextSymbol(A, parent) \in Range(A.productions[parent[1]].rhs)
    BY <1>2, <2>2, <2>3, ItemsOfCores
  <2>7. lhs # Augmented
    BY <1>2, <2>4, <2>6 DEF Reserved
  <2>8. items.cores \subseteq CoresOf(A.productions)
    BY <2>2 DEF GoodItems, KernelIn, ItemsIn
  <2> HIDE DEF lhs
  <2>9. lhs \in Range(Vocabulary(g))
    BY <1>2, <2>5, <2>7, <2>8, NamesOfProductions
  <2>10. HasMove(c, s + 1, lhs)
    BY <1>2, <2>1, <2>5, <2>9 DEF AllMoves, items
  <2>11. <<s, lhs>> \in DOMAIN P.goto
    BY <2>10, MoveLeaves, GotoThere
  <2> QED BY <2>11 DEF lhs
<1> QED BY <1>1, <1>3 DEF Gen!GotosExist

\* The token of a shift stands before all that can follow it.
LEMMA AfterIsOne ==
    ASSUME NEW A, GoodAnalysis(A), NEW items, GoodItems(A, items), NEW core \in items.cores, ~AtEnd(A, core),
           NEW w \in Lookaheads(items, core), NEW v \in After(A, core, w)
    PROVE  v = <<NextSymbol(A, core)>>
<1> DEFINE s == NextSymbol(A, core)
           follows == FirstOfSuffix(A, core[1], core[2] + 1, w)
<1>1. /\ core[1] \in DOMAIN A.productions /\ core[2] + 1 \in 1..Len(A.productions[core[1]].rhs)
      /\ s \in STRING
  <2>1. /\ core[1] \in DOMAIN A.productions /\ core[2] \in Nat /\ A.productions[core[1]].rhs \in Seq(STRING)
        /\ core[2] + 1 \in DOMAIN A.productions[core[1]].rhs /\ s \in STRING
    BY ItemsOfCores
  <2> QED BY <2>1
<1>2. w \in Seq(STRING)
  <2>1. PICK x \in items.windows : x[1] = core /\ w = x[2]
    BY DEF Lookaheads
  <2>2. /\ items.windows \subseteq CoresOf(A.productions) \X Short(SymbolsOf(A.productions))
        /\ SymbolsOf(A.productions) \subseteq STRING
    BY DEF GoodItems, KernelIn, ItemsIn
  <2>3. w \in Short(SymbolsOf(A.productions))
    BY <2>1, <2>2
  <2>4. w \in Seq(SymbolsOf(A.productions))
    BY <2>3, ShortAreSequences
  <2> QED BY <2>2, <2>4
<1>3. follows \subseteq Seq(STRING)
  <2> DEFINE id == core[1]
             begin == core[2] + 1
  <2>1. id \in DOMAIN A.productions /\ begin \in 1..Len(A.productions[id].rhs)
    BY <1>1
  <2> HIDE DEF id, begin
  <2>2. FirstOfSuffix(A, id, begin, w) \subseteq Seq(STRING)
    BY <1>2, <2>1, SuffixWindows
  <2> QED BY <2>2 DEF id, begin
<1>4. A.k = 1 /\ After(A, core, w) = Concatenate({<<s>>}, follows, A.k)
  BY DEF GoodAnalysis, After
<1> HIDE DEF follows, s
<1>5. PICK ab \in {<<s>>} \X follows : v = Truncate(ab[1] \o ab[2], 1)
  BY <1>4 DEF Concatenate
<1> DEFINE b == ab[2]
<1>6. ab[1] = <<s>> /\ b \in Seq(STRING)
  BY <1>3
<1>7. <<s>> \in Short({s}) /\ <<s>> # <<>>
  BY OneIsSome DEF Short
<1> DEFINE a == <<s>>
<1> HIDE DEF b
<1>8. Truncate(a \o b, 1) = a
  <2>1. a \in Short({s}) /\ a # <<>>
    BY <1>7
  <2> HIDE DEF a
  <2> QED BY <1>6, <2>1, TruncatedJoin
<1>9. v = Truncate(a \o b, 1)
  BY <1>5, <1>6 DEF b
<1> QED BY <1>8, <1>9 DEF s

LEMMA CellsAlike ==
    ASSUME NEW P, NEW cell, NEW other,
           cell.state = other.state, cell.window = other.window, cell.action = other.action
    PROVE  Gen!SoundCell(P, cell) <=> Gen!SoundCell(P, other)
BY Zenon DEF Gen!SoundCell

\* What an action asked for on a token needs, whatever comes after the token.
SoundOn(P, state, t, action) ==
    \A window \in Seq(STRING) :
        window # <<>> /\ window[1] = t =>
            Gen!SoundCell(P, [state |-> state, window |-> window, action |-> action])

LEMMA ShiftsAreSound ==
    ASSUME NEW g, NEW A, NEW c, Finished(g, A, c), NEW entries, NEW v,
           NEW P, P = Emit(g, A.productions, c, entries, v),
           NEW state \in StateNumbers(c), NEW p, AShift(A, c, state, p)
    PROVE  /\ p.item \in c.states[state + 1].cores
           /\ \E t \in STRING : p.window = <<t>> /\ SoundOn(P, state, t, p.action)
<1>0. \A y : Leaves(c, state, y) =>
                <<state, y>> \in DOMAIN P.goto /\ P.goto[<<state, y>>] = GotoOf(c, state, y)
  BY GotoThere
<1> DEFINE items == c.states[state + 1]
<1>1. /\ IsSequence(c.states) /\ GoodAnalysis(A) /\ AllGood(A, c.states)
      /\ IsGrammar(g) /\ ~Malformed(g) /\ A.productions = PrepareProductions(g) /\ AllMoves(g, A, c)
  BY DEF Finished, BuildReady
<1>2. state + 1 \in DOMAIN c.states /\ GoodItems(A, items)
  BY <1>1, StatesAreNumbered DEF AllGood
<1> DEFINE made(core, u) ==
             [window |-> u, item |-> core, action |-> Shift(GotoOf(c, state, NextSymbol(A, core)))]
<1>3a. PICK core \in items.cores :
          \E w \in Lookaheads(items, core) : \E u \in After(A, core, w) : OnToken(A, core) /\ p = made(core, u)
  <2> HIDE DEF items
  <2> QED BY Zenon DEF AShift, items
<1>3. PICK w \in Lookaheads(items, core) :
         \E u \in After(A, core, w) : OnToken(A, core) /\ p = made(core, u)
  BY <1>3a
<1>4. PICK u \in After(A, core, w) : OnToken(A, core) /\ p = made(core, u)
  BY <1>3
<1> DEFINE s == NextSymbol(A, core)
           n == GotoOf(c, state, s)
<1>5. OnToken(A, core) /\ p.window = u /\ p.item = core /\ p.action = Shift(n)
  BY <1>4
<1> HIDE DEF items
<1>6. u = <<s>>
  BY <1>1, <1>2, <1>5, AfterIsOne DEF OnToken
<1>7. s \in STRING /\ core[1] \in DOMAIN A.productions /\ s \in Range(A.productions[core[1]].rhs)
  BY <1>1, <1>2, <1>5, ItemsOfCores DEF OnToken
<1>8. s # EndOfInput
  BY <1>1, <1>7 DEF Malformed
<1>9. s \in NextSymbols(A, items) /\ s \notin LeftSides(A.productions)
  BY <1>5 DEF NextSymbols, OnToken
<1> HIDE DEF s
<1>10. items.cores \subseteq CoresOf(A.productions)
  BY <1>2 DEF GoodItems, KernelIn, ItemsIn
<1>11. HasMove(c, state + 1, s)
  BY <1>1, <1>2, <1>9, <1>10, TokensAreFollowed DEF items
<1>12. <<state, s>> \in DOMAIN P.goto /\ P.goto[<<state, s>>] = n
  BY <1>0, <1>11, MoveLeaves
<1>13. ASSUME NEW window \in Seq(STRING), window # <<>>, window[1] = s
       PROVE  Gen!SoundCell(P, [state |-> state, window |-> window, action |-> Shift(n)])
  <2> DEFINE cell == [state |-> state, window |-> window, action |-> Shift(n)]
  <2>1. cell.state = state /\ cell.window = window /\ cell.action.type = "shift" /\ cell.action.state = n
    BY DEF Shift
  <2> HIDE DEF cell, n
  <2>2. window[1] # Gen!EndOfInput
    BY <1>8, <1>13 DEF EndOfInput, Gen!EndOfInput
  <2>3. Gen!SoundCell(P, cell)
    BY <1>12, <1>13, <2>1, <2>2 DEF Gen!SoundCell
  <2> QED BY <2>3 DEF cell
<1>14. SoundOn(P, state, s, p.action)
  BY <1>5, <1>13 DEF SoundOn
<1> QED BY <1>5, <1>6, <1>7, <1>14 DEF items

LEMMA WindowsHaveATerm ==
    ASSUME NEW A, NEW items, GoodItems(A, items), Grounded(A, items), NEW x \in items.windows
    PROVE  x[1] \in items.cores /\ \E t \in STRING : x[2] = <<t>>
<1>1. /\ items.windows \subseteq CoresOf(A.productions) \X Short(SymbolsOf(A.productions))
      /\ SymbolsOf(A.productions) \subseteq STRING /\ Matched(items)
  BY DEF GoodItems, KernelIn, ItemsIn
<1>2. x[2] \in Short(SymbolsOf(A.productions)) /\ x[2] # <<>>
  BY <1>1 DEF Grounded
<1>3. PICK t \in SymbolsOf(A.productions) : x[2] = <<t>>
  BY <1>2, ShortAreSequences
<1> QED BY <1>1, <1>3 DEF Matched

LEMMA ReductionsAreSound ==
    ASSUME NEW g, NEW A, NEW c, Finished(g, A, c), NEW entries, NEW v,
           NEW P, P = Emit(g, A.productions, c, entries, v),
           NEW state \in StateNumbers(c), NEW p, AReduction(A, c, state, p)
    PROVE  /\ p.item \in c.states[state + 1].cores
           /\ \E t \in STRING : p.window = <<t>> /\ SoundOn(P, state, t, p.action)
<1> DEFINE items == c.states[state + 1]
<1>1. IsSequence(c.states) /\ GoodAnalysis(A) /\ AllGood(A, c.states) /\ Machine(A, c)
  BY DEF Finished, BuildReady
<1>2. state + 1 \in DOMAIN c.states /\ GoodItems(A, items) /\ Grounded(A, items)
  BY <1>1, StatesAreNumbered DEF AllGood, Machine
<1>3. P.productions = A.productions /\ P.items[state] = items.cores
  BY EmittedIs
<1>4. PICK x \in items.windows :
         /\ x[1] \in items.cores /\ AtEnd(A, x[1]) /\ x[1][1] # 0
         /\ p = [window |-> x[2], item |-> x[1], action |-> Reduce(x[1][1])]
  <2> HIDE DEF items
  <2> QED BY Zenon DEF AReduction, items
<1> HIDE DEF items
<1>5. p.window = x[2] /\ p.item = x[1] /\ p.action = Reduce(x[1][1])
  BY <1>4
<1>6. PICK t \in STRING : x[2] = <<t>>
  BY <1>2, WindowsHaveATerm
<1> DEFINE id == x[1][1]
           end == Len(A.productions[id].rhs)
<1>7. x[1] = <<id, end>> /\ id \in Nat /\ id \in DOMAIN A.productions /\ id # 0
  <2>1. x[1] \in items.cores /\ AtEnd(A, x[1])
    BY <1>4
  <2>2. x[1] = <<x[1][1], x[1][2]>> /\ x[1][2] = end /\ x[1][1] \in Nat /\ x[1][1] \in DOMAIN A.productions
    BY <1>1, <1>2, <2>1, ItemsOfCores
  <2> QED BY <1>4, <2>2
<1>8. <<id, end>> \in items.cores
  BY <1>4, <1>7
<1> HIDE DEF id
<1>9. ASSUME NEW window \in Seq(STRING), window # <<>>
      PROVE  Gen!SoundCell(P, [state |-> state, window |-> window, action |-> Reduce(id)])
  <2> DEFINE cell == [state |-> state, window |-> window, action |-> Reduce(id)]
  <2>1. cell.state = state /\ cell.window = window /\ cell.action.type = "reduce" /\ cell.action.state = id - 1
    BY DEF Reduce
  <2> HIDE DEF cell
  <2>2. cell.action.state \in Nat /\ cell.action.state + 1 = id
    BY <1>7, <2>1
  <2>3. Gen!SoundCell(P, cell)
    BY <1>3, <1>7, <1>8, <1>9, <2>1, <2>2 DEF Gen!SoundCell
  <2> QED BY <2>3 DEF cell
<1>10. SoundOn(P, state, t, p.action)
  BY <1>5, <1>9 DEF SoundOn, id
<1> QED BY <1>4, <1>5, <1>6, <1>10 DEF items

LEMMA AcceptsAreSound ==
    ASSUME NEW g, NEW A, NEW c, Finished(g, A, c), NEW entries, NEW v,
           NEW P, P = Emit(g, A.productions, c, entries, v),
           NEW state \in StateNumbers(c), NEW p, AnAccept(A, c, state, p)
    PROVE  /\ p.item \in c.states[state + 1].cores
           /\ \E t \in STRING : p.window = <<t>> /\ SoundOn(P, state, t, p.action)
<1> DEFINE items == c.states[state + 1]
<1>1. /\ IsSequence(c.states) /\ GoodAnalysis(A) /\ AllGood(A, c.states) /\ Machine(A, c)
      /\ StartsWell(A.productions)
  BY DEF Finished, BuildReady, Reserved
<1>2. state + 1 \in DOMAIN c.states /\ GoodItems(A, items) /\ Grounded(A, items)
  BY <1>1, StatesAreNumbered DEF AllGood, Machine
<1>3. P.productions = A.productions /\ P.items[state] = items.cores
  BY EmittedIs
<1>4. PICK x \in items.windows :
         /\ x[1] \in items.cores /\ AtEnd(A, x[1]) /\ x[1][1] = 0 /\ x[2] = EndWindow(A.k)
         /\ p = [window |-> x[2], item |-> x[1], action |-> AcceptAction]
  <2> HIDE DEF items
  <2> QED BY Zenon DEF AnAccept, items
<1> HIDE DEF items
<1>5. p.window = x[2] /\ p.item = x[1] /\ p.action = AcceptAction
  BY <1>4
<1>6. PICK t \in STRING : x[2] = <<t>>
  BY <1>2, WindowsHaveATerm
<1>7. t = EndOfInput
  <2>1. A.k = 1
    BY <1>1 DEF GoodAnalysis
  <2>2. EndWindow(1)[1] = EndOfInput
    BY DEF EndWindow
  <2>3. <<t>>[1] = t
    OBVIOUS
  <2>4. <<t>> = EndWindow(1)
    BY <1>4, <1>6, <2>1
  <2> QED BY <2>2, <2>3, <2>4
<1>8. <<0, 1>> \in items.cores
  <2>1. x[1] \in items.cores /\ AtEnd(A, x[1]) /\ x[1][1] = 0
    BY <1>4
  <2>2. x[1] = <<x[1][1], x[1][2]>> /\ x[1][2] = Len(A.productions[0].rhs)
    BY <1>1, <1>2, <2>1, ItemsOfCores
  <2>3. Len(<<Main>>) = 1 /\ A.productions[0].rhs = <<Main>>
    BY <1>1 DEF StartsWell
  <2>4. x[1] = <<0, 1>>
    BY <2>1, <2>2, <2>3
  <2> QED BY <2>1, <2>4
<1>9. ASSUME NEW window \in Seq(STRING), window # <<>>, window[1] = t
      PROVE  Gen!SoundCell(P, [state |-> state, window |-> window, action |-> AcceptAction])
  <2> DEFINE cell == [state |-> state, window |-> window, action |-> AcceptAction]
  <2>1. cell.state = state /\ cell.window = window /\ cell.action.type = "accept"
    BY DEF AcceptAction
  <2> HIDE DEF cell
  <2>2. window[1] = Gen!EndOfInput
    BY <1>7, <1>9 DEF EndOfInput, Gen!EndOfInput
  <2>3. Gen!SoundCell(P, cell)
    BY <1>3, <1>8, <1>9, <2>1, <2>2 DEF Gen!SoundCell
  <2> QED BY <2>3 DEF cell
<1>10. SoundOn(P, state, t, p.action)
  BY <1>5, <1>9 DEF SoundOn
<1> QED BY <1>4, <1>5, <1>6, <1>10 DEF items

LEMMA ProposalsAreSound ==
    ASSUME NEW g, NEW A, NEW c, Finished(g, A, c), NEW entries, NEW v,
           NEW P, P = Emit(g, A.productions, c, entries, v),
           NEW state \in StateNumbers(c), NEW p \in Proposals(A, c, state)
    PROVE  /\ p.item \in CoresOf(A.productions)
           /\ \E t \in STRING : p.window = <<t>> /\ SoundOn(P, state, t, p.action)
<1>1. AShift(A, c, state, p) \/ AReduction(A, c, state, p) \/ AnAccept(A, c, state, p)
  BY ProposalsAre
<1>2. /\ p.item \in c.states[state + 1].cores
      /\ \E t \in STRING : p.window = <<t>> /\ SoundOn(P, state, t, p.action)
  BY <1>1, ShiftsAreSound, ReductionsAreSound, AcceptsAreSound
<1>3. IsSequence(c.states) /\ AllGood(A, c.states)
  BY DEF Finished, BuildReady
<1>4. GoodItems(A, c.states[state + 1])
  BY <1>3, StatesAreNumbered DEF AllGood
<1>5. c.states[state + 1].cores \subseteq CoresOf(A.productions)
  BY <1>4 DEF GoodItems, KernelIn, ItemsIn
<1> QED BY <1>2, <1>5

LEMMA CellsOfRows ==
    ASSUME NEW A, NEW c, IsSequence(c.states), NEW x \in CellsOf(RowsOf(A, c))
    PROVE  /\ x.state \in StateNumbers(c) /\ x.actions # {}
           /\ \A action \in x.actions : \E p \in Proposals(A, c, x.state) : p.window = x.window /\ p.action = action
           /\ \A origin \in x.origins :
                 \E p \in Proposals(A, c, x.state) :
                    p.window = x.window /\ p.action = origin.action /\ p.item = origin.item
<1> DEFINE rows == RowsOf(A, c)
           cells(i) == {Cell(i - 1, window, rows[i]) : window \in {p.window : p \in rows[i]}}
<1>1. DOMAIN rows = DOMAIN c.states /\ \A i \in DOMAIN c.states : rows[i] = Proposals(A, c, i - 1)
  BY DEF RowsOf
<1>2. CellsOf(rows) = UNION {cells(i) : i \in DOMAIN rows}
  BY Zenon DEF CellsOf
<1> HIDE DEF rows
<1>3. PICK i \in DOMAIN rows : x \in cells(i)
  <2> HIDE DEF cells
  <2> QED BY <1>2 DEF rows
<1>4. PICK p \in rows[i] : x = Cell(i - 1, p.window, rows[i])
  BY <1>3
<1> DEFINE here == {q \in rows[i] : q.window = p.window}
<1>5. /\ x.state = i - 1 /\ x.window = p.window /\ x.actions = {q.action : q \in here}
      /\ x.origins = {[action |-> q.action, item |-> q.item] : q \in here}
  BY <1>4 DEF Cell
<1>6. i \in DOMAIN c.states /\ rows[i] = Proposals(A, c, i - 1)
  BY <1>1
<1>7. x.state \in StateNumbers(c)
  <2>1. i \in 1..Len(c.states) /\ Len(c.states) \in Nat
    BY <1>6 DEF IsSequence
  <2> QED BY <1>5, <2>1 DEF StateNumbers
<1>8. rows[i] = Proposals(A, c, x.state)
  BY <1>5, <1>6
<1>9. p \in here
  OBVIOUS
<1>10. \A q \in here : q \in Proposals(A, c, x.state) /\ q.window = x.window
  BY <1>5, <1>8
<1> HIDE DEF here
<1>11. x.actions # {}
  BY <1>5, <1>9
<1>12. ASSUME NEW action \in x.actions
       PROVE  \E q \in Proposals(A, c, x.state) : q.window = x.window /\ q.action = action
  BY <1>5, <1>10
<1>13. ASSUME NEW origin \in x.origins
       PROVE  \E q \in Proposals(A, c, x.state) :
                  q.window = x.window /\ q.action = origin.action /\ q.item = origin.item
  <2>1. PICK q \in here : origin = [action |-> q.action, item |-> q.item]
    BY <1>5
  <2>2. q.action = origin.action /\ q.item = origin.item
    BY <2>1
  <2> QED BY <1>10, <2>1, <2>2
<1> QED BY <1>7, <1>11, <1>12, <1>13

LEMMA CellsAreSound ==
    ASSUME NEW g, NEW A, NEW c, Finished(g, A, c), NEW entries, NEW v,
           NEW P, P = Emit(g, A.productions, c, entries, v),
           NEW x \in CellsOf(RowsOf(A, c))
    PROVE  \E t \in STRING :
              /\ x.window = <<t>> /\ x.actions # {}
              /\ \A action \in x.actions : SoundOn(P, x.state, t, action)
              /\ \A origin \in x.origins :
                    origin.item \in CoresOf(A.productions) /\ SoundOn(P, x.state, t, origin.action)
<1>1. IsSequence(c.states)
  BY DEF Finished, BuildReady
<1> DEFINE state == x.state
<1>2. state \in StateNumbers(c) /\ x.actions # {}
  BY <1>1, CellsOfRows
<1>3. \A action \in x.actions : \E p \in Proposals(A, c, state) : p.window = x.window /\ p.action = action
  BY <1>1, CellsOfRows
<1>4. \A origin \in x.origins :
          \E p \in Proposals(A, c, state) : p.window = x.window /\ p.action = origin.action /\ p.item = origin.item
  BY <1>1, CellsOfRows
<1> HIDE DEF state
<1>5. \A p \in Proposals(A, c, state) :
          /\ p.item \in CoresOf(A.productions)
          /\ \E t \in STRING : p.window = <<t>> /\ SoundOn(P, state, t, p.action)
  BY <1>2, ProposalsAreSound
<1>6. PICK t \in STRING : x.window = <<t>>
  <2>1. PICK action \in x.actions : TRUE
    BY <1>2
  <2>2. PICK p \in Proposals(A, c, state) : p.window = x.window
    BY <1>3, <2>1
  <2> QED BY <1>5, <2>2
<1>7. ASSUME NEW p \in Proposals(A, c, state), p.window = x.window
      PROVE  SoundOn(P, state, t, p.action)
  <2>1. PICK u \in STRING : p.window = <<u>> /\ SoundOn(P, state, u, p.action)
    BY <1>5
  <2>2. u = t
    <3>1. <<u>> = <<t>>
      BY <1>6, <1>7, <2>1
    <3>2. <<u>>[1] = u /\ <<t>>[1] = t
      OBVIOUS
    <3> QED BY <3>1, <3>2
  <2> QED BY <2>1, <2>2
<1>8. \A action \in x.actions : SoundOn(P, state, t, action)
  BY <1>3, <1>7
<1>9. \A origin \in x.origins : origin.item \in CoresOf(A.productions) /\ SoundOn(P, state, t, origin.action)
  BY <1>4, <1>5, <1>7
<1> QED BY <1>2, <1>6, <1>8, <1>9 DEF state

\* A window of one token is a window that begins with it.
LEMMA SoundOnOne ==
    ASSUME NEW P, NEW state, NEW t \in STRING, NEW action, SoundOn(P, state, t, action)
    PROVE  Gen!SoundCell(P, [state |-> state, window |-> <<t>>, action |-> action])
<1> DEFINE w == <<t>>
<1>1. w \in Seq(STRING) /\ w # <<>> /\ w[1] = t
  <2>1. w \in Seq(STRING)
    BY OneElement
  <2>2. w # <<>>
    BY OneIsSome
  <2> QED BY <2>1, <2>2
<1> HIDE DEF w
<1>2. Gen!SoundCell(P, [state |-> state, window |-> w, action |-> action])
  BY <1>1, Zenon DEF SoundOn
<1> QED BY <1>2 DEF w

LEMMA EntriesAreSound ==
    ASSUME NEW g, NEW A, NEW c, Finished(g, A, c), NEW entries, NEW v,
           NEW P, P = Emit(g, A.productions, c, entries, v),
           NEW e \in EntriesOf(RowsOf(A, c))
    PROVE  Gen!SoundCell(P, e)
<1> DEFINE made(x) == [state |-> x.state, window |-> x.window, action |-> CHOOSE a \in x.actions : TRUE]
           cells == {cell \in CellsOf(RowsOf(A, c)) : Cardinality(cell.actions) = 1}
<1>1. EntriesOf(RowsOf(A, c)) = {made(x) : x \in cells}
  BY Zenon DEF EntriesOf
<1>2. PICK x \in cells : e = made(x)
  <2> HIDE DEF made, cells
  <2> QED BY <1>1
<1>3. x \in CellsOf(RowsOf(A, c))
  OBVIOUS
<1>4. PICK t \in STRING :
          x.window = <<t>> /\ x.actions # {} /\ \A action \in x.actions : SoundOn(P, x.state, t, action)
  BY <1>3, CellsAreSound
<1> DEFINE action == CHOOSE a \in x.actions : TRUE
<1>5. action \in x.actions
  BY <1>4, Zenon
<1>6. e.state = x.state /\ e.window = <<t>> /\ e.action = action
  BY <1>2, <1>4
<1> HIDE DEF action
<1>7. SoundOn(P, e.state, t, e.action)
  BY <1>4, <1>5, <1>6
<1> DEFINE cell == [state |-> e.state, window |-> <<t>>, action |-> e.action]
<1>8. Gen!SoundCell(P, cell)
  BY <1>7, SoundOnOne
<1>9. cell.state = e.state /\ cell.window = e.window /\ cell.action = e.action
  BY <1>6
<1> HIDE DEF cell
<1> QED BY <1>8, <1>9, CellsAlike

LEMMA DecisionsAreSound ==
    ASSUME NEW g, NEW A, NEW c, Finished(g, A, c), NEW entries, NEW v,
           NEW P, P = Emit(g, A.productions, c, entries, v), NEW n \in Nat,
           DecidedBy(A.productions, ConflictsOf(RowsOf(A, c)), n, v), NEW x \in v.decisions
    PROVE  Gen!SoundCell(P, x)
<1> DEFINE ps == A.productions
           C == ConflictsOf(RowsOf(A, c))
<1>1. PICK cell \in C : \E d \in 1..n : x \in DecisionsOf(ps, d, cell)
  BY Zenon DEF DecidedBy
<1>2. PICK d \in 1..n : x \in DecisionsOf(ps, d, cell)
  BY <1>1
<1>3. cell \in CellsOf(RowsOf(A, c))
  BY DEF ConflictsOf
<1>4. PICK t \in STRING :
          /\ cell.window = <<t>>
          /\ \A origin \in cell.origins : origin.item \in CoresOf(ps) /\ SoundOn(P, cell.state, t, origin.action)
  BY <1>3, CellsAreSound
<1>5. StartsWell(ps) /\ d \in Nat /\ d >= 1
  BY DEF Finished, Reserved
<1>6. /\ x.window \in Seq(STRING) /\ x.window # <<>> /\ x.window[1] = t /\ x.state = cell.state
      /\ \E origin \in cell.origins : x.action = origin.action
  <2> HIDE DEF C, ps
  <2> QED BY <1>2, <1>4, <1>5, DecisionFits
<1>7. SoundOn(P, x.state, t, x.action)
  BY <1>4, <1>6
<1> DEFINE other == [state |-> x.state, window |-> x.window, action |-> x.action]
<1>8. Gen!SoundCell(P, other)
  BY <1>6, <1>7 DEF SoundOn
<1>9. other.state = x.state /\ other.window = x.window /\ other.action = x.action
  OBVIOUS
<1> HIDE DEF other
<1> QED BY <1>8, <1>9, CellsAlike

LEMMA OpenCellsAreSound ==
    ASSUME NEW g, NEW A, NEW c, Finished(g, A, c), NEW entries, NEW v,
           NEW P, P = Emit(g, A.productions, c, entries, v), v.open \subseteq ConflictsOf(RowsOf(A, c))
    PROVE  Gen!OpenCellsSound(P)
<1>1. P.open = v.open
  BY EmittedIs
<1>2. ASSUME NEW cell \in v.open, NEW action \in cell.actions
      PROVE  Gen!SoundCell(P, [state |-> cell.state, window |-> cell.window, action |-> action])
  <2>1. cell \in CellsOf(RowsOf(A, c))
    BY DEF ConflictsOf
  <2>2. PICK t \in STRING : cell.window = <<t>> /\ SoundOn(P, cell.state, t, action)
    BY <1>2, <2>1, CellsAreSound
  <2> DEFINE state == cell.state
  <2>3. SoundOn(P, state, t, action)
    BY <2>2
  <2> HIDE DEF state
  <2>4. Gen!SoundCell(P, [state |-> state, window |-> <<t>>, action |-> action])
    BY <2>3, SoundOnOne
  <2> QED BY <2>2, <2>4 DEF state
<1> QED BY <1>1, <1>2, Zenon DEF Gen!OpenCellsSound

LEMMA EmittedIsCoherent ==
    ASSUME NEW g, NEW A, NEW c, Finished(g, A, c), NEW v, v.k \in Nat \ {0}, NEW n \in Nat,
           DecidedBy(A.productions, ConflictsOf(RowsOf(A, c)), n, v), v.open \subseteq ConflictsOf(RowsOf(A, c)),
           NEW P, P = Emit(g, A.productions, c, EntriesOf(RowsOf(A, c)), v)
    PROVE  Gen!Coherent(P) /\ Gen!OpenCellsSound(P)
<1> DEFINE entries == EntriesOf(RowsOf(A, c))
<1>1. P = Emit(g, A.productions, c, entries, v)
  OBVIOUS
<1>2. \A e \in entries : Gen!SoundCell(P, e)
  BY EntriesAreSound
<1> HIDE DEF entries
<1>3. P.entries = entries /\ P.decisions = v.decisions
  BY <1>1, EmittedIs
<1>4. Gen!WellFormed(P)
  BY <1>1, EmittedWellFormed
<1>5. Gen!Transitions(P)
  BY <1>1, EmittedTransitions
<1>6. Gen!GotosExist(P)
  BY <1>1, EmittedGotos
<1>7. \A x \in v.decisions : Gen!SoundCell(P, x)
  BY <1>1, DecisionsAreSound
<1>8. \A cell \in P.entries \cup P.decisions : Gen!SoundCell(P, cell)
  BY <1>2, <1>3, <1>7
<1>9. Gen!OpenCellsSound(P)
  BY <1>1, OpenCellsAreSound
<1> QED BY <1>4, <1>5, <1>6, <1>8, <1>9 DEF Gen!Coherent

\* Nothing is in the tables without a reason.  A set as in Rooted, with the rest
\* of its state, has what its items expect, so the closure is within it.
LEMMA EmittedIsRooted ==
    ASSUME NEW g, NEW A, NEW c, Finished(g, A, c), NEW entries, NEW v,
           NEW P, P = Emit(g, A.productions, c, entries, v)
    PROVE  Begins!Rooted(P)
<1>1. /\ P.productions = A.productions
      /\ DOMAIN P.items = StateNumbers(c) /\ \A s \in StateNumbers(c) : P.items[s] = c.states[s + 1].cores
  BY EmittedIs
<1>2. GoodAnalysis(A) /\ AllGood(A, c.states) /\ IsSequence(c.states) /\ Machine(A, c)
      /\ Reserved(A.productions)
  BY DEF Finished, BuildReady
<1>3. SUFFICES ASSUME NEW s \in DOMAIN P.items
               PROVE  LET opening == {item \in P.items[s] : item[2] = 0 /\ item # <<0, 0>>}
                          expects(items) == UNION {Begins!Expected(P, item) : item \in items}
                      IN  /\ P.items[s] # {}
                          /\ \A kept \in SUBSET opening :
                                (\A item \in opening :
                                    P.productions[item[1]].lhs \in expects((P.items[s] \ opening) \cup kept)
                                       => item \in kept)
                                => kept = opening
  BY Zenon DEF Begins!Rooted
<1> DEFINE opening == {item \in P.items[s] : item[2] = 0 /\ item # <<0, 0>>}
<1> DEFINE items == c.states[s + 1]
<1>4. GoodItems(A, items) /\ Grounded(A, items) /\ P.items[s] = items.cores
  BY <1>1, <1>2, <1>3, StatesAreNumbered DEF AllGood, Machine
<1> HIDE DEF items
<1>5. ASSUME NEW kept \in SUBSET opening,
             \A item \in opening :
                P.productions[item[1]].lhs
                      \in UNION {Begins!Expected(P, x) : x \in (P.items[s] \ opening) \cup kept}
                   => item \in kept
      PROVE  kept = opening
  <2> DEFINE had == (items.cores \ opening) \cup kept
  <2>1. ASSUME NEW core \in had, ~AtEnd(A, core), NEW child \in Children(A, core), child \in items.cores
        PROVE  child \in had
    <3>1. core \in items.cores
      BY <1>3, <1>4, <1>5
    <3>2. /\ core[2] \in Nat /\ core[1] \in DOMAIN A.productions /\ core[2] <= Len(A.productions[core[1]].rhs)
          /\ NextSymbol(A, core) \in Range(A.productions[core[1]].rhs)
          /\ Len(A.productions[core[1]].rhs) \in Nat
      BY <1>2, <1>4, <2>1, <3>1, ItemsOfCores
    <3>3. Begins!Expected(P, core) = {NextSymbol(A, core)}
      <4>1. core[2] < Len(A.productions[core[1]].rhs)
        BY <2>1, <3>2 DEF AtEnd
      <4> QED BY <1>1, <4>1 DEF Begins!Expected, Begins!Rhs, NextSymbol
    <3>4. A.productions[child[1]].lhs = NextSymbol(A, core)
      BY <2>1 DEF Children, ProductionsOf
    <3>5. A.productions[child[1]].lhs \in UNION {Begins!Expected(P, x) : x \in had}
      BY <3>3, <3>4
    <3>6. child \in opening => child \in kept
      BY <1>1, <1>4, <1>5, <3>5
    <3> QED BY <2>1, <3>6
  <2>2. KernelCores(items.cores) \subseteq had
    <3>1. ASSUME NEW core \in items.cores, core[2] # 0 \/ core[1] = 0 PROVE core \notin opening
      <4>1. core = <<core[1], core[2]>>
        BY <1>2, <1>4, ItemsOfCores
      <4> QED BY <1>3, <3>1, <4>1
    <3> QED BY <3>1 DEF KernelCores
  <2>3. items.cores \subseteq had
    <3>1. \A core \in had \cap items.cores : ~AtEnd(A, core) => Children(A, core) \cap items.cores \subseteq had
      BY <2>1
    <3>2. Explained(A, KernelCores(items.cores), items.cores)
      BY <1>4 DEF Grounded
    <3> HIDE DEF had
    <3> QED BY <2>2, <3>1, <3>2 DEF Explained
  <2>4. opening \subseteq items.cores
    BY <1>3, <1>4
  <2> QED BY <1>5, <2>3, <2>4
<1>6. P.items[s] # {}
  BY <1>4 DEF Grounded
<1> QED BY <1>5, <1>6

-----------------------------------------------------------------------------
(* The states of a collection have the cores of the LR(0) states.          *)

AllFull(states) == \A i \in DOMAIN states : Full(states[i])

\* The cores of a transition's target are those of the LR(0) transition.
CoresLead(A, c) ==
    \A m \in c.moves :
        /\ m.symbol \in NextSymbols(A, c.states[m.from + 1])
        /\ c.states[m.to + 1].cores = TargetCores(A, c.states[m.from + 1].cores, m.symbol)

LEMMA EndsOfMoves ==
    ASSUME NEW c, IsSequence(c.states), MovesWithin(c), NEW m \in c.moves
    PROVE  m.from + 1 \in DOMAIN c.states /\ m.to + 1 \in DOMAIN c.states /\ m.from \in Int /\ m.to \in Int
<1>1. PICK S : c.states \in Seq(S)
  BY DEF IsSequence
<1>2. m.from \in 0..(Len(c.states) - 1) /\ m.to \in 0..(Len(c.states) - 1)
  BY DEF MovesWithin
<1>3. Len(c.states) \in Nat /\ DOMAIN c.states = 1..Len(c.states)
  BY <1>1
<1> QED BY <1>2, <1>3

LEMMA MovesLeadCores ==
    ASSUME NEW A, GoodAnalysis(A), Filled(A), NEW c, IsSequence(c.states), MovesWithin(c),
           AllGood(A, c.states), AllFull(c.states), MovesLead(A, c), Machine(A, c)
    PROVE  CoresLead(A, c)
<1>1. SUFFICES ASSUME NEW m \in c.moves
               PROVE  /\ m.symbol \in NextSymbols(A, c.states[m.from + 1])
                      /\ c.states[m.to + 1].cores = TargetCores(A, c.states[m.from + 1].cores, m.symbol)
  BY DEF CoresLead
<1> DEFINE from == c.states[m.from + 1]
           to == c.states[m.to + 1]
<1>2. GoodItems(A, from) /\ Full(from)
  BY EndsOfMoves DEF AllGood, AllFull
<1>3. to = Closure(A, Kernel(A, from, m.symbol))
  BY DEF MovesLead
<1>4. LeadsBy(A, from.cores, m.symbol, to.cores)
  BY DEF Machine
<1> HIDE DEF from, to
<1>5. to.cores = TargetCores(A, from.cores, m.symbol)
  BY <1>2, <1>3, FullTarget
<1>6. m.symbol \in NextSymbols(A, from)
  <2>1. PICK core \in to.cores : core[2] > 0
    BY <1>4 DEF LeadsBy
  <2>2. /\ <<core[1], core[2] - 1>> \in from.cores /\ ~AtEnd(A, <<core[1], core[2] - 1>>)
        /\ NextSymbol(A, <<core[1], core[2] - 1>>) = m.symbol
    BY <1>4, <2>1 DEF LeadsBy
  <2> QED BY <2>2 DEF NextSymbols
<1> QED BY <1>5, <1>6 DEF from, to

\* Two states with the same cores agree on the cores their transitions lead to.
LEMMA MergeIsConsistent ==
    ASSUME NEW A, NEW c, IsSequence(c.states), MovesWithin(c), CoresLead(A, c)
    PROVE  ~InconsistentMerge(c)
<1>1. PICK S : c.states \in Seq(S)
  BY DEF IsSequence
<1>2. \A i, j \in DOMAIN c.states : NumbersOf(c)[i] = NumbersOf(c)[j] <=> c.states[i].cores = c.states[j].cores
  BY <1>1, NumbersOfStates
<1>3. ASSUME NEW x \in Int, x + 1 \in DOMAIN c.states PROVE NumbersOf(c)[x + 1] = MergedNumber(c, x)
  BY <1>3 DEF NumbersOf
<1>4. ASSUME NEW m1 \in c.moves, NEW m2 \in c.moves, m1.symbol = m2.symbol,
             MergedNumber(c, m1.from) = MergedNumber(c, m2.from)
      PROVE  MergedNumber(c, m1.to) = MergedNumber(c, m2.to)
  <2>1. /\ m1.from + 1 \in DOMAIN c.states /\ m1.to + 1 \in DOMAIN c.states /\ m1.from \in Int /\ m1.to \in Int
        /\ m2.from + 1 \in DOMAIN c.states /\ m2.to + 1 \in DOMAIN c.states /\ m2.from \in Int /\ m2.to \in Int
    BY EndsOfMoves
  <2>2. NumbersOf(c)[m1.from + 1] = NumbersOf(c)[m2.from + 1]
    BY <2>1, <1>3, <1>4
  <2>3. c.states[m1.from + 1].cores = c.states[m2.from + 1].cores
    BY <2>1, <2>2, <1>2
  <2>4. c.states[m1.to + 1].cores = c.states[m2.to + 1].cores
    BY <2>3, <1>4 DEF CoresLead
  <2>5. NumbersOf(c)[m1.to + 1] = NumbersOf(c)[m2.to + 1]
    BY <2>1, <2>4, <1>2
  <2> QED BY <2>1, <2>5, <1>3
<1> SUFFICES ASSUME NEW e1 \in MergedMoves(c), NEW e2 \in MergedMoves(c), e1.from = e2.from, e1.symbol = e2.symbol
             PROVE  e1.to = e2.to
  BY DEF InconsistentMerge
<1>5. PICK m1 \in c.moves : e1 = [from |-> MergedNumber(c, m1.from), symbol |-> m1.symbol, to |-> MergedNumber(c, m1.to)]
  BY DEF MergedMoves
<1>6. PICK m2 \in c.moves : e2 = [from |-> MergedNumber(c, m2.from), symbol |-> m2.symbol, to |-> MergedNumber(c, m2.to)]
  BY DEF MergedMoves
<1> QED BY <1>4, <1>5, <1>6

LEMMA MergedCoresLead ==
    ASSUME NEW A, NEW c, IsSequence(c.states), MovesWithin(c), CoresLead(A, c)
    PROVE  CoresLead(A, MergeLR0Cores(c))
<1> DEFINE d == MergeLR0Cores(c)
<1>1. d.moves = MergedMoves(c)
  BY MergeIs
<1>2. /\ DOMAIN d.states = 1..Cardinality(Range(NumbersOf(c)))
      /\ \A n \in DOMAIN d.states :
            \A i \in DOMAIN c.states : NumbersOf(c)[i] = n - 1 => d.states[n].cores = c.states[i].cores
      /\ \A i \in DOMAIN c.states : NumbersOf(c)[i] + 1 \in DOMAIN d.states
  BY MergedCores
<1>3. PICK S : c.states \in Seq(S)
  BY DEF IsSequence
<1> HIDE DEF d
<1>4. ASSUME NEW x \in Int, x + 1 \in DOMAIN c.states
      PROVE  d.states[MergedNumber(c, x) + 1].cores = c.states[x + 1].cores
  <2>1. NumbersOf(c)[x + 1] = MergedNumber(c, x)
    BY <1>4 DEF NumbersOf
  <2>2. NumbersOf(c)[x + 1] \in Int
    BY <1>3, <1>4, NumberIsInt
  <2>3. (MergedNumber(c, x) + 1) - 1 = NumbersOf(c)[x + 1] /\ MergedNumber(c, x) + 1 \in DOMAIN d.states
    BY <2>1, <2>2, <1>2, <1>4
  <2> QED BY <2>3, <1>2, <1>4
<1>5. ASSUME NEW e \in d.moves
      PROVE  /\ e.symbol \in NextSymbols(A, d.states[e.from + 1])
             /\ d.states[e.to + 1].cores = TargetCores(A, d.states[e.from + 1].cores, e.symbol)
  <2>1. PICK m \in c.moves : e = [from |-> MergedNumber(c, m.from), symbol |-> m.symbol, to |-> MergedNumber(c, m.to)]
    BY <1>1 DEF MergedMoves
  <2>2. /\ m.from + 1 \in DOMAIN c.states /\ m.to + 1 \in DOMAIN c.states /\ m.from \in Int /\ m.to \in Int
    BY EndsOfMoves
  <2>3. /\ d.states[e.from + 1].cores = c.states[m.from + 1].cores
        /\ d.states[e.to + 1].cores = c.states[m.to + 1].cores /\ e.symbol = m.symbol
    BY <2>1, <2>2, <1>4
  <2> QED BY <2>3 DEF CoresLead, NextSymbols
<1> QED BY <1>5 DEF CoresLead, d

\* Every symbol expected in a grammar that is not malformed is a name of it.
LEMMA AllAreNamed ==
    ASSUME NEW g, IsGrammar(g), ~Malformed(g), NEW A, GoodAnalysis(A), A.productions = PrepareProductions(g),
           Reserved(A.productions), NEW items, items.cores \subseteq CoresOf(A.productions)
    PROVE  NextSymbols(A, items) \subseteq Range(Vocabulary(g))
<1>1. ASSUME NEW s \in NextSymbols(A, items) PROVE s \in Range(Vocabulary(g))
  <2>1. PICK core \in items.cores : ~AtEnd(A, core) /\ s = NextSymbol(A, core)
    BY DEF NextSymbols
  <2>2. core[1] \in DOMAIN A.productions /\ core[2] \in Nat /\ A.productions[core[1]].rhs \in Seq(STRING)
    BY DEF CoresOf, GoodAnalysis, GoodProductions
  <2>3. core[2] + 1 \in DOMAIN A.productions[core[1]].rhs
    <3>1. Len(A.productions[core[1]].rhs) \in Nat
          /\ DOMAIN A.productions[core[1]].rhs = 1..Len(A.productions[core[1]].rhs)
      BY <2>2
    <3> QED BY <3>1, <2>1, <2>2 DEF AtEnd
  <2>4. s \in Range(A.productions[core[1]].rhs)
    BY <2>1, <2>3 DEF NextSymbol, Range
  <2>5. s # Augmented
    BY <2>2, <2>4 DEF Reserved
  <2> QED BY <2>5, NamesOfProductions
<1> QED BY <1>1

\* The collection covers the LR(0) automaton, state for state and move for move.
CoversLR0(A, c) ==
    /\ {s.cores : s \in Range(c.states)} = LR0In(A)
    /\ \A i \in DOMAIN c.states :
          {c.states[m.to + 1].cores : m \in {m \in c.moves : m.from = i - 1}} = StatesAfterIn(A, c.states[i].cores)

LEMMA CollectionCovers ==
    ASSUME NEW g, IsGrammar(g), ~Malformed(g), NEW A, GoodAnalysis(A), A.productions = PrepareProductions(g),
           Reserved(A.productions), NEW c, IsSequence(c.states), MovesWithin(c), AllGood(A, c.states),
           AllMoves(g, A, c), CoresLead(A, c),
           ExpansionIn(A, {<<0, 0>>}) \in {s.cores : s \in Range(c.states)},
           {s.cores : s \in Range(c.states)} \subseteq LR0In(A)
    PROVE  CoversLR0(A, c)
<1> DEFINE X == {s.cores : s \in Range(c.states)}
<1>1. PICK S : c.states \in Seq(S)
  BY DEF IsSequence
<1>2. DOMAIN c.states \subseteq Int
  BY <1>1
<1>3. ASSUME NEW i \in DOMAIN c.states
      PROVE  {c.states[m.to + 1].cores : m \in {m \in c.moves : m.from = i - 1}} = StatesAfterIn(A, c.states[i].cores)
  <2> DEFINE items == c.states[i]
  <2>1. i \in Int /\ (i - 1) + 1 = i
    BY <1>2
  <2>2. ASSUME NEW m \in c.moves, m.from = i - 1
        PROVE  c.states[m.to + 1].cores \in StatesAfterIn(A, items.cores)
    <3>1. m.symbol \in NextSymbols(A, items) /\ c.states[m.to + 1].cores = TargetCores(A, items.cores, m.symbol)
      BY <2>1, <2>2 DEF CoresLead
    <3>2. PICK core \in items.cores : ~AtEnd(A, core) /\ m.symbol = NextSymbol(A, core)
      BY <3>1 DEF NextSymbols
    <3> QED BY <3>1, <3>2 DEF StatesAfterIn
  <2>3. items.cores \subseteq CoresOf(A.productions)
    <3>1. GoodItems(A, items)
      BY DEF AllGood
    <3> QED BY <3>1, GoodItemsAre DEF ItemsIn
  <2>4. ASSUME NEW core \in items.cores, ~AtEnd(A, core)
        PROVE  \E m \in c.moves : m.from = i - 1 /\ c.states[m.to + 1].cores = TargetCores(A, items.cores, NextSymbol(A, core))
    <3>1. NextSymbol(A, core) \in NextSymbols(A, items)
      BY <2>4 DEF NextSymbols
    <3>2. NextSymbol(A, core) \in Range(Vocabulary(g))
      BY <3>1, <2>3, AllAreNamed
    <3>3. HasMove(c, i, NextSymbol(A, core))
      BY <3>1, <3>2 DEF AllMoves
    <3>4. PICK m \in c.moves : m.from = i - 1 /\ m.symbol = NextSymbol(A, core)
      BY <3>3 DEF HasMove
    <3> QED BY <3>4, <2>1 DEF CoresLead
  <2> HIDE DEF items
  <2>5. {c.states[m.to + 1].cores : m \in {m \in c.moves : m.from = i - 1}} \subseteq StatesAfterIn(A, items.cores)
    BY <2>2
  <2>6. StatesAfterIn(A, items.cores) \subseteq {c.states[m.to + 1].cores : m \in {m \in c.moves : m.from = i - 1}}
    BY <2>4 DEF StatesAfterIn
  <2> QED BY <2>5, <2>6 DEF items
<1>4. LeadsWithin(A, X)
  <2>1. ASSUME NEW cores \in X, NEW after \in StatesAfterIn(A, cores) PROVE after \in X
    <3>1. PICK i \in DOMAIN c.states : cores = c.states[i].cores
      BY DEF Range
    <3>2. after \in {c.states[m.to + 1].cores : m \in {m \in c.moves : m.from = i - 1}}
      BY <2>1, <3>1, <1>3
    <3>3. PICK m \in c.moves : after = c.states[m.to + 1].cores
      BY <3>2
    <3>4. m.to + 1 \in DOMAIN c.states
      BY EndsOfMoves
    <3> QED BY <3>3, <3>4 DEF Range
  <2> QED BY <2>1 DEF LeadsWithin
<1>5. 0 \in DOMAIN A.productions
  BY DEF Reserved, StartsWell
<1>6. LR0In(A) \subseteq X
  <2> HIDE DEF X
  <2>1. ExpansionIn(A, {<<0, 0>>}) \in X
    BY DEF X
  <2> QED BY <2>1, <1>4, <1>5, LR0Is
<1> QED BY <1>3, <1>6 DEF CoversLR0

\* Merged states are as many as the cores they have.
LEMMA MergedCount ==
    ASSUME NEW c, IsSequence(c.states)
    PROVE  LET states == MergeLR0Cores(c).states
           IN  Len(states) = Cardinality({s.cores : s \in Range(states)})
<1> DEFINE states == MergeLR0Cores(c).states
           n == Cardinality(Range(NumbersOf(c)))
           X == {s.cores : s \in Range(states)}
           f == [i \in 1..n |-> states[i].cores]
<1>1. /\ IsSequence(states) /\ DOMAIN states = 1..n
      /\ \A k \in DOMAIN states :
            /\ \E i \in DOMAIN c.states : NumbersOf(c)[i] = k - 1
            /\ \A i \in DOMAIN c.states : NumbersOf(c)[i] = k - 1 => states[k].cores = c.states[i].cores
  BY MergedCores
<1>2. PICK S : c.states \in Seq(S)
  BY DEF IsSequence
<1>3. /\ IsFiniteSet(Range(NumbersOf(c)))
      /\ \A i, j \in DOMAIN c.states : NumbersOf(c)[i] = NumbersOf(c)[j] <=> c.states[i].cores = c.states[j].cores
  BY <1>2, NumbersOfStates
<1>4. n \in Nat
  BY <1>3, FS_CardinalityType
<1> HIDE DEF n, states
<1>5. ASSUME NEW j \in 1..n, NEW k \in 1..n, states[j].cores = states[k].cores PROVE j = k
  <2>1. PICK i \in DOMAIN c.states : NumbersOf(c)[i] = j - 1
    BY <1>1
  <2>2. PICK l \in DOMAIN c.states : NumbersOf(c)[l] = k - 1
    BY <1>1
  <2>3. c.states[i].cores = c.states[l].cores
    BY <1>1, <1>5, <2>1, <2>2
  <2>4. j - 1 = k - 1
    BY <1>3, <2>1, <2>2, <2>3
  <2> QED BY <2>4, <1>4
<1>6. f \in Bijection(1..n, X)
  <2>1. \A j \in 1..n : states[j] \in Range(states)
    BY <1>1 DEF Range
  <2>2. f \in [1..n -> X]
    BY <2>1
  <2>3. \A j, k \in 1..n : f[j] = f[k] => j = k
    BY <1>5
  <2>4. ASSUME NEW x \in X PROVE \E j \in 1..n : f[j] = x
    <3>1. PICK j \in DOMAIN states : x = states[j].cores
      BY DEF Range
    <3> QED BY <3>1, <1>1
  <2> HIDE DEF X, f
  <2> QED BY <2>2, <2>3, <2>4 DEF Bijection, Injection, Surjection, IsInjective
<1>7. Cardinality(1..n) = n /\ IsFiniteSet(1..n)
  <2>1. 1 \in Int /\ n \in Int
    BY <1>4
  <2>2. Cardinality(1..n) = IF 1 > n THEN 0 ELSE n - 1 + 1
    BY <2>1, FS_Interval
  <2>3. IsFiniteSet(1..n)
    BY <2>1, FS_Interval
  <2> QED BY <2>2, <2>3, <1>4
<1> HIDE DEF X, f
<1>8. Cardinality(X) = n
  <2>1. ExistsBijection(1..n, X)
    BY <1>6 DEF ExistsBijection
  <2> QED BY <2>1, <1>7, FS_Bijection
<1>9. Len(states) = n
  <2>1. PICK T : states \in Seq(T)
    BY <1>1 DEF IsSequence
  <2>2. Len(states) \in Nat /\ 1..Len(states) = 1..n
    BY <2>1, <1>1
  <2> QED BY <2>2, <1>4
<1> QED BY <1>8, <1>9 DEF states, X

(* The texts of the rules, and the windows they begin with.                 *)

Joined(left, right) == {ab[1] \o ab[2] : ab \in left \X right}

SymbolTexts(T, symbol) == IF symbol \in DOMAIN T THEN T[symbol] ELSE {<<symbol>>}

\* The texts of a string of symbols, from those of each rule.
TextsOf(T, symbols) == FoldLeft(LAMBDA texts, symbol : Joined(texts, SymbolTexts(T, symbol)), {<<>>}, symbols)

\* Some texts for every rule, among them those its productions make of them.
TextFamilies(ps) ==
    {T \in [LeftSides(ps) -> SUBSET Seq(STRING)] : \A id \in DOMAIN ps : TextsOf(T, ps[id].rhs) \subseteq T[ps[id].lhs]}

\* The texts a rule derives: those it has in every such family.
DerivedTexts(ps) ==
    [lhs \in LeftSides(ps) |-> {t \in Seq(STRING) : \A T \in TextFamilies(ps) : t \in T[lhs]}]

TextsOfStays(T, symbols, n, V) ==
    \A i \in 1..n : \A v \in V : Joined(v, SymbolTexts(T, symbols[i])) \in V

TextsOfPath(T, symbols, n, acc) ==
    /\ acc[0] = {<<>>} /\ acc[n] = TextsOf(T, symbols)
    /\ \A i \in 1..n : acc[i] = Joined(acc[i - 1], SymbolTexts(T, symbols[i]))

LEMMA TextsOfWorks ==
    ASSUME NEW T, NEW symbols, NEW n \in Nat, DOMAIN symbols = 1..n, NEW V, {<<>>} \in V,
           TextsOfStays(T, symbols, n, V)
    PROVE  \E acc \in [0..n -> V] : TextsOfPath(T, symbols, n, acc)
<1> DEFINE step == [p \in (1..n) \X V |-> Joined(p[2], SymbolTexts(T, symbols[p[1]]))]
           Visit(s, v) == Joined(v, SymbolTexts(T, symbols[Max(s)]))
           it == CHOOSE f : f = [s \in SUBSET DOMAIN symbols |-> IF s = {} THEN {<<>>} ELSE Visit(s, f[s \ {Max(s)}])]
<1>1. step \in [(1..n) \X V -> V]
  BY DEF TextsOfStays
<1>2. PICK sol \in [SUBSET (1..n) -> V] : Folds(sol, n, {<<>>}, step)
  <2> HIDE DEF step
  <2> QED BY <1>1, FoldSolution
<1>3. sol = [s \in SUBSET DOMAIN symbols |-> IF s = {} THEN {<<>>} ELSE Visit(s, sol[s \ {Max(s)}])]
  <2>1. ASSUME NEW s \in SUBSET (1..n) PROVE sol[s] = IF s = {} THEN {<<>>} ELSE Visit(s, sol[s \ {Max(s)}])
    <3>1. CASE s = {}
      BY <1>2, <3>1 DEF Folds
    <3>2. CASE s # {}
      <4>1. Max(s) \in 1..n /\ s \ {Max(s)} \in SUBSET (1..n)
        BY <3>2, MaxOfSome
      <4>2. sol[s] = step[<<Max(s), sol[s \ {Max(s)}]>>]
        <5> HIDE DEF step
        <5> QED BY <1>2, <3>2 DEF Folds
      <4> QED BY <4>1, <4>2, <3>2
    <3> QED BY <3>1, <3>2
  <2> HIDE DEF Visit
  <2> QED BY <2>1
<1>4. it = [s \in SUBSET DOMAIN symbols |-> IF s = {} THEN {<<>>} ELSE Visit(s, it[s \ {Max(s)}])]
  <2> HIDE DEF Visit
  <2> QED BY <1>3, Zenon
<1>5. TextsOf(T, symbols) = it[1..n]
  BY Zenon DEF TextsOf, FoldLeft, MapThenFoldSet
<1>6. it[1..0] = {<<>>}
  <2> HIDE DEF Visit, it
  <2> QED BY <1>4
<1>7. ASSUME NEW i \in 1..n PROVE it[1..i] = Joined(it[1..(i - 1)], SymbolTexts(T, symbols[i]))
  <2>1. 1..i \in SUBSET DOMAIN symbols /\ 1..i # {} /\ Max(1..i) = i /\ (1..i) \ {i} = 1..(i - 1)
    <3>1. /\ Max(1..i) = i /\ (1..i) \ {i} = 1..(i - 1)
          /\ 1..i \subseteq 1..n /\ 1..i # {}
      BY MaxOfFirst
    <3> QED BY <3>1
  <2>2. it[1..i] = Visit(1..i, it[(1..i) \ {Max(1..i)}])
    <3> HIDE DEF Visit, it
    <3> QED BY <1>4, <2>1
  <2> HIDE DEF it
  <2> QED BY <2>1, <2>2
<1>8. ASSUME NEW i \in 1..n, it[1..(i - 1)] \in V PROVE it[1..i] = step[<<i, it[1..(i - 1)]>>]
  <2> HIDE DEF it
  <2> QED BY <1>7, <1>8
<1>9. PICK acc \in [0..n -> V] : Follows(acc, n, {<<>>}, step, it)
  <2>1. Unfolds(it, n, V, {<<>>}, step)
    <3> HIDE DEF step, it
    <3> QED BY <1>6, <1>8 DEF Unfolds
  <2> HIDE DEF step, it
  <2> QED BY <1>1, <2>1, FoldPath
<1>10. ASSUME NEW i \in 1..n PROVE acc[i] = Joined(acc[i - 1], SymbolTexts(T, symbols[i]))
  <2>1. acc[i] = step[<<i, acc[i - 1]>>]
    <3> HIDE DEF step, it
    <3> QED BY <1>9 DEF Follows
  <2>2. <<i, acc[i - 1]>> \in (1..n) \X V
    <3>1. i - 1 \in 0..n
      OBVIOUS
    <3> QED BY <3>1
  <2> QED BY <2>1, <2>2
<1> HIDE DEF it, step
<1>11. acc[0] = {<<>>} /\ acc[n] = it[1..n]
  BY <1>9 DEF Follows
<1>12. TextsOfPath(T, symbols, n, acc)
  BY <1>5, <1>10, <1>11 DEF TextsOfPath
<1> QED BY <1>12

\* What is kept of a text.
LEMMA Truncated ==
    ASSUME NEW S, NEW w \in Seq(S), NEW k \in Nat
    PROVE  /\ Truncate(w, k) \in Seq(S)
           /\ Len(Truncate(w, k)) = IF Len(w) < k THEN Len(w) ELSE k
           /\ \A i \in 1..Len(Truncate(w, k)) : Truncate(w, k)[i] = w[i]
<1> DEFINE m == IF Len(w) < k THEN Len(w) ELSE k
<1>1. m \in 0..Len(w)
  OBVIOUS
<1>2. Truncate(w, k) = SubSeq(w, 1, m)
  BY DEF Truncate
<1>3. m \in Nat /\ \A i \in 1..m : i \in 1..Len(w)
  BY <1>1
<1> HIDE DEF m
<1>4. SubSeq(w, 1, m) \in Seq(S) /\ Len(SubSeq(w, 1, m)) = m /\ \A i \in 1..m : SubSeq(w, 1, m)[i] = w[i]
  BY <1>3
<1> QED BY <1>2, <1>4 DEF m

KeptLength(n, k) == IF n < k THEN n ELSE k

LEMMA LengthsAgree ==
    ASSUME NEW k \in Nat
    PROVE  \A p, q \in Nat :
              LET x == KeptLength(KeptLength(p, k) + KeptLength(q, k), k)
              IN  /\ x \in Nat /\ x = KeptLength(p + q, k)
                  /\ x <= KeptLength(p, k) + KeptLength(q, k) /\ x <= p + q /\ x <= k
<1>1. SUFFICES ASSUME NEW p \in Nat, NEW q \in Nat
               PROVE  LET x == KeptLength(KeptLength(p, k) + KeptLength(q, k), k)
                      IN  /\ x \in Nat /\ x = KeptLength(p + q, k)
                          /\ x <= KeptLength(p, k) + KeptLength(q, k) /\ x <= p + q /\ x <= k
  OBVIOUS
<1>2. CASE p < k /\ q < k
  BY <1>2 DEF KeptLength
<1>3. CASE p < k /\ ~(q < k)
  BY <1>3 DEF KeptLength
<1>4. CASE ~(p < k)
  BY <1>4 DEF KeptLength
<1> QED BY <1>2, <1>3, <1>4

LEMMA InARow ==
    ASSUME NEW S, NEW a \in Seq(S), NEW b \in Seq(S)
    PROVE  /\ a \o b \in Seq(S) /\ Len(a \o b) = Len(a) + Len(b) /\ Len(a) \in Nat /\ Len(b) \in Nat
           /\ \A i \in 1..(Len(a) + Len(b)) : (a \o b)[i] = IF i <= Len(a) THEN a[i] ELSE b[i - Len(a)]
  OBVIOUS

\* Of two texts in a row no more counts than of each of them.
LEMMA TruncatedInTurn ==
    ASSUME NEW S, NEW a \in Seq(S), NEW b \in Seq(S), NEW k \in Nat
    PROVE  Truncate(Truncate(a, k) \o Truncate(b, k), k) = Truncate(a \o b, k)
<1> DEFINE u == Truncate(a, k)
           v == Truncate(b, k)
           x == Truncate(u \o v, k)
           y == Truncate(a \o b, k)
<1>1. /\ u \in Seq(S) /\ Len(u) = IF Len(a) < k THEN Len(a) ELSE k
      /\ \A i \in 1..Len(u) : u[i] = a[i]
  BY Truncated
<1>2. /\ v \in Seq(S) /\ Len(v) = IF Len(b) < k THEN Len(b) ELSE k
      /\ \A i \in 1..Len(v) : v[i] = b[i]
  BY Truncated
<1> HIDE DEF u, v
<1>3. /\ u \o v \in Seq(S) /\ Len(u \o v) = Len(u) + Len(v)
      /\ \A i \in 1..(Len(u) + Len(v)) : (u \o v)[i] = IF i <= Len(u) THEN u[i] ELSE v[i - Len(u)]
  BY <1>1, <1>2, InARow
<1>4. /\ a \o b \in Seq(S) /\ Len(a \o b) = Len(a) + Len(b)
      /\ \A i \in 1..(Len(a) + Len(b)) : (a \o b)[i] = IF i <= Len(a) THEN a[i] ELSE b[i - Len(a)]
  OBVIOUS
<1>5. /\ x \in Seq(S) /\ Len(x) = IF Len(u \o v) < k THEN Len(u \o v) ELSE k
      /\ \A i \in 1..Len(x) : x[i] = (u \o v)[i]
  BY <1>3, Truncated
<1>6. /\ y \in Seq(S) /\ Len(y) = IF Len(a \o b) < k THEN Len(a \o b) ELSE k
      /\ \A i \in 1..Len(y) : y[i] = (a \o b)[i]
  BY <1>4, Truncated
<1> HIDE DEF x, y
<1>7. /\ Len(a) \in Nat /\ Len(b) \in Nat /\ Len(u) \in Nat /\ Len(v) \in Nat /\ Len(x) \in Nat
      /\ Len(x) = Len(y) /\ Len(x) <= Len(u) + Len(v) /\ Len(x) <= Len(a) + Len(b) /\ Len(x) <= k
  <2>1. Len(a) \in Nat /\ Len(b) \in Nat /\ Len(u) \in Nat /\ Len(v) \in Nat
    BY <1>1, <1>2, InARow
  <2>2. Len(u) = KeptLength(Len(a), k) /\ Len(v) = KeptLength(Len(b), k)
    BY <1>1, <1>2 DEF KeptLength
  <2>3. Len(x) = KeptLength(Len(u) + Len(v), k) /\ Len(y) = KeptLength(Len(a) + Len(b), k)
    BY <1>3, <1>4, <1>5, <1>6 DEF KeptLength
  <2> DEFINE p == Len(a)
             q == Len(b)
             l == KeptLength(KeptLength(p, k) + KeptLength(q, k), k)
  <2>4. p \in Nat /\ q \in Nat
    BY <2>1
  <2>5. Len(x) = l /\ Len(y) = KeptLength(p + q, k) /\ Len(u) = KeptLength(p, k) /\ Len(v) = KeptLength(q, k)
    BY <2>2, <2>3
  <2> HIDE DEF p, q
  <2>6. /\ l \in Nat /\ l = KeptLength(p + q, k)
        /\ l <= KeptLength(p, k) + KeptLength(q, k) /\ l <= p + q /\ l <= k
    BY <2>4, LengthsAgree
  <2> HIDE DEF l
  <2>7. Len(x) \in Nat /\ Len(x) = Len(y) /\ Len(x) <= Len(u) + Len(v) /\ Len(x) <= p + q /\ Len(x) <= k
    BY <2>5, <2>6
  <2> QED BY <2>1, <2>7 DEF p, q
<1>8. ASSUME NEW i \in 1..Len(x) PROVE x[i] = y[i]
  <2>1. i \in 1..(Len(u) + Len(v)) /\ i \in 1..(Len(a) + Len(b))
    BY <1>7
  <2>2. x[i] = (u \o v)[i] /\ y[i] = (a \o b)[i]
    BY <1>5, <1>6, <1>7
  <2>3. CASE i <= Len(u)
    <3>1. i <= Len(a) /\ i \in 1..Len(u)
      BY <1>1, <1>7, <2>3
    <3> QED BY <1>1, <1>3, <1>4, <2>1, <2>2, <2>3, <3>1
  <2>4. CASE ~(i <= Len(u))
    <3>1. Len(u) = Len(a)
      BY <1>1, <1>7, <2>4
    <3>2. i - Len(u) \in 1..Len(v)
      BY <1>7, <2>1, <2>4
    <3>3. (u \o v)[i] = v[i - Len(u)] /\ (a \o b)[i] = b[i - Len(a)]
      BY <1>3, <1>4, <2>1, <2>4, <3>1
    <3> QED BY <1>2, <2>2, <3>1, <3>2, <3>3
  <2> QED BY <2>3, <2>4
<1>9. x = y
  BY <1>5, <1>6, <1>7, <1>8
<1> QED BY <1>9 DEF x, y, u, v

\* What texts begin with.
Beginnings(texts, k) == {Truncate(t, k) : t \in texts}

LEMMA BeginningsOfJoined ==
    ASSUME NEW A, A \subseteq Seq(STRING), NEW B, B \subseteq Seq(STRING), NEW k \in Nat
    PROVE  Concatenate(Beginnings(A, k), Beginnings(B, k), k) = Beginnings(Joined(A, B), k)
<1>1. ASSUME NEW a \in A, NEW b \in B
      PROVE  Truncate(Truncate(a, k) \o Truncate(b, k), k) = Truncate(a \o b, k)
  <2>1. a \in Seq(STRING) /\ b \in Seq(STRING)
    OBVIOUS
  <2> QED BY <2>1, TruncatedInTurn
<1>2. ASSUME NEW w \in Concatenate(Beginnings(A, k), Beginnings(B, k), k)
      PROVE  w \in Beginnings(Joined(A, B), k)
  <2>1. PICK x \in Beginnings(A, k) \X Beginnings(B, k) : w = Truncate(x[1] \o x[2], k)
    BY DEF Concatenate
  <2>2. PICK a \in A : x[1] = Truncate(a, k)
    BY DEF Beginnings
  <2>3. PICK b \in B : x[2] = Truncate(b, k)
    BY DEF Beginnings
  <2>4. w = Truncate(a \o b, k)
    BY <1>1, <2>1, <2>2, <2>3
  <2>5. <<a, b>> \in A \X B /\ a \o b = <<a, b>>[1] \o <<a, b>>[2]
    OBVIOUS
  <2>6. a \o b \in Joined(A, B)
    BY <2>5 DEF Joined
  <2> QED BY <2>4, <2>6 DEF Beginnings
<1>3. ASSUME NEW w \in Beginnings(Joined(A, B), k)
      PROVE  w \in Concatenate(Beginnings(A, k), Beginnings(B, k), k)
  <2>1. PICK t \in Joined(A, B) : w = Truncate(t, k)
    BY DEF Beginnings
  <2>2. PICK x \in A \X B : t = x[1] \o x[2]
    BY <2>1 DEF Joined
  <2> DEFINE p == <<Truncate(x[1], k), Truncate(x[2], k)>>
  <2>3. p \in Beginnings(A, k) \X Beginnings(B, k)
    BY DEF Beginnings
  <2>4. Truncate(p[1] \o p[2], k) = w
    BY <1>1, <2>1, <2>2
  <2> HIDE DEF p
  <2> QED BY <2>3, <2>4 DEF Concatenate
<1> QED BY <1>2, <1>3
\* The windows a string begins with, and its texts, worked out symbol by symbol.
LEMMA WidePath ==
    ASSUME NEW ps, NEW first, WideFirst(ps, first), NEW symbols \in Seq(STRING), NEW k \in Nat
    PROVE  \E acc \in [0..Len(symbols) -> SUBSET Seq(STRING)] : FirstOfStringPath(first, k, symbols, Len(symbols), acc)
<1> DEFINE n == Len(symbols)
           V == SUBSET Seq(STRING)
<1>1. n \in Nat /\ DOMAIN symbols = 1..n
  OBVIOUS
<1>2. {<<>>} \in V
  OBVIOUS
<1>3. ASSUME NEW i \in 1..n, NEW v \in V PROVE Concatenate(v, FirstOfSymbol(first, symbols[i]), k) \in V
  <2>1. symbols[i] \in STRING
    BY <1>1
  <2>2. FirstOfSymbol(first, symbols[i]) \subseteq Seq(STRING)
    <3>1. CASE symbols[i] \in DOMAIN first
      BY <3>1 DEF FirstOfSymbol, WideFirst
    <3>2. CASE symbols[i] \notin DOMAIN first
      <4>1. FirstOfSymbol(first, symbols[i]) = {<<symbols[i]>>}
        BY <3>2 DEF FirstOfSymbol
      <4> HIDE DEF n
      <4> QED BY <4>1, <2>1, OneElement
    <3> QED BY <3>1, <3>2
  <2>3. v \subseteq Seq(STRING)
    OBVIOUS
  <2>4. Concatenate(v, FirstOfSymbol(first, symbols[i]), k) \subseteq Seq(STRING)
    BY <2>2, <2>3, WideConcatenation
  <2> QED BY <2>4
<1>4. FirstOfStringStays(first, k, symbols, n, V)
  <2> HIDE DEF n, V
  <2> QED BY <1>3 DEF FirstOfStringStays
<1>5. \E acc \in [0..n -> V] : FirstOfStringPath(first, k, symbols, n, acc)
  <2> HIDE DEF n, V
  <2> QED BY <1>1, <1>2, <1>4, FirstOfStringWorks
<1> QED BY <1>5

LEMMA SymbolTextsAre ==
    ASSUME NEW L, NEW T \in [L -> SUBSET Seq(STRING)], NEW s \in STRING
    PROVE  SymbolTexts(T, s) \subseteq Seq(STRING)
<1>1. CASE s \in L
  BY <1>1 DEF SymbolTexts
<1>2. CASE s \notin L
  <2>1. SymbolTexts(T, s) = {<<s>>}
    BY <1>2 DEF SymbolTexts
  <2> QED BY <2>1, OneElement
<1> QED BY <1>1, <1>2

LEMMA JoinedAre ==
    ASSUME NEW A, A \subseteq Seq(STRING), NEW B, B \subseteq Seq(STRING)
    PROVE  Joined(A, B) \subseteq Seq(STRING)
<1>1. ASSUME NEW x \in A \X B PROVE x[1] \o x[2] \in Seq(STRING)
  OBVIOUS
<1> QED BY <1>1 DEF Joined

LEMMA TextsPath ==
    ASSUME NEW L, NEW T \in [L -> SUBSET Seq(STRING)], NEW symbols \in Seq(STRING)
    PROVE  \E acc \in [0..Len(symbols) -> SUBSET Seq(STRING)] : TextsOfPath(T, symbols, Len(symbols), acc)
<1> DEFINE n == Len(symbols)
           V == SUBSET Seq(STRING)
<1>1. n \in Nat /\ DOMAIN symbols = 1..n
  OBVIOUS
<1>2. {<<>>} \in V
  OBVIOUS
<1>3. ASSUME NEW i \in 1..n, NEW v \in V PROVE Joined(v, SymbolTexts(T, symbols[i])) \in V
  <2>1. symbols[i] \in STRING
    BY <1>1
  <2>2. SymbolTexts(T, symbols[i]) \subseteq Seq(STRING)
    BY <2>1, SymbolTextsAre
  <2>3. Joined(v, SymbolTexts(T, symbols[i])) \subseteq Seq(STRING)
    BY <2>2, JoinedAre
  <2> QED BY <2>3
<1>4. TextsOfStays(T, symbols, n, V)
  <2> HIDE DEF n, V
  <2> QED BY <1>3 DEF TextsOfStays
<1>5. \E acc \in [0..n -> V] : TextsOfPath(T, symbols, n, acc)
  <2> HIDE DEF n, V
  <2> QED BY <1>1, <1>2, <1>4, TextsOfWorks
<1> QED BY <1>5

LEMMA TextsAreTexts ==
    ASSUME NEW L, NEW T \in [L -> SUBSET Seq(STRING)], NEW symbols \in Seq(STRING)
    PROVE  TextsOf(T, symbols) \subseteq Seq(STRING)
<1>1. PICK acc \in [0..Len(symbols) -> SUBSET Seq(STRING)] : TextsOfPath(T, symbols, Len(symbols), acc)
  BY TextsPath
<1>2. Len(symbols) \in 0..Len(symbols)
  OBVIOUS
<1> QED BY <1>1, <1>2 DEF TextsOfPath

\* More first windows of the rules, more of the string.
LEMMA FirstIsMonotone ==
    ASSUME NEW ps, NEW first, WideFirst(ps, first), NEW other, WideFirst(ps, other),
           \A lhs \in LeftSides(ps) : first[lhs] \subseteq other[lhs],
           NEW symbols \in Seq(STRING), NEW k \in Nat
    PROVE  FirstOfString(first, k, symbols) \subseteq FirstOfString(other, k, symbols)
<1> DEFINE n == Len(symbols)
<1>1. n \in Nat /\ n \in 0..n /\ DOMAIN symbols = 1..n
  OBVIOUS
<1>2. PICK acc \in [0..n -> SUBSET Seq(STRING)] : FirstOfStringPath(first, k, symbols, n, acc)
  BY WidePath
<1>3. PICK bcc \in [0..n -> SUBSET Seq(STRING)] : FirstOfStringPath(other, k, symbols, n, bcc)
  BY WidePath
<1> HIDE DEF n
<1> DEFINE T == {i \in 0..n : acc[i] \subseteq bcc[i]}
<1>4. 0 \in T
  BY <1>1, <1>2, <1>3 DEF FirstOfStringPath
<1>5. ASSUME NEW i \in 1..n, i - 1 \in T PROVE i \in T
  <2>1. acc[i - 1] \subseteq bcc[i - 1] /\ i \in 0..n
    BY <1>1, <1>5
  <2>2. FirstOfSymbol(first, symbols[i]) \subseteq FirstOfSymbol(other, symbols[i])
    BY DEF FirstOfSymbol, WideFirst
  <2>3. Concatenate(acc[i - 1], FirstOfSymbol(first, symbols[i]), k)
            \subseteq Concatenate(bcc[i - 1], FirstOfSymbol(other, symbols[i]), k)
    BY <2>1, <2>2 DEF Concatenate
  <2>4. /\ acc[i] = Concatenate(acc[i - 1], FirstOfSymbol(first, symbols[i]), k)
        /\ bcc[i] = Concatenate(bcc[i - 1], FirstOfSymbol(other, symbols[i]), k)
    BY <1>2, <1>3 DEF FirstOfStringPath
  <2> QED BY <2>1, <2>3, <2>4
<1> HIDE DEF T
<1>6. 0..n \subseteq T
  BY <1>1, <1>4, <1>5, UpTo
<1>7. acc[n] \subseteq bcc[n]
  BY <1>1, <1>6 DEF T
<1> QED BY <1>2, <1>3, <1>7 DEF FirstOfStringPath

\* More texts of the rules, more of the string.
LEMMA TextsAreMonotone ==
    ASSUME NEW L, NEW T \in [L -> SUBSET Seq(STRING)], NEW U \in [L -> SUBSET Seq(STRING)],
           \A lhs \in L : T[lhs] \subseteq U[lhs], NEW symbols \in Seq(STRING)
    PROVE  TextsOf(T, symbols) \subseteq TextsOf(U, symbols)
<1> DEFINE n == Len(symbols)
<1>1. n \in Nat /\ n \in 0..n /\ DOMAIN symbols = 1..n
  OBVIOUS
<1>2. PICK acc \in [0..n -> SUBSET Seq(STRING)] : TextsOfPath(T, symbols, n, acc)
  BY TextsPath
<1>3. PICK bcc \in [0..n -> SUBSET Seq(STRING)] : TextsOfPath(U, symbols, n, bcc)
  BY TextsPath
<1> HIDE DEF n
<1> DEFINE I == {i \in 0..n : acc[i] \subseteq bcc[i]}
<1>4. 0 \in I
  BY <1>1, <1>2, <1>3 DEF TextsOfPath
<1>5. ASSUME NEW i \in 1..n, i - 1 \in I PROVE i \in I
  <2>1. acc[i - 1] \subseteq bcc[i - 1] /\ i \in 0..n
    BY <1>1, <1>5
  <2>2. SymbolTexts(T, symbols[i]) \subseteq SymbolTexts(U, symbols[i])
    BY DEF SymbolTexts
  <2>3. Joined(acc[i - 1], SymbolTexts(T, symbols[i])) \subseteq Joined(bcc[i - 1], SymbolTexts(U, symbols[i]))
    BY <2>1, <2>2 DEF Joined
  <2>4. acc[i] = Joined(acc[i - 1], SymbolTexts(T, symbols[i])) /\ bcc[i] = Joined(bcc[i - 1], SymbolTexts(U, symbols[i]))
    BY <1>2, <1>3 DEF TextsOfPath
  <2> QED BY <2>1, <2>3, <2>4
<1> HIDE DEF I
<1>6. 0..n \subseteq I
  BY <1>1, <1>4, <1>5, UpTo
<1>7. acc[n] \subseteq bcc[n]
  BY <1>1, <1>6 DEF I
<1> QED BY <1>2, <1>3, <1>7 DEF TextsOfPath

LEMMA TokenIsKept ==
    ASSUME NEW s, NEW k \in Nat, k >= 1
    PROVE  Truncate(<<s>>, k) = <<s>>
<1>1. Len(<<s>>) = 1
  OBVIOUS
<1>2. (IF 1 < k THEN 1 ELSE k) = 1
  OBVIOUS
<1>3. SubSeq(<<s>>, 1, 1) = <<s>>
  <2>1. <<s>> \in Seq({s})
    <3>1. s \in {s}
      OBVIOUS
    <3> QED BY <3>1, OneElement
  <2>2. Truncate(<<s>>, 1) = <<(<<s>>)[1]>>
    BY <2>1, OneIsSome, TruncatedToOne
  <2>3. Truncate(<<s>>, 1) = SubSeq(<<s>>, 1, 1)
    BY <1>1 DEF Truncate
  <2> QED BY <2>2, <2>3
<1> QED BY <1>1, <1>2, <1>3 DEF Truncate

\* FIRST of a string is what its texts begin with, if that of the rules is.
LEMMA BeginningsOfTexts ==
    ASSUME NEW L, NEW T \in [L -> SUBSET Seq(STRING)], NEW k \in Nat, k >= 1, NEW symbols \in Seq(STRING)
    PROVE  FirstOfString([lhs \in L |-> Beginnings(T[lhs], k)], k, symbols) = Beginnings(TextsOf(T, symbols), k)
<1> DEFINE n == Len(symbols)
           first == [lhs \in L |-> Beginnings(T[lhs], k)]
           V == SUBSET Seq(STRING)
<1>1. n \in Nat /\ n \in 0..n /\ DOMAIN symbols = 1..n
  OBVIOUS
<1>2. ASSUME NEW i \in 1..n PROVE /\ FirstOfSymbol(first, symbols[i]) = Beginnings(SymbolTexts(T, symbols[i]), k)
                                  /\ SymbolTexts(T, symbols[i]) \subseteq Seq(STRING)
  <2>1. symbols[i] \in STRING
    BY <1>1
  <2> DEFINE s == symbols[i]
  <2>2. s \in STRING
    BY <2>1
  <2> HIDE DEF s, n
  <2>3. SymbolTexts(T, s) \subseteq Seq(STRING)
    BY <2>2, SymbolTextsAre
  <2>4. FirstOfSymbol(first, s) = Beginnings(SymbolTexts(T, s), k)
    <3>1. CASE s \in L
      BY <3>1 DEF FirstOfSymbol, SymbolTexts
    <3>2. CASE s \notin L
      <4>1. FirstOfSymbol(first, s) = {<<s>>} /\ SymbolTexts(T, s) = {<<s>>}
        BY <3>2 DEF FirstOfSymbol, SymbolTexts
      <4>2. Truncate(<<s>>, k) = <<s>>
        BY TokenIsKept
      <4> QED BY <4>1, <4>2 DEF Beginnings
    <3> QED BY <3>1, <3>2
  <2> QED BY <2>3, <2>4 DEF s
<1>3. PICK acc \in [0..n -> V] : TextsOfPath(T, symbols, n, acc)
  BY TextsPath
<1> HIDE DEF n, first

<1>4. ASSUME NEW A, A \subseteq Seq(STRING) PROVE Beginnings(A, k) \subseteq Seq(STRING)
  <2>1. ASSUME NEW t \in A PROVE Truncate(t, k) \in Seq(STRING)
    <3>1. t \in Seq(STRING)
      BY <1>4
    <3> QED BY <3>1, Truncated
  <2> QED BY <2>1 DEF Beginnings
<1>5. PICK ccc \in [0..n -> V] : FirstOfStringPath(first, k, symbols, n, ccc)
  <2>1. {<<>>} \in V
    OBVIOUS
  <2>2. ASSUME NEW i \in 1..n, NEW v \in V PROVE Concatenate(v, FirstOfSymbol(first, symbols[i]), k) \in V
    <3>1. FirstOfSymbol(first, symbols[i]) \subseteq Seq(STRING)
      BY <1>2, <1>4
    <3>2. Concatenate(v, FirstOfSymbol(first, symbols[i]), k) \subseteq Seq(STRING)
      BY <3>1, WideConcatenation
    <3> QED BY <3>2
  <2> HIDE DEF V
  <2>3. FirstOfStringStays(first, k, symbols, n, V)
    BY <2>2 DEF FirstOfStringStays
  <2> QED BY <1>1, <2>1, <2>3, FirstOfStringWorks
<1> DEFINE I == {i \in 0..n : ccc[i] = Beginnings(acc[i], k)}
<1>6. 0 \in I
  <2>1. ccc[0] = {<<>>} /\ acc[0] = {<<>>} /\ 0 \in 0..n
    BY <1>1, <1>3, <1>5 DEF TextsOfPath, FirstOfStringPath
  <2>2. Truncate(<<>>, k) = <<>>
    BY DEF Truncate
  <2> QED BY <2>1, <2>2 DEF Beginnings
<1>7. ASSUME NEW i \in 1..n, i - 1 \in I PROVE i \in I
  <2>1. ccc[i - 1] = Beginnings(acc[i - 1], k) /\ i \in 0..n /\ i - 1 \in 0..n
    BY <1>1, <1>7
  <2>2. ccc[i] = Concatenate(ccc[i - 1], FirstOfSymbol(first, symbols[i]), k) /\ acc[i] = Joined(acc[i - 1], SymbolTexts(T, symbols[i]))
    BY <1>3, <1>5 DEF TextsOfPath, FirstOfStringPath
  <2>3. acc[i - 1] \subseteq Seq(STRING)
    BY <2>1
  <2>4. Concatenate(Beginnings(acc[i - 1], k), Beginnings(SymbolTexts(T, symbols[i]), k), k) = Beginnings(Joined(acc[i - 1], SymbolTexts(T, symbols[i])), k)
    BY <1>2, <2>3, BeginningsOfJoined
  <2>5. ccc[i] = Beginnings(acc[i], k)
    BY <1>2, <2>1, <2>2, <2>4
  <2> QED BY <2>1, <2>5
<1> HIDE DEF I
<1>8. 0..n \subseteq I
  BY <1>1, <1>6, <1>7, UpTo
<1>9. ccc[n] = Beginnings(acc[n], k)
  BY <1>1, <1>8 DEF I
<1> QED BY <1>3, <1>5, <1>9 DEF TextsOfPath, FirstOfStringPath, first
\* The texts of the rules are one of the families, and the least.
LEMMA DerivedAreClosed ==
    ASSUME NEW ps, GoodProductions(ps)
    PROVE  /\ DerivedTexts(ps) \in TextFamilies(ps)
           /\ \A T \in TextFamilies(ps) : \A lhs \in LeftSides(ps) : DerivedTexts(ps)[lhs] \subseteq T[lhs]
<1> DEFINE D == DerivedTexts(ps)
           L == LeftSides(ps)
<1>1. D \in [L -> SUBSET Seq(STRING)]
  BY DEF DerivedTexts
<1>2. \A T \in TextFamilies(ps) : \A lhs \in L : D[lhs] \subseteq T[lhs]
  BY DEF DerivedTexts
<1>3. ASSUME NEW id \in DOMAIN ps PROVE TextsOf(D, ps[id].rhs) \subseteq D[ps[id].lhs]
  <2>1. ps[id].rhs \in Seq(STRING) /\ ps[id].lhs \in L
    BY DEF GoodProductions, LeftSides
  <2> HIDE DEF D
  <2>2. TextsOf(D, ps[id].rhs) \subseteq Seq(STRING)
    BY <1>1, <2>1, TextsAreTexts
  <2>3. ASSUME NEW t \in TextsOf(D, ps[id].rhs), NEW T \in TextFamilies(ps) PROVE t \in T[ps[id].lhs]
    <3>1. T \in [L -> SUBSET Seq(STRING)] /\ TextsOf(T, ps[id].rhs) \subseteq T[ps[id].lhs]
      BY DEF TextFamilies
    <3>2. \A lhs \in L : D[lhs] \subseteq T[lhs]
      BY <1>2
    <3> HIDE DEF L
    <3>3. TextsOf(D, ps[id].rhs) \subseteq TextsOf(T, ps[id].rhs)
      BY <1>1, <2>1, <3>1, <3>2, TextsAreMonotone
    <3> QED BY <3>1, <3>3
  <2>4. \A t \in TextsOf(D, ps[id].rhs) : t \in Seq(STRING) /\ \A T \in TextFamilies(ps) : t \in T[ps[id].lhs]
    BY <2>2, <2>3
  <2>5. D[ps[id].lhs] = {t \in Seq(STRING) : \A T \in TextFamilies(ps) : t \in T[ps[id].lhs]}
    BY <2>1 DEF D, DerivedTexts
  <2> QED BY <2>4, <2>5
<1> QED BY <1>1, <1>2, <1>3 DEF TextFamilies

\* Windows that texts of their rules begin with.
BegunWith(ps, k, first) ==
    WideFirst(ps, first) /\ \A lhs \in LeftSides(ps) : first[lhs] \subseteq Beginnings(DerivedTexts(ps)[lhs], k)

LEMMA BeginningsAreTexts ==
    ASSUME NEW A, A \subseteq Seq(STRING), NEW k \in Nat
    PROVE  Beginnings(A, k) \subseteq Seq(STRING)
<1>1. ASSUME NEW t \in A PROVE Truncate(t, k) \in Seq(STRING)
  <2>1. t \in Seq(STRING)
    OBVIOUS
  <2> QED BY <2>1, Truncated
<1> QED BY <1>1 DEF Beginnings

LEMMA VisitBegins ==
    ASSUME NEW ps, GoodProductions(ps), NEW k \in Nat, k >= 1, NEW first, BegunWith(ps, k, first),
           NEW id \in DOMAIN ps
    PROVE  BegunWith(ps, k, [first EXCEPT ![ps[id].lhs] = @ \cup FirstOfString(first, k, ps[id].rhs)])
<1> DEFINE D == DerivedTexts(ps)
           L == LeftSides(ps)
           top == [lhs \in L |-> Beginnings(D[lhs], k)]
           name == ps[id].lhs
           more == FirstOfString(first, k, ps[id].rhs)
<1>1. D \in [L -> SUBSET Seq(STRING)] /\ TextsOf(D, ps[id].rhs) \subseteq D[name]
  BY DerivedAreClosed DEF TextFamilies
<1>2. ps[id].rhs \in Seq(STRING) /\ name \in L
  BY DEF GoodProductions, LeftSides
<1>3. WideFirst(ps, first) /\ \A lhs \in L : first[lhs] \subseteq Beginnings(D[lhs], k)
  BY DEF BegunWith
<1> HIDE DEF D
<1>4. WideFirst(ps, top) /\ \A lhs \in L : first[lhs] \subseteq top[lhs]
  <2>1. \A lhs \in L : Beginnings(D[lhs], k) \subseteq Seq(STRING)
    BY <1>1, BeginningsAreTexts
  <2> QED BY <1>3, <2>1 DEF WideFirst
<1>5. FirstOfString(top, k, ps[id].rhs) = Beginnings(TextsOf(D, ps[id].rhs), k)
  <2> HIDE DEF L
  <2> QED BY <1>1, <1>2, BeginningsOfTexts
<1> HIDE DEF top
<1>6. more \subseteq FirstOfString(top, k, ps[id].rhs)
  BY <1>2, <1>3, <1>4, FirstIsMonotone
<1>7. Beginnings(TextsOf(D, ps[id].rhs), k) \subseteq Beginnings(D[name], k)
  BY <1>1 DEF Beginnings
<1>8. more \subseteq Beginnings(D[name], k) /\ more \subseteq Seq(STRING)
  <2>1. Beginnings(D[name], k) \subseteq Seq(STRING)
    BY <1>1, <1>2, BeginningsAreTexts
  <2> QED BY <1>5, <1>6, <1>7, <2>1
<1> HIDE DEF more, name
<1>9. [first EXCEPT ![name] = @ \cup more] \in [L -> SUBSET Seq(STRING)]
  <2>1. first \in [L -> SUBSET Seq(STRING)]
    BY <1>3 DEF WideFirst
  <2>2. first[name] \cup more \in SUBSET Seq(STRING)
    BY <1>2, <1>8, <2>1
  <2> QED BY <2>1, <2>2
<1>10. \A lhs \in L : [first EXCEPT ![name] = @ \cup more][lhs] \subseteq Beginnings(D[lhs], k)
  <2>1. first \in [L -> SUBSET Seq(STRING)]
    BY <1>3 DEF WideFirst
  <2> QED BY <2>1, <1>3, <1>8
<1> QED BY <1>9, <1>10 DEF BegunWith, WideFirst, D, more, name

LEMMA SweepBegins ==
    ASSUME NEW ps, GoodProductions(ps), NEW k \in Nat, k >= 1, NEW first, BegunWith(ps, k, first)
    PROVE  BegunWith(ps, k, FirstSweep(ps, k, first))
<1>1. PICK n \in Nat : /\ DOMAIN InOrder(ps) = 1..n
                       /\ \A i \in 1..n : InOrder(ps)[i] = i - 1 /\ i - 1 \in DOMAIN ps
  BY VisitingOrder
<1> DEFINE V == {v \in [LeftSides(ps) -> SUBSET Seq(STRING)] : BegunWith(ps, k, v)}
<1>2. \A v : v \in V <=> BegunWith(ps, k, v)
  BY DEF BegunWith, WideFirst
<1> HIDE DEF V
<1>3. ASSUME NEW i \in 1..n, NEW v \in V
      PROVE  [v EXCEPT ![ps[InOrder(ps)[i]].lhs] = @ \cup FirstOfString(v, k, ps[InOrder(ps)[i]].rhs)] \in V
  <2> DEFINE id == InOrder(ps)[i]
  <2>1. id \in DOMAIN ps /\ BegunWith(ps, k, v)
    BY <1>1, <1>2
  <2> HIDE DEF id
  <2>2. [v EXCEPT ![ps[id].lhs] = @ \cup FirstOfString(v, k, ps[id].rhs)] \in V
    BY <1>2, <2>1, VisitBegins
  <2> QED BY <2>2 DEF id
<1>4. FirstSweepStays(ps, k, first, n, V)
  BY <1>3, Zenon DEF FirstSweepStays
<1>5. PICK acc \in [0..n -> V] : FirstSweepPath(ps, k, first, n, acc)
  <2>1. first \in V
    BY <1>2
  <2> QED BY <1>1, <1>4, <2>1, FirstSweepWorks
<1>6. acc[n] \in V /\ acc[n] = FirstSweep(ps, k, first)
  <2>1. n \in 0..n
    OBVIOUS
  <2> QED BY <1>5, <2>1 DEF FirstSweepPath
<1> QED BY <1>2, <1>6

\* When a round adds nothing, every production has been taken into account.
LEMMA SettledFirst ==
    ASSUME NEW ps, GoodProductions(ps), NEW k \in Nat, NEW first, WideFirst(ps, first),
           FirstSweep(ps, k, first) = first, NEW id \in DOMAIN ps
    PROVE  FirstOfString(first, k, ps[id].rhs) \subseteq first[ps[id].lhs]
<1>1. PICK n \in Nat : /\ DOMAIN InOrder(ps) = 1..n /\ DOMAIN ps = 0..(n - 1)
                       /\ \A i \in 1..n : InOrder(ps)[i] = i - 1 /\ i - 1 \in DOMAIN ps
  BY VisitingOrder
<1> DEFINE L == LeftSides(ps)
           V == [L -> SUBSET Seq(STRING)]
           visited(i, v) == [v EXCEPT ![ps[InOrder(ps)[i]].lhs] = @ \cup FirstOfString(v, k, ps[InOrder(ps)[i]].rhs)]
           Below(u, v) == \A lhs \in L : u[lhs] \subseteq v[lhs]
<1>2. ASSUME NEW i \in 1..n, NEW v \in V
      PROVE  visited(i, v) \in V /\ Below(v, visited(i, v))
  <2> DEFINE x == InOrder(ps)[i]
             name == ps[x].lhs
             more == FirstOfString(v, k, ps[x].rhs)
  <2>1. x \in DOMAIN ps
    BY <1>1
  <2> HIDE DEF x
  <2>2. name \in L /\ ps[x].rhs \in Seq(STRING)
    BY <2>1 DEF LeftSides, GoodProductions
  <2>3. more \subseteq Seq(STRING)
    BY <2>2, FirstIsWide DEF WideFirst
  <2> HIDE DEF more, name
  <2>4. v[name] \cup more \in SUBSET Seq(STRING)
    BY <2>2, <2>3
  <2>5. [v EXCEPT ![name] = @ \cup more] \in V /\ Below(v, [v EXCEPT ![name] = @ \cup more])
    BY <2>2, <2>4
  <2> QED BY <2>5 DEF x, name, more
<1>3. PICK acc \in [0..n -> V] : FirstSweepPath(ps, k, first, n, acc)
  <2>1. first \in V
    BY DEF WideFirst
  <2>2. FirstSweepStays(ps, k, first, n, V)
    <3> HIDE DEF V
    <3> QED BY <1>2, Zenon DEF FirstSweepStays
  <2> HIDE DEF V
  <2> QED BY <1>1, <2>1, <2>2, FirstSweepWorks
<1>4. acc[0] = first /\ acc[n] = first /\ \A i \in 1..n : acc[i] = visited(i, acc[i - 1])
  <2> HIDE DEF V
  <2> QED BY <1>3 DEF FirstSweepPath
<1>5. ASSUME NEW i \in 1..n PROVE Below(acc[i - 1], acc[i]) /\ i - 1 \in 0..n /\ i \in 0..n
  <2>1. i - 1 \in 0..n /\ i \in 0..n
    OBVIOUS
  <2>2. acc[i - 1] \in V
    BY <2>1
  <2> HIDE DEF V, visited, Below
  <2> QED BY <2>1, <2>2, <1>2, <1>4
<1> HIDE DEF V, visited
<1>6. ASSUME NEW i \in 0..n PROVE Below(first, acc[i])
  <2> DEFINE I == {j \in 0..n : Below(first, acc[j])}
  <2>1. 0 \in I
    BY <1>4
  <2>2. ASSUME NEW j \in 1..n, j - 1 \in I PROVE j \in I
    BY <2>2, <1>5
  <2> HIDE DEF I
  <2>3. 0..n \subseteq I
    BY <2>1, <2>2, UpTo
  <2> QED BY <2>3 DEF I
<1>7. ASSUME NEW i \in 0..n PROVE Below(acc[i], first)
  <2> DEFINE I == {j \in 0..n : Below(acc[n - j], first)}
  <2>1. 0 \in I
    BY <1>4
  <2>2. ASSUME NEW j \in 1..n, j - 1 \in I PROVE j \in I
    <3>1. n - j + 1 \in 1..n /\ (n - j + 1) - 1 = n - j /\ n - (j - 1) = n - j + 1 /\ j \in 0..n
      OBVIOUS
    <3>2. Below(acc[n - j], acc[n - j + 1])
      BY <1>5, <3>1
    <3>3. Below(acc[n - j + 1], first)
      BY <2>2, <3>1
    <3> QED BY <3>1, <3>2, <3>3
  <2> HIDE DEF I
  <2>3. 0..n \subseteq I
    BY <2>1, <2>2, UpTo
  <2>4. n - i \in 0..n /\ n - (n - i) = i
    OBVIOUS
  <2> QED BY <2>3, <2>4 DEF I
<1>8. ASSUME NEW i \in 0..n PROVE acc[i] = first
  <2>1. acc[i] \in V /\ first \in V
    BY DEF WideFirst, V
  <2>2. \A lhs \in L : acc[i][lhs] = first[lhs]
    BY <1>6, <1>7
  <2> QED BY <2>1, <2>2 DEF V
<1>9. id + 1 \in 1..n /\ InOrder(ps)[id + 1] = id
  BY <1>1
<1>10. first = visited(id + 1, first)
  <2>1. (id + 1) - 1 \in 0..n /\ id + 1 \in 0..n
    BY <1>9
  <2> QED BY <1>4, <1>8, <1>9, <2>1
<1>11. first = [first EXCEPT ![ps[id].lhs] = @ \cup FirstOfString(first, k, ps[id].rhs)]
  BY <1>9, <1>10 DEF visited
<1>12. ps[id].lhs \in L /\ DOMAIN first = L
  BY DEF LeftSides, WideFirst
<1> DEFINE more == FirstOfString(first, k, ps[id].rhs)
           name == ps[id].lhs
<1>13. first[name] = first[name] \cup more
  <2>1. first = [first EXCEPT ![name] = first[name] \cup more] /\ name \in DOMAIN first
    BY <1>11, <1>12
  <2> HIDE DEF more, name
  <2>2. [first EXCEPT ![name] = first[name] \cup more][name] = first[name] \cup more
    BY <2>1
  <2> QED BY <2>1, <2>2
<1> QED BY <1>13

\* The loop of computeFirstK ends where a round adds nothing.
LEMMA FirstEnds ==
    ASSUME NEW ps, GoodProductions(ps), NEW k \in Nat, k >= 1
    PROVE  /\ BegunWith(ps, k, ComputeFirstK(ps, k))
           /\ FirstSweep(ps, k, ComputeFirstK(ps, k)) = ComputeFirstK(ps, k)
           /\ ComputeFirstK(ps, k) \in [LeftSides(ps) -> SUBSET Bounded(SymbolsOf(ps), k)]
<1> DEFINE L == LeftSides(ps)
           W == Bounded(SymbolsOf(ps), k)
           Z == Seq(STRING)
           S == [L -> SUBSET Z]
           D == {x \in [L -> SUBSET W] : BegunWith(ps, k, x)}
           N == [x \in S |-> FirstSweep(ps, k, x)]
           f == FirstLoop(ps, k)
           start == NoFirst(ps)
<1>1. IsFiniteSet(L) /\ IsFiniteSet(SymbolsOf(ps)) /\ SymbolsOf(ps) \subseteq STRING
  BY LeftSidesAreFinite, SymbolsAreFinite
<1>2. IsFiniteSet(W) /\ W \subseteq Z
  <2>1. IsFiniteSet(W)
    BY <1>1, BoundedIsFinite
  <2>2. ASSUME NEW w \in W PROVE w \in Z
    <3>1. w \in Seq(SymbolsOf(ps))
      BY DEF Bounded
    <3> QED BY <3>1, <1>1
  <2> QED BY <2>1, <2>2
<1>3. Windowed(W, k, SymbolsOf(ps)) /\ Windowed(Z, k, SymbolsOf(ps))
  <2>1. EndOfInput \in SymbolsOf(ps)
    BY DEF SymbolsOf
  <2>2. Windowed(W, k, SymbolsOf(ps))
    BY <2>1, BoundedIsWindowed
  <2> QED BY <1>1, <2>2, AllAreWindowed
<1> HIDE DEF W
<1>4. ASSUME NEW x \in S PROVE FirstSweep(ps, k, x) \in S
  <2>1. FirstSweep(ps, k, x) \in More(L, Z, x)
    BY <1>3, FirstSweepIn
  <2> QED BY <2>1 DEF More
<1>5. ASSUME NEW x \in [L -> SUBSET W] PROVE x \in S /\ FirstSweep(ps, k, x) \in More(L, W, x)
  BY <1>2, <1>3, FirstSweepIn
<1>6. /\ ComputeFirstK(ps, k) = f[start]
      /\ \A x \in S : f[x] = IF FirstSweep(ps, k, x) = x THEN x ELSE f[FirstSweep(ps, k, x)]
  BY FirstLoopIs DEF WideFirst
<1>7. start \in D
  <2>1. start \in [L -> SUBSET W] /\ WideFirst(ps, start) /\ \A lhs \in L : start[lhs] = {}
    BY DEF NoFirst, WideFirst
  <2>2. BegunWith(ps, k, start)
    BY <2>1 DEF BegunWith
  <2> QED BY <2>1, <2>2
<1>8. ASSUME NEW x \in D PROVE x \in S /\ FirstSweep(ps, k, x) \in D
  <2>1. x \in [L -> SUBSET W] /\ BegunWith(ps, k, x)
    OBVIOUS
  <2>2. x \in S /\ FirstSweep(ps, k, x) \in More(L, W, x)
    BY <1>5, <2>1
  <2>3. BegunWith(ps, k, FirstSweep(ps, k, x))
    BY <2>1, SweepBegins
  <2>4. FirstSweep(ps, k, x) \in [L -> SUBSET W]
    BY <2>2 DEF More
  <2> HIDE DEF S
  <2> QED BY <2>2, <2>3, <2>4
<1> HIDE DEF f, start
<1>9. N \in [S -> S] /\ \A x \in S : N[x] = FirstSweep(ps, k, x)
  <2> HIDE DEF S
  <2> QED BY <1>4
<1>10. Inside(L, W, Z, S, D, N)
  <2>1. \A x \in D : N[x] \in D
    <3> HIDE DEF S, D, N
    <3> QED BY <1>8, <1>9
  <2>2. D \subseteq [L -> SUBSET W]
    OBVIOUS
  <2>3. S = [L -> SUBSET Z]
    OBVIOUS
  <2> HIDE DEF S, D, N, L, Z
  <2> QED BY <1>1, <1>2, <2>1, <2>2, <2>3 DEF Inside
<1> HIDE DEF N
<1>11. LoopSolves(f, S, N)
  <2> HIDE DEF S
  <2> QED BY <1>6, <1>9 DEF LoopSolves
<1>12. OnlyAdds(N, L, W)
  <2> HIDE DEF S
  <2> QED BY <1>5, <1>9 DEF OnlyAdds
<1>13. f[start] \in D /\ N[f[start]] = f[start]
  <2> HIDE DEF S, D, L, Z
  <2> QED BY <1>7, <1>9, <1>10, <1>11, <1>12, GrowingLoopIn
<1>14. BegunWith(ps, k, f[start])
  BY <1>13
<1>15. FirstSweep(ps, k, f[start]) = f[start]
  <2>1. f[start] \in S
    BY <1>8, <1>13
  <2> HIDE DEF S
  <2> QED BY <2>1, <1>9, <1>13
<1>16. f[start] \in [L -> SUBSET W]
  BY <1>13
<1>17. f[start] \in [L -> SUBSET Bounded(SymbolsOf(ps), k)]
  BY <1>16, Zenon DEF W
<1> QED BY <1>6, <1>14, <1>15, <1>17

LEMMA BoundedToOne ==
    ASSUME NEW T
    PROVE  Bounded(T, 1) \subseteq Short(T)
<1> SUFFICES ASSUME NEW w \in Seq(T), Len(w) <= 1 PROVE w \in Short(T)
  BY DEF Bounded
<1>1. CASE Len(w) = 0
  BY <1>1 DEF Short
<1>2. CASE Len(w) = 1
  <2>1. w = <<w[1]>> /\ w[1] \in T
    BY <1>2
  <2> QED BY <2>1 DEF Short
<1>3. Len(w) \in Nat
  OBVIOUS
<1> QED BY <1>1, <1>2, <1>3

LEMMA FirstIsTyped ==
    ASSUME NEW ps, GoodProductions(ps)
    PROVE  TypedFirst(ps, ComputeFirstK(ps, 1))
<1>1. ComputeFirstK(ps, 1) \in [LeftSides(ps) -> SUBSET Bounded(SymbolsOf(ps), 1)]
  BY FirstEnds
<1>2. Bounded(SymbolsOf(ps), 1) \subseteq WindowsOf(ps)
  BY BoundedToOne DEF WindowsOf
<1> QED BY <1>1, <1>2 DEF TypedFirst

\* For any grammar and any number of tokens, computeFirstK ends, and with
\* exactly the windows that the texts of a rule begin with.
THEOREM FirstIsThoseOfTexts ==
    ASSUME NEW ps, GoodProductions(ps), NEW k \in Nat, k >= 1
    PROVE  ComputeFirstK(ps, k) = [lhs \in LeftSides(ps) |-> {Truncate(t, k) : t \in DerivedTexts(ps)[lhs]}]
<1> DEFINE L == LeftSides(ps)
           first == ComputeFirstK(ps, k)
           D == DerivedTexts(ps)
           T == [lhs \in L |-> {t \in Seq(STRING) : Truncate(t, k) \in first[lhs]}]
           known == [lhs \in L |-> Beginnings(T[lhs], k)]
<1>1. /\ WideFirst(ps, first) /\ \A lhs \in L : first[lhs] \subseteq Beginnings(D[lhs], k)
      /\ FirstSweep(ps, k, first) = first
  BY FirstEnds DEF BegunWith
<1> HIDE DEF first, D
<1>2. T \in [L -> SUBSET Seq(STRING)]
  OBVIOUS
<1>3. \A lhs \in L : known[lhs] \subseteq first[lhs]
  BY DEF Beginnings
<1>4. WideFirst(ps, known)
  <2>1. \A lhs \in L : known[lhs] \subseteq Seq(STRING)
    BY <1>1, <1>3 DEF WideFirst
  <2> QED BY <2>1 DEF WideFirst
<1>5. ASSUME NEW id \in DOMAIN ps PROVE TextsOf(T, ps[id].rhs) \subseteq T[ps[id].lhs]
  <2>1. ps[id].rhs \in Seq(STRING) /\ ps[id].lhs \in L
    BY DEF GoodProductions, LeftSides
  <2>2. FirstOfString(known, k, ps[id].rhs) = Beginnings(TextsOf(T, ps[id].rhs), k)
    <3> HIDE DEF T, L
    <3> QED BY <1>2, <2>1, BeginningsOfTexts
  <2>3. FirstOfString(known, k, ps[id].rhs) \subseteq FirstOfString(first, k, ps[id].rhs)
    <3> HIDE DEF known
    <3> QED BY <1>1, <1>3, <1>4, <2>1, FirstIsMonotone
  <2>4. FirstOfString(first, k, ps[id].rhs) \subseteq first[ps[id].lhs]
    BY <1>1, SettledFirst
  <2>5. TextsOf(T, ps[id].rhs) \subseteq Seq(STRING)
    <3> HIDE DEF T, L
    <3> QED BY <1>2, <2>1, TextsAreTexts
  <2>6. ASSUME NEW t \in TextsOf(T, ps[id].rhs) PROVE t \in Seq(STRING) /\ Truncate(t, k) \in first[ps[id].lhs]
    <3>1. Truncate(t, k) \in Beginnings(TextsOf(T, ps[id].rhs), k)
      BY DEF Beginnings
    <3> HIDE DEF T, known
    <3> QED BY <2>2, <2>3, <2>4, <2>5, <3>1
  <2> QED BY <2>1, <2>6
<1>6. T \in TextFamilies(ps)
  BY <1>2, <1>5 DEF TextFamilies
<1>7. ASSUME NEW lhs \in L PROVE Beginnings(D[lhs], k) \subseteq first[lhs]
  <2>1. D[lhs] \subseteq T[lhs]
    BY <1>6, DerivedAreClosed DEF D
  <2> QED BY <2>1 DEF Beginnings
<1>8. \A lhs \in L : first[lhs] = Beginnings(D[lhs], k)
  BY <1>1, <1>7
<1>9. first = [lhs \in L |-> Beginnings(D[lhs], k)]
  BY <1>1, <1>8 DEF WideFirst
<1> QED BY <1>9 DEF Beginnings, first, D

=============================================================================
