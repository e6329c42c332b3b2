------------------------ MODULE LRGeneralizedProofs ------------------------
(***************************************************************************)
(* Proofs about the generalized LR driver, for any coherent tables, inputs *)
(* and limits.                                                             *)
(***************************************************************************)
EXTENDS LRGeneralized, LRGeneratedProofs, FiniteSetTheorems, SequenceTheorems

-----------------------------------------------------------------------------
(* The stacks of a round are taken up in ascending order. *)

LEMMA EveryRankIsHeld ==
    ASSUME NEW S, S \subseteq Nat, IsFiniteSet(S), NEW r \in Nat, r < Cardinality(S)
    PROVE  \E m \in S : Cardinality({x \in S : x < m}) = r
<1> DEFINE Lower(m) == {x \in S : x < m}
           Vacant == {q \in Nat : q < Cardinality(S) /\ ~\E m \in S : Cardinality(Lower(m)) = q}
<1>1. Cardinality(S) \in Nat
  BY FS_CardinalityType
<1>2. \A m \in S : IsFiniteSet(Lower(m)) /\ Cardinality(Lower(m)) \in Nat
  BY FS_Subset, FS_CardinalityType
<1>3. CASE Vacant = {}
  BY <1>3
<1>4. CASE Vacant # {}
  <2>1. Vacant \subseteq Nat
    OBVIOUS
  <2>2. PICK q \in Vacant : \A other \in Vacant : q <= other
    BY <1>4, <2>1, HasFirst
  <2>3. q \in Nat /\ q < Cardinality(S) /\ \A m \in S : Cardinality(Lower(m)) # q
    BY <2>2
  <2>4. CASE q = 0
    <3>1. S # {}
      BY <2>3, <2>4, FS_EmptySet
    <3>2. PICK m \in S : \A x \in S : m <= x
      BY <3>1, HasFirst
    <3>3. Lower(m) = {}
      <4>1. \A x \in S : ~(x < m)
        BY <3>2
      <4> QED BY <4>1
    <3>4. Cardinality(Lower(m)) = 0
      BY <3>3, FS_EmptySet
    <3> QED BY <2>3, <2>4, <3>4
  <2>5. CASE q > 0
    <3>1. q - 1 \in Nat /\ q - 1 < Cardinality(S) /\ q - 1 \notin Vacant
      BY <2>2, <2>3, <2>5, <1>1
    <3>2. PICK m \in S : Cardinality(Lower(m)) = q - 1
      BY <3>1
    <3> DEFINE upTo == Lower(m) \cup {m}
               higher == S \ upTo
    <3>3. m \notin Lower(m) /\ m \in Nat
      OBVIOUS
    <3>4. IsFiniteSet(upTo) /\ Cardinality(upTo) = q
      <4>1. Cardinality(upTo) = Cardinality(Lower(m)) + 1 /\ IsFiniteSet(upTo)
        BY <1>2, <3>3, FS_AddElement
      <4> QED BY <4>1, <3>2, <2>3
    <3>5. higher # {}
      <4>1. upTo # S
        BY <3>4, <2>3, <1>1
      <4>2. upTo \subseteq S
        OBVIOUS
      <4> QED BY <4>1, <4>2
    <3>6. PICK next \in higher : \A x \in higher : next <= x
      BY <3>5, HasFirst
    <3>7. Lower(next) = upTo
      <4>1. next \in S /\ next \in Nat /\ ~(next < m) /\ next # m
        BY <3>6
      <4>2. \A x \in upTo : x \in Lower(next)
        BY <4>1, <3>3
      <4>3. \A x \in Lower(next) : x \notin higher
        BY <3>6, <4>1
      <4> QED BY <4>2, <4>3
    <3> QED BY <2>3, <3>4, <3>6, <3>7
  <2> QED BY <2>3, <2>4, <2>5
<1> QED BY <1>3, <1>4

LEMMA AscendingType ==
    ASSUME NEW n \in Nat, NEW S, S \subseteq 1..n
    PROVE  Ascending(S) \in Seq(S)
<1>1. S \subseteq Nat /\ IsFiniteSet(S) /\ Cardinality(S) \in Nat
  <2>1. IsFiniteSet(1..n)
    <3>1. 1 \in Int /\ n \in Int
      OBVIOUS
    <3> QED BY <3>1, FS_Interval
  <2>2. IsFiniteSet(S)
    BY <2>1, FS_Subset
  <2>3. S \subseteq Nat
    OBVIOUS
  <2> QED BY <2>2, <2>3, FS_CardinalityType
<1>2. ASSUME NEW i \in 1..Cardinality(S)
      PROVE  (CHOOSE m \in S : Cardinality({x \in S : x < m}) = i - 1) \in S
  <2>1. i - 1 \in Nat /\ i - 1 < Cardinality(S)
    BY <1>1
  <2>2. \E m \in S : Cardinality({x \in S : x < m}) = i - 1
    BY <1>1, <2>1, EveryRankIsHeld
  <2> QED BY <2>2
<1>3. Ascending(S) \in [1..Cardinality(S) -> S]
  BY <1>2 DEF Ascending
<1> QED BY <1>1, <1>3

-----------------------------------------------------------------------------
(* What is popped for a right-hand side. *)

Pop(st, w) ==
    IF w.base = Root THEN w
    ELSE [base |-> st[w.base].previous, children |-> <<st[w.base].node>> \o w.children]

Start(stack) == [base |-> stack, children |-> <<>>]

Walk(st, stack, count) ==
    CHOOSE walk : walk = [i \in 0..count |-> IF i = 0 THEN Start(stack) ELSE Pop(st, walk[i - 1])]

LEMMA PoppedIsWalked ==
    ASSUME NEW stack, NEW count
    PROVE  Popped(stack, count) = Walk(stacks, stack, count)[count]
BY DEF Popped, Walk, Pop, Start

\* The walk is defined by its equation, since a walk of one step more is made
\* of any walk.
LEMMA WalkExists ==
    ASSUME NEW st, NEW stack, NEW count \in Nat
    PROVE  \E walk : walk = [i \in 0..count |-> IF i = 0 THEN Start(stack) ELSE Pop(st, walk[i - 1])]
<1> DEFINE Is(walk, n) == walk = [i \in 0..n |-> IF i = 0 THEN Start(stack) ELSE Pop(st, walk[i - 1])]
           Missing == {n \in Nat : ~\E walk : Is(walk, n)}
<1>1. CASE Missing = {}
  BY <1>1
<1>2. CASE Missing # {}
  <2>1. Missing \subseteq Nat
    OBVIOUS
  <2>2. PICK n \in Missing : \A other \in Missing : n <= other
    BY <1>2, <2>1, HasFirst
  <2>3. CASE n = 0
    <3> DEFINE walk == [i \in 0..0 |-> Start(stack)]
    <3>1. Is(walk, 0)
      OBVIOUS
    <3> QED BY <2>2, <2>3, <3>1
  <2>4. CASE n > 0
    <3>1. n - 1 \in Nat /\ n - 1 \notin Missing
      <4> HIDE DEF Is
      <4>1. n \in Nat /\ ~(n <= n - 1) /\ n - 1 \in Nat
        BY <2>4
      <4> QED BY <4>1, <2>2
    <3>2. PICK before : Is(before, n - 1)
      BY <3>1
    <3> DEFINE walk == [i \in 0..n |-> IF i < n THEN before[i] ELSE Pop(st, before[n - 1])]
    <3>3. \A i \in 0..(n - 1) : before[i] = IF i = 0 THEN Start(stack) ELSE Pop(st, before[i - 1])
      BY <3>2
    <3>4. \A i \in 0..n : walk[i] = IF i = 0 THEN Start(stack) ELSE Pop(st, walk[i - 1])
      <4> SUFFICES ASSUME NEW i \in 0..n
                   PROVE  walk[i] = IF i = 0 THEN Start(stack) ELSE Pop(st, walk[i - 1])
        OBVIOUS
      <4>1. CASE i = 0
        BY <4>1, <3>3, <2>4, <3>1
      <4>2. CASE i > 0 /\ i < n
        <5>1. i \in 0..(n - 1) /\ i - 1 \in 0..n /\ i - 1 < n
          BY <4>2, <3>1
        <5> QED BY <5>1, <4>2, <3>3
      <4>3. CASE i = n
        <5>1. n - 1 \in 0..n /\ n - 1 < n /\ ~(n < n) /\ n # 0
          BY <3>1, <2>4
        <5> QED BY <5>1, <4>3
      <4> QED BY <4>1, <4>2, <4>3, <3>1
    <3>5. walk = [i \in 0..n |-> walk[i]]
      OBVIOUS
    <3> HIDE DEF walk
    <3>6. Is(walk, n)
      BY <3>4, <3>5
    <3> QED BY <2>2, <3>6
  <2> QED BY <2>2, <2>3, <2>4
<1> QED BY <1>1, <1>2

LEMMA WalkUnfolds ==
    ASSUME NEW st, NEW stack, NEW count \in Nat
    PROVE  /\ Walk(st, stack, count)[0] = Start(stack)
           /\ \A i \in 0..count : i > 0 =>
                 Walk(st, stack, count)[i] = Pop(st, Walk(st, stack, count)[i - 1])
<1> DEFINE walk == Walk(st, stack, count)
<1>1. walk = [i \in 0..count |-> IF i = 0 THEN Start(stack) ELSE Pop(st, walk[i - 1])]
  BY WalkExists DEF Walk
<1> HIDE DEF walk
<1>2. \A i \in 0..count : walk[i] = IF i = 0 THEN Start(stack) ELSE Pop(st, walk[i - 1])
  BY <1>1
<1>3. 0 \in 0..count
  OBVIOUS
<1>4. walk[0] = Start(stack)
  BY <1>2, <1>3
<1>5. \A i \in 0..count : i > 0 => walk[i] = Pop(st, walk[i - 1])
  BY <1>2
<1> QED BY <1>4, <1>5 DEF walk

-----------------------------------------------------------------------------
(* Stacks and forests of a parser p on a text, as any two sequences. *)

Links(p) == [previous : Nat, state : DOMAIN p.items, node : Nat]

Nodes(text) ==
    [key : BOOLEAN \X STRING \X SpansOver(0..Len(text)), span : SpansOver(0..Len(text)),
     alternatives : SUBSET [rule : Nat, children : Seq(Nat)]]

\* Where what a stack has read ends.
EndOf(st, fs, stack) == IF stack = Root THEN 0 ELSE fs[st[stack].node].span.end

\* A stack continues an earlier one along the transition on the symbol of its
\* node, which begins where the earlier one ends, whitespace aside.
Continues(p, text, st, fs, stack) ==
    LET link == st[stack]
        node == fs[link.node]
        edge == <<st[link.previous].state, node.key[2]>>
    IN  /\ link.previous \in 1..(stack - 1) /\ link.node \in DOMAIN fs
        /\ edge \in DOMAIN p.goto /\ link.state = p.goto[edge]
        /\ Blanks(p, text, EndOf(st, fs, link.previous), node.span.begin)

Stacked(p, text, st, fs) ==
    /\ st \in Seq(Links(p)) /\ st # <<>> /\ st[Root] = Bottom
    /\ \A stack \in 2..Len(st) : Continues(p, text, st, fs, stack)

\* What is popped after i of the d members before the dot of production r.
OnTheWay(p, text, st, fs, stack, r, d, i, w) ==
    /\ w.base \in DOMAIN st /\ w.children \in Seq(DOMAIN fs) /\ Len(w.children) = i
    /\ <<r, d - i>> \in p.items[st[w.base].state]
    /\ \A j \in 1..i : fs[w.children[j]].key[2] = p.productions[r].rhs[d - i + j]
    /\ \A j \in 1..(i - 1) :
          Blanks(p, text, fs[w.children[j]].span.end, fs[w.children[j + 1]].span.begin)
    /\ i = 0 => w.base = stack
    /\ i > 0 => /\ Blanks(p, text, EndOf(st, fs, w.base), fs[w.children[1]].span.begin)
                /\ fs[w.children[i]].span.end = EndOf(st, fs, stack)

LEMMA Prepended ==
    ASSUME NEW S, NEW s \in Seq(S), NEW e \in S
    PROVE  /\ <<e>> \o s \in Seq(S)
           /\ Len(<<e>> \o s) = Len(s) + 1
           /\ (<<e>> \o s)[1] = e
           /\ \A j \in 1..Len(s) : (<<e>> \o s)[j + 1] = s[j]
<1> DEFINE t == <<e>> \o s
<1>1. t \in Seq(S) /\ Len(t) = Len(s) + 1 /\ t[1] = e
  OBVIOUS
<1>2. ASSUME NEW j \in 1..Len(s) PROVE t[j + 1] = s[j]
  OBVIOUS
<1> QED BY <1>1, <1>2

LEMMA StackIsLinked ==
    ASSUME NEW p, Coherent(p), NEW text, NEW st, NEW fs, Stacked(p, text, st, fs)
    PROVE  /\ Len(st) \in Nat /\ DOMAIN st = 1..Len(st) /\ 1 \in DOMAIN st
           /\ \A stack \in DOMAIN st : st[stack].state \in DOMAIN p.items
           /\ st[Root].state = 0
<1>1. st \in Seq(Links(p)) /\ st # <<>> /\ st[Root] = Bottom
  BY DEF Stacked
<1>2. Len(st) \in Nat /\ DOMAIN st = 1..Len(st) /\ 1 \in DOMAIN st
  BY <1>1
<1>3. \A stack \in DOMAIN st : st[stack] \in Links(p)
  BY <1>1
<1>4. \A link \in Links(p) : link.state \in DOMAIN p.items
  BY DEF Links
<1> QED BY <1>1, <1>2, <1>3, <1>4 DEF Bottom

LEMMA PopStep ==
    ASSUME NEW p, Coherent(p), NEW text, NEW st, NEW fs, Stacked(p, text, st, fs),
           NEW stack, NEW r, NEW d \in Nat, NEW i \in Nat, i < d, NEW w,
           OnTheWay(p, text, st, fs, stack, r, d, i, w)
    PROVE  OnTheWay(p, text, st, fs, stack, r, d, i + 1, Pop(st, w))
<1> DEFINE b == w.base
           ch == w.children
           link == st[b]
           node == link.node
           edge == <<st[link.previous].state, fs[node].key[2]>>
           ch1 == <<node>> \o ch
<1>1. /\ b \in DOMAIN st /\ ch \in Seq(DOMAIN fs) /\ Len(ch) = i
      /\ <<r, d - i>> \in p.items[st[b].state]
  BY DEF OnTheWay
<1>2. b # Root
  <2>1. \A item \in p.items[0] : item[2] = 0
    BY DEF Coherent, Transitions
  <2>2. d - i # 0
    OBVIOUS
  <2>3. st[Root].state = 0
    BY StackIsLinked
  <2> QED BY <1>1, <2>1, <2>2, <2>3
<1>3. b \in 2..Len(st) /\ Continues(p, text, st, fs, b)
  BY <1>1, <1>2, StackIsLinked DEF Stacked, Root
<1>4. /\ link.previous \in 1..(b - 1) /\ node \in DOMAIN fs
      /\ edge \in DOMAIN p.goto /\ link.state = p.goto[edge]
      /\ Blanks(p, text, EndOf(st, fs, link.previous), fs[node].span.begin)
  BY <1>3 DEF Continues
<1>5. link.previous \in DOMAIN st
  BY <1>3, <1>4, StackIsLinked
<1>6. Pop(st, w) = [base |-> link.previous, children |-> ch1]
  BY <1>2 DEF Pop
<1>7. /\ ch1 \in Seq(DOMAIN fs) /\ Len(ch1) = i + 1 /\ ch1[1] = node
      /\ \A j \in 1..i : ch1[j + 1] = ch[j]
  BY <1>1, <1>4, Prepended
<1>8. p.productions[r].rhs[d - i] = fs[node].key[2] /\ <<r, d - i - 1>> \in p.items[st[link.previous].state]
  <2> DEFINE item == <<r, d - i>>
  <2>1. item \in p.items[p.goto[edge]] /\ item[1] = r /\ item[2] = d - i /\ item[2] > 0
    BY <1>1, <1>4
  <2>2. edge[1] = st[link.previous].state /\ edge[2] = fs[node].key[2]
    OBVIOUS
  <2> HIDE DEF item, edge
  <2>3. p.productions[item[1]].rhs[item[2]] = edge[2] /\ <<item[1], item[2] - 1>> \in p.items[edge[1]]
    BY <1>4, <2>1 DEF Coherent, Transitions
  <2> QED BY <2>1, <2>2, <2>3
<1> HIDE DEF ch1, edge, node
<1>9. ASSUME NEW j \in 1..(i + 1) PROVE fs[ch1[j]].key[2] = p.productions[r].rhs[d - (i + 1) + j]
  <2>1. CASE j = 1
    <3>1. d - (i + 1) + j = d - i
      BY <2>1
    <3> QED BY <2>1, <3>1, <1>7, <1>8
  <2>2. CASE j > 1
    <3>1. j - 1 \in 1..i /\ j - 1 + 1 = j /\ d - i + (j - 1) = d - (i + 1) + j
      BY <2>2
    <3>2. fs[ch[j - 1]].key[2] = p.productions[r].rhs[d - i + (j - 1)]
      BY <3>1 DEF OnTheWay
    <3> QED BY <3>1, <3>2, <1>7
  <2> QED BY <2>1, <2>2
<1>10. ASSUME NEW j \in 1..i
       PROVE  Blanks(p, text, fs[ch1[j]].span.end, fs[ch1[j + 1]].span.begin)
  <2>1. CASE j = 1
    <3>1. Blanks(p, text, EndOf(st, fs, b), fs[ch[1]].span.begin)
      BY <2>1 DEF OnTheWay
    <3>2. EndOf(st, fs, b) = fs[node].span.end
      BY <1>2 DEF EndOf, node
    <3> QED BY <2>1, <3>1, <3>2, <1>7
  <2>2. CASE j > 1
    <3>1. j - 1 \in 1..(i - 1) /\ j - 1 \in 1..i /\ j - 1 + 1 = j
      BY <2>2
    <3>2. Blanks(p, text, fs[ch[j - 1]].span.end, fs[ch[j - 1 + 1]].span.begin)
      BY <3>1 DEF OnTheWay
    <3> QED BY <3>1, <3>2, <1>7
  <2> QED BY <2>1, <2>2
<1>11. Blanks(p, text, EndOf(st, fs, link.previous), fs[ch1[1]].span.begin)
  BY <1>4, <1>7
<1>12. fs[ch1[i + 1]].span.end = EndOf(st, fs, stack)
  <2>1. CASE i = 0
    <3>1. b = stack
      BY <2>1 DEF OnTheWay
    <3> QED BY <2>1, <3>1, <1>2, <1>7 DEF EndOf, node
  <2>2. CASE i > 0
    <3>1. fs[ch[i]].span.end = EndOf(st, fs, stack) /\ i \in 1..i
      BY <2>2 DEF OnTheWay
    <3> QED BY <3>1, <1>7
  <2> QED BY <2>1, <2>2
<1>13. d - (i + 1) = d - i - 1 /\ i + 1 - 1 = i /\ i + 1 # 0
  OBVIOUS
<1>14. Pop(st, w).base = link.previous /\ Pop(st, w).children = ch1
  BY <1>6
<1> HIDE DEF link, b, ch
<1> QED BY <1>5, <1>7, <1>8, <1>9, <1>10, <1>11, <1>12, <1>13, <1>14 DEF OnTheWay

\* All the members of a right-hand side whose dot is at the end are there.
LEMMA PoppedInFull ==
    ASSUME NEW p, Coherent(p), NEW text, NEW st, NEW fs, Stacked(p, text, st, fs),
           NEW stack \in DOMAIN st, NEW r, NEW d \in Nat, <<r, d>> \in p.items[st[stack].state]
    PROVE  OnTheWay(p, text, st, fs, stack, r, d, d, Walk(st, stack, d)[d])
<1> DEFINE w(i) == Walk(st, stack, d)[i]
           Off == {i \in 0..d : ~OnTheWay(p, text, st, fs, stack, r, d, i, w(i))}
<1>1. w(0) = Start(stack) /\ \A i \in 0..d : i > 0 => w(i) = Pop(st, w(i - 1))
  BY WalkUnfolds
<1> HIDE DEF w
<1>2. OnTheWay(p, text, st, fs, stack, r, d, 0, w(0))
  <2>1. w(0).base = stack /\ w(0).children = <<>>
    BY <1>1 DEF Start
  <2>2. <<>> \in Seq(DOMAIN fs) /\ Len(<<>>) = 0 /\ d - 0 = d
    OBVIOUS
  <2>3. <<r, d - 0>> \in p.items[st[w(0).base].state]
    BY <2>1, <2>2
  <2>4. 1..0 = {} /\ 1..(0 - 1) = {}
    OBVIOUS
  <2>5. w(0).children \in Seq(DOMAIN fs) /\ Len(w(0).children) = 0 /\ w(0).base \in DOMAIN st
    BY <2>1, <2>2
  <2> DEFINE v == w(0)
  <2> HIDE DEF v
  <2>6. OnTheWay(p, text, st, fs, stack, r, d, 0, v)
    BY <2>1, <2>3, <2>4, <2>5 DEF OnTheWay, v
  <2> QED BY <2>6 DEF v
<1>3. CASE Off = {}
  <2>1. d \in 0..d
    OBVIOUS
  <2> QED BY <1>3, <2>1 DEF w
<1>4. CASE Off # {}
  <2>1. Off \subseteq Nat
    OBVIOUS
  <2>2. PICK i \in Off : \A k \in Off : i <= k
    <3> HIDE DEF Off
    <3> QED BY <1>4, <2>1, HasFirst
  <2>3. i \in 0..d /\ i # 0 /\ ~OnTheWay(p, text, st, fs, stack, r, d, i, w(i))
    BY <2>2, <1>2
  <2>4. i - 1 \in 0..d /\ i - 1 < d /\ i - 1 + 1 = i /\ ~(i <= i - 1) /\ i > 0 /\ i - 1 \in Nat
    BY <2>3
  <2>5. OnTheWay(p, text, st, fs, stack, r, d, i - 1, w(i - 1))
    BY <2>2, <2>4
  <2>6. OnTheWay(p, text, st, fs, stack, r, d, i - 1 + 1, Pop(st, w(i - 1)))
    BY <2>4, <2>5, PopStep
  <2>7. w(i) = Pop(st, w(i - 1))
    BY <1>1, <2>3, <2>4
  <2> QED BY <2>3, <2>4, <2>6, <2>7
<1> QED BY <1>3, <1>4

-----------------------------------------------------------------------------
(* Interning finds an equal entry or makes a new one at the end. *)

Fresh(terminal, symbol, span) ==
    [key |-> Key(terminal, symbol, span), span |-> span, alternatives |-> {}]

LEMMA NodeIsInterned ==
    ASSUME NEW S, forest \in Seq(S), NEW terminal, NEW symbol, NEW span
    PROVE  LET n == Node(terminal, symbol, span)
               key == Key(terminal, symbol, span)
               after == WithNode(terminal, symbol, span)
           IN  \/ n \in DOMAIN forest /\ forest[n].key = key /\ after = forest
               \/ /\ n = Len(forest) + 1 /\ after = Append(forest, Fresh(terminal, symbol, span))
                  /\ \A j \in DOMAIN forest : forest[j].key # key
<1> DEFINE key == Key(terminal, symbol, span)
           n == Node(terminal, symbol, span)
           Equal == {i \in 1..Len(forest) : forest[i].key = key}
<1>1. Len(forest) \in Nat /\ DOMAIN forest = 1..Len(forest)
  OBVIOUS
<1>2. CASE Equal = {}
  <2>1. SelectInSeq(forest, LAMBDA m : m.key = Key(terminal, symbol, span)) = 0
    BY <1>2 DEF SelectInSeq
  <2>2. n = Len(forest) + 1
    BY <2>1 DEF Node
  <2>3. ~(n <= Len(forest))
    BY <1>1, <2>2
  <2>4. WithNode(terminal, symbol, span) = Append(forest, Fresh(terminal, symbol, span))
    BY <2>3 DEF WithNode, Fresh
  <2>5. \A j \in DOMAIN forest : forest[j].key # key
    BY <1>1, <1>2
  <2> QED BY <2>2, <2>4, <2>5
<1>3. CASE Equal # {}
  <2>1. SelectInSeq(forest, LAMBDA m : m.key = Key(terminal, symbol, span)) = Min(Equal)
    BY <1>3 DEF SelectInSeq
  <2>2. Min(Equal) \in Equal
    <3>1. Equal \subseteq Nat
      OBVIOUS
    <3>2. \E i \in Equal : \A j \in Equal : i <= j
      <4> HIDE DEF Equal
      <4> QED BY <1>3, <3>1, HasFirst
    <3> QED BY <3>2 DEF Min
  <2>3. Min(Equal) # 0
    BY <2>2
  <2>4. n = Min(Equal)
    BY <2>1, <2>3 DEF Node
  <2>5. n \in 1..Len(forest) /\ forest[n].key = key
    BY <2>2, <2>4
  <2>6. n <= Len(forest)
    BY <2>5, <1>1
  <2>7. WithNode(terminal, symbol, span) = forest
    BY <2>6 DEF WithNode
  <2> QED BY <1>1, <2>5, <2>7
<1> QED BY <1>2, <1>3

LEMMA StackIsInterned ==
    ASSUME NEW S, stacks \in Seq(S), NEW previous, NEW state, NEW node
    PROVE  LET i == Stack(previous, state, node)
               link == [previous |-> previous, state |-> state, node |-> node]
               after == WithStack(previous, state, node)
           IN  \/ i \in DOMAIN stacks /\ stacks[i] = link /\ after = stacks
               \/ /\ i = Len(stacks) + 1 /\ after = Append(stacks, link)
                  /\ \A j \in DOMAIN stacks : stacks[j] # link
<1> DEFINE link == [previous |-> previous, state |-> state, node |-> node]
           n == Stack(previous, state, node)
           Equal == {i \in 1..Len(stacks) : stacks[i] = link}
<1>1. Len(stacks) \in Nat /\ DOMAIN stacks = 1..Len(stacks)
  OBVIOUS
<1>2. CASE Equal = {}
  <2>1. SelectInSeq(stacks, LAMBDA s : s = [previous |-> previous, state |-> state, node |-> node]) = 0
    BY <1>2 DEF SelectInSeq
  <2>2. n = Len(stacks) + 1
    BY <2>1 DEF Stack
  <2>3. ~(n <= Len(stacks))
    BY <1>1, <2>2
  <2>4. WithStack(previous, state, node) = Append(stacks, link)
    BY <2>3 DEF WithStack
  <2>5. \A j \in DOMAIN stacks : stacks[j] # link
    BY <1>1, <1>2
  <2> QED BY <2>2, <2>4, <2>5
<1>3. CASE Equal # {}
  <2>1. SelectInSeq(stacks, LAMBDA s : s = [previous |-> previous, state |-> state, node |-> node])
          = Min(Equal)
    BY <1>3 DEF SelectInSeq
  <2>2. Min(Equal) \in Equal
    <3>1. Equal \subseteq Nat
      OBVIOUS
    <3>2. \E i \in Equal : \A j \in Equal : i <= j
      <4> HIDE DEF Equal
      <4> QED BY <1>3, <3>1, HasFirst
    <3> QED BY <3>2 DEF Min
  <2>3. Min(Equal) # 0
    BY <2>2
  <2>4. n = Min(Equal)
    BY <2>1, <2>3 DEF Stack
  <2>5. n \in 1..Len(stacks) /\ stacks[n] = link
    BY <2>2, <2>4
  <2>6. n <= Len(stacks)
    BY <2>5, <1>1
  <2>7. WithStack(previous, state, node) = stacks
    BY <2>6 DEF WithStack
  <2> QED BY <1>1, <2>5, <2>7
<1> QED BY <1>2, <1>3

-----------------------------------------------------------------------------
(* What a node of a forest stands for. *)

ChildSpans(fs, children) == [i \in DOMAIN children |-> fs[children[i]].span]

\* The children spell the right-hand side of a rule for the symbol, one after
\* the other and apart only where the rule has whitespace, and make up the span.
Applies(p, text, fs, rule, children, symbol, span) ==
    /\ rule + 1 \in DOMAIN p.productions /\ LrLhs(p, rule) = symbol
    /\ children \in Seq(DOMAIN fs) /\ Len(children) = LrLength(p, rule)
    /\ \A j \in DOMAIN children : fs[children[j]].key[2] = LrRhs(p, rule)[j]
    /\ InARow(p, text, ChildSpans(fs, children))
    /\ ~SpaceViolation(p, rule, ChildSpans(fs, children))
    /\ \E c \in 0..Len(text) : span = ReducedSpan(p, rule, ChildSpans(fs, children), c)

\* A leaf stands for a token of the text.
LeafIsRead(text, node) ==
    /\ node.span.begin < Len(text) /\ node.span = TokenSpan(node.span.begin)
    /\ node.key[2] = text[node.span.begin + 1]
    /\ node.alternatives = {}

\* Any other node has a reading, and each of its readings applies a rule.
RuleIsApplied(p, text, fs, node) ==
    /\ node.alternatives # {}
    /\ \A a \in node.alternatives : Applies(p, text, fs, a.rule, a.children, node.key[2], node.span)

Stands(p, text, fs, node) ==
    /\ node.key[3] = node.span /\ Ordered(node.span)
    /\ IF node.key[1] THEN LeafIsRead(text, node) ELSE RuleIsApplied(p, text, fs, node)

Forested(p, text, fs) ==
    /\ fs \in Seq(Nodes(text))
    /\ \A n \in DOMAIN fs : Stands(p, text, fs, fs[n])

\* Entries stay where they are; only readings are added to a node.
Grown(fs, fs2) ==
    /\ DOMAIN fs \subseteq DOMAIN fs2
    /\ \A n \in DOMAIN fs : fs2[n].key = fs[n].key /\ fs2[n].span = fs[n].span

LEMMA AppliesStill ==
    ASSUME NEW p, NEW text, NEW fs, NEW fs2, Grown(fs, fs2),
           NEW rule, NEW children, NEW symbol, NEW span,
           Applies(p, text, fs, rule, children, symbol, span)
    PROVE  Applies(p, text, fs2, rule, children, symbol, span)
<1>1. children \in Seq(DOMAIN fs) /\ \A j \in DOMAIN children : children[j] \in DOMAIN fs
  BY DEF Applies
<1>2. children \in Seq(DOMAIN fs2)
  BY <1>1 DEF Grown
<1>3. \A j \in DOMAIN children :
         fs2[children[j]].key = fs[children[j]].key /\ fs2[children[j]].span = fs[children[j]].span
  BY <1>1 DEF Grown
<1>4. ChildSpans(fs2, children) = ChildSpans(fs, children)
  BY <1>3 DEF ChildSpans
<1>5. \A j \in DOMAIN children : fs2[children[j]].key[2] = LrRhs(p, rule)[j]
  BY <1>3 DEF Applies
<1> QED BY <1>2, <1>4, <1>5 DEF Applies

LEMMA EndStays ==
    ASSUME NEW st, NEW fs, NEW fs2, Grown(fs, fs2),
           NEW stack \in DOMAIN st, stack = Root \/ st[stack].node \in DOMAIN fs
    PROVE  EndOf(st, fs2, stack) = EndOf(st, fs, stack)
BY DEF EndOf, Grown

LEMMA StackedStill ==
    ASSUME NEW p, NEW text, NEW st, NEW fs, NEW fs2, Grown(fs, fs2), Stacked(p, text, st, fs)
    PROVE  /\ Stacked(p, text, st, fs2)
           /\ \A stack \in DOMAIN st : EndOf(st, fs2, stack) = EndOf(st, fs, stack)
<1>1. st \in Seq(Links(p)) /\ Len(st) \in Nat /\ DOMAIN st = 1..Len(st)
  BY DEF Stacked
<1>2. \A stack \in 2..Len(st) : Continues(p, text, st, fs, stack)
  BY DEF Stacked
<1>3. \A stack \in DOMAIN st : stack = Root \/ st[stack].node \in DOMAIN fs
  <2> SUFFICES ASSUME NEW stack \in DOMAIN st, stack # Root PROVE st[stack].node \in DOMAIN fs
    OBVIOUS
  <2>1. stack \in 2..Len(st)
    BY <1>1 DEF Root
  <2> QED BY <2>1, <1>2 DEF Continues
<1>4. \A stack \in DOMAIN st : EndOf(st, fs2, stack) = EndOf(st, fs, stack)
  BY <1>3, EndStays
<1>5. ASSUME NEW stack \in 2..Len(st) PROVE Continues(p, text, st, fs2, stack)
  <2> DEFINE node == st[stack].node
             previous == st[stack].previous
  <2>1. /\ previous \in 1..(stack - 1) /\ node \in DOMAIN fs
        /\ <<st[previous].state, fs[node].key[2]>> \in DOMAIN p.goto
        /\ st[stack].state = p.goto[<<st[previous].state, fs[node].key[2]>>]
        /\ Blanks(p, text, EndOf(st, fs, previous), fs[node].span.begin)
    BY <1>2 DEF Continues
  <2>2. previous \in DOMAIN st
    BY <1>1, <2>1
  <2>3. EndOf(st, fs2, previous) = EndOf(st, fs, previous)
    BY <1>4, <2>2
  <2>4. node \in DOMAIN fs2 /\ fs2[node].key = fs[node].key /\ fs2[node].span = fs[node].span
    BY <2>1 DEF Grown
  <2> HIDE DEF node, previous
  <2>5. /\ <<st[previous].state, fs2[node].key[2]>> \in DOMAIN p.goto
        /\ st[stack].state = p.goto[<<st[previous].state, fs2[node].key[2]>>]
        /\ Blanks(p, text, EndOf(st, fs2, previous), fs2[node].span.begin)
    BY <2>1, <2>3, <2>4
  <2> QED BY <2>1, <2>4, <2>5 DEF Continues, node, previous
<1> QED BY <1>4, <1>5 DEF Stacked

\* A stack on top of another, along a transition, for the next node in the text.
LEMMA StackedOneMore ==
    ASSUME NEW p, Coherent(p), NEW text, NEW st, NEW fs, Stacked(p, text, st, fs),
           DOMAIN fs \subseteq Nat,
           NEW previous \in DOMAIN st, NEW node \in DOMAIN fs, NEW state,
           <<st[previous].state, fs[node].key[2]>> \in DOMAIN p.goto,
           state = p.goto[<<st[previous].state, fs[node].key[2]>>],
           Blanks(p, text, EndOf(st, fs, previous), fs[node].span.begin),
           NEW st2, st2 = Append(st, [previous |-> previous, state |-> state, node |-> node])
    PROVE  /\ Stacked(p, text, st2, fs)
           /\ \A stack \in DOMAIN st : EndOf(st2, fs, stack) = EndOf(st, fs, stack)
<1> DEFINE link == [previous |-> previous, state |-> state, node |-> node]
           n == Len(st)
<1>1. n \in Nat /\ DOMAIN st = 1..n /\ n >= 1 /\ st \in Seq(Links(p)) /\ st[Root] = Bottom
  BY StackIsLinked DEF Stacked
<1>2. link \in Links(p)
  <2>1. state \in DOMAIN p.items
    BY DEF Coherent, Transitions
  <2>2. previous \in Nat /\ node \in Nat
    BY <1>1
  <2> QED BY <2>1, <2>2 DEF Links
<1>3. st2 = Append(st, link)
  OBVIOUS
<1>4. link.previous = previous /\ link.state = state /\ link.node = node
  OBVIOUS
<1> HIDE DEF link
<1>5. /\ st2 \in Seq(Links(p)) /\ Len(st2) = n + 1 /\ st2[n + 1] = link
      /\ \A i \in 1..n : st2[i] = st[i]
  BY <1>1, <1>2, <1>3, Appended
<1> HIDE DEF n
<1>6. st2[Root] = Bottom /\ st2 # <<>>
  BY <1>1, <1>5 DEF Root
<1>7. ASSUME NEW stack \in 1..n PROVE EndOf(st2, fs, stack) = EndOf(st, fs, stack)
  BY <1>5 DEF EndOf
<1>8. ASSUME NEW stack \in 2..n PROVE Continues(p, text, st2, fs, stack)
  <2>1. Continues(p, text, st, fs, stack) /\ stack \in 1..n
    BY <1>1 DEF Stacked, n
  <2>2. st2[stack] = st[stack]
    BY <2>1, <1>5
  <2>3. st[stack].previous \in 1..(stack - 1)
    BY <2>1 DEF Continues
  <2>4. st[stack].previous \in 1..n
    BY <2>3, <1>1
  <2>5. st2[st[stack].previous] = st[st[stack].previous]
        /\ EndOf(st2, fs, st[stack].previous) = EndOf(st, fs, st[stack].previous)
    BY <2>4, <1>5, <1>7
  <2> QED BY <2>1, <2>2, <2>5 DEF Continues
<1>9. Continues(p, text, st2, fs, n + 1)
  <2>1. previous \in 1..n /\ previous \in 1..(n + 1 - 1)
    BY <1>1
  <2>2. st2[previous] = st[previous] /\ EndOf(st2, fs, previous) = EndOf(st, fs, previous)
    BY <2>1, <1>5, <1>7
  <2>3. st2[n + 1].previous = previous /\ st2[n + 1].node = node /\ st2[n + 1].state = state
    BY <1>4, <1>5
  <2>4. /\ <<st2[previous].state, fs[node].key[2]>> \in DOMAIN p.goto
        /\ state = p.goto[<<st2[previous].state, fs[node].key[2]>>]
        /\ Blanks(p, text, EndOf(st2, fs, previous), fs[node].span.begin)
    BY <2>2
  <2>5. PICK c : c = n + 1
    OBVIOUS
  <2>6. previous \in 1..(c - 1)
    <3>1. previous \in 1..n /\ n \in Nat /\ c = n + 1
      BY <1>1, <2>1, <2>5
    <3> QED BY <3>1
  <2>7. st2[c].previous = previous /\ st2[c].node = node /\ st2[c].state = state
    BY <2>3, <2>5
  <2>8. Continues(p, text, st2, fs, c)
    BY <2>4, <2>6, <2>7 DEF Continues
  <2> QED BY <2>5, <2>8
<1>10. ASSUME NEW stack \in 2..Len(st2) PROVE Continues(p, text, st2, fs, stack)
  <2>1. stack \in 2..n \/ stack = n + 1
    BY <1>1, <1>5
  <2> QED BY <2>1, <1>8, <1>9
<1> QED BY <1>1, <1>5, <1>6, <1>7, <1>10 DEF Stacked

LEMMA RuleStillApplied ==
    ASSUME NEW p, NEW text, NEW fs, NEW fs2, Grown(fs, fs2), NEW node, RuleIsApplied(p, text, fs, node)
    PROVE  RuleIsApplied(p, text, fs2, node)
BY AppliesStill DEF RuleIsApplied

\* A forest that has grown by one node, new or with one reading more.
LEMMA ForestedStill ==
    ASSUME NEW p, NEW text, NEW fs, NEW fs2, Forested(p, text, fs),
           fs2 \in Seq(Nodes(text)), Grown(fs, fs2),
           NEW x, \A n \in DOMAIN fs2 : n = x \/ (n \in DOMAIN fs /\ fs2[n] = fs[n]),
           Stands(p, text, fs2, fs2[x])
    PROVE  Forested(p, text, fs2)
<1> SUFFICES ASSUME NEW n \in DOMAIN fs2 PROVE Stands(p, text, fs2, fs2[n])
  BY DEF Forested
<1>1. CASE n = x
  BY <1>1
<1>2. CASE n # x
  <2>1. n \in DOMAIN fs /\ fs2[n] = fs[n]
    BY <1>2
  <2>2. Stands(p, text, fs, fs[n])
    BY <2>1 DEF Forested
  <2>3. RuleIsApplied(p, text, fs, fs[n]) => RuleIsApplied(p, text, fs2, fs[n])
    BY RuleStillApplied
  <2> QED BY <2>1, <2>2, <2>3 DEF Stands
<1> QED BY <1>1, <1>2

LEMMA NodeTyped ==
    ASSUME NEW text, NEW terminal \in BOOLEAN, NEW symbol \in STRING, NEW span \in SpansOver(0..Len(text)),
           NEW alternatives, alternatives \subseteq [rule : Nat, children : Seq(Nat)]
    PROVE  [key |-> <<terminal, symbol, span>>, span |-> span, alternatives |-> alternatives] \in Nodes(text)
BY DEF Nodes

LEMMA LeafAdded ==
    ASSUME NEW p, NEW text \in Seq(STRING), NEW fs, Forested(p, text, fs),
           NEW i \in Nat, i < Len(text), NEW fs2,
           \/ fs2 = fs
           \/ fs2 = Append(fs, [key |-> <<TRUE, text[i + 1], TokenSpan(i)>>, span |-> TokenSpan(i),
                                alternatives |-> {}])
    PROVE  Forested(p, text, fs2) /\ Grown(fs, fs2)
<1> DEFINE span == TokenSpan(i)
           leaf == [key |-> <<TRUE, text[i + 1], span>>, span |-> span, alternatives |-> {}]
<1>1. CASE fs2 = fs
  BY <1>1 DEF Grown
<1>2. CASE fs2 = Append(fs, leaf)
  <2>1. fs \in Seq(Nodes(text)) /\ Len(fs) \in Nat /\ DOMAIN fs = 1..Len(fs)
    BY DEF Forested
  <2>2. span \in SpansOver(0..Len(text)) /\ text[i + 1] \in STRING
    BY DEF TokenSpan, SpansOver
  <2>3. leaf \in Nodes(text)
    <3>1. {} \subseteq [rule : Nat, children : Seq(Nat)] /\ TRUE \in BOOLEAN
      OBVIOUS
    <3> HIDE DEF span
    <3> QED BY <3>1, <2>2, NodeTyped
  <2>4. LeafIsRead(text, leaf) /\ Ordered(span) /\ span.begin = i
    <3>1. span.begin = i /\ span.end = i + 1 /\ span.empty = FALSE
      BY DEF TokenSpan
    <3>2. Ordered(span)
      BY <3>1 DEF Ordered
    <3>3. leaf.span = span /\ leaf.key[2] = text[i + 1] /\ leaf.alternatives = {}
      OBVIOUS
    <3>4. leaf.span.begin = i
      BY <3>1, <3>3
    <3>5. leaf.span = TokenSpan(i)
      OBVIOUS
    <3> HIDE DEF leaf, span
    <3>6. LeafIsRead(text, leaf)
      BY <3>3, <3>4, <3>5 DEF LeafIsRead
    <3> QED BY <3>1, <3>2, <3>6
  <2>5. leaf.key[1] = TRUE /\ leaf.key[3] = leaf.span /\ leaf.span = span
    OBVIOUS
  <2> HIDE DEF leaf, span
  <2>6. /\ fs2 \in Seq(Nodes(text)) /\ Len(fs2) = Len(fs) + 1 /\ fs2[Len(fs) + 1] = leaf
        /\ \A n \in 1..Len(fs) : fs2[n] = fs[n]
    BY <1>2, <2>1, <2>3, Appended
  <2>7. Grown(fs, fs2)
    BY <2>1, <2>6 DEF Grown
  <2>8. PICK x : x = Len(fs) + 1
    OBVIOUS
  <2>9. \A n \in DOMAIN fs2 : n = x \/ (n \in DOMAIN fs /\ fs2[n] = fs[n])
    BY <2>1, <2>6, <2>8
  <2>10. fs2[x] = leaf
    BY <2>6, <2>8
  <2>11. /\ fs2[x].key[3] = fs2[x].span /\ Ordered(fs2[x].span)
         /\ fs2[x].key[1] = TRUE /\ LeafIsRead(text, fs2[x])
    BY <2>4, <2>5, <2>10
  <2>12. Forested(p, text, fs2)
    <3>1. Stands(p, text, fs2, fs2[x])
      BY <2>11 DEF Stands
    <3> QED BY <3>1, <2>6, <2>7, <2>9, ForestedStill
  <2> QED BY <2>7, <2>12
<1> QED BY <1>1, <1>2

LEMMA NodeReplaced ==
    ASSUME NEW text, NEW old \in Nodes(text), NEW more
    PROVE  [old EXCEPT !.alternatives = more] = [key |-> old.key, span |-> old.span, alternatives |-> more]
BY DEF Nodes

\* Node n stands for a symbol and a span.
NodeIsFor(fs, n, symbol, span) ==
    n \in DOMAIN fs /\ fs[n].key = <<FALSE, symbol, span>> /\ fs[n].span = span

\* Position n of fs1 is that of the node for the symbol and the span, which is
\* there in fs already or new.
Interned(fs, symbol, span, n, fs1) ==
    \/ n \in DOMAIN fs /\ fs[n].key = <<FALSE, symbol, span>> /\ fs1 = fs
    \/ /\ n = Len(fs) + 1
       /\ fs1 = Append(fs, [key |-> <<FALSE, symbol, span>>, span |-> span, alternatives |-> {}])

LEMMA ReadingAdded ==
    ASSUME NEW p, NEW text, NEW fs, Forested(p, text, fs),
           NEW rule \in Nat, NEW children, NEW symbol \in STRING, NEW span \in SpansOver(0..Len(text)),
           Ordered(span), Applies(p, text, fs, rule, children, symbol, span),
           NEW n, NEW fs1, Interned(fs, symbol, span, n, fs1),
           NEW fs2, fs2 = WithReading(fs1, n, rule, children)
    PROVE  /\ Forested(p, text, fs2) /\ Grown(fs, fs2) /\ DOMAIN fs2 = DOMAIN fs1
           /\ NodeIsFor(fs2, n, symbol, span)
           /\ \A m \in DOMAIN fs2 : fs2[m].key = fs1[m].key
<1> DEFINE fresh == [key |-> <<FALSE, symbol, span>>, span |-> span, alternatives |-> {}]
           reading == [rule |-> rule, children |-> children]
           Readings1 == [rule : Nat, children : Seq(Nat)]
<1>1. fs \in Seq(Nodes(text)) /\ Len(fs) \in Nat /\ DOMAIN fs = 1..Len(fs)
  BY DEF Forested
<1>2. reading \in Readings1
  <2>1. children \in Seq(Nat)
    BY <1>1 DEF Applies
  <2> QED BY <2>1
<1>3. fresh \in Nodes(text)
  <2>1. {} \subseteq Readings1 /\ FALSE \in BOOLEAN
    OBVIOUS
  <2> QED BY <2>1, NodeTyped
<1>4. fresh.key = <<FALSE, symbol, span>> /\ fresh.span = span /\ fresh.alternatives = {}
  OBVIOUS
<1> HIDE DEF fresh
<1>5. /\ fs1 \in Seq(Nodes(text)) /\ n \in DOMAIN fs1 /\ fs1[n].key = <<FALSE, symbol, span>>
      /\ fs1[n].span = span /\ Grown(fs, fs1)
      /\ \A m \in DOMAIN fs1 : m = n \/ (m \in DOMAIN fs /\ fs1[m] = fs[m])
      /\ \A a \in fs1[n].alternatives : Applies(p, text, fs, a.rule, a.children, symbol, span)
  <2>1. CASE n \in DOMAIN fs /\ fs[n].key = <<FALSE, symbol, span>> /\ fs1 = fs
    <3>1. fs[n].key[1] = FALSE /\ fs[n].key[2] = symbol /\ fs[n].key[3] = span
      BY <2>1
    <3>2. fs[n].span = span /\ RuleIsApplied(p, text, fs, fs[n])
      BY <2>1, <3>1 DEF Forested, Stands
    <3>3. Grown(fs, fs1)
      BY <2>1 DEF Grown
    <3>4. \A a \in fs[n].alternatives : Applies(p, text, fs, a.rule, a.children, symbol, span)
      BY <3>1, <3>2 DEF RuleIsApplied
    <3> QED BY <1>1, <2>1, <3>2, <3>3, <3>4
  <2>2. CASE n = Len(fs) + 1 /\ fs1 = Append(fs, fresh)
    <3>1. /\ fs1 \in Seq(Nodes(text)) /\ Len(fs1) = Len(fs) + 1 /\ fs1[n] = fresh
          /\ \A m \in 1..Len(fs) : fs1[m] = fs[m]
      BY <1>1, <1>3, <2>2, Appended
    <3>2. DOMAIN fs1 = 1..(Len(fs) + 1)
      BY <1>1, <3>1
    <3>3. Grown(fs, fs1)
      BY <1>1, <3>1, <3>2 DEF Grown
    <3> DEFINE len == Len(fs)
    <3>4. len \in Nat /\ n = len + 1 /\ DOMAIN fs1 = 1..(len + 1)
      BY <1>1, <2>2, <3>2
    <3> HIDE DEF len
    <3>5. n \in DOMAIN fs1
      BY <3>4
    <3>6. ASSUME NEW m \in DOMAIN fs1, m # n PROVE m \in DOMAIN fs /\ fs1[m] = fs[m]
      <4>1. m \in 1..len
        BY <3>4, <3>6
      <4>2. m \in 1..Len(fs)
        BY <4>1 DEF len
      <4> QED BY <4>2, <1>1, <3>1
    <3> QED BY <1>4, <3>1, <3>3, <3>5, <3>6
  <2> QED BY <2>1, <2>2 DEF fresh, Interned
<1> DEFINE more == fs1[n].alternatives \cup {reading}
           node == [fs1[n] EXCEPT !.alternatives = more]
<1>6. fs2 = [fs1 EXCEPT ![n] = node]
  BY DEF WithReading
<1>7. fs1[n] \in Nodes(text) /\ fs1[n].alternatives \subseteq Readings1
  <2>1. fs1[n] \in Nodes(text)
    BY <1>5
  <2> QED BY <2>1 DEF Nodes
<1>8. node = [key |-> <<FALSE, symbol, span>>, span |-> span, alternatives |-> more]
  <2>1. fs1[n].key = <<FALSE, symbol, span>> /\ fs1[n].span = span
    BY <1>5
  <2>2. node = [key |-> fs1[n].key, span |-> fs1[n].span, alternatives |-> more]
    <3> HIDE DEF more
    <3> QED BY <1>7, NodeReplaced
  <2> QED BY <2>1, <2>2
<1>9. node \in Nodes(text)
  <2>1. more \subseteq Readings1 /\ FALSE \in BOOLEAN
    BY <1>2, <1>7
  <2> HIDE DEF more, Readings1, node
  <2> QED BY <1>8, <2>1, NodeTyped DEF Readings1
<1>10. node.key = <<FALSE, symbol, span>> /\ node.span = span /\ node.alternatives = more
  <2> HIDE DEF more, node
  <2> QED BY <1>8
<1> HIDE DEF node, more
<1>11. /\ fs2 \in Seq(Nodes(text)) /\ DOMAIN fs2 = DOMAIN fs1 /\ fs2[n] = node
       /\ \A m \in DOMAIN fs1 : m # n => fs2[m] = fs1[m]
  BY <1>5, <1>6, <1>9
<1>12. Grown(fs, fs2)
  <2>1. ASSUME NEW m \in DOMAIN fs PROVE fs2[m].key = fs[m].key /\ fs2[m].span = fs[m].span
    <3>1. m \in DOMAIN fs1 /\ fs1[m].key = fs[m].key /\ fs1[m].span = fs[m].span
      BY <1>5 DEF Grown
    <3>2. CASE m = n
      BY <3>1, <3>2, <1>5, <1>10, <1>11
    <3>3. CASE m # n
      BY <3>1, <3>3, <1>11
    <3> QED BY <3>2, <3>3
  <2>2. DOMAIN fs \subseteq DOMAIN fs2
    BY <1>5, <1>11 DEF Grown
  <2> QED BY <2>1, <2>2 DEF Grown
<1>13. RuleIsApplied(p, text, fs2, node)
  <2>1. more # {}
    BY DEF more
  <2>2. \A a \in more : Applies(p, text, fs, a.rule, a.children, symbol, span)
    <3>1. reading.rule = rule /\ reading.children = children
      OBVIOUS
    <3> HIDE DEF reading
    <3> QED BY <1>5, <3>1 DEF more
  <2>3. \A a \in more : Applies(p, text, fs2, a.rule, a.children, symbol, span)
    BY <1>12, <2>2, AppliesStill
  <2>4. node.key[2] = symbol
    BY <1>10
  <2> QED BY <1>10, <2>1, <2>3, <2>4 DEF RuleIsApplied
<1>14. Forested(p, text, fs2)
  <2>1. fs2[n].key[3] = fs2[n].span /\ Ordered(fs2[n].span) /\ fs2[n].key[1] = FALSE
    <3>1. fs2[n].key = <<FALSE, symbol, span>> /\ fs2[n].span = span
      BY <1>10, <1>11
    <3> QED BY <3>1
  <2>2. \A m \in DOMAIN fs2 : m = n \/ (m \in DOMAIN fs /\ fs2[m] = fs[m])
    BY <1>5, <1>11
  <2>3. Stands(p, text, fs2, fs2[n])
    BY <1>11, <1>13, <2>1 DEF Stands
  <2> QED BY <1>11, <1>12, <2>2, <2>3, ForestedStill
<1>15. \A m \in DOMAIN fs2 : fs2[m].key = fs1[m].key
  BY <1>5, <1>10, <1>11
<1> QED BY <1>5, <1>10, <1>11, <1>12, <1>14, <1>15 DEF NodeIsFor
-----------------------------------------------------------------------------
(* The invariant of the driver. *)

Sourced == parser \in DOMAIN Parsers /\ tables = Parsers[parser] /\ input \in Inputs[parser]

Placed ==
    /\ at \in 0..Len(input)
    /\ phase \in {"skip", "round", "evaluate", "accepted", "failed"}
    /\ failure \in {"none", "unexpected token", "unexpected end", "ambiguous", "resource limit"}

\* Every stack spells a path of the automaton from its initial state, and what
\* it has read follows in the input, whitespace aside.
StacksFollowTheAutomaton == Stacked(P, input, stacks, forest)

\* The forest holds nothing but tokens of the input and applications of rules.
ForestIsOfTheGrammar == Forested(P, input, forest)

\* An action of a state is one the automaton has before position i.
SoundAction(p, text, i, state, action) ==
    /\ action.type = "shift" /\ i < Len(text) =>
          /\ <<state, text[i + 1]>> \in DOMAIN p.goto
          /\ p.goto[<<state, text[i + 1]>>] = action.state
    /\ action.type = "reduce" =>
          /\ action.state \in Nat /\ action.state + 1 \in DOMAIN p.productions
          /\ <<action.state + 1, LrLength(p, action.state)>> \in p.items[state]
    /\ action.type = "accept" => <<0, 1>> \in p.items[state]

\* The stacks of a round have read the input up to the position, those of the
\* next round one token more.
RoundIsSound ==
    /\ active \cup closure \cup shifted \subseteq DOMAIN stacks
    /\ pending \in Seq(closure)
    /\ phase = "skip" =>
          /\ todo = {}
          /\ \A stack \in active : Blanks(P, input, EndOf(stacks, forest, stack), at)
    /\ phase = "round" =>
          /\ \A stack \in closure : Blanks(P, input, EndOf(stacks, forest, stack), at)
          /\ \A stack \in shifted : at < Len(input) /\ EndOf(stacks, forest, stack) = at + 1
          /\ todo # {} => top \in closure
          /\ \A action \in todo : SoundAction(P, input, at, stacks[top].state, action)

\* A complete reading is of the rule main and leaves nothing of the input out
\* but whitespace, and that only where its rules have whitespace.
ReadingsCoverTheInput ==
    \A root \in roots :
        /\ at = Len(input) /\ root \in DOMAIN forest
        /\ forest[root].key[2] = "main"
        /\ Blanks(P, input, 0, forest[root].span.begin)
        /\ Blanks(P, input, forest[root].span.end, Len(input))
        /\ forest[root].span.begin # 0 => forest[root].span.leading
        /\ at > forest[root].span.end => forest[root].span.trailing

\* Callbacks are made for the forest the verdict was about: one that has
\* complete readings, without cycles and in one way.
CallbacksAreOfTheOnlyTree ==
    /\ calls # <<>> => phase \in {"evaluate", "accepted"}
    /\ phase \in {"evaluate", "accepted"} =>
          roots # {} /\ ~CyclicReading(forest, roots) /\ Total(forest, roots) = 1

DriverInvariant ==
    /\ Sourced /\ Placed /\ StacksFollowTheAutomaton /\ ForestIsOfTheGrammar
    /\ RoundIsSound /\ ReadingsCoverTheInput /\ CallbacksAreOfTheOnlyTree

LEMMA SourceFacts ==
    ASSUME Sourced
    PROVE  /\ Coherent(P) /\ WellFormed(P) /\ OpenCellsSound(P) /\ P.productions[0].rhs = <<"main">>
           /\ input \in Seq(STRING) /\ Len(input) \in Nat
           /\ \A i \in DOMAIN input : input[i] # EndOfInput
<1>1. P = Parsers[parser] /\ parser \in DOMAIN Parsers /\ input \in Inputs[parser]
  BY DEF Sourced, P
<1>2. Coherent(P) /\ OpenCellsSound(P)
  BY <1>1, TablesAssumption
<1>3. P.productions[0].rhs = <<"main">>
  BY <1>1, StartAssumption
<1>4. input \in Seq(STRING) /\ \A i \in DOMAIN input : input[i] # EndOfInput
  BY <1>1, InputsAssumption
<1>5. WellFormed(P)
  BY <1>2 DEF Coherent
<1> QED BY <1>2, <1>3, <1>4, <1>5

LEMMA Located ==
    ASSUME Sourced, Placed
    PROVE  /\ input \in Seq(STRING) /\ Len(input) \in Nat /\ at \in Nat /\ at <= Len(input)
           /\ (at < Len(input) => at + 1 \in 0..Len(input))
<1>1. input \in Seq(STRING) /\ Len(input) \in Nat
  BY SourceFacts
<1>2. at \in 0..Len(input)
  BY DEF Placed
<1> DEFINE len == Len(input)
<1>3. len \in Nat /\ at \in 0..len
  BY <1>1, <1>2
<1> HIDE DEF len
<1>4. at \in Nat /\ at <= len /\ (at < len => at + 1 \in 0..len)
  BY <1>3
<1> QED BY <1>1, <1>4 DEF len

LEMMA NodeFacts ==
    ASSUME NEW p, NEW text, NEW fs, Forested(p, text, fs)
    PROVE  /\ Len(fs) \in Nat /\ DOMAIN fs = 1..Len(fs)
           /\ \A n \in DOMAIN fs :
                 /\ fs[n].span \in SpansOver(0..Len(text)) /\ fs[n].key[3] = fs[n].span
                 /\ fs[n].span.begin \in 0..Len(text) /\ fs[n].span.end \in 0..Len(text)
                 /\ Ordered(fs[n].span)
<1>1. fs \in Seq(Nodes(text)) /\ \A n \in DOMAIN fs : Stands(p, text, fs, fs[n])
  BY DEF Forested
<1>2. \A n \in DOMAIN fs : fs[n] \in Nodes(text)
  BY <1>1
<1>3. \A node \in Nodes(text) : node.span \in SpansOver(0..Len(text))
  BY DEF Nodes
<1>4. \A span \in SpansOver(0..Len(text)) : span.begin \in 0..Len(text) /\ span.end \in 0..Len(text)
  BY DEF SpansOver
<1> QED BY <1>1, <1>2, <1>3, <1>4 DEF Stands

LEMMA EndsLie ==
    ASSUME NEW p, NEW text \in Seq(STRING), NEW st, NEW fs, Stacked(p, text, st, fs), Forested(p, text, fs)
    PROVE  /\ Len(st) \in Nat /\ DOMAIN st = 1..Len(st) /\ Root \in DOMAIN st
           /\ \A stack \in DOMAIN st :
                 /\ EndOf(st, fs, stack) \in Nat
                 /\ stack # Root => st[stack].node \in DOMAIN fs
<1>1. st \in Seq(Links(p)) /\ st # <<>>
  BY DEF Stacked
<1>2. Len(st) \in Nat /\ DOMAIN st = 1..Len(st) /\ Root \in DOMAIN st
  BY <1>1 DEF Root
<1>3. ASSUME NEW stack \in DOMAIN st, stack # Root PROVE st[stack].node \in DOMAIN fs
  <2>1. stack \in 2..Len(st)
    BY <1>2, <1>3 DEF Root
  <2> QED BY <2>1 DEF Stacked, Continues
<1>4. ASSUME NEW stack \in DOMAIN st PROVE EndOf(st, fs, stack) \in Nat
  <2>1. CASE stack = Root
    BY <2>1 DEF EndOf
  <2>2. CASE stack # Root
    <3>1. fs[st[stack].node].span.end \in 0..Len(text) /\ Len(text) \in Nat
      BY <1>3, <2>2, NodeFacts
    <3> QED BY <2>2, <3>1 DEF EndOf
  <2> QED BY <2>1, <2>2
<1> QED BY <1>2, <1>3, <1>4

-----------------------------------------------------------------------------
(* The actions of the tables. *)

LEMMA CellIsSound ==
    ASSUME NEW p, NEW text, NEW i \in 0..Len(text), Len(text) \in Nat, NEW cell,
           SoundCell(p, cell), cell.window[1] = KindAt(text, i)
    PROVE  SoundAction(p, text, i, cell.state, cell.action)
<1>1. i < Len(text) => KindAt(text, i) = text[i + 1]
  BY DEF KindAt
<1> QED BY <1>1 DEF SoundCell, SoundAction, LrLength, LrRhs

LEMMA ActionsAreSound ==
    ASSUME Sourced, Placed, NEW stack
    PROVE  \A action \in ActionsOf(stack) : SoundAction(P, input, at, stacks[stack].state, action)
<1> DEFINE w == Window(P, input, at)
           s == stacks[stack].state
           selected == LrAction(P, s, w)
<1>1. /\ Coherent(P) /\ WellFormed(P) /\ OpenCellsSound(P) /\ Len(input) \in Nat
      /\ at \in 0..Len(input)
  BY SourceFacts DEF Placed
<1>2. w[1] = KindAt(input, at)
  BY <1>1, WindowStarts
<1>3. ActionsOf(stack) = IF selected = Conflict THEN LrConflict(P, s, w)
                         ELSE IF selected = Invalid THEN {} ELSE {selected}
  BY DEF ActionsOf
<1> HIDE DEF w
<1>4. ASSUME NEW cell, SoundCell(P, cell), Covers(cell, s, w)
      PROVE  SoundAction(P, input, at, s, cell.action)
  <2>1. cell.window \in Seq(STRING) \ {<<>>}
    BY <1>4 DEF SoundCell
  <2>2. 1 \in DOMAIN cell.window
    BY <2>1
  <2>3. cell.window[1] = KindAt(input, at) /\ cell.state = s
    BY <1>2, <1>4, <2>2 DEF Covers
  <2> QED BY <1>1, <1>4, <2>3, CellIsSound
<1> SUFFICES ASSUME NEW action \in ActionsOf(stack) PROVE SoundAction(P, input, at, s, action)
  OBVIOUS
<1>5. CASE selected = Conflict
  <2>1. PICK d \in P.open : Covers(d, s, w) /\ action \in d.actions
    BY <1>3, <1>5 DEF LrConflict
  <2> DEFINE cell == [state |-> d.state, window |-> d.window, action |-> action]
  <2>2. SoundCell(P, cell)
    BY <1>1, <2>1 DEF OpenCellsSound
  <2>3. cell.state = d.state /\ cell.window = d.window /\ cell.action = action
    OBVIOUS
  <2> HIDE DEF cell
  <2>4. Covers(cell, s, w)
    BY <2>1, <2>3 DEF Covers
  <2> QED BY <1>4, <2>2, <2>3, <2>4
<1>6. CASE selected # Conflict
  <2>1. action = selected
    BY <1>3, <1>6
  <2>2. CASE selected.type \in {"shift", "reduce", "accept"}
    <3>1. PICK cell \in P.entries \cup P.decisions :
             SoundCell(P, cell) /\ Covers(cell, s, w) /\ cell.action = selected
      BY <1>1, <2>2, ActionHasCell
    <3> QED BY <1>4, <2>1, <3>1
  <2>3. CASE selected.type \notin {"shift", "reduce", "accept"}
    BY <2>1, <2>3 DEF SoundAction
  <2> QED BY <2>2, <2>3
<1> QED BY <1>5, <1>6
-----------------------------------------------------------------------------
(* Steps that leave the stacks and the forest alone. *)

LEMMA InitiallyInvariant == Init => DriverInvariant
<1> SUFFICES ASSUME Init PROVE DriverInvariant
  OBVIOUS
<1>1. Sourced
  BY DEF Init, Sourced
<1>2. /\ Coherent(P) /\ WellFormed(P) /\ input \in Seq(STRING) /\ Len(input) \in Nat
  BY <1>1, SourceFacts
<1>3. Placed
  BY <1>2 DEF Init, Placed
<1>4. StacksFollowTheAutomaton
  <2>1. stacks = <<Bottom>>
    BY DEF Init
  <2>2. Bottom \in Links(P)
    BY <1>2 DEF WellFormed, Bottom, Links, None
  <2>3. stacks \in Seq(Links(P)) /\ Len(stacks) = 1 /\ stacks # <<>> /\ stacks[Root] = Bottom
    BY <2>1, <2>2 DEF Root
  <2> QED BY <2>3 DEF StacksFollowTheAutomaton, Stacked
<1>5. ForestIsOfTheGrammar
  BY DEF Init, ForestIsOfTheGrammar, Forested
<1>6. RoundIsSound
  <2>1. DOMAIN stacks = {Root} /\ active = {Root} /\ closure = {} /\ shifted = {}
    BY DEF Init, Root
  <2>2. EndOf(stacks, forest, Root) = 0 /\ at = 0
    BY DEF Init, EndOf
  <2>3. \A stack \in active : Blanks(P, input, EndOf(stacks, forest, stack), at)
    BY <2>1, <2>2, BlankHere
  <2>4. pending \in Seq(closure)
    BY DEF Init
  <2> QED BY <2>1, <2>3, <2>4 DEF Init, RoundIsSound
<1>7. ReadingsCoverTheInput /\ CallbacksAreOfTheOnlyTree
  BY DEF Init, ReadingsCoverTheInput, CallbacksAreOfTheOnlyTree
<1> QED BY <1>1, <1>3, <1>4, <1>5, <1>6, <1>7 DEF DriverInvariant

\* What stays as it is when the stacks and the forest do.
LEMMA NothingBuilt ==
    ASSUME DriverInvariant, UNCHANGED <<source, stacks, forest>>
    PROVE  /\ Sourced' /\ StacksFollowTheAutomaton' /\ ForestIsOfTheGrammar'
           /\ P' = P /\ tables' = tables /\ input' = input /\ parser' = parser
           /\ stacks' = stacks /\ forest' = forest
BY DEF DriverInvariant, Sourced, StacksFollowTheAutomaton, ForestIsOfTheGrammar, P, source

LEMMA RootsStay ==
    ASSUME ReadingsCoverTheInput, Grown(forest, forest'),
           UNCHANGED <<tables, input, at, roots>>
    PROVE  ReadingsCoverTheInput'
<1> SUFFICES ASSUME NEW root \in roots
             PROVE  /\ at' = Len(input') /\ root \in DOMAIN forest'
                    /\ forest'[root].key[2] = "main"
                    /\ Blanks(P', input', 0, forest'[root].span.begin)
                    /\ Blanks(P', input', forest'[root].span.end, Len(input'))
                    /\ forest'[root].span.begin # 0 => forest'[root].span.leading
                    /\ at' > forest'[root].span.end => forest'[root].span.trailing
  BY DEF ReadingsCoverTheInput
<1>1. /\ at = Len(input) /\ root \in DOMAIN forest /\ forest[root].key[2] = "main"
      /\ Blanks(P, input, 0, forest[root].span.begin)
      /\ Blanks(P, input, forest[root].span.end, Len(input))
      /\ forest[root].span.begin # 0 => forest[root].span.leading
      /\ at > forest[root].span.end => forest[root].span.trailing
  BY DEF ReadingsCoverTheInput
<1>2. root \in DOMAIN forest' /\ forest'[root].key = forest[root].key /\ forest'[root].span = forest[root].span
  BY <1>1 DEF Grown
<1>3. P' = P
  BY DEF P
<1> QED BY <1>1, <1>2, <1>3

LEMMA GrownAlready ==
    ASSUME NEW fs
    PROVE  Grown(fs, fs)
BY DEF Grown

\* No reading is complete before the end of the input.
LEMMA NoRootsBefore ==
    ASSUME ReadingsCoverTheInput, at \in Nat, at < Len(input)
    PROVE  roots = {}
<1>1. at # Len(input)
  OBVIOUS
<1> QED BY <1>1 DEF ReadingsCoverTheInput

LEMMA SkipSpaceStep ==
    ASSUME DriverInvariant, SkipSpace
    PROVE  DriverInvariant'
<1>1. /\ phase = "skip" /\ at < Len(input) /\ LrIsSpace(P, input[at + 1]) /\ at' = at + 1
      /\ UNCHANGED <<source, stacks, forest, active, pending, closure, shifted, top, todo, roots, calls,
                     phase, failure>>
  BY DEF SkipSpace, AtSpace, branches, verdict
<1>2. /\ Sourced /\ Placed /\ StacksFollowTheAutomaton /\ ForestIsOfTheGrammar
      /\ RoundIsSound /\ ReadingsCoverTheInput /\ CallbacksAreOfTheOnlyTree
  BY DEF DriverInvariant
<1>3. /\ Sourced' /\ StacksFollowTheAutomaton' /\ ForestIsOfTheGrammar'
      /\ P' = P /\ input' = input /\ stacks' = stacks /\ forest' = forest
  BY <1>1, NothingBuilt
<1>4. /\ input \in Seq(STRING) /\ Len(input) \in Nat /\ at \in Nat
      /\ (at < Len(input) => at + 1 \in 0..Len(input))
  BY <1>2, Located
<1>5. Placed'
  BY <1>1, <1>2, <1>3, <1>4 DEF Placed
<1>6. RoundIsSound'
  <2>1. ASSUME NEW stack \in active PROVE Blanks(P, input, EndOf(stacks, forest, stack), at + 1)
    <3>1. Blanks(P, input, EndOf(stacks, forest, stack), at) /\ stack \in DOMAIN stacks
      BY <1>1, <1>2 DEF RoundIsSound
    <3>2. Blanks(P, input, at, at + 1)
      BY <1>1, <1>4 DEF Blanks
    <3>3. EndOf(stacks, forest, stack) \in Int /\ at \in Int /\ at + 1 \in Int
      BY <1>2, <1>4, <3>1, EndsLie DEF StacksFollowTheAutomaton, ForestIsOfTheGrammar
    <3> QED BY <3>1, <3>2, <3>3, BlankJoins
  <2> QED BY <1>1, <1>2, <1>3, <2>1 DEF RoundIsSound
<1>7. roots = {} /\ roots' = {}
  BY <1>1, <1>2, <1>4, NoRootsBefore
<1>8. ReadingsCoverTheInput'
  BY <1>7 DEF ReadingsCoverTheInput
<1>9. CallbacksAreOfTheOnlyTree'
  BY <1>1, <1>2 DEF CallbacksAreOfTheOnlyTree
<1> QED BY <1>3, <1>5, <1>6, <1>8, <1>9 DEF DriverInvariant

LEMMA OpenRoundStep ==
    ASSUME DriverInvariant, OpenRound
    PROVE  DriverInvariant'
<1>1. /\ phase = "skip" /\ phase' = "round" /\ pending' = Ascending(active) /\ closure' = active /\ shifted' = {}
      /\ UNCHANGED <<source, at, stacks, forest, active, top, todo, roots, calls, failure>>
  BY DEF OpenRound
<1>2. /\ Sourced /\ Placed /\ StacksFollowTheAutomaton /\ ForestIsOfTheGrammar
      /\ RoundIsSound /\ ReadingsCoverTheInput /\ CallbacksAreOfTheOnlyTree
  BY DEF DriverInvariant
<1>3. /\ Sourced' /\ StacksFollowTheAutomaton' /\ ForestIsOfTheGrammar' /\ tables' = tables
      /\ P' = P /\ input' = input /\ stacks' = stacks /\ forest' = forest
  BY <1>1, NothingBuilt
<1>4. Placed'
  BY <1>1, <1>2, <1>3 DEF Placed
<1>5. pending' \in Seq(closure')
  <2>1. Len(stacks) \in Nat /\ active \subseteq 1..Len(stacks)
    BY <1>2, EndsLie, SourceFacts DEF RoundIsSound, StacksFollowTheAutomaton, ForestIsOfTheGrammar
  <2> QED BY <1>1, <2>1, AscendingType
<1>6. RoundIsSound'
  <2>1. /\ active \subseteq DOMAIN stacks /\ todo = {}
        /\ \A stack \in active : Blanks(P, input, EndOf(stacks, forest, stack), at)
    BY <1>1, <1>2 DEF RoundIsSound
  <2> QED BY <1>1, <1>3, <1>5, <2>1 DEF RoundIsSound
<1>7. ReadingsCoverTheInput'
  BY <1>1, <1>2, <1>3, GrownAlready, RootsStay
<1>8. CallbacksAreOfTheOnlyTree'
  BY <1>1, <1>2 DEF CallbacksAreOfTheOnlyTree
<1> QED BY <1>3, <1>4, <1>6, <1>7, <1>8 DEF DriverInvariant

LEMMA TakeTopStep ==
    ASSUME DriverInvariant, TakeTop
    PROVE  DriverInvariant'
<1>1. /\ phase = "round" /\ pending # <<>>
      /\ UNCHANGED <<source, at, stacks, forest, active, closure, shifted, roots, calls>>
  BY DEF TakeTop, branches
<1>2. /\ Sourced /\ Placed /\ StacksFollowTheAutomaton /\ ForestIsOfTheGrammar
      /\ RoundIsSound /\ ReadingsCoverTheInput /\ CallbacksAreOfTheOnlyTree
  BY DEF DriverInvariant
<1>3. /\ Sourced' /\ StacksFollowTheAutomaton' /\ ForestIsOfTheGrammar' /\ tables' = tables
      /\ P' = P /\ input' = input /\ stacks' = stacks /\ forest' = forest
  BY <1>1, NothingBuilt
<1>4. ReadingsCoverTheInput'
  BY <1>1, <1>2, <1>3, GrownAlready, RootsStay
<1>5. CASE phase' = "failed" /\ failure' = "resource limit" /\ pending' = pending
  <2>1. Placed'
    BY <1>1, <1>2, <1>3, <1>5 DEF Placed
  <2>2. RoundIsSound'
    BY <1>1, <1>2, <1>5 DEF RoundIsSound
  <2>3. CallbacksAreOfTheOnlyTree'
    BY <1>1, <1>2, <1>5 DEF CallbacksAreOfTheOnlyTree
  <2> QED BY <1>3, <1>4, <2>1, <2>2, <2>3 DEF DriverInvariant
<1>6. CASE /\ top' = Head(pending) /\ todo' = ActionsOf(Head(pending)) /\ pending' = Tail(pending)
           /\ UNCHANGED <<phase, failure>>
  <2>1. Placed'
    BY <1>1, <1>2, <1>3, <1>6 DEF Placed
  <2>2. pending \in Seq(closure)
    BY <1>2 DEF RoundIsSound
  <2>3. top' \in closure /\ pending' \in Seq(closure)
    BY <1>1, <1>6, <2>2
  <2>4. \A action \in todo' : SoundAction(P, input, at, stacks[top'].state, action)
    BY <1>2, <1>6, ActionsAreSound
  <2>5. RoundIsSound'
    BY <1>1, <1>2, <1>3, <1>6, <2>3, <2>4 DEF RoundIsSound
  <2>6. CallbacksAreOfTheOnlyTree'
    BY <1>1, <1>2, <1>6 DEF CallbacksAreOfTheOnlyTree
  <2> QED BY <1>3, <1>4, <2>1, <2>5, <2>6 DEF DriverInvariant
<1> QED BY <1>5, <1>6 DEF TakeTop, Fail, branches, verdict

LEMMA GiveUpStep ==
    ASSUME DriverInvariant, GiveUp
    PROVE  DriverInvariant'
<1>1. /\ phase = "round" /\ phase' = "failed" /\ failure' = "resource limit"
      /\ UNCHANGED <<source, at, stacks, forest, active, pending, closure, shifted, roots, calls>>
  BY DEF GiveUp, Fail, branches
<1>2. /\ Sourced /\ Placed /\ StacksFollowTheAutomaton /\ ForestIsOfTheGrammar
      /\ RoundIsSound /\ ReadingsCoverTheInput /\ CallbacksAreOfTheOnlyTree
  BY DEF DriverInvariant
<1>3. /\ Sourced' /\ StacksFollowTheAutomaton' /\ ForestIsOfTheGrammar' /\ tables' = tables
      /\ P' = P /\ input' = input /\ stacks' = stacks /\ forest' = forest
  BY <1>1, NothingBuilt
<1>4. Placed'
  BY <1>1, <1>2, <1>3 DEF Placed
<1>5. RoundIsSound'
  BY <1>1, <1>2 DEF RoundIsSound
<1>6. ReadingsCoverTheInput'
  BY <1>1, <1>2, <1>3, GrownAlready, RootsStay
<1>7. CallbacksAreOfTheOnlyTree'
  BY <1>1, <1>2 DEF CallbacksAreOfTheOnlyTree
<1> QED BY <1>3, <1>4, <1>5, <1>6, <1>7 DEF DriverInvariant

LEMMA NextTokenStep ==
    ASSUME DriverInvariant, NextToken
    PROVE  DriverInvariant'
<1>1. /\ phase = "round" /\ todo = {} /\ at < Len(input)
      /\ UNCHANGED <<source, stacks, forest, pending, closure, shifted, top, todo, roots, calls>>
  BY DEF NextToken, RoundOver
<1>2. /\ Sourced /\ Placed /\ StacksFollowTheAutomaton /\ ForestIsOfTheGrammar
      /\ RoundIsSound /\ ReadingsCoverTheInput /\ CallbacksAreOfTheOnlyTree
  BY DEF DriverInvariant
<1>3. /\ Sourced' /\ StacksFollowTheAutomaton' /\ ForestIsOfTheGrammar' /\ tables' = tables
      /\ P' = P /\ input' = input /\ stacks' = stacks /\ forest' = forest
  BY <1>1, NothingBuilt
<1>4. /\ input \in Seq(STRING) /\ Len(input) \in Nat /\ at \in Nat
      /\ (at < Len(input) => at + 1 \in 0..Len(input))
  BY <1>2, Located
<1>5. ReadingsCoverTheInput'
  BY <1>1, <1>2, <1>4, NoRootsBefore DEF ReadingsCoverTheInput
<1>6. CASE phase' = "failed" /\ failure' = "unexpected token" /\ UNCHANGED <<at, active>>
  <2>1. Placed'
    BY <1>1, <1>2, <1>3, <1>6 DEF Placed
  <2>2. RoundIsSound'
    BY <1>1, <1>2, <1>6 DEF RoundIsSound
  <2>3. CallbacksAreOfTheOnlyTree'
    BY <1>1, <1>2, <1>6 DEF CallbacksAreOfTheOnlyTree
  <2> QED BY <1>3, <1>5, <2>1, <2>2, <2>3 DEF DriverInvariant
<1>7. CASE active' = shifted /\ at' = at + 1 /\ phase' = "skip" /\ UNCHANGED failure
  <2>1. Placed'
    BY <1>1, <1>2, <1>3, <1>4, <1>7 DEF Placed
  <2>2. ASSUME NEW stack \in shifted PROVE Blanks(P, input, EndOf(stacks, forest, stack), at + 1)
    <3>1. EndOf(stacks, forest, stack) = at + 1 /\ at + 1 \in Int
      BY <1>1, <1>2, <1>4 DEF RoundIsSound
    <3> QED BY <3>1, BlankHere
  <2>3. RoundIsSound'
    BY <1>1, <1>2, <1>3, <1>7, <2>2 DEF RoundIsSound
  <2>4. CallbacksAreOfTheOnlyTree'
    BY <1>1, <1>2, <1>7 DEF CallbacksAreOfTheOnlyTree
  <2> QED BY <1>3, <1>5, <2>1, <2>3, <2>4 DEF DriverInvariant
<1> QED BY <1>6, <1>7 DEF NextToken, Fail

LEMMA JudgeStep ==
    ASSUME DriverInvariant, Judge
    PROVE  DriverInvariant'
<1>1. /\ phase = "round"
      /\ UNCHANGED <<source, at, stacks, forest, active, pending, closure, shifted, top, todo, roots, calls>>
  BY DEF Judge, RoundOver, branches
<1>2. /\ Sourced /\ Placed /\ StacksFollowTheAutomaton /\ ForestIsOfTheGrammar
      /\ RoundIsSound /\ ReadingsCoverTheInput /\ CallbacksAreOfTheOnlyTree
  BY DEF DriverInvariant
<1>3. /\ Sourced' /\ StacksFollowTheAutomaton' /\ ForestIsOfTheGrammar' /\ tables' = tables
      /\ P' = P /\ input' = input /\ stacks' = stacks /\ forest' = forest
  BY <1>1, NothingBuilt
<1>4. \/ phase' = "failed" /\ failure' \in {"unexpected end", "ambiguous"}
      \/ /\ phase' = "evaluate" /\ failure' = failure
         /\ roots # {} /\ ~CyclicReading(forest, roots) /\ Total(forest, roots) = 1
  <2>1. CASE roots = {}
    BY <2>1 DEF Judge, Fail
  <2>2. CASE roots # {} /\ (CyclicReading(forest, roots) \/ Total(forest, roots) # 1)
    BY <2>2 DEF Judge, Fail
  <2>3. CASE roots # {} /\ ~(CyclicReading(forest, roots) \/ Total(forest, roots) # 1)
    BY <2>3 DEF Judge
  <2> QED BY <2>1, <2>2, <2>3
<1>5. Placed'
  BY <1>1, <1>2, <1>3, <1>4 DEF Placed
<1>6. RoundIsSound'
  BY <1>1, <1>2, <1>4 DEF RoundIsSound
<1>7. ReadingsCoverTheInput'
  BY <1>1, <1>2, <1>3, GrownAlready, RootsStay
<1>8. CallbacksAreOfTheOnlyTree'
  BY <1>1, <1>2, <1>3, <1>4 DEF CallbacksAreOfTheOnlyTree
<1> QED BY <1>3, <1>5, <1>6, <1>7, <1>8 DEF DriverInvariant

LEMMA EvaluationStep ==
    ASSUME DriverInvariant, Descend \/ Callback
    PROVE  DriverInvariant'
<1>1. /\ phase = "evaluate" /\ phase' \in {"evaluate", "accepted"} /\ failure' = failure
      /\ UNCHANGED <<source, at, stacks, forest, active, pending, closure, shifted, top, todo, roots>>
  <2>1. CASE Descend
    BY <2>1 DEF Descend, branches, verdict
  <2>2. CASE Callback
    BY <2>2 DEF Callback, branches
  <2> QED BY <2>1, <2>2
<1>2. /\ Sourced /\ Placed /\ StacksFollowTheAutomaton /\ ForestIsOfTheGrammar
      /\ RoundIsSound /\ ReadingsCoverTheInput /\ CallbacksAreOfTheOnlyTree
  BY DEF DriverInvariant
<1>3. /\ Sourced' /\ StacksFollowTheAutomaton' /\ ForestIsOfTheGrammar' /\ tables' = tables
      /\ P' = P /\ input' = input /\ stacks' = stacks /\ forest' = forest
  BY <1>1, NothingBuilt
<1>4. Placed'
  BY <1>1, <1>2, <1>3 DEF Placed
<1>5. RoundIsSound'
  BY <1>1, <1>2 DEF RoundIsSound
<1>6. ReadingsCoverTheInput'
  BY <1>1, <1>2, <1>3, GrownAlready, RootsStay
<1>7. CallbacksAreOfTheOnlyTree'
  BY <1>1, <1>2, <1>3 DEF CallbacksAreOfTheOnlyTree
<1> QED BY <1>3, <1>4, <1>5, <1>6, <1>7 DEF DriverInvariant
-----------------------------------------------------------------------------
(* A complete reading. *)

LEMMA ReadingIsComplete ==
    ASSUME DriverInvariant, phase = "round", todo # {}, <<0, 1>> \in P.items[stacks[top].state],
           top # Root, stacks[top].previous = Root
    PROVE  LET node == stacks[top].node
           IN  /\ node \in DOMAIN forest /\ forest[node].key[2] = "main"
               /\ Blanks(P, input, 0, forest[node].span.begin)
               /\ Blanks(P, input, forest[node].span.end, at)
<1> DEFINE node == stacks[top].node
<1>1. Sourced /\ StacksFollowTheAutomaton /\ ForestIsOfTheGrammar /\ RoundIsSound
  BY DEF DriverInvariant
<1>2. top \in DOMAIN stacks /\ Blanks(P, input, EndOf(stacks, forest, top), at)
  BY <1>1 DEF RoundIsSound
<1>3. Coherent(P) /\ P.productions[0].rhs = <<"main">> /\ input \in Seq(STRING)
  BY <1>1, SourceFacts
<1>4. Stacked(P, input, stacks, forest) /\ Forested(P, input, forest)
  BY <1>1 DEF StacksFollowTheAutomaton, ForestIsOfTheGrammar
<1>5. top \in 2..Len(stacks)
  BY <1>2, <1>3, <1>4, EndsLie DEF Root
<1>6. Continues(P, input, stacks, forest, top)
  BY <1>4, <1>5 DEF Stacked
<1> DEFINE edge == <<stacks[Root].state, forest[node].key[2]>>
<1>7. /\ node \in DOMAIN forest /\ edge \in DOMAIN P.goto /\ stacks[top].state = P.goto[edge]
      /\ Blanks(P, input, EndOf(stacks, forest, Root), forest[node].span.begin)
  BY <1>6 DEF Continues
<1>8. EndOf(stacks, forest, Root) = 0 /\ EndOf(stacks, forest, top) = forest[node].span.end
  BY DEF EndOf
<1>9. forest[node].key[2] = "main"
  <2> DEFINE item == <<0, 1>>
  <2>1. item \in P.items[P.goto[edge]] /\ item[1] = 0 /\ item[2] = 1
    BY <1>7
  <2>2. edge[2] = forest[node].key[2]
    OBVIOUS
  <2> HIDE DEF item, edge
  <2>3. P.productions[item[1]].rhs[item[2]] = edge[2]
    BY <1>3, <1>7, <2>1 DEF Coherent, Transitions
  <2>4. P.productions[0].rhs[1] = "main"
    BY <1>3
  <2> QED BY <2>1, <2>2, <2>3, <2>4
<1> QED BY <1>2, <1>7, <1>8, <1>9

LEMMA AcceptBranchStep ==
    ASSUME DriverInvariant, AcceptBranch
    PROVE  DriverInvariant'
<1>1. PICK action \in todo :
        /\ action.type = "accept" /\ Following(action)
        /\ roots' = IF /\ at = Len(input) /\ top # Root
                       /\ stacks[top].previous = Root
                       /\ ~BoundaryViolation(forest[stacks[top].node].span)
                    THEN roots \cup {stacks[top].node} ELSE roots
        /\ UNCHANGED <<stacks, forest, pending, closure, shifted, verdict>>
  BY DEF AcceptBranch
<1>2. /\ phase = "round" /\ todo # {} /\ todo' \subseteq todo
      /\ UNCHANGED <<source, at, stacks, forest, active, pending, closure, shifted, top, calls, phase, failure>>
  BY <1>1 DEF Following, verdict
<1>3. /\ Sourced /\ Placed /\ StacksFollowTheAutomaton /\ ForestIsOfTheGrammar
      /\ RoundIsSound /\ ReadingsCoverTheInput /\ CallbacksAreOfTheOnlyTree
  BY DEF DriverInvariant
<1>4. /\ Sourced' /\ StacksFollowTheAutomaton' /\ ForestIsOfTheGrammar' /\ tables' = tables
      /\ P' = P /\ input' = input /\ stacks' = stacks /\ forest' = forest
  BY <1>2, NothingBuilt
<1>5. Placed'
  BY <1>2, <1>3, <1>4 DEF Placed
<1>6. RoundIsSound'
  BY <1>2, <1>3, <1>4 DEF RoundIsSound
<1>7. <<0, 1>> \in P.items[stacks[top].state]
  BY <1>1, <1>2, <1>3 DEF RoundIsSound, SoundAction
<1>8. ReadingsCoverTheInput'
  <2>1. CASE roots' = roots
    BY <1>2, <1>3, <1>4, <2>1, GrownAlready, RootsStay
  <2>2. CASE /\ at = Len(input) /\ top # Root /\ stacks[top].previous = Root
             /\ ~BoundaryViolation(forest[stacks[top].node].span)
             /\ roots' = roots \cup {stacks[top].node}
    <3> DEFINE node == stacks[top].node
    <3>1. /\ node \in DOMAIN forest /\ forest[node].key[2] = "main"
          /\ Blanks(P, input, 0, forest[node].span.begin)
          /\ Blanks(P, input, forest[node].span.end, at)
      BY <1>2, <1>7, <2>2, ReadingIsComplete
    <3>2. /\ forest[node].span.begin # 0 => forest[node].span.leading
          /\ at > forest[node].span.end => forest[node].span.trailing
      BY <2>2 DEF BoundaryViolation
    <3>3. Blanks(P, input, forest[node].span.end, Len(input))
      BY <2>2, <3>1
    <3> HIDE DEF node
    <3>4. roots' = roots \cup {node}
      BY <2>2 DEF node
    <3>5. at' = at
      BY <1>2
    <3> QED BY <1>3, <1>4, <2>2, <3>1, <3>2, <3>3, <3>4, <3>5 DEF ReadingsCoverTheInput
  <2> QED BY <1>1, <2>1, <2>2
<1>9. CallbacksAreOfTheOnlyTree'
  BY <1>2, <1>3 DEF CallbacksAreOfTheOnlyTree
<1> QED BY <1>4, <1>5, <1>6, <1>8, <1>9 DEF DriverInvariant

-----------------------------------------------------------------------------
(* Steps that build. *)

\* A stack put on another along a transition is there afterwards, and so are
\* all the others.
LEMMA StackPushed ==
    ASSUME NEW p, Coherent(p), NEW text \in Seq(STRING), NEW fs,
           Stacked(p, text, stacks, fs), Forested(p, text, fs),
           NEW base \in DOMAIN stacks, NEW node \in DOMAIN fs, NEW state,
           <<stacks[base].state, fs[node].key[2]>> \in DOMAIN p.goto,
           state = p.goto[<<stacks[base].state, fs[node].key[2]>>],
           Blanks(p, text, EndOf(stacks, fs, base), fs[node].span.begin),
           NEW dest, dest = Stack(base, state, node),
           NEW after, after = WithStack(base, state, node)
    PROVE  /\ Stacked(p, text, after, fs) /\ DOMAIN stacks \subseteq DOMAIN after
           /\ \A s \in DOMAIN stacks : after[s] = stacks[s] /\ EndOf(after, fs, s) = EndOf(stacks, fs, s)
           /\ dest \in DOMAIN after /\ EndOf(after, fs, dest) = fs[node].span.end
<1> DEFINE link == [previous |-> base, state |-> state, node |-> node]
<1>1. stacks \in Seq(Links(p)) /\ Len(stacks) \in Nat /\ DOMAIN stacks = 1..Len(stacks) /\ stacks[Root] = Bottom
  BY EndsLie DEF Stacked
<1>2. link.previous = base /\ link.node = node
  OBVIOUS
<1>3. \/ dest \in DOMAIN stacks /\ stacks[dest] = link /\ after = stacks
      \/ dest = Len(stacks) + 1 /\ after = Append(stacks, link)
  BY <1>1, StackIsInterned
<1> HIDE DEF link
<1>4. CASE dest \in DOMAIN stacks /\ stacks[dest] = link /\ after = stacks
  <2>1. dest # Root
    <3>1. stacks[dest].previous # 0
      BY <1>1, <1>2, <1>4
    <3> QED BY <1>1, <3>1 DEF Bottom, None
  <2>2. EndOf(after, fs, dest) = fs[node].span.end
    BY <1>2, <1>4, <2>1 DEF EndOf
  <2> QED BY <1>4, <2>2
<1>5. CASE dest = Len(stacks) + 1 /\ after = Append(stacks, link)
  <2>1. Stacked(p, text, after, fs)
    <3>1. DOMAIN fs \subseteq Nat
      BY NodeFacts
    <3>2. after = Append(stacks, [previous |-> base, state |-> state, node |-> node])
      BY <1>5 DEF link
    <3> QED BY <3>1, <3>2, StackedOneMore
  <2>2. link \in Links(p)
    <3>1. after \in Seq(Links(p))
      BY <2>1 DEF Stacked
    <3>2. Len(after) = Len(stacks) + 1 /\ after[Len(stacks) + 1] = link
      BY <1>1, <1>5
    <3> QED BY <1>1, <3>1, <3>2
  <2>3. /\ Len(after) = Len(stacks) + 1 /\ after[dest] = link
        /\ \A s \in 1..Len(stacks) : after[s] = stacks[s]
    BY <1>1, <1>5, <2>2, Appended
  <2> DEFINE len == Len(stacks)
  <2>4. after \in Seq(Links(p)) /\ len \in Nat /\ Len(after) = len + 1 /\ dest = len + 1
        /\ DOMAIN stacks = 1..len
    BY <1>1, <1>5, <2>1, <2>3 DEF Stacked
  <2> HIDE DEF len
  <2>5. dest \in DOMAIN after /\ DOMAIN stacks \subseteq DOMAIN after
    BY <2>4
  <2>6. dest # Root
    <3>1. Root \in 1..len
      BY <2>4, EndsLie
    <3> QED BY <2>4, <3>1
  <2>7. EndOf(after, fs, dest) = fs[node].span.end
    BY <1>2, <2>3, <2>6 DEF EndOf
  <2>8. \A s \in DOMAIN stacks : after[s] = stacks[s] /\ EndOf(after, fs, s) = EndOf(stacks, fs, s)
    BY <1>1, <2>3 DEF EndOf
  <2> QED BY <2>1, <2>5, <2>7, <2>8
<1> QED BY <1>3, <1>4, <1>5

LEMMA ShiftBranchStep ==
    ASSUME DriverInvariant, ShiftBranch
    PROVE  DriverInvariant'
<1>1. PICK action \in todo :
        /\ action.type = "shift" /\ Following(action)
        /\ IF at = Len(input) THEN UNCHANGED <<stacks, forest, shifted>>
           ELSE LET token == input[at + 1]
                    leaf == Node(TRUE, token, TokenSpan(at))
                IN  /\ forest' = WithNode(TRUE, token, TokenSpan(at))
                    /\ stacks' = WithStack(top, action.state, leaf)
                    /\ shifted' = shifted \cup {Stack(top, action.state, leaf)}
        /\ UNCHANGED <<pending, closure, roots, verdict>>
  BY DEF ShiftBranch
<1>2. /\ phase = "round" /\ todo # {} /\ todo' \subseteq todo
      /\ UNCHANGED <<parser, tables, input, at, active, pending, closure, top, calls, roots, phase, failure>>
  BY <1>1 DEF Following, verdict, source
<1>3. /\ Sourced /\ Placed /\ StacksFollowTheAutomaton /\ ForestIsOfTheGrammar
      /\ RoundIsSound /\ ReadingsCoverTheInput /\ CallbacksAreOfTheOnlyTree
  BY DEF DriverInvariant
<1>4. /\ Coherent(P) /\ input \in Seq(STRING) /\ Len(input) \in Nat /\ at \in Nat /\ at <= Len(input)
  BY <1>3, SourceFacts, Located
<1>5. P' = P /\ Sourced' /\ Placed' /\ CallbacksAreOfTheOnlyTree'
  BY <1>2, <1>3 DEF P, Sourced, Placed, CallbacksAreOfTheOnlyTree
<1>6. CASE at = Len(input)
  <2>1. UNCHANGED <<source, stacks, forest, shifted>>
    BY <1>1, <1>2, <1>6 DEF source
  <2>2. StacksFollowTheAutomaton' /\ ForestIsOfTheGrammar'
    BY <2>1, NothingBuilt
  <2>3. RoundIsSound'
    BY <1>2, <1>3, <1>5, <2>1 DEF RoundIsSound
  <2>4. ReadingsCoverTheInput'
    BY <1>2, <1>3, <2>1, GrownAlready, RootsStay
  <2> QED BY <1>5, <2>2, <2>3, <2>4 DEF DriverInvariant
<1>7. CASE at < Len(input)
  <2> DEFINE token == input[at + 1]
             span == TokenSpan(at)
             leaf == Node(TRUE, token, span)
             dest == Stack(top, action.state, leaf)
  <2>1. /\ forest' = WithNode(TRUE, token, span) /\ stacks' = WithStack(top, action.state, leaf)
        /\ shifted' = shifted \cup {dest}
    <3>1. at # Len(input)
      BY <1>4, <1>7
    <3> QED BY <1>1, <3>1
  <2>2. Stacked(P, input, stacks, forest) /\ Forested(P, input, forest) /\ forest \in Seq(Nodes(input))
    BY <1>3 DEF StacksFollowTheAutomaton, ForestIsOfTheGrammar, Forested
  <2>3. \/ leaf \in DOMAIN forest /\ forest[leaf].key = <<TRUE, token, span>> /\ forest' = forest
        \/ /\ leaf = Len(forest) + 1
           /\ forest' = Append(forest, [key |-> <<TRUE, token, span>>, span |-> span, alternatives |-> {}])
    BY <2>1, <2>2, NodeIsInterned DEF Key, Fresh
  <2>4. Forested(P, input, forest') /\ Grown(forest, forest')
    BY <1>4, <1>7, <2>2, <2>3, LeafAdded
  <2>5. leaf \in DOMAIN forest' /\ forest'[leaf].key = <<TRUE, token, span>>
    <3>1. CASE leaf \in DOMAIN forest /\ forest[leaf].key = <<TRUE, token, span>> /\ forest' = forest
      BY <3>1
    <3>2. CASE /\ leaf = Len(forest) + 1
               /\ forest' = Append(forest, [key |-> <<TRUE, token, span>>, span |-> span, alternatives |-> {}])
      <4> DEFINE fresh == [key |-> <<TRUE, token, span>>, span |-> span, alternatives |-> {}]
      <4>1. fresh.key = <<TRUE, token, span>>
        OBVIOUS
      <4> HIDE DEF fresh
      <4>2. Len(forest) \in Nat /\ Len(forest') = Len(forest) + 1 /\ forest'[Len(forest) + 1] = fresh
        BY <2>2, <3>2 DEF fresh
      <4> DEFINE len == Len(forest)
      <4>3. DOMAIN forest' = 1..(len + 1) /\ len \in Nat /\ leaf = len + 1 /\ forest'[len + 1] = fresh
        BY <4>2, <2>4, <3>2, NodeFacts
      <4> HIDE DEF leaf, token, span, len
      <4>4. leaf \in DOMAIN forest'
        BY <4>3
      <4>5. forest'[leaf].key = <<TRUE, token, span>>
        BY <4>1, <4>3
      <4> QED BY <4>4, <4>5
    <3> QED BY <2>3, <3>1, <3>2
  <2>6. forest'[leaf].key[2] = token /\ forest'[leaf].span = span
    <3> HIDE DEF leaf, token, span
    <3>1. forest'[leaf].key[2] = token /\ forest'[leaf].key[3] = span
      BY <2>5
    <3>2. forest'[leaf].key[3] = forest'[leaf].span
      BY <2>4, <2>5, NodeFacts
    <3> QED BY <3>1, <3>2
  <2>7. span.begin = at /\ span.end = at + 1
    BY DEF TokenSpan
  <2> HIDE DEF token, span, leaf, dest
  <2>8. top \in DOMAIN stacks /\ Blanks(P, input, EndOf(stacks, forest, top), at)
    BY <1>2, <1>3 DEF RoundIsSound
  <2>9. <<stacks[top].state, token>> \in DOMAIN P.goto /\ P.goto[<<stacks[top].state, token>>] = action.state
    BY <1>1, <1>2, <1>3, <1>7 DEF RoundIsSound, SoundAction, token
  <2>10. /\ Stacked(P, input, stacks, forest')
         /\ \A s \in DOMAIN stacks : EndOf(stacks, forest', s) = EndOf(stacks, forest, s)
    <3>1. Stacked(P, input, stacks, forest) /\ Grown(forest, forest')
      BY <2>2, <2>4
    <3>2. Stacked(P, input, stacks, forest')
      BY <3>1, StackedStill
    <3>3. ASSUME NEW s \in DOMAIN stacks PROVE EndOf(stacks, forest', s) = EndOf(stacks, forest, s)
      <4>1. s = Root \/ stacks[s].node \in DOMAIN forest
        BY <2>2, <1>4, EndsLie
      <4> QED BY <3>1, <4>1, EndStays
    <3> QED BY <3>2, <3>3
  <2>11. /\ Stacked(P, input, stacks', forest') /\ DOMAIN stacks \subseteq DOMAIN stacks'
         /\ \A s \in DOMAIN stacks : stacks'[s] = stacks[s] /\ EndOf(stacks', forest', s) = EndOf(stacks, forest', s)
         /\ dest \in DOMAIN stacks' /\ EndOf(stacks', forest', dest) = forest'[leaf].span.end
    <3>1. Blanks(P, input, EndOf(stacks, forest', top), forest'[leaf].span.begin)
      BY <2>6, <2>7, <2>8, <2>10
    <3>2. /\ <<stacks[top].state, forest'[leaf].key[2]>> \in DOMAIN P.goto
          /\ action.state = P.goto[<<stacks[top].state, forest'[leaf].key[2]>>]
      BY <2>6, <2>9
    <3>3. dest = Stack(top, action.state, leaf) /\ stacks' = WithStack(top, action.state, leaf)
      BY <2>1 DEF dest
    <3> QED BY <1>4, <2>4, <2>5, <2>8, <2>10, <3>1, <3>2, <3>3, StackPushed
  <2>12. StacksFollowTheAutomaton' /\ ForestIsOfTheGrammar'
    BY <1>2, <1>5, <2>4, <2>11 DEF StacksFollowTheAutomaton, ForestIsOfTheGrammar
  <2>13. \A s \in DOMAIN stacks : stacks'[s] = stacks[s] /\ EndOf(stacks', forest', s) = EndOf(stacks, forest, s)
    BY <2>10, <2>11
  <2>14. EndOf(stacks', forest', dest) = at + 1
    BY <2>6, <2>7, <2>11
  <2>15. shifted' = shifted \cup {dest}
    BY <2>1 DEF dest
  <2>16. RoundIsSound'
    <3>1. /\ active \cup closure \cup shifted \subseteq DOMAIN stacks /\ pending \in Seq(closure)
          /\ \A stack \in closure : Blanks(P, input, EndOf(stacks, forest, stack), at)
          /\ \A stack \in shifted : EndOf(stacks, forest, stack) = at + 1
          /\ top \in closure
          /\ \A a \in todo : SoundAction(P, input, at, stacks[top].state, a)
      BY <1>2, <1>3 DEF RoundIsSound
    <3>2. active' \cup closure' \cup shifted' \subseteq DOMAIN stacks' /\ pending' \in Seq(closure')
      BY <1>2, <2>11, <2>15, <3>1
    <3>3. \A stack \in closure' : Blanks(P', input', EndOf(stacks', forest', stack), at')
      BY <1>2, <1>5, <2>13, <3>1
    <3>4. \A stack \in shifted' : at' < Len(input') /\ EndOf(stacks', forest', stack) = at' + 1
      BY <1>2, <1>7, <2>13, <2>14, <2>15, <3>1
    <3>5. top' \in closure' /\ \A a \in todo' : SoundAction(P', input', at', stacks'[top'].state, a)
      BY <1>2, <1>5, <2>8, <2>13, <3>1
    <3> QED BY <1>2, <3>2, <3>3, <3>4, <3>5 DEF RoundIsSound
  <2>17. ReadingsCoverTheInput'
    BY <1>2, <1>3, <2>4, RootsStay
  <2> QED BY <1>5, <2>12, <2>16, <2>17 DEF DriverInvariant
<1> QED BY <1>4, <1>6, <1>7
\* What a reduction pops makes up the right-hand side of its rule, in a row up
\* to the position, and there is a transition on the left-hand side from where
\* the pops end.
LEMMA PoppedMakesUp ==
    ASSUME DriverInvariant, phase = "round", NEW action \in todo, action.type = "reduce"
    PROVE  LET rule == action.state
               popped == Popped(top, LrLength(P, rule))
               children == popped.children
               spans == SpansOf(children)
           IN  /\ rule \in Nat /\ rule + 1 \in DOMAIN P.productions
               /\ popped.base \in DOMAIN stacks
               /\ <<stacks[popped.base].state, LrLhs(P, rule)>> \in DOMAIN P.goto
               /\ children \in Seq(DOMAIN forest) /\ Len(children) = LrLength(P, rule)
               /\ \A j \in DOMAIN children : forest[children[j]].key[2] = LrRhs(P, rule)[j]
               /\ spans = ChildSpans(forest, children) /\ spans \in Seq(SpansOver(0..Len(input)))
               /\ spans \in Seq(SpansOver(Int)) /\ InARow(P, input, spans)
               /\ IF spans = <<>> THEN Blanks(P, input, EndOf(stacks, forest, popped.base), at)
                  ELSE /\ Blanks(P, input, EndOf(stacks, forest, popped.base), spans[1].begin)
                       /\ Blanks(P, input, spans[Len(spans)].end, at)
<1> DEFINE rule == action.state
           r == rule + 1
           d == LrLength(P, rule)
           popped == Popped(top, d)
           children == popped.children
           spans == SpansOf(children)
           base == popped.base
<1>1. Sourced /\ Placed /\ StacksFollowTheAutomaton /\ ForestIsOfTheGrammar /\ RoundIsSound
  BY DEF DriverInvariant
<1>2. Coherent(P) /\ WellFormed(P) /\ input \in Seq(STRING) /\ Len(input) \in Nat
  BY <1>1, SourceFacts
<1>3. Stacked(P, input, stacks, forest) /\ Forested(P, input, forest)
  BY <1>1 DEF StacksFollowTheAutomaton, ForestIsOfTheGrammar
<1>4. top \in DOMAIN stacks /\ Blanks(P, input, EndOf(stacks, forest, top), at)
  BY <1>1 DEF RoundIsSound
<1>5. rule \in Nat /\ r \in DOMAIN P.productions /\ <<r, d>> \in P.items[stacks[top].state]
  BY <1>1 DEF RoundIsSound, SoundAction
<1>6. P.productions[r].rhs \in Seq(STRING) /\ d = Len(P.productions[r].rhs) /\ d \in Nat
      /\ LrLhs(P, rule) = P.productions[r].lhs /\ LrRhs(P, rule) = P.productions[r].rhs
  BY <1>2, <1>5 DEF WellFormed, LrLength, LrRhs, LrLhs
<1>7. popped = Walk(stacks, top, d)[d]
  BY PoppedIsWalked
<1>8. OnTheWay(P, input, stacks, forest, top, r, d, d, popped)
  <2> HIDE DEF d, r, popped
  <2>1. OnTheWay(P, input, stacks, forest, top, r, d, d, Walk(stacks, top, d)[d])
    BY <1>2, <1>3, <1>4, <1>5, <1>6, PoppedInFull
  <2> QED BY <1>7, <2>1
<1> HIDE DEF popped, r, d
<1>9. /\ base \in DOMAIN stacks /\ children \in Seq(DOMAIN forest) /\ Len(children) = d
      /\ <<r, d - d>> \in P.items[stacks[base].state]
      /\ \A j \in 1..d : forest[children[j]].key[2] = P.productions[r].rhs[d - d + j]
      /\ \A j \in 1..(d - 1) :
            Blanks(P, input, forest[children[j]].span.end, forest[children[j + 1]].span.begin)
      /\ d = 0 => base = top
      /\ d > 0 => /\ Blanks(P, input, EndOf(stacks, forest, base), forest[children[1]].span.begin)
                  /\ forest[children[d]].span.end = EndOf(stacks, forest, top)
  BY <1>8 DEF OnTheWay
<1>10. <<stacks[base].state, LrLhs(P, rule)>> \in DOMAIN P.goto
  <2> DEFINE item == <<r, 0>>
  <2>1. d - d = 0 /\ r # 0
    BY <1>5, <1>6 DEF r
  <2>2. item \in P.items[stacks[base].state] /\ item[1] = r /\ item[2] = 0
    BY <1>9, <2>1
  <2>3. stacks[base].state \in DOMAIN P.items
    BY <1>2, <1>3, <1>9, StackIsLinked
  <2> HIDE DEF item
  <2>4. <<stacks[base].state, P.productions[item[1]].lhs>> \in DOMAIN P.goto
    BY <1>2, <2>1, <2>2, <2>3 DEF Coherent, GotosExist
  <2> QED BY <1>6, <2>2, <2>4
<1>11. \A j \in DOMAIN children : forest[children[j]].key[2] = LrRhs(P, rule)[j]
  <2>1. \A j \in 1..d : d - d + j = j
    BY <1>6
  <2>2. DOMAIN children = 1..d
    BY <1>9
  <2> QED BY <1>6, <1>9, <2>1, <2>2
<1>12. spans = [i \in 1..d |-> forest[children[i]].span] /\ spans = ChildSpans(forest, children)
  <2>1. DOMAIN children = 1..d
    BY <1>9
  <2> QED BY <2>1 DEF SpansOf, ChildSpans
<1>13. \A i \in 1..d : /\ children[i] \in DOMAIN forest
                       /\ forest[children[i]].span \in SpansOver(0..Len(input))
                       /\ Ordered(forest[children[i]].span)
  BY <1>3, <1>9, NodeFacts
<1>14. \A span \in SpansOver(0..Len(input)) : span \in SpansOver(Int)
  BY <1>2 DEF SpansOver
<1> HIDE DEF spans
<1>15. spans \in Seq(SpansOver(0..Len(input))) /\ spans \in Seq(SpansOver(Int)) /\ Len(spans) = d
       /\ DOMAIN spans = 1..d
  <2> DEFINE S == SpansOver(0..Len(input))
             T == SpansOver(Int)
  <2>1. (\A i \in 1..d : forest[children[i]].span \in S) /\ \A span \in S : span \in T
    BY <1>13, <1>14
  <2> HIDE DEF S, T
  <2>2. spans \in Seq(S) /\ spans \in Seq(T) /\ Len(spans) = d /\ DOMAIN spans = 1..d
    BY <1>6, <1>12, <2>1
  <2> QED BY <2>2 DEF S, T
<1>16. \A j \in 1..d : spans[j] = forest[children[j]].span
  BY <1>12
<1>17. InARow(P, input, spans)
  <2>1. ASSUME NEW j \in 1..d, j + 1 \in 1..d PROVE Blanks(P, input, spans[j].end, spans[j + 1].begin)
    <3>1. j \in 1..(d - 1)
      BY <1>6, <2>1
    <3> QED BY <1>9, <1>16, <2>1, <3>1
  <2> QED BY <1>13, <1>15, <1>16, <2>1 DEF InARow
<1>18. IF spans = <<>> THEN Blanks(P, input, EndOf(stacks, forest, base), at)
       ELSE /\ Blanks(P, input, EndOf(stacks, forest, base), spans[1].begin)
            /\ Blanks(P, input, spans[Len(spans)].end, at)
  <2>1. CASE d = 0
    <3>1. spans = <<>> /\ base = top
      BY <1>9, <1>15, <2>1
    <3> QED BY <1>4, <3>1
  <2>2. CASE d > 0
    <3>1. spans # <<>> /\ 1 \in 1..d /\ d \in 1..d
      BY <1>6, <1>15, <2>2
    <3> QED BY <1>4, <1>9, <1>15, <1>16, <2>2, <3>1
  <2> QED BY <1>6, <2>1, <2>2
<1> QED BY <1>5, <1>9, <1>10, <1>11, <1>12, <1>15, <1>17, <1>18 DEF popped, r, d, spans

LEMMA ReduceBranchStep ==
    ASSUME DriverInvariant, ReduceBranch
    PROVE  DriverInvariant'
<1>1. PICK action \in todo :
        /\ action.type = "reduce" /\ Following(action)
        /\ \E popped \in {Popped(top, LrLength(P, action.state))} :
              \/ /\ Reductions(action.state, popped.children) = {}
                 /\ UNCHANGED <<stacks, forest, pending, closure>>
              \/ \E span \in Reductions(action.state, popped.children) :
                    ReduceOnto(popped.base, action.state, popped.children, span)
        /\ UNCHANGED <<shifted, roots, verdict>>
  BY DEF ReduceBranch
<1>2. /\ phase = "round" /\ todo # {} /\ todo' \subseteq todo
      /\ UNCHANGED <<parser, tables, input, at, active, shifted, top, calls, roots, phase, failure>>
  BY <1>1 DEF Following, verdict, source
<1>3. /\ Sourced /\ Placed /\ StacksFollowTheAutomaton /\ ForestIsOfTheGrammar
      /\ RoundIsSound /\ ReadingsCoverTheInput /\ CallbacksAreOfTheOnlyTree
  BY DEF DriverInvariant
<1>4. /\ Coherent(P) /\ input \in Seq(STRING) /\ Len(input) \in Nat /\ at \in Nat /\ at <= Len(input)
  BY <1>3, SourceFacts, Located
<1>5. P' = P /\ Sourced' /\ Placed' /\ CallbacksAreOfTheOnlyTree'
  BY <1>2, <1>3 DEF P, Sourced, Placed, CallbacksAreOfTheOnlyTree
<1> DEFINE rule == action.state
           popped == Popped(top, LrLength(P, rule))
           base == popped.base
           children == popped.children
           spans == SpansOf(children)
           lhs == LrLhs(P, rule)
<1>6. CASE UNCHANGED <<stacks, forest, pending, closure>>
  <2>1. UNCHANGED <<source, stacks, forest>>
    BY <1>2, <1>6 DEF source
  <2>2. StacksFollowTheAutomaton' /\ ForestIsOfTheGrammar'
    BY <2>1, NothingBuilt
  <2>3. RoundIsSound'
    BY <1>2, <1>3, <1>5, <1>6 DEF RoundIsSound
  <2>4. ReadingsCoverTheInput'
    BY <1>2, <1>3, <1>6, GrownAlready, RootsStay
  <2> QED BY <1>5, <2>2, <2>3, <2>4 DEF DriverInvariant
<1>7. ASSUME NEW span \in Reductions(rule, children), ReduceOnto(base, rule, children, span)
      PROVE  DriverInvariant'
  <2>1. /\ rule \in Nat /\ rule + 1 \in DOMAIN P.productions
        /\ base \in DOMAIN stacks /\ <<stacks[base].state, lhs>> \in DOMAIN P.goto
        /\ children \in Seq(DOMAIN forest) /\ Len(children) = LrLength(P, rule)
        /\ \A j \in DOMAIN children : forest[children[j]].key[2] = LrRhs(P, rule)[j]
        /\ spans = ChildSpans(forest, children) /\ spans \in Seq(SpansOver(0..Len(input)))
        /\ spans \in Seq(SpansOver(Int)) /\ InARow(P, input, spans)
        /\ IF spans = <<>> THEN Blanks(P, input, EndOf(stacks, forest, base), at)
           ELSE /\ Blanks(P, input, EndOf(stacks, forest, base), spans[1].begin)
                /\ Blanks(P, input, spans[Len(spans)].end, at)
    BY <1>1, <1>2, PoppedMakesUp
  <2>2. ~SpaceViolation(P, rule, spans) /\ span = ReducedSpan(P, rule, spans, at)
    BY DEF Reductions
  <2> DEFINE node == Node(FALSE, lhs, span)
             target == P.goto[<<stacks[base].state, lhs>>]
             dest == Stack(base, target, node)
             grown == WithNode(FALSE, lhs, span)
  <2>3. /\ forest' = WithReading(grown, node, rule, children)
        /\ stacks' = WithStack(base, target, node)
        /\ closure' = closure \cup {dest}
        /\ pending' = IF dest \in closure THEN pending ELSE Append(pending, dest)
    BY <1>7 DEF ReduceOnto
  <2> HIDE DEF rule, popped, base, children, spans, node, dest, grown, lhs, target
  <2>4. Stacked(P, input, stacks, forest) /\ Forested(P, input, forest) /\ forest \in Seq(Nodes(input))
    BY <1>3 DEF StacksFollowTheAutomaton, ForestIsOfTheGrammar, Forested
  <2>5. Ordered(span) /\ Blanks(P, input, EndOf(stacks, forest, base), span.begin) /\ Blanks(P, input, span.end, at)
    <3>1. EndOf(stacks, forest, base) \in Int /\ at \in Int
      BY <1>4, <2>1, <2>4, EndsLie
    <3>2. LET reduced == ReducedSpan(P, rule, spans, at)
          IN  /\ Ordered(reduced) /\ Blanks(P, input, EndOf(stacks, forest, base), reduced.begin)
              /\ Blanks(P, input, reduced.end, at)
      BY <2>1, <3>1, ReducedSpanLies
    <3> QED BY <2>2, <3>2
  <2>6. span \in SpansOver(0..Len(input)) /\ at \in 0..Len(input)
    <3>1. at \in 0..Len(input)
      BY <1>4
    <3> QED BY <2>1, <2>2, <3>1, ReducedSpanType
  <2>7. lhs \in STRING
    BY <1>4, <2>1 DEF Coherent, WellFormed, LrLhs, lhs
  <2>8. Applies(P, input, forest, rule, children, lhs, span)
    BY <2>1, <2>2, <2>6 DEF Applies, lhs
  <2>9. Interned(forest, lhs, span, node, grown)
    BY <2>4, NodeIsInterned DEF Interned, Key, Fresh, node, grown
  <2>10. /\ Forested(P, input, forest') /\ Grown(forest, forest')
         /\ node \in DOMAIN forest' /\ forest'[node].key = <<FALSE, lhs, span>> /\ forest'[node].span = span
    <3>1. rule \in Nat /\ Forested(P, input, forest) /\ Ordered(span)
      BY <2>1, <2>4, <2>5
    <3>2. PICK after : after = WithReading(grown, node, rule, children)
      OBVIOUS
    <3>3. forest' = after
      BY <2>3, <3>2
    <3>4. Forested(P, input, after) /\ Grown(forest, after)
      BY <2>6, <2>7, <2>8, <2>9, <3>1, <3>2, ReadingAdded
    <3>5. NodeIsFor(after, node, lhs, span)
      BY <2>6, <2>7, <2>8, <2>9, <3>1, <3>2, ReadingAdded
    <3> QED BY <3>3, <3>4, <3>5 DEF NodeIsFor
  <2>11. Stacked(P, input, stacks, forest')
    BY <2>4, <2>10, StackedStill
  <2>12. ASSUME NEW s \in DOMAIN stacks PROVE EndOf(stacks, forest', s) = EndOf(stacks, forest, s)
    <3>1. s = Root \/ stacks[s].node \in DOMAIN forest
      BY <1>4, <2>4, EndsLie
    <3> QED BY <2>10, <3>1, EndStays
  <2>13. /\ Stacked(P, input, stacks', forest') /\ DOMAIN stacks \subseteq DOMAIN stacks'
         /\ \A s \in DOMAIN stacks : stacks'[s] = stacks[s] /\ EndOf(stacks', forest', s) = EndOf(stacks, forest', s)
         /\ dest \in DOMAIN stacks' /\ EndOf(stacks', forest', dest) = forest'[node].span.end
    <3>1. forest'[node].key[2] = lhs
      BY <2>10
    <3>2. /\ <<stacks[base].state, forest'[node].key[2]>> \in DOMAIN P.goto
          /\ target = P.goto[<<stacks[base].state, forest'[node].key[2]>>]
      BY <2>1, <3>1 DEF target
    <3>3. Blanks(P, input, EndOf(stacks, forest', base), forest'[node].span.begin)
      BY <2>1, <2>5, <2>10, <2>12
    <3>4. dest = Stack(base, target, node) /\ stacks' = WithStack(base, target, node)
      BY <2>3 DEF dest
    <3>5. base \in DOMAIN stacks /\ node \in DOMAIN forest' /\ Forested(P, input, forest')
      BY <2>1, <2>10
    <3> QED BY <1>4, <2>11, <3>2, <3>3, <3>4, <3>5, StackPushed
  <2>14. \A s \in DOMAIN stacks : stacks'[s] = stacks[s] /\ EndOf(stacks', forest', s) = EndOf(stacks, forest, s)
    BY <2>12, <2>13
  <2>15. Blanks(P, input, EndOf(stacks', forest', dest), at)
    BY <2>5, <2>10, <2>13
  <2>16. StacksFollowTheAutomaton' /\ ForestIsOfTheGrammar'
    BY <1>2, <1>5, <2>10, <2>13 DEF StacksFollowTheAutomaton, ForestIsOfTheGrammar
  <2>17. RoundIsSound'
    <3>1. /\ active \cup closure \cup shifted \subseteq DOMAIN stacks /\ pending \in Seq(closure)
          /\ \A stack \in closure : Blanks(P, input, EndOf(stacks, forest, stack), at)
          /\ \A stack \in shifted : at < Len(input) /\ EndOf(stacks, forest, stack) = at + 1
          /\ top \in closure
          /\ \A a \in todo : SoundAction(P, input, at, stacks[top].state, a)
      BY <1>2, <1>3 DEF RoundIsSound
    <3>2. active' \cup closure' \cup shifted' \subseteq DOMAIN stacks'
      BY <1>2, <2>3, <2>13, <3>1
    <3>3. pending' \in Seq(closure')
      <4>1. pending \in Seq(closure \cup {dest})
        BY <3>1
      <4>2. Append(pending, dest) \in Seq(closure \cup {dest})
        BY <4>1
      <4> QED BY <2>3, <4>1, <4>2
    <3>4. \A stack \in closure' : Blanks(P', input', EndOf(stacks', forest', stack), at')
      BY <1>2, <1>5, <2>3, <2>14, <2>15, <3>1
    <3>5. \A stack \in shifted' : at' < Len(input') /\ EndOf(stacks', forest', stack) = at' + 1
      BY <1>2, <2>14, <3>1
    <3>6. top' \in closure' /\ \A a \in todo' : SoundAction(P', input', at', stacks'[top'].state, a)
      BY <1>2, <1>5, <2>3, <2>14, <3>1
    <3> QED BY <1>2, <3>2, <3>3, <3>4, <3>5, <3>6 DEF RoundIsSound
  <2>18. ReadingsCoverTheInput'
    BY <1>2, <1>3, <2>10, RootsStay
  <2> QED BY <1>5, <2>16, <2>17, <2>18 DEF DriverInvariant
<1> QED BY <1>1, <1>6, <1>7
-----------------------------------------------------------------------------
(* Theorems. *)

LEMMA NextKeepsDriverInvariant == DriverInvariant /\ [Next]_vars => DriverInvariant'
<1> SUFFICES ASSUME DriverInvariant, [Next]_vars PROVE DriverInvariant'
  OBVIOUS
<1>1. CASE UNCHANGED vars
  <2>1. UNCHANGED <<source, at, stacks, forest, active, pending, closure, shifted, top, todo, roots,
                    calls, phase, failure>>
    BY <1>1 DEF vars, branches, verdict
  <2>2. /\ Sourced /\ Placed /\ StacksFollowTheAutomaton /\ ForestIsOfTheGrammar
        /\ RoundIsSound /\ ReadingsCoverTheInput /\ CallbacksAreOfTheOnlyTree
    BY DEF DriverInvariant
  <2>3. /\ Sourced' /\ StacksFollowTheAutomaton' /\ ForestIsOfTheGrammar' /\ tables' = tables
        /\ P' = P /\ input' = input /\ stacks' = stacks /\ forest' = forest
    BY <2>1, NothingBuilt
  <2>4. Placed' /\ RoundIsSound' /\ CallbacksAreOfTheOnlyTree'
    BY <2>1, <2>2, <2>3 DEF Placed, RoundIsSound, CallbacksAreOfTheOnlyTree
  <2>5. ReadingsCoverTheInput'
    BY <2>1, <2>2, <2>3, GrownAlready, RootsStay
  <2> QED BY <2>3, <2>4, <2>5 DEF DriverInvariant
<1>2. CASE SkipSpace
  BY <1>2, SkipSpaceStep
<1>3. CASE OpenRound
  BY <1>3, OpenRoundStep
<1>4. CASE TakeTop
  BY <1>4, TakeTopStep
<1>5. CASE GiveUp
  BY <1>5, GiveUpStep
<1>6. CASE AcceptBranch
  BY <1>6, AcceptBranchStep
<1>7. CASE ShiftBranch
  BY <1>7, ShiftBranchStep
<1>8. CASE ReduceBranch
  BY <1>8, ReduceBranchStep
<1>9. CASE NextToken
  BY <1>9, NextTokenStep
<1>10. CASE Judge
  BY <1>10, JudgeStep
<1>11. CASE Descend \/ Callback
  BY <1>11, EvaluationStep
<1> QED BY <1>1, <1>2, <1>3, <1>4, <1>5, <1>6, <1>7, <1>8, <1>9, <1>10, <1>11 DEF Next, Driver, Done

\* The invariant holds in every state of the driver.
THEOREM DriverInvariantHolds == Spec => []DriverInvariant
<1>1. DriverInvariant /\ [Next]_vars => DriverInvariant'
  BY NextKeepsDriverInvariant
<1> QED BY InitiallyInvariant, <1>1, PTL DEF Spec

\* Stacks and nodes refer to earlier stacks and to existing nodes, and whatever
\* a round lists is there: the driver never reads beyond its two arenas.
THEOREM TypeCorrect == Spec => []TypeOK
<1>1. ASSUME DriverInvariant PROVE TypeOK
  <2>1. Sourced /\ Placed /\ RoundIsSound /\ ReadingsCoverTheInput
    BY <1>1 DEF DriverInvariant
  <2>2. Stacked(P, input, stacks, forest) /\ Forested(P, input, forest)
    BY <1>1 DEF DriverInvariant, StacksFollowTheAutomaton, ForestIsOfTheGrammar
  <2>3. Coherent(P) /\ input \in Seq(STRING)
    BY <2>1, SourceFacts
  <2>4. Len(forest) \in Nat /\ DOMAIN forest = 1..Len(forest)
    BY <2>2, NodeFacts
  <2>5. ASSUME NEW i \in DOMAIN stacks
        PROVE  /\ stacks[i].previous \in 0..(i - 1) /\ stacks[i].state \in DOMAIN P.items
               /\ stacks[i].node \in 0..Len(forest)
    <3>1. stacks[i].state \in DOMAIN P.items
      BY <2>2, <2>3, StackIsLinked
    <3>2. i \in 1..Len(stacks) /\ Len(stacks) \in Nat
      BY <2>2, <2>3, EndsLie
    <3>3. CASE i = Root
      <4>1. stacks[i].previous = 0 /\ stacks[i].node = 0
        BY <2>2, <3>3 DEF Stacked, Bottom, None
      <4> QED BY <2>4, <3>1, <3>3, <4>1 DEF Root
    <3>4. CASE i # Root
      <4>1. i \in 2..Len(stacks)
        BY <3>2, <3>4 DEF Root
      <4>2. stacks[i].previous \in 1..(i - 1) /\ stacks[i].node \in DOMAIN forest
        BY <2>2, <4>1 DEF Stacked, Continues
      <4> QED BY <2>4, <3>1, <4>2
    <3> QED BY <3>3, <3>4
  <2>6. \A i \in DOMAIN forest : forest[i].span \in SpanType
    BY <2>2, NodeFacts DEF SpanType, SpansOver
  <2>7. active \cup closure \cup shifted \cup ToSet(pending) \subseteq DOMAIN stacks
    <3>1. ToSet(pending) \subseteq closure
      BY <2>1 DEF RoundIsSound, ToSet
    <3> QED BY <2>1, <3>1 DEF RoundIsSound
  <2>8. roots \subseteq DOMAIN forest
    BY <2>1 DEF ReadingsCoverTheInput
  <2> QED BY <2>1, <2>5, <2>6, <2>7, <2>8 DEF TypeOK, Placed
<1> QED BY <1>1, DriverInvariantHolds, PTL

\* However the branches share their prefixes, every one of them is a path of
\* the LR automaton over the input up to its end.
THEOREM StacksStand == Spec => []StacksFollowTheAutomaton
<1>1. DriverInvariant => StacksFollowTheAutomaton
  BY DEF DriverInvariant
<1> QED BY <1>1, DriverInvariantHolds, PTL

\* A reduction always finds all the members of its right-hand side above the
\* root, and a transition from the stack below them: neither the walk down the
\* shared stacks nor the goto lookup can come up short.
PopsAreInFull ==
    phase = "round" => \A action \in todo : action.type = "reduce" =>
        LET popped == Popped(top, LrLength(P, action.state))
        IN  /\ Len(popped.children) = LrLength(P, action.state)
            /\ <<stacks[popped.base].state, LrLhs(P, action.state)>> \in DOMAIN P.goto

THEOREM PopsFindTheirMembers == Spec => []PopsAreInFull
<1>1. ASSUME DriverInvariant PROVE PopsAreInFull
  BY <1>1, PoppedMakesUp DEF PopsAreInFull
<1> QED BY <1>1, DriverInvariantHolds, PTL

\* Whatever is packed into the forest, by whichever branch and in whichever
\* order: a leaf is a token of the input, and each reading of another node is
\* a rule applied to nodes in a row, with whitespace only where it allows it.
THEOREM ForestIsSound == Spec => []ForestIsOfTheGrammar
<1>1. DriverInvariant => ForestIsOfTheGrammar
  BY DEF DriverInvariant
<1> QED BY <1>1, DriverInvariantHolds, PTL

\* What the verdict counts as a reading is one of the whole input, from the
\* start symbol.
THEOREM RootsAreReadings == Spec => []ReadingsCoverTheInput
<1>1. DriverInvariant => ReadingsCoverTheInput
  BY DEF DriverInvariant
<1> QED BY <1>1, DriverInvariantHolds, PTL

\* No semantic callback is made before the whole input is read and its forest
\* found acyclic and to hold one tree, nor once a parse has failed.
CallbacksAwaitTheVerdict ==
    calls # <<>> =>
        /\ phase \in {"evaluate", "accepted"} /\ at = Len(input)
        /\ roots # {} /\ ~CyclicReading(forest, roots) /\ Total(forest, roots) = 1

THEOREM CallbacksAreLate == Spec => []CallbacksAwaitTheVerdict
<1>1. ASSUME DriverInvariant PROVE CallbacksAwaitTheVerdict
  BY <1>1 DEF DriverInvariant, CallbacksAwaitTheVerdict, CallbacksAreOfTheOnlyTree, ReadingsCoverTheInput
<1> QED BY <1>1, DriverInvariantHolds, PTL
-----------------------------------------------------------------------------
(* Sharing. *)

\* A stack or a node is made once: branches that come to the same state over
\* the same prefix go on as one, and a reading is counted once.
EachIsInternedOnce ==
    /\ \A i, j \in DOMAIN forest : forest[i].key = forest[j].key => i = j
    /\ \A i, j \in DOMAIN stacks : stacks[i] = stacks[j] => i = j

LEMMA OneMoreOfItsKind ==
    ASSUME NEW S, NEW fs \in Seq(S), \A i, j \in DOMAIN fs : fs[i].key = fs[j].key => i = j,
           NEW node \in S, \A j \in DOMAIN fs : fs[j].key # node.key,
           NEW fs2, fs2 = Append(fs, node)
    PROVE  \A i, j \in DOMAIN fs2 : fs2[i].key = fs2[j].key => i = j
<1> DEFINE len == Len(fs)
<1>1. /\ len \in Nat /\ DOMAIN fs = 1..len /\ DOMAIN fs2 = 1..(len + 1) /\ fs2[len + 1] = node
      /\ \A i \in 1..len : fs2[i] = fs[i]
  OBVIOUS
<1> HIDE DEF len
<1> SUFFICES ASSUME NEW i \in 1..(len + 1), NEW j \in 1..(len + 1), fs2[i].key = fs2[j].key PROVE i = j
  BY <1>1
<1>2. CASE i \in 1..len /\ j \in 1..len
  BY <1>1, <1>2
<1>3. CASE i = len + 1 \/ j = len + 1
  <2>1. CASE i = len + 1 /\ j \in 1..len
    BY <1>1, <2>1
  <2>2. CASE j = len + 1 /\ i \in 1..len
    BY <1>1, <2>2
  <2>3. CASE i = len + 1 /\ j = len + 1
    BY <2>3
  <2> QED BY <1>1, <1>3, <2>1, <2>2, <2>3
<1> QED BY <1>1, <1>2, <1>3

LEMMA OneMoreStack ==
    ASSUME NEW S, NEW st \in Seq(S), \A i, j \in DOMAIN st : st[i] = st[j] => i = j,
           NEW link \in S, \A j \in DOMAIN st : st[j] # link,
           NEW st2, st2 = Append(st, link)
    PROVE  \A i, j \in DOMAIN st2 : st2[i] = st2[j] => i = j
<1> DEFINE len == Len(st)
<1>1. /\ len \in Nat /\ DOMAIN st = 1..len /\ DOMAIN st2 = 1..(len + 1) /\ st2[len + 1] = link
      /\ \A i \in 1..len : st2[i] = st[i]
  OBVIOUS
<1> HIDE DEF len
<1> SUFFICES ASSUME NEW i \in 1..(len + 1), NEW j \in 1..(len + 1), st2[i] = st2[j] PROVE i = j
  BY <1>1
<1>2. CASE i \in 1..len /\ j \in 1..len
  BY <1>1, <1>2
<1>3. CASE i = len + 1 \/ j = len + 1
  <2>1. CASE i = len + 1 /\ j \in 1..len
    BY <1>1, <2>1
  <2>2. CASE j = len + 1 /\ i \in 1..len
    BY <1>1, <2>2
  <2>3. CASE i = len + 1 /\ j = len + 1
    BY <2>3
  <2> QED BY <1>1, <1>3, <2>1, <2>2, <2>3
<1> QED BY <1>1, <1>2, <1>3

LEMMA StackOnce ==
    ASSUME stacks \in Seq(Links(P)), EachIsInternedOnce, NEW previous, NEW state, NEW node,
           NEW after, after = WithStack(previous, state, node), NEW S, Links(P) \subseteq S,
           [previous |-> previous, state |-> state, node |-> node] \in S
    PROVE  \A i, j \in DOMAIN after : after[i] = after[j] => i = j
<1> DEFINE link == [previous |-> previous, state |-> state, node |-> node]
<1>1. \/ after = stacks
      \/ after = Append(stacks, link) /\ \A j \in DOMAIN stacks : stacks[j] # link
  BY StackIsInterned
<1>2. stacks \in Seq(S) /\ link \in S
  OBVIOUS
<1>3. \A i, j \in DOMAIN stacks : stacks[i] = stacks[j] => i = j
  BY DEF EachIsInternedOnce
<1> HIDE DEF link
<1>4. CASE after = stacks
  BY <1>3, <1>4
<1>5. CASE after = Append(stacks, link) /\ \A j \in DOMAIN stacks : stacks[j] # link
  BY <1>2, <1>3, <1>5, OneMoreStack
<1> QED BY <1>1, <1>4, <1>5

LEMMA NodeOnce ==
    ASSUME forest \in Seq(Nodes(input)), EachIsInternedOnce, NEW terminal, NEW symbol, NEW span,
           NEW after, after = WithNode(terminal, symbol, span)
    PROVE  \A i, j \in DOMAIN after : after[i].key = after[j].key => i = j
<1> DEFINE node == Fresh(terminal, symbol, span)
           S == Nodes(input) \cup {node}
<1>1. \/ after = forest
      \/ after = Append(forest, node) /\ \A j \in DOMAIN forest : forest[j].key # Key(terminal, symbol, span)
  BY NodeIsInterned
<1>2. forest \in Seq(S) /\ node \in S
  <2> HIDE DEF node
  <2> QED OBVIOUS
<1>3. \A i, j \in DOMAIN forest : forest[i].key = forest[j].key => i = j
  BY DEF EachIsInternedOnce
<1>4. node.key = Key(terminal, symbol, span)
  BY DEF Fresh
<1> HIDE DEF node, S
<1>5. CASE after = forest
  BY <1>3, <1>5
<1>6. CASE after = Append(forest, node) /\ \A j \in DOMAIN forest : forest[j].key # Key(terminal, symbol, span)
  <2>1. \A j \in DOMAIN forest : forest[j].key # node.key
    BY <1>4, <1>6
  <2> QED BY <1>2, <1>3, <1>6, <2>1, OneMoreOfItsKind
<1> QED BY <1>1, <1>5, <1>6

LEMMA ReadingKeepsKeys ==
    ASSUME NEW nodes, \A n \in DOMAIN nodes : nodes[n] = [key |-> nodes[n].key, span |-> nodes[n].span,
                                                          alternatives |-> nodes[n].alternatives],
           NEW node, NEW rule, NEW children, NEW after, after = WithReading(nodes, node, rule, children)
    PROVE  /\ DOMAIN after = DOMAIN nodes
           /\ \A n \in DOMAIN nodes : after[n].key = nodes[n].key
<1>1. DOMAIN after = DOMAIN nodes
  BY DEF WithReading
<1>2. ASSUME NEW n \in DOMAIN nodes PROVE after[n].key = nodes[n].key
  <2>1. CASE n # node
    BY <2>1 DEF WithReading
  <2>2. CASE n = node
    <3> DEFINE more == nodes[n].alternatives \cup {[rule |-> rule, children |-> children]}
               old == nodes[n]
    <3>1. after[n] = [old EXCEPT !.alternatives = more]
      BY <2>2 DEF WithReading
    <3>2. old = [key |-> old.key, span |-> old.span, alternatives |-> old.alternatives]
      OBVIOUS
    <3> HIDE DEF more, old
    <3>3. [old EXCEPT !.alternatives = more].key = old.key
      BY <3>2
    <3> QED BY <3>1, <3>3 DEF old
  <2> QED BY <2>1, <2>2
<1> QED BY <1>1, <1>2

LEMMA InterningStep ==
    ASSUME DriverInvariant, EachIsInternedOnce, [Next]_vars
    PROVE  EachIsInternedOnce'
<1>1. stacks \in Seq(Links(P)) /\ forest \in Seq(Nodes(input))
  BY DEF DriverInvariant, StacksFollowTheAutomaton, ForestIsOfTheGrammar, Stacked, Forested
<1>2. CASE UNCHANGED <<stacks, forest>>
  BY <1>2 DEF EachIsInternedOnce
<1>3. ASSUME NEW base, NEW state, NEW node, stacks' = WithStack(base, state, node)
      PROVE  \A i, j \in DOMAIN stacks' : stacks'[i] = stacks'[j] => i = j
  <2> DEFINE link == [previous |-> base, state |-> state, node |-> node]
             S == Links(P) \cup {link}
  <2>1. Links(P) \subseteq S /\ link \in S
    OBVIOUS
  <2> HIDE DEF S
  <2> QED BY <1>1, <1>3, <2>1, StackOnce
<1>4. CASE ShiftBranch
  <2>1. PICK action \in todo :
          IF at = Len(input) THEN UNCHANGED <<stacks, forest, shifted>>
          ELSE LET token == input[at + 1]
                   leaf == Node(TRUE, token, TokenSpan(at))
               IN  /\ forest' = WithNode(TRUE, token, TokenSpan(at))
                   /\ stacks' = WithStack(top, action.state, leaf)
    BY <1>4 DEF ShiftBranch
  <2>2. CASE at = Len(input)
    BY <1>2, <2>1, <2>2
  <2>3. CASE at # Len(input)
    <3> DEFINE token == input[at + 1]
               leaf == Node(TRUE, token, TokenSpan(at))
    <3>1. forest' = WithNode(TRUE, token, TokenSpan(at)) /\ stacks' = WithStack(top, action.state, leaf)
      BY <2>1, <2>3
    <3> HIDE DEF leaf, token
    <3>2. \A i, j \in DOMAIN forest' : forest'[i].key = forest'[j].key => i = j
      BY <1>1, <3>1, NodeOnce
    <3> QED BY <1>3, <3>1, <3>2 DEF EachIsInternedOnce
  <2> QED BY <2>2, <2>3
<1>5. CASE ReduceBranch
  <2>1. PICK action \in todo :
          \E popped \in {Popped(top, LrLength(P, action.state))} :
              \/ UNCHANGED <<stacks, forest>>
              \/ \E span \in Reductions(action.state, popped.children) :
                    ReduceOnto(popped.base, action.state, popped.children, span)
    BY <1>5 DEF ReduceBranch
  <2>2. PICK popped : \/ UNCHANGED <<stacks, forest>>
                      \/ \E span \in Reductions(action.state, popped.children) :
                            ReduceOnto(popped.base, action.state, popped.children, span)
    BY <2>1
  <2>3. ASSUME NEW span, ReduceOnto(popped.base, action.state, popped.children, span)
        PROVE  EachIsInternedOnce'
    <3> DEFINE lhs == LrLhs(P, action.state)
               node == Node(FALSE, lhs, span)
               target == P.goto[<<stacks[popped.base].state, lhs>>]
               grown == WithNode(FALSE, lhs, span)
    <3>1. /\ forest' = WithReading(grown, node, action.state, popped.children)
          /\ stacks' = WithStack(popped.base, target, node)
      BY <2>3 DEF ReduceOnto
    <3>2. \A i, j \in DOMAIN grown : grown[i].key = grown[j].key => i = j
      <4> HIDE DEF lhs
      <4> QED BY <1>1, NodeOnce
    <3>3. \A n \in DOMAIN grown : grown[n] = [key |-> grown[n].key, span |-> grown[n].span,
                                              alternatives |-> grown[n].alternatives]
      <4> DEFINE fresh == Fresh(FALSE, lhs, span)
                 S == {node2 \in Nodes(input) \cup {fresh} :
                         node2 = [key |-> node2.key, span |-> node2.span, alternatives |-> node2.alternatives]}
      <4>1. grown = forest \/ grown = Append(forest, fresh)
        BY <1>1, NodeIsInterned
      <4>2. fresh = [key |-> fresh.key, span |-> fresh.span, alternatives |-> fresh.alternatives]
        BY DEF Fresh
      <4>3. \A node2 \in Nodes(input) :
               node2 = [key |-> node2.key, span |-> node2.span, alternatives |-> node2.alternatives]
        BY DEF Nodes
      <4> HIDE DEF fresh, grown
      <4>4. fresh \in S /\ Nodes(input) \subseteq S
        BY <4>2, <4>3
      <4>5. forest \in Seq(S)
        <5> HIDE DEF S
        <5> QED BY <1>1, <4>4
      <4>6. grown \in Seq(S)
        <5> HIDE DEF S
        <5> QED BY <4>1, <4>4, <4>5
      <4>7. \A n \in DOMAIN grown : grown[n] \in S
        <5> HIDE DEF S
        <5> QED BY <4>6
      <4> QED BY <4>7
    <3> HIDE DEF grown, node, target, lhs
    <3>4. PICK after : after = WithReading(grown, node, action.state, popped.children)
      OBVIOUS
    <3>5. DOMAIN after = DOMAIN grown /\ \A n \in DOMAIN grown : after[n].key = grown[n].key
      BY <3>3, <3>4, ReadingKeepsKeys
    <3>6. \A i, j \in DOMAIN forest' : forest'[i].key = forest'[j].key => i = j
      BY <3>1, <3>2, <3>4, <3>5
    <3> QED BY <1>3, <3>1, <3>6 DEF EachIsInternedOnce
  <2> QED BY <1>2, <2>2, <2>3
<1>6. CASE \/ SkipSpace \/ OpenRound \/ TakeTop \/ GiveUp \/ AcceptBranch
           \/ NextToken \/ Judge \/ Descend \/ Callback \/ UNCHANGED vars
  <2>1. UNCHANGED <<stacks, forest>>
    BY <1>6 DEF SkipSpace, OpenRound, TakeTop, GiveUp, AcceptBranch, NextToken, Judge, Descend, Callback,
                vars, branches
  <2> QED BY <1>2, <2>1
<1> QED BY <1>4, <1>5, <1>6 DEF Next, Driver, Done

\* Interning finds what is there: no two stacks and no two nodes are the same.
THEOREM SharingIsComplete == Spec => []EachIsInternedOnce
<1>1. Init => EachIsInternedOnce
  <2> SUFFICES ASSUME Init PROVE EachIsInternedOnce
    OBVIOUS
  <2>1. forest = <<>> /\ DOMAIN stacks = {1}
    BY DEF Init
  <2> QED BY <2>1 DEF EachIsInternedOnce
<1>2. DriverInvariant /\ EachIsInternedOnce /\ [Next]_vars => EachIsInternedOnce'
  BY InterningStep
<1> QED BY <1>1, <1>2, DriverInvariantHolds, PTL DEF Spec
-----------------------------------------------------------------------------
(* What the forest holds is derived, and so is what the callbacks say.      *)

\* Some reductions lead from the text of every node to its symbol.
ForestIsRead(p, text, fs) ==
    \A n \in DOMAIN fs : \E own \in Seq(Nat) : Reads(p, text, fs[n].key[2], fs[n].span, own)

ForestIsDerived == ForestIsRead(P, input, forest)

\* Nodes a rule is applied to, as a row of spans.
LEMMA AppliedRow ==
    ASSUME NEW p, WellFormed(p), NEW text \in Seq(STRING), NEW fs, Forested(p, text, fs),
           NEW rule, NEW children, NEW symbol, NEW span,
           Applies(p, text, fs, rule, children, symbol, span),
           NEW spans, spans = ChildSpans(fs, children)
    PROVE  /\ rule + 1 \in DOMAIN p.productions /\ LrLhs(p, rule) = symbol
           /\ LrRhs(p, rule) \in Seq(STRING)
           /\ spans \in Seq(SpansOver(Places(text))) /\ DOMAIN spans = DOMAIN children
           /\ Len(spans) = LrLength(p, rule) /\ Len(children) = LrLength(p, rule)
           /\ InARow(p, text, spans) /\ ~SpaceViolation(p, rule, spans)
           /\ \E c \in 0..Len(text) : span = ReducedSpan(p, rule, spans, c)
           /\ \A d \in DOMAIN children :
                 /\ children[d] \in DOMAIN fs
                 /\ LrRhs(p, rule)[d] = fs[children[d]].key[2] /\ spans[d] = fs[children[d]].span
<1> DEFINE S == SpansOver(Places(text))
<1>1. /\ rule + 1 \in DOMAIN p.productions /\ LrLhs(p, rule) = symbol
      /\ children \in Seq(DOMAIN fs) /\ Len(children) = LrLength(p, rule)
      /\ \A j \in DOMAIN children : fs[children[j]].key[2] = LrRhs(p, rule)[j]
      /\ InARow(p, text, spans) /\ ~SpaceViolation(p, rule, spans)
      /\ \E c \in 0..Len(text) : span = ReducedSpan(p, rule, spans, c)
  BY DEF Applies
<1>2. LrRhs(p, rule) \in Seq(STRING)
  BY <1>1 DEF WellFormed, LrRhs
<1>3. DOMAIN children = 1..Len(children) /\ Len(children) \in Nat
      /\ \A j \in DOMAIN children : children[j] \in DOMAIN fs
  BY <1>1
<1>4. \A j \in DOMAIN children : fs[children[j]].span \in S
  BY <1>3, NodeFacts DEF Places
<1>5. \A j \in DOMAIN children : spans[j] = fs[children[j]].span
  BY DEF ChildSpans
<1>6. spans \in Seq(S) /\ Len(spans) = Len(children) /\ DOMAIN spans = DOMAIN children
  <2> HIDE DEF S
  <2> QED BY <1>3, <1>4 DEF ChildSpans
<1> QED BY <1>1, <1>2, <1>3, <1>5, <1>6 DEF S

\* A rule applied to nodes that are read is read.
LEMMA AppliedIsRead ==
    ASSUME NEW p, WellFormed(p), NEW text \in Seq(STRING), NEW fs, Forested(p, text, fs),
           ForestIsRead(p, text, fs), NEW rule \in Nat, NEW children, NEW symbol, NEW span,
           Applies(p, text, fs, rule, children, symbol, span)
    PROVE  \E own \in Seq(Nat) : Reads(p, text, symbol, span, own)
<1> DEFINE spans == ChildSpans(fs, children)
<1>1. /\ rule + 1 \in DOMAIN p.productions /\ LrLhs(p, rule) = symbol
      /\ LrRhs(p, rule) \in Seq(STRING)
      /\ spans \in Seq(SpansOver(Places(text))) /\ DOMAIN spans = DOMAIN children
      /\ Len(spans) = LrLength(p, rule)
      /\ InARow(p, text, spans) /\ ~SpaceViolation(p, rule, spans)
      /\ \A d \in DOMAIN children :
            /\ children[d] \in DOMAIN fs
            /\ LrRhs(p, rule)[d] = fs[children[d]].key[2] /\ spans[d] = fs[children[d]].span
  BY AppliedRow
<1>2. PICK c \in 0..Len(text) : span = ReducedSpan(p, rule, spans, c)
  BY DEF Applies
<1> HIDE DEF spans
<1>3. \A d \in DOMAIN spans : \E own \in Seq(Nat) : Reads(p, text, LrRhs(p, rule)[d], spans[d], own)
  <2> SUFFICES ASSUME NEW d \in DOMAIN children
               PROVE  \E own \in Seq(Nat) : Reads(p, text, LrRhs(p, rule)[d], spans[d], own)
    BY <1>1
  <2>1. \E own \in Seq(Nat) : Reads(p, text, fs[children[d]].key[2], fs[children[d]].span, own)
    BY <1>1 DEF ForestIsRead
  <2> QED BY <1>1, <2>1
<1>4. \E own \in Seq(Nat) : Reads(p, text, LrLhs(p, rule), ReducedSpan(p, rule, spans, c), own)
  BY <1>1, <1>3, RowReads
<1> QED BY <1>1, <1>2, <1>4

\* What is read stays read while the forest grows by nodes that are read.
LEMMA ForestStillRead ==
    ASSUME NEW p, NEW text, NEW fs, ForestIsRead(p, text, fs), NEW fs2, Grown(fs, fs2),
           \A n \in DOMAIN fs2 \ DOMAIN fs :
               \E own \in Seq(Nat) : Reads(p, text, fs2[n].key[2], fs2[n].span, own)
    PROVE  ForestIsRead(p, text, fs2)
<1> SUFFICES ASSUME NEW n \in DOMAIN fs2
             PROVE  \E own \in Seq(Nat) : Reads(p, text, fs2[n].key[2], fs2[n].span, own)
  BY DEF ForestIsRead
<1>1. CASE n \in DOMAIN fs
  <2>1. fs2[n].key = fs[n].key /\ fs2[n].span = fs[n].span
    BY <1>1 DEF Grown
  <2>2. \E own \in Seq(Nat) : Reads(p, text, fs[n].key[2], fs[n].span, own)
    BY <1>1 DEF ForestIsRead
  <2> QED BY <2>1, <2>2
<1>2. CASE n \notin DOMAIN fs
  BY <1>2
<1> QED BY <1>1, <1>2

\* A reduction a branch makes applies its rule to nodes that are there.
LEMMA ReductionApplies ==
    ASSUME DriverInvariant, phase = "round", NEW action \in todo, action.type = "reduce",
           NEW span \in Reductions(action.state, Popped(top, LrLength(P, action.state)).children)
    PROVE  /\ action.state \in Nat /\ LrLhs(P, action.state) \in STRING
           /\ span \in SpansOver(0..Len(input)) /\ Ordered(span)
           /\ Applies(P, input, forest, action.state,
                      Popped(top, LrLength(P, action.state)).children, LrLhs(P, action.state), span)
<1> DEFINE rule == action.state
           popped == Popped(top, LrLength(P, rule))
           base == popped.base
           children == popped.children
           spans == SpansOf(children)
<1>1. /\ Sourced /\ Placed /\ StacksFollowTheAutomaton /\ ForestIsOfTheGrammar
  BY DEF DriverInvariant
<1>2. /\ Coherent(P) /\ input \in Seq(STRING) /\ Len(input) \in Nat /\ at \in Nat /\ at <= Len(input)
  BY <1>1, SourceFacts, Located
<1>3. Stacked(P, input, stacks, forest) /\ Forested(P, input, forest)
  BY <1>1 DEF StacksFollowTheAutomaton, ForestIsOfTheGrammar
<1>4. /\ rule \in Nat /\ rule + 1 \in DOMAIN P.productions
      /\ base \in DOMAIN stacks
      /\ children \in Seq(DOMAIN forest) /\ Len(children) = LrLength(P, rule)
      /\ \A j \in DOMAIN children : forest[children[j]].key[2] = LrRhs(P, rule)[j]
      /\ spans = ChildSpans(forest, children) /\ spans \in Seq(SpansOver(0..Len(input)))
      /\ spans \in Seq(SpansOver(Int)) /\ InARow(P, input, spans)
      /\ IF spans = <<>> THEN Blanks(P, input, EndOf(stacks, forest, base), at)
         ELSE /\ Blanks(P, input, EndOf(stacks, forest, base), spans[1].begin)
              /\ Blanks(P, input, spans[Len(spans)].end, at)
  BY PoppedMakesUp
<1>5. ~SpaceViolation(P, rule, spans) /\ span = ReducedSpan(P, rule, spans, at)
  BY DEF Reductions
<1> HIDE DEF rule, popped, base, children, spans
<1>6. at \in 0..Len(input) /\ span \in SpansOver(0..Len(input))
  <2>1. at \in 0..Len(input)
    BY <1>2
  <2> QED BY <1>4, <1>5, <2>1, ReducedSpanType
<1>7. Ordered(span)
  <2>1. EndOf(stacks, forest, base) \in Int /\ at \in Int
    BY <1>2, <1>3, <1>4, EndsLie
  <2>2. Ordered(ReducedSpan(P, rule, spans, at))
    BY <1>4, <2>1, ReducedSpanLies
  <2> QED BY <1>5, <2>2
<1>8. LrLhs(P, rule) \in STRING
  BY <1>2, <1>4 DEF Coherent, WellFormed, LrLhs
<1>9. Applies(P, input, forest, rule, children, LrLhs(P, rule), span)
  BY <1>4, <1>5, <1>6 DEF Applies
<1> QED BY <1>4, <1>6, <1>7, <1>8, <1>9 DEF rule, children, popped

LEMMA ShiftIsDerived ==
    ASSUME DriverInvariant, ForestIsDerived, ShiftBranch
    PROVE  ForestIsDerived'
<1>1. PICK action \in todo :
        /\ Following(action)
        /\ IF at = Len(input) THEN UNCHANGED forest
           ELSE forest' = WithNode(TRUE, input[at + 1], TokenSpan(at))
  BY DEF ShiftBranch
<1>2. P' = P /\ input' = input
  BY <1>1 DEF Following, source, P
<1>3. /\ Sourced /\ Placed /\ Forested(P, input, forest)
  BY DEF DriverInvariant, ForestIsOfTheGrammar
<1>4. input \in Seq(STRING) /\ Len(input) \in Nat /\ at \in Nat /\ at <= Len(input)
  BY <1>3, Located
<1>5. CASE at = Len(input)
  BY <1>1, <1>2, <1>5 DEF ForestIsDerived
<1>6. CASE at # Len(input)
  <2> DEFINE token == input[at + 1]
             span == TokenSpan(at)
             leaf == [key |-> <<TRUE, token, span>>, span |-> span, alternatives |-> {}]
  <2>1. forest' = WithNode(TRUE, token, span) /\ at < Len(input) /\ at + 1 \in DOMAIN input
    <3>1. DOMAIN input = 1..Len(input)
      BY <1>4
    <3> DEFINE len == Len(input)
    <3>2. len \in Nat /\ at \in Nat /\ at <= len /\ at # len
      BY <1>4, <1>6
    <3> HIDE DEF len
    <3>3. at < len /\ at + 1 \in 1..len
      BY <3>2
    <3> QED BY <1>1, <1>6, <3>1, <3>3 DEF len
  <2>2. forest \in Seq(Nodes(input)) /\ Len(forest) \in Nat /\ DOMAIN forest = 1..Len(forest)
    BY <1>3 DEF Forested
  <2>3. forest' = forest \/ forest' = Append(forest, leaf)
    BY <2>1, <2>2, NodeIsInterned DEF Key, Fresh
  <2>4. Grown(forest, forest') /\ Forested(P, input, forest')
    BY <1>3, <1>4, <2>1, <2>3, LeafAdded
  <2>5. leaf.key[2] = token /\ leaf.span = span
    OBVIOUS
  <2>6. Reads(P, input, token, span, <<>>)
    <3> DEFINE i == at + 1
    <3>1. i - 1 = at /\ i \in DOMAIN input
      BY <1>4, <2>1
    <3> HIDE DEF i
    <3>2. Reads(P, input, input[i], TokenSpan(i - 1), <<>>)
      BY <1>4, <3>1, TokenReads
    <3> QED BY <3>1, <3>2 DEF i
  <2> HIDE DEF token, span, leaf
  <2>7. ASSUME NEW n \in DOMAIN forest' \ DOMAIN forest PROVE forest'[n] = leaf
    <3>1. forest' = Append(forest, leaf)
      BY <2>3
    <3> DEFINE len == Len(forest)
    <3>2. DOMAIN forest' = 1..(len + 1) /\ forest'[len + 1] = leaf /\ len \in Nat /\ DOMAIN forest = 1..len
      BY <2>2, <3>1
    <3> HIDE DEF len
    <3>3. n = len + 1
      BY <3>2
    <3> QED BY <3>2, <3>3
  <2>8. ASSUME NEW n \in DOMAIN forest' \ DOMAIN forest
        PROVE  \E own \in Seq(Nat) : Reads(P, input, forest'[n].key[2], forest'[n].span, own)
    <3>1. <<>> \in Seq(Nat)
      OBVIOUS
    <3> QED BY <2>5, <2>6, <2>7, <3>1
  <2>9. ForestIsRead(P, input, forest) /\ Grown(forest, forest')
    BY <2>4 DEF ForestIsDerived
  <2> QED BY <1>2, <2>8, <2>9, ForestStillRead DEF ForestIsDerived
<1> QED BY <1>5, <1>6

LEMMA ReductionIsDerived ==
    ASSUME DriverInvariant, ForestIsDerived, ReduceBranch
    PROVE  ForestIsDerived'
<1>1. PICK action \in todo :
        /\ action.type = "reduce" /\ Following(action)
        /\ \E popped \in {Popped(top, LrLength(P, action.state))} :
              \/ UNCHANGED forest
              \/ \E span \in Reductions(action.state, popped.children) :
                    ReduceOnto(popped.base, action.state, popped.children, span)
  BY DEF ReduceBranch
<1>2. P' = P /\ input' = input /\ phase = "round"
  BY <1>1 DEF Following, source, P
<1>3. Sourced /\ Forested(P, input, forest) /\ ForestIsRead(P, input, forest)
  BY DEF DriverInvariant, ForestIsOfTheGrammar, ForestIsDerived
<1>4. WellFormed(P) /\ input \in Seq(STRING)
  BY <1>3, SourceFacts
<1> DEFINE rule == action.state
           popped == Popped(top, LrLength(P, rule))
           children == popped.children
           lhs == LrLhs(P, rule)
<1>5. CASE UNCHANGED forest
  BY <1>2, <1>5 DEF ForestIsDerived
<1>6. ASSUME NEW span \in Reductions(rule, children), ReduceOnto(popped.base, rule, children, span)
      PROVE  ForestIsDerived'
  <2> DEFINE node == Node(FALSE, lhs, span)
             grown == WithNode(FALSE, lhs, span)
  <2>1. forest' = WithReading(grown, node, rule, children)
    BY <1>6 DEF ReduceOnto
  <2>2. /\ rule \in Nat /\ lhs \in STRING /\ span \in SpansOver(0..Len(input)) /\ Ordered(span)
        /\ Applies(P, input, forest, rule, children, lhs, span)
    BY <1>1, <1>2, ReductionApplies
  <2> HIDE DEF rule, popped, children, lhs, node, grown
  <2>3. forest \in Seq(Nodes(input)) /\ Len(forest) \in Nat /\ DOMAIN forest = 1..Len(forest)
    BY <1>3 DEF Forested
  <2>4. Interned(forest, lhs, span, node, grown)
    BY <2>3, NodeIsInterned DEF Interned, Key, Fresh, node, grown
  <2>5. PICK after : after = WithReading(grown, node, rule, children)
    OBVIOUS
  <2>6. Grown(forest, after) /\ DOMAIN after = DOMAIN grown /\ NodeIsFor(after, node, lhs, span)
    <3>0. Forested(P, input, forest)
      BY <1>3
    <3>1. Grown(forest, after)
      BY <3>0, <2>2, <2>4, <2>5, ReadingAdded
    <3>2. DOMAIN after = DOMAIN grown
      BY <2>5 DEF WithReading
    <3>3. NodeIsFor(after, node, lhs, span)
      BY <3>0, <2>2, <2>4, <2>5, ReadingAdded
    <3> QED BY <3>1, <3>2, <3>3
  <2>7. \A n \in DOMAIN after \ DOMAIN forest : n = node
    <3> DEFINE fresh == [key |-> <<FALSE, lhs, span>>, span |-> span, alternatives |-> {}]
    <3>1. grown = forest \/ (node = Len(forest) + 1 /\ grown = Append(forest, fresh))
      BY <2>4 DEF Interned
    <3> HIDE DEF fresh
    <3> DEFINE len == Len(forest)
    <3>2. grown = forest \/ (node = len + 1 /\ DOMAIN grown = 1..(len + 1))
      BY <2>3, <3>1
    <3>3. len \in Nat /\ DOMAIN forest = 1..len
      BY <2>3
    <3> HIDE DEF len
    <3> QED BY <2>6, <3>2, <3>3
  <2>8. after[node].key[2] = lhs /\ after[node].span = span
    BY <2>6 DEF NodeIsFor
  <2>9. \E own \in Seq(Nat) : Reads(P, input, lhs, span, own)
    BY <1>3, <1>4, <2>2, AppliedIsRead
  <2>10. \A n \in DOMAIN after \ DOMAIN forest :
            \E own \in Seq(Nat) : Reads(P, input, after[n].key[2], after[n].span, own)
    BY <2>7, <2>8, <2>9
  <2>11. ForestIsRead(P, input, after)
    BY <1>3, <2>6, <2>10, ForestStillRead
  <2> QED BY <1>2, <2>1, <2>5, <2>11 DEF ForestIsDerived
<1> QED BY <1>1, <1>5, <1>6

\* All other steps leave the forest as it is.
LEMMA OthersBuildNothing ==
    ASSUME [Next]_vars, ~ShiftBranch, ~ReduceBranch
    PROVE  UNCHANGED <<source, forest>>
<1>1. ASSUME SkipSpace PROVE UNCHANGED <<source, forest>>
  BY <1>1 DEF SkipSpace, branches
<1>2. ASSUME OpenRound PROVE UNCHANGED <<source, forest>>
  BY <1>2 DEF OpenRound
<1>3. ASSUME TakeTop PROVE UNCHANGED <<source, forest>>
  BY Zenon, <1>3 DEF TakeTop, branches
<1>4. ASSUME GiveUp PROVE UNCHANGED <<source, forest>>
  BY Zenon, <1>4 DEF GiveUp, branches
<1>5. ASSUME AcceptBranch PROVE UNCHANGED <<source, forest>>
  BY <1>5 DEF AcceptBranch, Following
<1>6. ASSUME NextToken PROVE UNCHANGED <<source, forest>>
  BY Zenon, <1>6 DEF NextToken
<1>7. ASSUME Judge PROVE UNCHANGED <<source, forest>>
  BY Zenon, <1>7 DEF Judge, branches
<1>8. ASSUME Descend PROVE UNCHANGED <<source, forest>>
  BY <1>8 DEF Descend, branches
<1>9. ASSUME Callback PROVE UNCHANGED <<source, forest>>
  BY <1>9 DEF Callback, branches
<1>10. ASSUME UNCHANGED vars PROVE UNCHANGED <<source, forest>>
  BY <1>10 DEF vars, branches
<1> QED BY <1>1, <1>2, <1>3, <1>4, <1>5, <1>6, <1>7, <1>8, <1>9, <1>10 DEF Next, Driver, Done

LEMMA NextKeepsForestDerived ==
    ASSUME DriverInvariant, ForestIsDerived, [Next]_vars
    PROVE  ForestIsDerived'
<1>1. CASE ShiftBranch
  BY <1>1, ShiftIsDerived
<1>2. CASE ReduceBranch
  BY <1>2, ReductionIsDerived
<1>3. CASE UNCHANGED <<source, forest>>
  BY <1>3 DEF ForestIsDerived, P, source
<1> QED BY <1>1, <1>2, <1>3, OthersBuildNothing

\* Every node of the forest, on whatever branch and whether or not it ends up
\* in a reading of the whole input, stands for text that the productions derive
\* from its symbol: nothing is packed that the grammar does not say.
THEOREM NodesAreDerived == Spec => []ForestIsDerived
<1>1. Init => ForestIsDerived
  BY DEF Init, ForestIsDerived, ForestIsRead
<1>2. DriverInvariant /\ ForestIsDerived /\ [Next]_vars => ForestIsDerived'
  BY NextKeepsForestDerived
<1> QED BY <1>1, <1>2, DriverInvariantHolds, PTL DEF Spec

\* What the verdict is about, one reading or several, is a sentence: an input
\* is only called ambiguous when the productions derive it.
OnlySentencesAreJudged ==
    phase \in {"evaluate", "accepted"} \/ failure = "ambiguous" => IsSentence(P, input)

LEMMA RootsAreSentences ==
    ASSUME DriverInvariant, ForestIsDerived, NEW root \in roots,
           NEW own \in Seq(Nat), Reads(P, input, forest[root].key[2], forest[root].span, own)
    PROVE  IsReading(P, input, own)
<1>1. Sourced /\ Forested(P, input, forest) /\ ReadingsCoverTheInput
  BY DEF DriverInvariant, ForestIsOfTheGrammar
<1> DEFINE span == forest[root].span
<1>2. /\ at = Len(input) /\ root \in DOMAIN forest /\ forest[root].key[2] = "main"
      /\ Blanks(P, input, 0, span.begin) /\ Blanks(P, input, span.end, Len(input))
      /\ span.begin # 0 => span.leading
      /\ at > span.end => span.trailing
  BY <1>1 DEF ReadingsCoverTheInput
<1>3. input \in Seq(STRING)
  BY <1>1, SourceFacts
<1>4. span \in SpansOver(Places(input)) /\ Ordered(span)
  BY <1>1, <1>2, NodeFacts DEF Places
<1>5. Reads(P, input, "main", span, own)
  BY <1>2
<1>6. Len(input) > span.end => span.trailing
  BY <1>2
<1> HIDE DEF span
<1>7. <<span>> \in Seq(SpansOver(Places(input)))
  BY <1>4
<1> QED BY <1>2, <1>3, <1>4, <1>5, <1>6, <1>7, ReadWhole

\* The forest a verdict of ambiguity was about has complete readings.
AmbiguityHasReadings == failure = "ambiguous" => roots # {}

LEMMA NextKeepsReadings ==
    ASSUME AmbiguityHasReadings, [Next]_vars
    PROVE  AmbiguityHasReadings'
<1>1. CASE AcceptBranch
  <2>1. roots \subseteq roots' /\ failure' = failure
    BY <1>1 DEF AcceptBranch, verdict
  <2> QED BY <2>1 DEF AmbiguityHasReadings
<1>2. CASE Judge
  <2>1. roots' = roots /\ (roots = {} => failure' = "unexpected end")
    BY Zenon, <1>2 DEF Judge, Fail, branches
  <2> QED BY <2>1 DEF AmbiguityHasReadings
<1>3. CASE SkipSpace
  BY <1>3 DEF SkipSpace, branches, verdict, AmbiguityHasReadings
<1>4. CASE OpenRound
  BY <1>4 DEF OpenRound, AmbiguityHasReadings
<1>5. CASE TakeTop
  <2>1. roots' = roots /\ (failure' = failure \/ failure' = "resource limit")
    BY Zenon, <1>5 DEF TakeTop, Fail, branches, verdict
  <2> QED BY <2>1 DEF AmbiguityHasReadings
<1>6. CASE GiveUp
  <2>1. roots' = roots /\ failure' = "resource limit"
    BY Zenon, <1>6 DEF GiveUp, Fail, branches
  <2> QED BY Zenon, <2>1 DEF AmbiguityHasReadings
<1>7. CASE ShiftBranch
  <2>1. roots' = roots /\ failure' = failure
    BY <1>7 DEF ShiftBranch, verdict
  <2> QED BY <2>1 DEF AmbiguityHasReadings
<1>8. CASE ReduceBranch
  <2>1. roots' = roots /\ failure' = failure
    BY <1>8 DEF ReduceBranch, verdict
  <2> QED BY <2>1 DEF AmbiguityHasReadings
<1>9. CASE NextToken
  <2>1. roots' = roots /\ (failure' = failure \/ failure' = "unexpected token")
    BY Zenon, <1>9 DEF NextToken, Fail
  <2> QED BY <2>1 DEF AmbiguityHasReadings
<1>10. CASE Descend
  BY <1>10 DEF Descend, branches, verdict, AmbiguityHasReadings
<1>11. CASE Callback
  BY <1>11 DEF Callback, branches, AmbiguityHasReadings
<1>12. CASE UNCHANGED vars
  BY <1>12 DEF vars, branches, verdict, AmbiguityHasReadings
<1> QED BY <1>1, <1>2, <1>3, <1>4, <1>5, <1>6, <1>7, <1>8, <1>9, <1>10, <1>11, <1>12 DEF Next, Driver, Done

THEOREM JudgedAreSentences == Spec => []OnlySentencesAreJudged
<1>1. Init => AmbiguityHasReadings
  BY DEF Init, AmbiguityHasReadings
<1>2. AmbiguityHasReadings /\ [Next]_vars => AmbiguityHasReadings'
  BY NextKeepsReadings
<1>3. ASSUME DriverInvariant, ForestIsDerived, AmbiguityHasReadings
      PROVE  OnlySentencesAreJudged
  <2> SUFFICES ASSUME phase \in {"evaluate", "accepted"} \/ failure = "ambiguous"
               PROVE  IsSentence(P, input)
    BY DEF OnlySentencesAreJudged
  <2>1. roots # {}
    BY <1>3 DEF DriverInvariant, CallbacksAreOfTheOnlyTree, AmbiguityHasReadings
  <2>2. PICK root : root \in roots
    BY <2>1
  <2>3. root \in DOMAIN forest
    BY <1>3, <2>2 DEF DriverInvariant, ReadingsCoverTheInput
  <2>4. PICK own \in Seq(Nat) : Reads(P, input, forest[root].key[2], forest[root].span, own)
    BY <1>3, <2>3 DEF ForestIsDerived, ForestIsRead
  <2>5. IsReading(P, input, own)
    BY <1>3, <2>2, <2>4, RootsAreSentences
  <2> QED BY <2>5 DEF IsSentence
<1> QED BY <1>1, <1>2, <1>3, DriverInvariantHolds, NodesAreDerived, PTL DEF Spec

-----------------------------------------------------------------------------
(* The walk over the chosen tree. *)

\* The alternative the walk takes, which is what Chosen says of the forest.
ChosenOf(fs, n) == CHOOSE a \in fs[n].alternatives : TRUE

\* After the first m members of its node a frame has made these callbacks.
FrameReads(p, text, fs, n, m, own) ==
    /\ n \in DOMAIN fs
    /\ IF fs[n].key[1] THEN m = 0 /\ own = <<>>
       ELSE /\ m \in 0..Len(ChosenOf(fs, n).children)
            /\ PartReads(p, text, ChosenOf(fs, n).rule,
                         ChildSpans(fs, ChosenOf(fs, n).children), m, own)

\* The callbacks of a node once those of its members are made.
Told(fs, n, own) == IF fs[n].key[1] THEN own ELSE Append(own, ChosenOf(fs, n).rule)

LEMMA ChosenApplies ==
    ASSUME NEW p, NEW text, NEW fs, Forested(p, text, fs), NEW n \in DOMAIN fs, ~fs[n].key[1]
    PROVE  LET a == ChosenOf(fs, n)
           IN  /\ a.rule \in Nat /\ a.children \in Seq(Nat)
               /\ Applies(p, text, fs, a.rule, a.children, fs[n].key[2], fs[n].span)
<1> DEFINE a == ChosenOf(fs, n)
<1>1. RuleIsApplied(p, text, fs, fs[n]) /\ fs[n] \in Nodes(text)
  BY DEF Forested, Stands
<1>2. fs[n].alternatives # {} /\ fs[n].alternatives \subseteq [rule : Nat, children : Seq(Nat)]
  BY <1>1 DEF RuleIsApplied, Nodes
<1>3. a \in fs[n].alternatives
  BY <1>2 DEF ChosenOf
<1> HIDE DEF a
<1>4. a.rule \in Nat /\ a.children \in Seq(Nat)
  BY <1>2, <1>3
<1>5. Applies(p, text, fs, a.rule, a.children, fs[n].key[2], fs[n].span)
  BY <1>1, <1>3 DEF RuleIsApplied
<1> QED BY <1>4, <1>5 DEF a

LEMMA FrameBegins ==
    ASSUME NEW p, NEW text, NEW fs, Forested(p, text, fs), NEW n \in DOMAIN fs
    PROVE  FrameReads(p, text, fs, n, 0, <<>>)
<1>1. CASE fs[n].key[1]
  BY <1>1 DEF FrameReads
<1>2. CASE ~fs[n].key[1]
  <2> DEFINE a == ChosenOf(fs, n)
             spans == ChildSpans(fs, a.children)
  <2>1. a.rule \in Nat /\ a.children \in Seq(Nat)
        /\ Applies(p, text, fs, a.rule, a.children, fs[n].key[2], fs[n].span)
    BY <1>2, ChosenApplies
  <2> HIDE DEF a, spans
  <2>2. a.rule + 1 \in DOMAIN p.productions
    BY <2>1 DEF Applies
  <2>3. PartReads(p, text, a.rule, spans, 0, <<>>)
    BY <2>1, <2>2, NothingReads
  <2>4. 0 \in 0..Len(a.children)
    BY <2>1
  <2> QED BY <1>2, <2>3, <2>4 DEF FrameReads, a, spans
<1> QED BY <1>1, <1>2

LEMMA FrameGoesOn ==
    ASSUME NEW p, WellFormed(p), NEW text \in Seq(STRING), NEW fs, Forested(p, text, fs),
           NEW n, NEW m, NEW before \in Seq(Nat), FrameReads(p, text, fs, n, m, before),
           ~fs[n].key[1], m + 1 \in DOMAIN ChosenOf(fs, n).children,
           NEW child, child = ChosenOf(fs, n).children[m + 1],
           NEW own \in Seq(Nat), Reads(p, text, fs[child].key[2], fs[child].span, own)
    PROVE  FrameReads(p, text, fs, n, m + 1, before \o own)
<1> DEFINE a == ChosenOf(fs, n)
           spans == ChildSpans(fs, a.children)
           d == m + 1
<1>1. n \in DOMAIN fs /\ m \in 0..Len(a.children) /\ PartReads(p, text, a.rule, spans, m, before)
  BY DEF FrameReads
<1>2. a.rule \in Nat /\ a.children \in Seq(Nat)
      /\ Applies(p, text, fs, a.rule, a.children, fs[n].key[2], fs[n].span)
  BY <1>1, ChosenApplies
<1>3. d \in DOMAIN a.children /\ child = a.children[d] /\ d - 1 = m /\ d \in 0..Len(a.children)
  BY <1>1, <1>2
<1> HIDE DEF a, d
<1>4. /\ a.rule + 1 \in DOMAIN p.productions /\ LrRhs(p, a.rule) \in Seq(STRING)
      /\ spans \in Seq(SpansOver(Places(text))) /\ DOMAIN spans = DOMAIN a.children
      /\ Len(spans) = LrLength(p, a.rule)
      /\ InARow(p, text, spans) /\ ~SpaceViolation(p, a.rule, spans)
      /\ LrRhs(p, a.rule)[d] = fs[child].key[2] /\ spans[d] = fs[child].span
  <2>1. /\ a.rule + 1 \in DOMAIN p.productions /\ LrRhs(p, a.rule) \in Seq(STRING)
        /\ spans \in Seq(SpansOver(Places(text))) /\ DOMAIN spans = DOMAIN a.children
        /\ Len(spans) = LrLength(p, a.rule)
        /\ InARow(p, text, spans) /\ ~SpaceViolation(p, a.rule, spans)
    BY <1>2, AppliedRow
  <2>2. \A e \in DOMAIN a.children :
           LrRhs(p, a.rule)[e] = fs[a.children[e]].key[2] /\ spans[e] = fs[a.children[e]].span
    BY <1>2, AppliedRow
  <2> HIDE DEF spans
  <2> QED BY <1>3, <2>1, <2>2
<1> HIDE DEF spans
<1>5. Rowed(p, text, a.rule, spans, d)
  BY <1>2, <1>3, <1>4 DEF Rowed
<1>6. p.productions[a.rule + 1].rhs \in Seq(STRING)
  BY <1>4 DEF LrRhs
<1>7. PartReads(p, text, a.rule, spans, d - 1, before) /\ Reads(p, text, LrRhs(p, a.rule)[d], spans[d], own)
  BY <1>1, <1>3, <1>4
<1>8. PartReads(p, text, a.rule, spans, d, before \o own)
  BY <1>5, <1>6, <1>7, PartReadsOn
<1> QED BY <1>1, <1>3, <1>8 DEF FrameReads, a, spans, d

LEMMA FrameEnds ==
    ASSUME NEW p, WellFormed(p), NEW text \in Seq(STRING), NEW fs, Forested(p, text, fs),
           NEW n, NEW m, NEW own \in Seq(Nat), FrameReads(p, text, fs, n, m, own),
           fs[n].key[1] \/ ~(m < Len(ChosenOf(fs, n).children))
    PROVE  /\ Told(fs, n, own) \in Seq(Nat)
           /\ Reads(p, text, fs[n].key[2], fs[n].span, Told(fs, n, own))
<1>1. n \in DOMAIN fs
  BY DEF FrameReads
<1>2. CASE fs[n].key[1]
  <2>1. own = <<>> /\ Told(fs, n, own) = own
    BY <1>2 DEF FrameReads, Told
  <2>2. LeafIsRead(text, fs[n]) /\ fs[n].span.begin \in 0..Len(text)
    BY <1>1, <1>2, NodeFacts DEF Forested, Stands
  <2> DEFINE begin == fs[n].span.begin
             i == begin + 1
             len == Len(text)
  <2>3. begin < len /\ begin \in 0..len /\ len \in Nat /\ DOMAIN text = 1..len
    BY <2>2 DEF LeafIsRead
  <2>4. i \in DOMAIN text /\ i - 1 = begin
    <3> HIDE DEF len, begin
    <3> QED BY <2>3
  <2>5. fs[n].span = TokenSpan(i - 1) /\ fs[n].key[2] = text[i]
    BY <2>2, <2>4 DEF LeafIsRead
  <2> HIDE DEF i
  <2>6. Reads(p, text, text[i], TokenSpan(i - 1), <<>>)
    BY <2>4, TokenReads
  <2> QED BY <2>1, <2>5, <2>6
<1>3. CASE ~fs[n].key[1]
  <2> DEFINE a == ChosenOf(fs, n)
             spans == ChildSpans(fs, a.children)
  <2>1. a.rule \in Nat /\ a.children \in Seq(Nat)
        /\ Applies(p, text, fs, a.rule, a.children, fs[n].key[2], fs[n].span)
    BY <1>1, <1>3, ChosenApplies
  <2>2. m \in 0..Len(a.children) /\ PartReads(p, text, a.rule, spans, m, own) /\ ~(m < Len(a.children))
        /\ Told(fs, n, own) = Append(own, a.rule)
    BY <1>3 DEF FrameReads, Told
  <2> HIDE DEF a, spans
  <2>3. m = Len(a.children)
    <3>1. Len(a.children) \in Nat
      BY <2>1
    <3> QED BY <2>2, <3>1
  <2>4. /\ a.rule + 1 \in DOMAIN p.productions /\ LrLhs(p, a.rule) = fs[n].key[2]
        /\ spans \in Seq(SpansOver(Places(text))) /\ Len(spans) = LrLength(p, a.rule)
        /\ Len(a.children) = LrLength(p, a.rule)
    BY <2>1, AppliedRow DEF spans
  <2>5. PICK c \in 0..Len(text) : fs[n].span = ReducedSpan(p, a.rule, spans, c)
    BY <2>1 DEF Applies, spans
  <2>6. PartReads(p, text, a.rule, spans, Len(spans), own)
    BY <2>2, <2>3, <2>4
  <2>7. Reads(p, text, LrLhs(p, a.rule), ReducedSpan(p, a.rule, spans, c), Append(own, a.rule))
    BY <2>1, <2>4, <2>6, RuleReads
  <2>8. Append(own, a.rule) \in Seq(Nat)
    BY <2>1
  <2> QED BY <2>2, <2>4, <2>5, <2>7, <2>8
<1> QED BY <1>2, <1>3

Frames == [node : Nat, child : Nat]

\* The members of frame k whose callbacks are made: of all frames but the last
\* the child gone into is not done yet.
Finished(fr, k) == IF k = Len(fr) THEN fr[k].child ELSE fr[k].child - 1

\* Each frame is that of the child the frame below has gone into.
Linked(fs, fr) ==
    \A k \in 1..(Len(fr) - 1) :
        /\ ~fs[fr[k].node].key[1]
        /\ fr[k].child \in DOMAIN ChosenOf(fs, fr[k].node).children
        /\ fr[k + 1].node = ChosenOf(fs, fr[k].node).children[fr[k].child]

\* What frame k adds to the callbacks.
FrameAdds(p, text, fs, fr, told, k) ==
    \E own \in Seq(Nat) :
        told[k] = told[k - 1] \o own /\ FrameReads(p, text, fs, fr[k].node, Finished(fr, k), own)

\* told[k] are the callbacks made for the first k frames.
Walked(p, text, fs, fr, told) ==
    /\ told \in [0..Len(fr) -> Seq(Nat)] /\ told[0] = <<>>
    /\ \A k \in 1..Len(fr) : FrameAdds(p, text, fs, fr, told, k)

Evaluated(p, text, fs, tops, fr, made) ==
    /\ fr \in Seq(Frames) /\ fr # <<>> /\ fr[1].node \in tops /\ Linked(fs, fr)
    /\ \E told : Walked(p, text, fs, fr, told) /\ told[Len(fr)] = made

LEMMA FramesTyped ==
    ASSUME NEW fr \in Seq(Frames), fr # <<>>
    PROVE  /\ Len(fr) \in Nat \ {0} /\ DOMAIN fr = 1..Len(fr)
           /\ \A k \in 1..Len(fr) : fr[k] \in Frames /\ fr[k].node \in Nat /\ fr[k].child \in Nat
<1>1. Len(fr) \in Nat /\ Len(fr) # 0 /\ DOMAIN fr = 1..Len(fr)
  OBVIOUS
<1>2. \A k \in 1..Len(fr) : fr[k] \in Frames
  OBVIOUS
<1> QED BY <1>1, <1>2 DEF Frames

LEMMA EvaluationBegins ==
    ASSUME NEW p, NEW text, NEW fs, Forested(p, text, fs), NEW tops, NEW root \in tops,
           root \in DOMAIN fs, NEW fr, fr = <<[node |-> root, child |-> 0]>>
    PROVE  Evaluated(p, text, fs, tops, fr, <<>>)
<1> DEFINE first == [node |-> root, child |-> 0]
           told == [k \in 0..1 |-> <<>>]
<1>1. root \in Nat
  BY NodeFacts
<1>2. first \in Frames /\ first.node = root /\ first.child = 0
  BY <1>1 DEF Frames
<1> HIDE DEF first
<1>3. fr = <<first>>
  BY DEF first
<1>4. fr \in Seq(Frames) /\ fr # <<>> /\ Len(fr) = 1 /\ fr[1] = first
  BY <1>2, <1>3
<1>5. Linked(fs, fr)
  BY <1>4 DEF Linked
<1>6. Finished(fr, 1) = 0
  BY <1>2, <1>4 DEF Finished
<1>7. FrameReads(p, text, fs, root, 0, <<>>)
  BY FrameBegins
<1>8. <<>> \in Seq(Nat) /\ <<>> = <<>> \o <<>>
  OBVIOUS
<1>9. told \in [0..1 -> Seq(Nat)] /\ told[0] = <<>> /\ told[1] = <<>> /\ told[1 - 1] = <<>>
  BY <1>8
<1> HIDE DEF told
<1>10. FrameAdds(p, text, fs, fr, told, 1)
  <2>1. told[1] = told[1 - 1] \o <<>>
    BY <1>8, <1>9
  <2>2. FrameReads(p, text, fs, fr[1].node, Finished(fr, 1), <<>>)
    BY <1>2, <1>4, <1>6, <1>7
  <2> QED BY <1>8, <2>1, <2>2 DEF FrameAdds
<1>11. Walked(p, text, fs, fr, told)
  BY <1>4, <1>9, <1>10 DEF Walked
<1> QED BY <1>2, <1>4, <1>5, <1>9, <1>11 DEF Evaluated

\* Going into the next child of the last frame.
LEMMA EvaluationDescends ==
    ASSUME NEW p, WellFormed(p), NEW text \in Seq(STRING), NEW fs, Forested(p, text, fs),
           NEW tops, NEW fr, NEW made, Evaluated(p, text, fs, tops, fr, made),
           NEW n, n = Len(fr), NEW top2, top2 = fr[n].node, NEW done, done = fr[n].child,
           ~fs[top2].key[1], done < Len(ChosenOf(fs, top2).children),
           NEW child, child = ChosenOf(fs, top2).children[done + 1],
           NEW fr2 \in Seq(Frames), Len(fr2) = n + 1,
           \A k \in 1..(n - 1) : fr2[k] = fr[k],
           fr2[n].node = top2, fr2[n].child = done + 1,
           fr2[n + 1].node = child, fr2[n + 1].child = 0
    PROVE  Evaluated(p, text, fs, tops, fr2, made)
<1>1. fr \in Seq(Frames) /\ fr # <<>> /\ fr[1].node \in tops /\ Linked(fs, fr)
  BY DEF Evaluated
<1>2. n \in Nat \ {0} /\ n \in 1..n /\ \A k \in 1..n : fr[k].node \in Nat /\ fr[k].child \in Nat
  BY <1>1, FramesTyped
<1>3. PICK told : Walked(p, text, fs, fr, told) /\ told[n] = made
  BY DEF Evaluated
<1>4. told \in [0..n -> Seq(Nat)] /\ told[0] = <<>> /\ \A k \in 1..n : FrameAdds(p, text, fs, fr, told, k)
  BY <1>3 DEF Walked
<1>5. top2 \in DOMAIN fs
  BY <1>2, <1>4 DEF FrameAdds, FrameReads
<1>6. ChosenOf(fs, top2).children \in Seq(Nat)
      /\ Applies(p, text, fs, ChosenOf(fs, top2).rule, ChosenOf(fs, top2).children,
                 fs[top2].key[2], fs[top2].span)
  BY <1>5, ChosenApplies
<1>7. done + 1 \in DOMAIN ChosenOf(fs, top2).children /\ done \in Nat
  BY <1>2, <1>6
<1>8. child \in DOMAIN fs
  <2>1. ChosenOf(fs, top2).children \in Seq(DOMAIN fs)
    BY <1>6 DEF Applies
  <2> QED BY <1>7, <2>1
<1>9. \A k \in 1..n : fr2[k].node = fr[k].node
  <2>1. \A k \in 1..n : k = n \/ k \in 1..(n - 1)
    BY <1>2
  <2> QED BY <2>1
<1>10. \A k \in 1..n : Finished(fr2, k) = Finished(fr, k)
  <2> SUFFICES ASSUME NEW k \in 1..n PROVE Finished(fr2, k) = Finished(fr, k)
    OBVIOUS
  <2>1. k # n + 1 /\ (k = n \/ k \in 1..(n - 1))
    BY <1>2
  <2>2. Finished(fr2, k) = fr2[k].child - 1
    BY <2>1 DEF Finished
  <2>3. CASE k = n
    <3>1. Finished(fr, k) = done
      BY <2>3 DEF Finished
    <3> DEFINE there == fr2[k].child
    <3>2. there = done + 1 /\ done \in Nat
      BY <1>7, <2>3
    <3> HIDE DEF there
    <3>3. there - 1 = done
      BY <3>2
    <3> QED BY <2>2, <3>1, <3>3 DEF there
  <2>4. CASE k # n
    <3>1. Finished(fr, k) = fr[k].child - 1
      BY <2>4 DEF Finished
    <3> QED BY <2>1, <2>2, <2>4, <3>1
  <2> QED BY <2>3, <2>4
<1> DEFINE told2 == [k \in 0..(n + 1) |-> IF k = n + 1 THEN made ELSE told[k]]
<1>11. /\ told2 \in [0..(n + 1) -> Seq(Nat)] /\ told2[0] = <<>> /\ told2[n + 1] = made
       /\ \A k \in 0..n : told2[k] = told[k]
  <2>1. made \in Seq(Nat) /\ \A k \in 0..n : told[k] \in Seq(Nat)
    <3>1. told \in [0..n -> Seq(Nat)] /\ told[n] = made
      BY <1>3, <1>4
    <3>2. n \in 0..n
      BY <1>2
    <3>3. \A k \in 0..n : told[k] \in Seq(Nat)
      BY <3>1
    <3> QED BY <3>1, <3>2, <3>3
  <2>2. \A k \in 0..(n + 1) : k = n + 1 \/ (k \in 0..n /\ k # n + 1)
    BY <1>2
  <2>3. \A k \in 0..n : k \in 0..(n + 1) /\ k # n + 1
    BY <1>2
  <2>4. 0 \in 0..n /\ n + 1 \in 0..(n + 1)
    BY <1>2
  <2> QED BY <1>4, <2>1, <2>2, <2>3, <2>4
<1> HIDE DEF told2
<1>12. ASSUME NEW k \in 1..n PROVE FrameAdds(p, text, fs, fr2, told2, k)
  <2>1. k \in 0..n /\ k - 1 \in 0..n
    BY <1>2
  <2>2. PICK own \in Seq(Nat) :
           told[k] = told[k - 1] \o own /\ FrameReads(p, text, fs, fr[k].node, Finished(fr, k), own)
    BY <1>4 DEF FrameAdds
  <2>3. told2[k] = told2[k - 1] \o own
    BY <1>11, <2>1, <2>2
  <2>4. FrameReads(p, text, fs, fr2[k].node, Finished(fr2, k), own)
    BY <1>9, <1>10, <2>2
  <2> QED BY <2>3, <2>4 DEF FrameAdds
<1>13. FrameAdds(p, text, fs, fr2, told2, n + 1)
  <2> DEFINE k == n + 1
  <2>1. fr2[k].node = child /\ Finished(fr2, k) = 0 /\ k - 1 = n /\ n \in 0..n
    BY <1>2 DEF Finished
  <2>2. told2[k] = made /\ told2[n] = made /\ made \in Seq(Nat)
    BY <1>3, <1>4, <1>11, <2>1
  <2> HIDE DEF k
  <2>3. FrameReads(p, text, fs, fr2[k].node, Finished(fr2, k), <<>>)
    BY <1>8, <2>1, FrameBegins
  <2>4. <<>> \in Seq(Nat) /\ told2[k] = told2[k - 1] \o <<>>
    BY <2>1, <2>2
  <2>5. FrameAdds(p, text, fs, fr2, told2, k)
    BY <2>3, <2>4 DEF FrameAdds
  <2> QED BY <2>5 DEF k
<1>14. Walked(p, text, fs, fr2, told2)
  <2>1. \A k \in 1..(n + 1) : k \in 1..n \/ k = n + 1
    BY <1>2
  <2> QED BY <1>11, <1>12, <1>13, <2>1 DEF Walked
<1>15. Linked(fs, fr2)
  <2> SUFFICES ASSUME NEW k \in 1..(Len(fr2) - 1)
               PROVE  /\ ~fs[fr2[k].node].key[1]
                      /\ fr2[k].child \in DOMAIN ChosenOf(fs, fr2[k].node).children
                      /\ fr2[k + 1].node = ChosenOf(fs, fr2[k].node).children[fr2[k].child]
    BY DEF Linked
  <2>1. k = n \/ (k \in 1..(n - 1) /\ k + 1 \in 1..n)
    BY <1>2
  <2>2. CASE k = n
    BY <2>2, <1>7
  <2>3. CASE k \in 1..(n - 1) /\ k + 1 \in 1..n
    <3>1. /\ ~fs[fr[k].node].key[1]
          /\ fr[k].child \in DOMAIN ChosenOf(fs, fr[k].node).children
          /\ fr[k + 1].node = ChosenOf(fs, fr[k].node).children[fr[k].child]
      BY <1>1, <2>3 DEF Linked
    <3>2. fr2[k] = fr[k] /\ fr2[k + 1].node = fr[k + 1].node
      BY <1>9, <2>3
    <3> QED BY <3>1, <3>2
  <2> QED BY <2>1, <2>2, <2>3
<1>16. fr2 # <<>> /\ fr2[1].node \in tops
  <2>1. 1 \in 1..n
    BY <1>2
  <2> QED BY <1>1, <1>2, <1>9, <2>1
<1> QED BY <1>11, <1>14, <1>15, <1>16 DEF Evaluated

LEMMA EqualSequences ==
    ASSUME NEW S, NEW s \in Seq(S), NEW t \in Seq(S), Len(s) = Len(t),
           \A i \in 1..Len(s) : s[i] = t[i]
    PROVE  s = t
<1> DEFINE n == Len(s)
<1>1. n \in Nat /\ s \in [1..n -> S] /\ t \in [1..n -> S]
  OBVIOUS
<1> HIDE DEF n
<1>2. \A i \in 1..n : s[i] = t[i]
  BY DEF n
<1> QED BY <1>1, <1>2

\* Callbacks appended to those of a frame are appended to all made before.
LEMMA ToldBehind ==
    ASSUME NEW a \in Seq(Nat), NEW b \in Seq(Nat), NEW c \in Seq(Nat)
    PROVE  (a \o b) \o c = a \o (b \o c)
<1>1. /\ Len(a) \in Nat /\ Len(b) \in Nat /\ Len(c) \in Nat
      /\ a \o b \in Seq(Nat) /\ b \o c \in Seq(Nat) /\ (a \o b) \o c \in Seq(Nat) /\ a \o (b \o c) \in Seq(Nat)
  OBVIOUS
<1>2. Len((a \o b) \o c) = Len(a \o (b \o c))
  BY <1>1
<1>3. ASSUME NEW i \in 1..Len((a \o b) \o c) PROVE ((a \o b) \o c)[i] = (a \o (b \o c))[i]
  BY <1>1
<1> DEFINE left == (a \o b) \o c
           right == a \o (b \o c)
<1>4. left \in Seq(Nat) /\ right \in Seq(Nat) /\ Len(left) = Len(right)
      /\ \A i \in 1..Len(left) : left[i] = right[i]
  BY <1>1, <1>2, <1>3
<1> HIDE DEF left, right
<1>5. left = right
  BY <1>4, EqualSequences
<1> QED BY <1>5 DEF left, right

LEMMA OneMoreTold ==
    ASSUME NEW s \in Seq(Nat), NEW x \in Nat
    PROVE  Append(s, x) = s \o <<x>>
  BY AppendIsConcat

LEMMA ToldAtTheEnd ==
    ASSUME NEW fs, NEW n, NEW before \in Seq(Nat), NEW own \in Seq(Nat),
           fs[n].key[1] \/ ChosenOf(fs, n).rule \in Nat
    PROVE  Told(fs, n, before \o own) = before \o Told(fs, n, own)
<1>1. CASE fs[n].key[1]
  BY <1>1 DEF Told
<1>2. CASE ~fs[n].key[1]
  <2> DEFINE rule == ChosenOf(fs, n).rule
             last == <<rule>>
  <2>1. rule \in Nat
    BY <1>2
  <2> HIDE DEF rule
  <2>2. last \in Seq(Nat) /\ before \o own \in Seq(Nat)
    BY <2>1
  <2>3. Append(before \o own, rule) = (before \o own) \o last /\ Append(own, rule) = own \o last
    BY <2>1, <2>2, OneMoreTold
  <2> HIDE DEF last
  <2>4. (before \o own) \o last = before \o (own \o last)
    BY <2>2, ToldBehind
  <2> QED BY <1>2, <2>3, <2>4 DEF Told, rule
<1> QED BY <1>1, <1>2

\* Back from the last frame to the one below.
LEMMA EvaluationReturns ==
    ASSUME NEW p, WellFormed(p), NEW text \in Seq(STRING), NEW fs, Forested(p, text, fs),
           NEW tops, NEW fr, NEW made, Evaluated(p, text, fs, tops, fr, made),
           NEW n, n = Len(fr), n # 1,
           \/ fs[fr[n].node].key[1]
           \/ ~(fr[n].child < Len(ChosenOf(fs, fr[n].node).children)),
           NEW fr2 \in Seq(Frames), Len(fr2) = n - 1, \A k \in 1..(n - 1) : fr2[k] = fr[k],
           NEW made2, made2 = Told(fs, fr[n].node, made)
    PROVE  Evaluated(p, text, fs, tops, fr2, made2)
<1>1. fr \in Seq(Frames) /\ fr # <<>> /\ fr[1].node \in tops /\ Linked(fs, fr)
  BY DEF Evaluated
<1>2. n \in Nat \ {0} /\ \A k \in 1..n : fr[k].node \in Nat /\ fr[k].child \in Nat
  BY <1>1, FramesTyped
<1> DEFINE m == n - 1
           under == fr[m].node
           over == fr[n].node
<1>3. m \in Nat \ {0} /\ m \in 1..m /\ m \in 1..(n - 1) /\ m + 1 = n /\ m \in 1..n /\ n \in 1..n
      /\ m - 1 \in 0..m /\ m # n
  BY <1>2
<1>4. /\ Len(fr2) = m /\ \A k \in 1..m : fr2[k] = fr[k]
  OBVIOUS
<1>5. PICK told : Walked(p, text, fs, fr, told) /\ told[n] = made
  BY DEF Evaluated
<1>6. told \in [0..n -> Seq(Nat)] /\ told[0] = <<>> /\ \A k \in 1..n : FrameAdds(p, text, fs, fr, told, k)
  BY <1>5 DEF Walked
<1>7. PICK own \in Seq(Nat) :
         told[n] = told[m] \o own /\ FrameReads(p, text, fs, over, Finished(fr, n), own)
  BY <1>3, <1>6 DEF FrameAdds
<1>8. PICK before \in Seq(Nat) :
         told[m] = told[m - 1] \o before /\ FrameReads(p, text, fs, under, Finished(fr, m), before)
  BY <1>3, <1>6 DEF FrameAdds
<1>9. Finished(fr, n) = fr[n].child /\ Finished(fr, m) = fr[m].child - 1
  BY <1>3 DEF Finished
<1>10. /\ ~fs[under].key[1] /\ fr[m].child \in DOMAIN ChosenOf(fs, under).children
       /\ over = ChosenOf(fs, under).children[fr[m].child]
  <2>1. m \in 1..(Len(fr) - 1)
    BY <1>3
  <2> QED BY <1>1, <1>3, <2>1 DEF Linked
<1>11. over \in DOMAIN fs /\ under \in DOMAIN fs
  BY <1>7, <1>8 DEF FrameReads
<1> DEFINE full == Told(fs, over, own)
<1>12. full \in Seq(Nat) /\ Reads(p, text, fs[over].key[2], fs[over].span, full)
  <2>1. fs[over].key[1] \/ ~(Finished(fr, n) < Len(ChosenOf(fs, over).children))
    BY <1>9
  <2> HIDE DEF over
  <2> QED BY <1>7, <2>1, FrameEnds
<1>13. FrameReads(p, text, fs, under, fr[m].child, before \o full)
  <2> DEFINE c == fr[m].child
             d == c - 1
  <2>1. c \in Nat
    BY <1>2, <1>3
  <2>2. d + 1 = c
    <3> HIDE DEF c
    <3> QED BY <2>1
  <2>3. d = Finished(fr, m)
    BY <1>9
  <2> HIDE DEF c, d, under, over, full, m
  <2>4. FrameReads(p, text, fs, under, d, before)
    BY <1>8, <2>3
  <2>5. d + 1 \in DOMAIN ChosenOf(fs, under).children /\ over = ChosenOf(fs, under).children[d + 1]
    BY <1>10, <2>2 DEF c
  <2>6. FrameReads(p, text, fs, under, d + 1, before \o full)
    BY <1>10, <1>12, <2>4, <2>5, FrameGoesOn
  <2> QED BY <2>2, <2>6 DEF c
<1>14. made2 = told[m - 1] \o (before \o full)
  <2>1. told[m - 1] \in Seq(Nat) /\ told[m] \in Seq(Nat)
    <3>1. m - 1 \in 0..n /\ m \in 0..n
      BY <1>2, <1>3
    <3> HIDE DEF m
    <3>2. told \in [0..n -> Seq(Nat)]
      BY <1>6
    <3> QED BY <3>1, <3>2
  <2>2. fs[over].key[1] \/ ChosenOf(fs, over).rule \in Nat
    BY <1>11, ChosenApplies
  <2> DEFINE low == told[m - 1]
             mid == told[m]
  <2>3. /\ low \in Seq(Nat) /\ mid \in Seq(Nat) /\ mid = low \o before /\ made = mid \o own
        /\ made2 = Told(fs, over, made)
    BY <1>5, <1>7, <1>8, <2>1
  <2> HIDE DEF low, mid, over, under, full, m
  <2>4. made2 = mid \o full
    BY <2>2, <2>3, ToldAtTheEnd DEF full
  <2>5. (low \o before) \o full = low \o (before \o full)
    <3>1. low \in Seq(Nat) /\ full \in Seq(Nat)
      BY <1>12, <2>3
    <3> QED BY ONLY <3>1, before \in Seq(Nat), ToldBehind
  <2> QED BY <2>3, <2>4, <2>5 DEF low
<1> DEFINE told2 == [k \in 0..m |-> IF k = m THEN made2 ELSE told[k]]
<1>15. /\ told2 \in [0..m -> Seq(Nat)] /\ told2[0] = <<>> /\ told2[m] = made2
       /\ \A k \in 0..(m - 1) : told2[k] = told[k]
  <2>1. \A k \in 0..m : told[k] \in Seq(Nat)
    <3>1. \A k \in 0..m : k \in 0..n
      BY <1>2
    <3>2. told \in [0..n -> Seq(Nat)]
      BY <1>6
    <3> QED BY <3>1, <3>2
  <2>2. made2 \in Seq(Nat)
    <3>1. told[m - 1] \in Seq(Nat) /\ before \o full \in Seq(Nat)
      BY <1>3, <1>12, <2>1, Concatenated
    <3> HIDE DEF m, full
    <3> QED BY <1>14, <3>1, Concatenated
  <2>3. 0 \in 0..m /\ 0 # m /\ m \in 0..m /\ \A k \in 0..(m - 1) : k \in 0..m /\ k # m
    BY <1>3
  <2> HIDE DEF m
  <2> QED BY <1>6, <2>1, <2>2, <2>3
<1> HIDE DEF told2
<1>16. ASSUME NEW k \in 1..(m - 1) PROVE FrameAdds(p, text, fs, fr2, told2, k)
  <2>1. k \in 1..n /\ k \in 0..(m - 1) /\ k - 1 \in 0..(m - 1) /\ k \in 1..m /\ k # m /\ k # n
    <3>1. k \in 1..(m - 1) /\ m \in Nat \ {0} /\ m + 1 = n
      BY <1>3
    <3> HIDE DEF m
    <3> QED BY <3>1
  <2>2. PICK of \in Seq(Nat) :
           told[k] = told[k - 1] \o of /\ FrameReads(p, text, fs, fr[k].node, Finished(fr, k), of)
    BY <1>6, <2>1 DEF FrameAdds
  <2>3. Finished(fr2, k) = Finished(fr, k) /\ fr2[k] = fr[k]
    BY <1>4, <2>1 DEF Finished
  <2>4. told2[k] = told2[k - 1] \o of
    BY <1>15, <2>1, <2>2
  <2> QED BY <2>2, <2>3, <2>4 DEF FrameAdds
<1>17. FrameAdds(p, text, fs, fr2, told2, m)
  <2>1. Finished(fr2, m) = fr[m].child /\ fr2[m].node = under
    BY <1>3, <1>4 DEF Finished
  <2>2. told2[m] = told2[m - 1] \o (before \o full)
    <3>1. m - 1 \in 0..(m - 1)
      BY <1>3
    <3> HIDE DEF m, full
    <3> QED BY <1>14, <1>15, <3>1
  <2>3. before \o full \in Seq(Nat)
    BY <1>12, Concatenated
  <2> HIDE DEF m, full, under
  <2> QED BY <1>13, <2>1, <2>2, <2>3 DEF FrameAdds
<1>18. Walked(p, text, fs, fr2, told2)
  <2>1. \A k \in 1..m : k \in 1..(m - 1) \/ k = m
    BY <1>3
  <2> HIDE DEF m
  <2> QED BY <1>4, <1>15, <1>16, <1>17, <2>1 DEF Walked
<1>19. Linked(fs, fr2)
  <2> SUFFICES ASSUME NEW k \in 1..(Len(fr2) - 1)
               PROVE  /\ ~fs[fr2[k].node].key[1]
                      /\ fr2[k].child \in DOMAIN ChosenOf(fs, fr2[k].node).children
                      /\ fr2[k + 1].node = ChosenOf(fs, fr2[k].node).children[fr2[k].child]
    BY DEF Linked
  <2>1. k \in 1..m /\ k + 1 \in 1..m /\ k \in 1..(Len(fr) - 1)
    BY <1>2, <1>3, <1>4
  <2>2. fr2[k] = fr[k] /\ fr2[k + 1] = fr[k + 1]
    BY <1>4, <2>1
  <2> QED BY <1>1, <2>1, <2>2 DEF Linked
<1>20. fr2 # <<>> /\ fr2[1].node \in tops
  <2>1. 1 \in 1..m /\ Len(fr2) # 0
    BY <1>3, <1>4
  <2> QED BY <1>1, <1>4, <2>1
<1> QED BY <1>4, <1>15, <1>18, <1>19, <1>20 DEF Evaluated

\* The last frame of all is done.
LEMMA EvaluationIsOver ==
    ASSUME NEW p, WellFormed(p), NEW text \in Seq(STRING), NEW fs, Forested(p, text, fs),
           NEW tops, NEW fr, NEW made, Evaluated(p, text, fs, tops, fr, made), Len(fr) = 1,
           \/ fs[fr[1].node].key[1]
           \/ ~(fr[1].child < Len(ChosenOf(fs, fr[1].node).children)),
           NEW made2, made2 = Told(fs, fr[1].node, made)
    PROVE  fr[1].node \in tops /\ made2 \in Seq(Nat)
           /\ Reads(p, text, fs[fr[1].node].key[2], fs[fr[1].node].span, made2)
<1>1. fr[1].node \in tops
  BY DEF Evaluated
<1>2. PICK told : Walked(p, text, fs, fr, told) /\ told[1] = made
  BY DEF Evaluated
<1>3. told[0] = <<>> /\ FrameAdds(p, text, fs, fr, told, 1) /\ told[1] = made
  BY <1>2 DEF Walked
<1>4. PICK own \in Seq(Nat) :
         told[1] = told[1 - 1] \o own /\ FrameReads(p, text, fs, fr[1].node, Finished(fr, 1), own)
  BY <1>3 DEF FrameAdds
<1>5. made = own
  <2>1. told[1 - 1] = <<>> /\ <<>> \o own = own
    BY <1>3
  <2> QED BY <1>3, <1>4, <2>1
<1>6. Finished(fr, 1) = fr[1].child
  BY DEF Finished
<1> DEFINE n == fr[1].node
<1>7. fs[n].key[1] \/ ~(Finished(fr, 1) < Len(ChosenOf(fs, n).children))
  BY <1>6
<1> HIDE DEF n
<1>8. Told(fs, n, own) \in Seq(Nat) /\ Reads(p, text, fs[n].key[2], fs[n].span, Told(fs, n, own))
  BY <1>4, <1>7, FrameEnds DEF n
<1> QED BY <1>1, <1>5, <1>8 DEF n

\* In the middle of the walk the callbacks are those of the frames, and after it
\* they are a reading of the input.
WalkIsSound ==
    /\ phase = "evaluate" => Evaluated(P, input, forest, roots, frames, calls)
    /\ phase = "accepted" => calls \in Seq(Nat) /\ IsReading(P, input, calls)

\* The walk has frames as long as it goes on.
LEMMA LastFrame ==
    ASSUME NEW fr \in Seq(Frames), fr # <<>>, NEW n, n = Len(fr)
    PROVE  n \in Nat \ {0} /\ Last(fr) = fr[n] /\ Front(fr) = SubSeq(fr, 1, n - 1)
           /\ n - 1 \in 0..n
<1>1. Last(fr) = fr[n] /\ Front(fr) = SubSeq(fr, 1, n - 1)
  BY DEF Last, Front
<1>2. n \in Nat \ {0}
  BY FramesTyped
<1> QED BY <1>1, <1>2

LEMMA JudgeBegins ==
    ASSUME DriverInvariant, Judge, phase' # "failed"
    PROVE  WalkIsSound'
<1>1. Sourced /\ Forested(P, input, forest) /\ ReadingsCoverTheInput /\ CallbacksAreOfTheOnlyTree
  BY DEF DriverInvariant, ForestIsOfTheGrammar
<1>2. /\ phase = "round" /\ roots # {} /\ phase' = "evaluate"
      /\ frames' = <<[node |-> CHOOSE n \in roots : TRUE, child |-> 0]>>
      /\ UNCHANGED <<source, forest, roots, calls>>
  BY Zenon DEF Judge, RoundOver, Fail, branches
<1>3. calls = <<>>
  BY <1>1, <1>2 DEF CallbacksAreOfTheOnlyTree
<1>4. P' = P /\ input' = input
  BY <1>2 DEF P, source
<1> DEFINE root == CHOOSE n \in roots : TRUE
<1>5. root \in roots
  BY <1>2
<1>6. root \in DOMAIN forest
  BY <1>1, <1>5 DEF ReadingsCoverTheInput
<1>7. frames' = <<[node |-> root, child |-> 0]>>
  BY <1>2
<1> HIDE DEF root
<1>8. Evaluated(P, input, forest, roots, frames', <<>>)
  BY <1>1, <1>5, <1>6, <1>7, EvaluationBegins
<1> QED BY <1>2, <1>3, <1>4, <1>8 DEF WalkIsSound

LEMMA DescendGoesOn ==
    ASSUME DriverInvariant, WalkIsSound, Descend
    PROVE  WalkIsSound'
<1>1. WellFormed(P) /\ Forested(P, input, forest) /\ input \in Seq(STRING)
  BY SourceFacts DEF DriverInvariant, ForestIsOfTheGrammar
<1>2. /\ phase = "evaluate" /\ MoreChildren
      /\ UNCHANGED <<source, forest, roots, calls, phase>>
  BY DEF Descend, branches, verdict
<1>3. P' = P /\ input' = input
  BY <1>2 DEF P, source
<1>4. Evaluated(P, input, forest, roots, frames, calls) /\ frames \in Seq(Frames) /\ frames # <<>>
  BY <1>2 DEF WalkIsSound, Evaluated
<1> DEFINE n == Len(frames)
           node == frames[n].node
           done == frames[n].child
           child == ChosenOf(forest, node).children[done + 1]
           over == [node |-> child, child |-> 0]
           under == [frames EXCEPT ![n].child = @ + 1]
<1>5. n \in Nat \ {0} /\ Frame = frames[n]
  BY <1>4, LastFrame DEF Frame
<1>6. ~forest[node].key[1] /\ done < Len(ChosenOf(forest, node).children)
  BY <1>2, <1>5 DEF MoreChildren, Chosen, ChosenOf
<1>7. frames' = Append(under, over)
  BY <1>5 DEF Descend, Chosen, ChosenOf
<1>8. \A k \in 1..n : frames[k] \in Frames
  BY <1>4, FramesTyped
<1>9. node \in Nat /\ done \in Nat /\ n \in 1..n /\ frames[n] = [node |-> node, child |-> done]
  BY <1>5, <1>8 DEF Frames
<1>10. node \in DOMAIN forest
  <2>1. PICK told : Walked(P, input, forest, frames, told)
    BY <1>4 DEF Evaluated
  <2>2. FrameAdds(P, input, forest, frames, told, n)
    BY <1>9, <2>1 DEF Walked
  <2> QED BY <2>2 DEF FrameAdds, FrameReads
<1>11. child \in Nat
  <2>1. ChosenOf(forest, node).children \in Seq(Nat)
    BY <1>1, <1>6, <1>10, ChosenApplies
  <2> DEFINE members == ChosenOf(forest, node).children
             e == done + 1
  <2>2. e \in 1..Len(members)
    BY <1>6, <1>9, <2>1
  <2> HIDE DEF members, e
  <2>3. members[e] \in Nat
    BY <2>1, <2>2, Element DEF members
  <2> QED BY <2>3 DEF members, e
<1>12. /\ under \in Seq(Frames) /\ Len(under) = n /\ \A k \in 1..(n - 1) : under[k] = frames[k]
       /\ under[n].node = node /\ under[n].child = done + 1
  <2> DEFINE at2 == [node |-> node, child |-> done + 1]
  <2>1. at2 \in Frames /\ at2.node = node /\ at2.child = done + 1
    BY <1>9 DEF Frames
  <2>2. under = [frames EXCEPT ![n] = at2]
    <3> DEFINE f == frames[n]
    <3>1. [f EXCEPT !.child = @ + 1] = at2
      <4>1. f = [node |-> node, child |-> done]
        BY <1>9
      <4> HIDE DEF f, node, done
      <4> QED BY <4>1
    <3> HIDE DEF at2
    <3> QED BY <3>1
  <2> HIDE DEF at2, node, done, under
  <2>3. [frames EXCEPT ![n] = at2] \in Seq(Frames) /\ Len([frames EXCEPT ![n] = at2]) = n
    BY <1>4, <1>9, <2>1
  <2>4. \A k \in 1..n : under[k] = IF k = n THEN at2 ELSE frames[k]
    BY <1>4, <1>9, <2>2, FramesTyped
  <2>5. \A k \in 1..(n - 1) : k \in 1..n /\ k # n
    BY <1>5
  <2> HIDE DEF n
  <2> QED BY <1>9, <2>1, <2>2, <2>3, <2>4, <2>5
<1>13. over \in Frames /\ over.node = child /\ over.child = 0
  BY <1>11 DEF Frames
<1> HIDE DEF under, over, child
<1>14. /\ frames' \in Seq(Frames) /\ Len(frames') = n + 1 /\ frames'[n + 1] = over
       /\ \A k \in 1..n : frames'[k] = under[k]
  BY <1>7, <1>12, <1>13, Appended
<1>15. /\ \A k \in 1..(n - 1) : frames'[k] = frames[k]
       /\ frames'[n].node = node /\ frames'[n].child = done + 1
       /\ frames'[n + 1].node = child /\ frames'[n + 1].child = 0
  <2>1. \A k \in 1..(n - 1) : k \in 1..n
    BY <1>5
  <2> HIDE DEF n, node, done
  <2> QED BY <1>9, <1>12, <1>13, <1>14, <2>1
<1>16. Evaluated(P, input, forest, roots, frames', calls)
  <2>1. child = ChosenOf(forest, node).children[done + 1]
    BY DEF child
  <2>2. n = Len(frames) /\ node = frames[n].node /\ done = frames[n].child
    OBVIOUS
  <2> HIDE DEF n, node, done
  <2>3. Len(frames') = n + 1 /\ frames' \in Seq(Frames)
    BY <1>14
  <2> QED BY ZenonT(60), <1>1, <1>4, <1>6, <1>15, <2>1, <2>2, <2>3, EvaluationDescends
<1> QED BY <1>2, <1>3, <1>16 DEF WalkIsSound

LEMMA CallbackReturns ==
    ASSUME DriverInvariant, ForestIsDerived, WalkIsSound, Callback
    PROVE  WalkIsSound'
<1>1. WellFormed(P) /\ Forested(P, input, forest) /\ input \in Seq(STRING)
  BY SourceFacts DEF DriverInvariant, ForestIsOfTheGrammar
<1>2. /\ phase = "evaluate" /\ ~MoreChildren /\ frames' = Front(frames)
      /\ phase' = IF Len(frames) = 1 THEN "accepted" ELSE phase
      /\ UNCHANGED <<source, forest, roots>>
  BY DEF Callback, branches
<1>3. P' = P /\ input' = input
  BY <1>2 DEF P, source
<1>4. Evaluated(P, input, forest, roots, frames, calls) /\ frames \in Seq(Frames) /\ frames # <<>>
  BY <1>2 DEF WalkIsSound, Evaluated
<1> DEFINE n == Len(frames)
           node == frames[n].node
<1>5. n \in Nat \ {0} /\ Frame = frames[n] /\ frames' = SubSeq(frames, 1, n - 1) /\ n - 1 \in 0..n
  BY <1>2, <1>4, LastFrame DEF Frame
<1>6. \/ forest[frames[n].node].key[1]
      \/ ~(frames[n].child < Len(ChosenOf(forest, frames[n].node).children))
  BY <1>2, <1>5 DEF MoreChildren, Chosen, ChosenOf
<1>7. calls' = Told(forest, frames[n].node, calls)
  BY <1>5 DEF Callback, Told, Chosen, ChosenOf
<1>8. CASE n = 1
  <2>1. /\ frames[1].node \in roots /\ calls' \in Seq(Nat)
        /\ Reads(P, input, forest[frames[1].node].key[2], forest[frames[1].node].span, calls')
    BY <1>1, <1>4, <1>6, <1>7, <1>8, EvaluationIsOver
  <2>2. IsReading(P, input, calls')
    BY <2>1, RootsAreSentences
  <2>3. phase' = "accepted"
    BY <1>2, <1>8
  <2> QED BY <1>3, <2>1, <2>2, <2>3 DEF WalkIsSound
<1>9. CASE n # 1
  <2>1. frames' \in Seq(Frames) /\ Len(frames') = n - 1 /\ \A k \in 1..(n - 1) : frames'[k] = frames[k]
    <3> DEFINE m == n - 1
    <3>1. m \in 0..Len(frames) /\ frames' = SubSeq(frames, 1, m)
      BY <1>5
    <3> HIDE DEF m
    <3>2. frames' \in Seq(Frames) /\ Len(frames') = m /\ \A k \in 1..m : frames'[k] = frames[k]
      BY <1>4, <3>1, Prefix
    <3> QED BY <3>2 DEF m
  <2>2. n = Len(frames)
    OBVIOUS
  <2> HIDE DEF n
  <2>3. Evaluated(P, input, forest, roots, frames', calls')
    BY <1>1, <1>4, <1>6, <1>7, <1>9, <2>1, <2>2, EvaluationReturns
  <2>4. phase' = "evaluate"
    BY <1>2, <1>9, <2>2
  <2> QED BY <1>2, <1>3, <2>3, <2>4 DEF WalkIsSound
<1> QED BY <1>8, <1>9

\* No other action touches the walk.
LEMMA WalkIsLeftAlone ==
    ASSUME phase' \notin {"evaluate", "accepted"} \/ (phase' = phase /\ UNCHANGED <<source, forest, roots, frames, calls>>),
           WalkIsSound
    PROVE  WalkIsSound'
<1>1. CASE phase' \notin {"evaluate", "accepted"}
  BY <1>1 DEF WalkIsSound
<1>2. CASE phase' = phase /\ UNCHANGED <<source, forest, roots, frames, calls>>
  <2>1. P' = P /\ input' = input
    BY <1>2 DEF P, source
  <2> QED BY <1>2, <2>1 DEF WalkIsSound
<1> QED BY <1>1, <1>2

LEMMA NextKeepsWalkSound ==
    ASSUME DriverInvariant, ForestIsDerived, WalkIsSound, [Next]_vars
    PROVE  WalkIsSound'
<1>1. CASE Judge
  <2>1. CASE phase' = "failed"
    BY <2>1, WalkIsLeftAlone
  <2>2. CASE phase' # "failed"
    BY <1>1, <2>2, JudgeBegins
  <2> QED BY <2>1, <2>2
<1>2. CASE Descend
  BY <1>2, DescendGoesOn
<1>3. CASE Callback
  BY <1>3, CallbackReturns
<1>4. CASE SkipSpace
  <2>1. phase' = "skip"
    BY <1>4 DEF SkipSpace, verdict
  <2> QED BY <2>1, WalkIsLeftAlone
<1>5. CASE OpenRound
  <2>1. phase' = "round"
    BY <1>5 DEF OpenRound
  <2> QED BY <2>1, WalkIsLeftAlone
<1>6. CASE TakeTop
  <2>1. phase' \in {"round", "failed"}
    BY Zenon, <1>6 DEF TakeTop, Fail, verdict
  <2> QED BY <2>1, WalkIsLeftAlone
<1>7. CASE GiveUp
  <2>1. phase' = "failed"
    BY Zenon, <1>7 DEF GiveUp, Fail
  <2> QED BY <2>1, WalkIsLeftAlone
<1>8. CASE AcceptBranch
  <2>1. phase' = "round"
    BY Zenon, <1>8 DEF AcceptBranch, Following, verdict
  <2> QED BY <2>1, WalkIsLeftAlone
<1>9. CASE ShiftBranch
  <2>1. phase' = "round"
    BY Zenon, <1>9 DEF ShiftBranch, Following, verdict
  <2> QED BY <2>1, WalkIsLeftAlone
<1>10. CASE ReduceBranch
  <2>1. phase' = "round"
    BY Zenon, <1>10 DEF ReduceBranch, Following, verdict
  <2> QED BY <2>1, WalkIsLeftAlone
<1>11. CASE NextToken
  <2>1. phase' \in {"skip", "failed"}
    BY Zenon, <1>11 DEF NextToken, Fail
  <2> QED BY <2>1, WalkIsLeftAlone
<1>12. CASE UNCHANGED vars
  BY <1>12, WalkIsLeftAlone DEF vars, branches, verdict
<1> QED BY <1>1, <1>2, <1>3, <1>4, <1>5, <1>6, <1>7, <1>8, <1>9, <1>10, <1>11, <1>12 DEF Next, Driver, Done

\* The callbacks of an accepted input, in the order they are made, are the
\* reductions of a derivation of that input from main: no callback is left out,
\* made twice or made before those of its members.
CallbacksAreAReading ==
    phase = "accepted" => calls \in Seq(Nat) /\ IsReading(P, input, calls)

THEOREM AcceptedCallbacksAreAReading == Spec => []CallbacksAreAReading
<1>1. Init => WalkIsSound
  BY DEF Init, WalkIsSound
<1>2. DriverInvariant /\ ForestIsDerived /\ WalkIsSound /\ [Next]_vars => WalkIsSound'
  BY NextKeepsWalkSound
<1>3. WalkIsSound => CallbacksAreAReading
  BY DEF WalkIsSound, CallbacksAreAReading
<1> QED BY <1>1, <1>2, <1>3, DriverInvariantHolds, NodesAreDerived, PTL DEF Spec

-----------------------------------------------------------------------------
(* What the branches have read begins a sentence.                            *)

\* Up to where a stack has read, and over the whitespace behind it.
LEMMA StackHasBegun ==
    ASSUME DriverInvariant, ForestIsDerived, Rooted(P), Plain(P, {input}),
           NEW stack \in DOMAIN stacks, NEW to \in Places(input),
           Blanks(P, input, EndOf(stacks, forest, stack), to)
    PROVE  BeginsSentence(P, Tokens(P, input, 0, to))
<1> DEFINE n == Len(stacks)
           state == [i \in 1..n |-> stacks[i].state]
           prev == [i \in 1..n |-> stacks[i].previous]
           symbol == [i \in 1..n |-> forest[stacks[i].node].key[2]]
           end == [i \in 1..n |-> EndOf(stacks, forest, i)]
<1>1. /\ Coherent(P) /\ WellFormed(P) /\ P.productions[0].rhs = <<"main">>
      /\ input \in Seq(STRING) /\ Len(input) \in Nat
  BY SourceFacts DEF DriverInvariant
<1>2. Reasoned(P, input)
  BY <1>1 DEF Reasoned
<1>3. Stacked(P, input, stacks, forest) /\ Forested(P, input, forest)
  BY DEF DriverInvariant, StacksFollowTheAutomaton, ForestIsOfTheGrammar
<1>4. /\ n \in Nat /\ DOMAIN stacks = 1..n /\ 1 \in DOMAIN stacks /\ stacks[1].state = 0
      /\ \A i \in 1..n : stacks[i].state \in DOMAIN P.items
  BY <1>1, <1>3, StackIsLinked DEF Root
<1>5. /\ DOMAIN forest \subseteq Nat
      /\ \A i \in DOMAIN forest : /\ forest[i].span \in SpansOver(0..Len(input)) /\ Ordered(forest[i].span)
                                  /\ forest[i].span.end \in 0..Len(input)
                                  /\ forest[i].key[2] \in STRING
  <2>1. \A i \in DOMAIN forest : forest[i].key \in BOOLEAN \X STRING \X SpansOver(0..Len(input))
    <3>1. \A i \in DOMAIN forest : forest[i] \in Nodes(input)
      BY <1>3 DEF Forested
    <3> QED BY <3>1 DEF Nodes
  <2>2. \A i \in DOMAIN forest : forest[i].key[2] \in STRING
    BY <2>1
  <2> QED BY <1>3, <2>2, NodeFacts
<1>6. \A i \in 1..n : /\ state[i] = stacks[i].state /\ prev[i] = stacks[i].previous
                      /\ symbol[i] = forest[stacks[i].node].key[2] /\ end[i] = EndOf(stacks, forest, i)
  OBVIOUS
<1> HIDE DEF state, prev, symbol, end, n
<1>7. ASSUME NEW i \in 2..n
      PROVE  /\ prev[i] \in 1..(i - 1) /\ state[i] # 0 /\ end[i] \in Places(input)
             /\ \A item \in P.items[state[i]] : item[2] > 0 =>
                   /\ Rhs(P, item[1])[item[2]] = symbol[i]
                   /\ <<item[1], item[2] - 1>> \in P.items[state[prev[i]]]
             /\ symbol[i] \in STRING
             /\ \E span \in SpansOver(Places(input)) : \E own :
                   /\ Ordered(span) /\ Reads(P, input, symbol[i], span, own)
                   /\ Blanks(P, input, end[prev[i]], span.begin) /\ end[i] = span.end
  <2>1. i \in 1..n /\ i \in Nat /\ i # 1
    BY <1>4
  <2>2. Continues(P, input, stacks, forest, i)
    BY <1>3, <1>4 DEF Stacked, n
  <2> DEFINE link == stacks[i]
             node == forest[link.node]
             edge == <<stacks[link.previous].state, node.key[2]>>
  <2>3. /\ link.previous \in 1..(i - 1) /\ link.node \in DOMAIN forest
        /\ edge \in DOMAIN P.goto /\ link.state = P.goto[edge]
        /\ Blanks(P, input, EndOf(stacks, forest, link.previous), node.span.begin)
    BY <2>2 DEF Continues
  <2>4. link.previous \in 1..n
    BY <2>1, <2>3, <1>4
  <2>5. prev[i] = link.previous /\ state[i] = link.state /\ symbol[i] = node.key[2]
        /\ state[prev[i]] = stacks[link.previous].state /\ end[prev[i]] = EndOf(stacks, forest, link.previous)
    BY <1>6, <2>1, <2>4
  <2>6. end[i] = node.span.end
    BY <1>6, <2>1 DEF EndOf, Root
  <2>7. /\ node.span \in SpansOver(0..Len(input)) /\ Ordered(node.span)
        /\ node.span.end \in 0..Len(input) /\ node.key[2] \in STRING
    BY <1>5, <2>3
  <2>8. \E own \in Seq(Nat) : Reads(P, input, node.key[2], node.span, own)
    BY <2>3 DEF ForestIsDerived, ForestIsRead
  <2>9. edge[1] = stacks[link.previous].state /\ edge[2] = node.key[2]
    OBVIOUS
  <2> HIDE DEF link, node, edge
  <2>10. /\ link.state # 0
         /\ \A item \in P.items[link.state] : item[2] > 0 =>
               /\ P.productions[item[1]].rhs[item[2]] = edge[2]
               /\ <<item[1], item[2] - 1>> \in P.items[edge[1]]
    BY <1>1, <2>3 DEF Coherent, Transitions
  <2>11. \A item \in P.items[state[i]] : item[2] > 0 =>
            /\ Rhs(P, item[1])[item[2]] = symbol[i]
            /\ <<item[1], item[2] - 1>> \in P.items[state[prev[i]]]
    BY <2>5, <2>9, <2>10 DEF Rhs
  <2>12. \E span \in SpansOver(Places(input)) : \E own :
            /\ Ordered(span) /\ Reads(P, input, symbol[i], span, own)
            /\ Blanks(P, input, end[prev[i]], span.begin) /\ end[i] = span.end
    BY <2>3, <2>5, <2>6, <2>7, <2>8 DEF Places
  <2> QED BY <2>3, <2>5, <2>6, <2>7, <2>10, <2>11, <2>12 DEF Places
<1>8. end[1] = 0 /\ state[1] = 0 /\ 0 \in Places(input)
  BY <1>1, <1>4, <1>6 DEF EndOf, Root, Places
<1>9. \A i \in 1..n : state[i] \in DOMAIN P.items /\ end[i] \in Places(input)
  <2> TAKE i \in 1..n
  <2>1. CASE i = 1
    BY <1>4, <1>6, <1>8, <2>1
  <2>2. CASE i # 1
    <3>1. i \in 2..n
      BY <1>4, <2>2
    <3> QED BY <1>4, <1>6, <1>7, <3>1
  <2> QED BY <2>1, <2>2
<1>10. ReadAlong(P, input, n, state, prev, symbol, end)
  <2>1. n \in Nat \ {0}
    BY <1>4
  <2> QED BY <1>7, <1>8, <1>9, <2>1 DEF ReadAlong
<1>11. stack \in 1..n /\ Blanks(P, input, end[stack], to)
  BY <1>4, <1>6
<1> QED BY <1>2, <1>10, <1>11, ReadAlongBegins

\* The tokens up to the position of the driver begin a sentence.
HasBegun == BeginsSentence(P, Tokens(P, input, 0, at))

LEMMA InitiallyBegun ==
    ASSUME Init, Rooted(P), Plain(P, {input})
    PROVE  HasBegun
<1>1. DriverInvariant /\ ForestIsDerived
  BY InitiallyInvariant DEF Init, ForestIsDerived, ForestIsRead
<1>2. Root \in DOMAIN stacks /\ 0 \in Places(input) /\ at = 0
  BY <1>1, SourceFacts DEF Init, Root, DriverInvariant, Places
<1>3. Blanks(P, input, EndOf(stacks, forest, Root), 0)
  BY DEF EndOf, Blanks
<1> QED BY <1>1, <1>2, <1>3, StackHasBegun DEF HasBegun

LEMMA NextKeepsBegun ==
    ASSUME DriverInvariant, ForestIsDerived, Rooted(P), Plain(P, {input}), HasBegun, [Next]_vars
    PROVE  HasBegun'
<1>1. input \in Seq(STRING) /\ Len(input) \in Nat /\ at \in Nat /\ at <= Len(input) /\ 0 \in Places(input)
      /\ at \in Places(input)
  BY Located DEF DriverInvariant, Places
<1>2. ASSUME SkipSpace PROVE HasBegun'
  <2>1. at < Len(input) /\ LrIsSpace(P, input[at + 1]) /\ at' = at + 1 /\ P' = P /\ input' = input
    BY <1>2 DEF SkipSpace, AtSpace, source, P
  <2>2. Blanks(P, input, at, at + 1) /\ at + 1 \in Places(input)
    BY <1>1, <2>1 DEF Blanks, Places
  <2>3. Tokens(P, input, 0, at + 1) = Tokens(P, input, 0, at)
    BY <1>1, <2>2, TokensOnward
  <2>4. HasBegun' = BeginsSentence(P, Tokens(P, input, 0, at + 1))
    BY <2>1 DEF HasBegun
  <2> QED BY <2>3, <2>4 DEF HasBegun
<1>3. ASSUME NextToken PROVE HasBegun'
  <2>1. UNCHANGED source /\ P' = P /\ input' = input
    BY <1>3 DEF NextToken, source, P
  <2>2. CASE shifted = {}
    <3>1. at' = at
      BY <1>3, <2>2 DEF NextToken
    <3> QED BY <2>1, <3>1 DEF HasBegun
  <2>3. CASE shifted # {}
    <3>1. at' = at + 1 /\ at < Len(input) /\ phase = "round"
      BY <1>3, <2>3 DEF NextToken, RoundOver
    <3>2. PICK stack \in shifted : TRUE
      BY <2>3
    <3>3. stack \in DOMAIN stacks /\ EndOf(stacks, forest, stack) = at + 1
      BY <3>1, <3>2 DEF DriverInvariant, RoundIsSound
    <3>4. at + 1 \in Places(input) /\ Blanks(P, input, EndOf(stacks, forest, stack), at + 1)
      BY <1>1, <3>1, <3>3 DEF Places, Blanks
    <3>5. BeginsSentence(P, Tokens(P, input, 0, at + 1))
      BY <3>3, <3>4, StackHasBegun
    <3> QED BY <2>1, <3>1, <3>5 DEF HasBegun
  <2> QED BY <2>2, <2>3
<1>4. ASSUME UNCHANGED <<source, at>> PROVE HasBegun'
  BY <1>4 DEF HasBegun, source, P
<1>5. ASSUME OpenRound PROVE UNCHANGED <<source, at>>
  BY <1>5 DEF OpenRound
<1>6. ASSUME TakeTop PROVE UNCHANGED <<source, at>>
  BY Zenon, <1>6 DEF TakeTop
<1>7. ASSUME GiveUp PROVE UNCHANGED <<source, at>>
  BY Zenon, <1>7 DEF GiveUp
<1>8. ASSUME AcceptBranch \/ ShiftBranch \/ ReduceBranch PROVE UNCHANGED <<source, at>>
  BY Zenon, <1>8 DEF AcceptBranch, ShiftBranch, ReduceBranch, Following
<1>9. ASSUME Judge PROVE UNCHANGED <<source, at>>
  BY Zenon, <1>9 DEF Judge
<1>10. ASSUME Descend \/ Callback PROVE UNCHANGED <<source, at>>
  BY Zenon, <1>10 DEF Descend, Callback
<1>11. ASSUME UNCHANGED vars PROVE UNCHANGED <<source, at>>
  BY <1>11 DEF vars
<1> QED BY <1>2, <1>3, <1>4, <1>5, <1>6, <1>7, <1>8, <1>9, <1>10, <1>11 DEF Next, Driver, Done

LEMMA FoundedHere ==
    ASSUME NEW CONSTANT orders, Founded(Parsers, Inputs, orders), Sourced
    PROVE  /\ Rooted(P) /\ Plain(P, {input}) /\ Plain(P, {})
           /\ orders[parser] \in Seq(STRING) /\ Fertile(P, orders[parser])
  BY DEF Founded, Plain, Sourced, P

LEMMA BegunAlways ==
    ASSUME NEW CONSTANT orders, Founded(Parsers, Inputs, orders)
    PROVE  Spec => [](DriverInvariant /\ HasBegun)
<1>1. Init => HasBegun
  BY InitiallyInvariant, InitiallyBegun, FoundedHere DEF DriverInvariant
<1>2. DriverInvariant /\ ForestIsDerived /\ HasBegun /\ [Next]_vars => HasBegun'
  BY NextKeepsBegun, FoundedHere DEF DriverInvariant
<1> QED BY <1>1, <1>2, DriverInvariantHolds, NodesAreDerived, PTL DEF Spec

\* No branch lives on past an error: whatever the branches are, from the tokens
\* consumed a sentence can still be reached, when nothing is in the tables
\* without a reason and every rule derives a text.  A round that shifts nothing
\* ends at the first token no sentence can have there.
THEOREM BranchesGoOn ==
    ASSUME NEW CONSTANT orders, Founded(Parsers, Inputs, orders)
    PROVE  Spec => [](\E rest \in Seq(STRING) : IsSentence(P, Solid(P, SubSeq(input, 1, at)) \o rest))
<1>1. ASSUME DriverInvariant, HasBegun
      PROVE  \E rest \in Seq(STRING) : IsSentence(P, Solid(P, SubSeq(input, 1, at)) \o rest)
  <2>1. /\ Plain(P, {}) /\ orders[parser] \in Seq(STRING) /\ Fertile(P, orders[parser])
    BY <1>1, FoundedHere DEF DriverInvariant
  <2>2. /\ WellFormed(P) /\ P.productions[0].rhs = <<"main">> /\ input \in Seq(STRING)
        /\ at \in 0..Len(input)
    BY <1>1, SourceFacts DEF DriverInvariant, Placed
  <2> DEFINE read == Tokens(P, input, 0, at)
  <2>3. BeginsSentence(P, read)
    BY <1>1 DEF HasBegun
  <2>4. read = Solid(P, SubSeq(input, 1, at))
    BY DEF Tokens
  <2>5. SubSeq(input, 1, at) \in Seq(STRING)
    BY <2>2, Prefix
  <2>6. read \in Seq(STRING)
    BY <2>4, <2>5, SolidIsTyped
  <2> HIDE DEF read
  <2>7. \E rest \in Seq(STRING) : IsSentence(P, read \o rest)
    BY <2>1, <2>2, <2>3, <2>6, BeginningGoesOn
  <2> QED BY <2>4, <2>7
<1> QED BY <1>1, BegunAlways, PTL

\* The run's form of it: what the branches have consumed is in Viable, when
\* Viable names every beginning of a sentence as short as the inputs.
THEOREM BranchesStayViable ==
    ASSUME NEW CONSTANT orders, NEW CONSTANT words, NEW CONSTANT begins, NEW CONSTANT bounds,
           Founded(Parsers, Inputs, orders), NamesBeginnings(Parsers, Inputs, Viable, words, begins, bounds)
    PROVE  Spec => []BranchesAreViable
<1>1. ASSUME DriverInvariant, HasBegun PROVE BranchesAreViable
  <2>1. /\ bounds[parser] \in Nat /\ Len(input) <= bounds[parser]
        /\ BeginningsClosed(P, words[parser], begins[parser], bounds[parser])
        /\ begins[parser]["main"] \subseteq Viable[parser]
    BY <1>1 DEF NamesBeginnings, DriverInvariant, Sourced, P
  <2>2. WellFormed(P) /\ input \in Seq(STRING) /\ at \in Places(input)
    BY <1>1, SourceFacts DEF DriverInvariant, Placed, Places
  <2>3. Solid(P, SubSeq(input, 1, at)) \in begins[parser]["main"]
    BY <1>1, <2>1, <2>2, ReadIsNamed DEF HasBegun
  <2> QED BY <2>1, <2>3 DEF BranchesAreViable
<1> QED BY <1>1, BegunAlways, PTL

-----------------------------------------------------------------------------
(* No sentence is refused: the runs of LRGeneratedProofs are among the        *)
(* branches, and a round takes each of them a step further.                   *)

\* A stack, with those below it along the path, spells what a run c has.
SpelledAlong(st, fs, stack, path, c) ==
    /\ path \in Seq(DOMAIN st) /\ path # <<>> /\ path[1] = Root /\ path[Len(path)] = stack
    /\ \A i, j \in DOMAIN path : i <= j => path[i] <= path[j]
    /\ \A i \in 1..(Len(path) - 1) : st[path[i + 1]].previous = path[i]
    /\ Len(c.states) = Len(path) /\ Len(c.spans) = Len(path) - 1
    /\ \A i \in DOMAIN path : c.states[i] = st[path[i]].state
    /\ \A i \in 1..(Len(path) - 1) : c.spans[i] = fs[st[path[i + 1]].node].span

Spells(st, fs, stack, c) == \E path \in Seq(DOMAIN st) : SpelledAlong(st, fs, stack, path, c)

LEMMA PathTyped ==
    ASSUME NEW p, Coherent(p), NEW text \in Seq(STRING), NEW st, NEW fs,
           Stacked(p, text, st, fs), Forested(p, text, fs),
           NEW stack, NEW path, NEW c, SpelledAlong(st, fs, stack, path, c)
    PROVE  /\ Len(path) \in Nat \ {0} /\ DOMAIN path = 1..Len(path)
           /\ \A i \in 1..Len(path) : path[i] \in DOMAIN st /\ path[i] \in Nat /\ path[i] <= stack
           /\ \A i \in 2..Len(path) : path[i] # Root /\ st[path[i]].node \in DOMAIN fs
<1>1. path \in Seq(DOMAIN st) /\ path # <<>> /\ path[Len(path)] = stack
  BY DEF SpelledAlong
<1>2. Len(path) \in Nat \ {0} /\ DOMAIN path = 1..Len(path)
  BY <1>1
<1>3. \A s \in DOMAIN st : s \in Nat /\ s # 0 /\ (s # Root => st[s].node \in DOMAIN fs)
  <2>1. /\ DOMAIN st = 1..Len(st) /\ Len(st) \in Nat
        /\ \A s \in DOMAIN st : s # Root => st[s].node \in DOMAIN fs
    BY EndsLie
  <2> QED BY <2>1
<1>4. \A i \in 1..Len(path) : path[i] \in DOMAIN st /\ path[i] \in Nat /\ path[i] <= stack
  <2> TAKE i \in 1..Len(path)
  <2>1. path[i] \in DOMAIN st
    BY <1>1, Element
  <2>2. Len(path) \in DOMAIN path /\ i \in DOMAIN path /\ i <= Len(path)
    BY <1>2
  <2>3. path[i] <= path[Len(path)]
    BY <2>2 DEF SpelledAlong
  <2> QED BY <1>1, <1>3, <2>1, <2>3
<1>5. \A i \in 2..Len(path) : path[i] # Root /\ st[path[i]].node \in DOMAIN fs
  <2> TAKE i \in 2..Len(path)
  <2>1. i - 1 \in 1..(Len(path) - 1) /\ i - 1 + 1 = i /\ i - 1 \in 1..Len(path) /\ i \in 1..Len(path)
    BY <1>2
  <2>2. st[path[i]].previous = path[i - 1]
    BY <2>1 DEF SpelledAlong
  <2>3. st[Root].previous = 0
    BY DEF Stacked, Bottom, None
  <2> QED BY <1>3, <1>4, <2>1, <2>2, <2>3
<1> QED BY <1>2, <1>4, <1>5

\* It stays spelled while stacks and nodes are added.
LEMMA SpellsStill ==
    ASSUME NEW p, Coherent(p), NEW text \in Seq(STRING), NEW st, NEW fs,
           Stacked(p, text, st, fs), Forested(p, text, fs),
           NEW st2, NEW fs2, Grown(fs, fs2), DOMAIN st \subseteq DOMAIN st2,
           \A s \in DOMAIN st : st2[s] = st[s],
           NEW stack, NEW path, NEW c, SpelledAlong(st, fs, stack, path, c)
    PROVE  SpelledAlong(st2, fs2, stack, path, c) /\ Spells(st2, fs2, stack, c)
<1>1. /\ Len(path) \in Nat \ {0} /\ DOMAIN path = 1..Len(path)
      /\ \A i \in 1..Len(path) : path[i] \in DOMAIN st
      /\ \A i \in 2..Len(path) : st[path[i]].node \in DOMAIN fs
  BY PathTyped
<1>2. /\ path \in Seq(DOMAIN st) /\ path # <<>> /\ path[1] = Root /\ path[Len(path)] = stack
      /\ \A i, j \in DOMAIN path : i <= j => path[i] <= path[j]
      /\ \A i \in 1..(Len(path) - 1) : st[path[i + 1]].previous = path[i]
      /\ Len(c.states) = Len(path) /\ Len(c.spans) = Len(path) - 1
      /\ \A i \in DOMAIN path : c.states[i] = st[path[i]].state
      /\ \A i \in 1..(Len(path) - 1) : c.spans[i] = fs[st[path[i + 1]].node].span
  BY DEF SpelledAlong
<1>3. path \in Seq(DOMAIN st2)
  BY <1>2
<1>4. \A i \in 1..(Len(path) - 1) :
         /\ st2[path[i + 1]].previous = path[i]
         /\ c.spans[i] = fs2[st2[path[i + 1]].node].span
  <2> TAKE i \in 1..(Len(path) - 1)
  <2>1. i + 1 \in 2..Len(path) /\ i + 1 \in 1..Len(path)
    BY <1>1
  <2>2. st2[path[i + 1]] = st[path[i + 1]] /\ st[path[i + 1]].node \in DOMAIN fs
    BY <1>1, <2>1
  <2> QED BY <1>2, <2>2 DEF Grown
<1>5. \A i \in DOMAIN path : c.states[i] = st2[path[i]].state
  BY <1>1, <1>2
<1>6. SpelledAlong(st2, fs2, stack, path, c)
  BY <1>2, <1>3, <1>4, <1>5 DEF SpelledAlong
<1> QED BY <1>3, <1>6 DEF Spells

\* And what an old stack spells it spelled before.
LEMMA SpelledBefore ==
    ASSUME NEW p, Coherent(p), NEW text \in Seq(STRING), NEW st, NEW fs,
           Stacked(p, text, st, fs), Forested(p, text, fs),
           NEW st2, NEW fs2, Grown(fs, fs2), DOMAIN st \subseteq DOMAIN st2,
           \A s \in DOMAIN st : st2[s] = st[s],
           Stacked(p, text, st2, fs2), Forested(p, text, fs2),
           NEW stack \in DOMAIN st, NEW path, NEW c, SpelledAlong(st2, fs2, stack, path, c)
    PROVE  SpelledAlong(st, fs, stack, path, c) /\ Spells(st, fs, stack, c)
<1>1. /\ Len(path) \in Nat \ {0} /\ DOMAIN path = 1..Len(path)
      /\ \A i \in 1..Len(path) : path[i] \in DOMAIN st2 /\ path[i] \in Nat /\ path[i] <= stack
      /\ \A i \in 2..Len(path) : path[i] # Root
  BY PathTyped
<1>2. /\ path \in Seq(DOMAIN st2) /\ path # <<>> /\ path[1] = Root /\ path[Len(path)] = stack
      /\ \A i, j \in DOMAIN path : i <= j => path[i] <= path[j]
      /\ \A i \in 1..(Len(path) - 1) : st2[path[i + 1]].previous = path[i]
      /\ Len(c.states) = Len(path) /\ Len(c.spans) = Len(path) - 1
      /\ \A i \in DOMAIN path : c.states[i] = st2[path[i]].state
      /\ \A i \in 1..(Len(path) - 1) : c.spans[i] = fs2[st2[path[i + 1]].node].span
  BY DEF SpelledAlong
<1>3. /\ DOMAIN st = 1..Len(st) /\ Len(st) \in Nat /\ DOMAIN st2 = 1..Len(st2) /\ Len(st2) \in Nat
      /\ \A s \in DOMAIN st : s # Root => st[s].node \in DOMAIN fs
  BY EndsLie
<1>4. \A i \in 1..Len(path) : path[i] \in DOMAIN st
  BY <1>1, <1>3
<1>5. path \in Seq(DOMAIN st)
  BY <1>2, <1>4, SameElements
<1>6. \A i \in 1..(Len(path) - 1) :
         /\ st[path[i + 1]].previous = path[i]
         /\ c.spans[i] = fs[st[path[i + 1]].node].span
  <2> TAKE i \in 1..(Len(path) - 1)
  <2>1. i + 1 \in 2..Len(path) /\ i + 1 \in 1..Len(path)
    BY <1>1
  <2>2. st2[path[i + 1]] = st[path[i + 1]] /\ st[path[i + 1]].node \in DOMAIN fs
    BY <1>1, <1>3, <1>4, <2>1
  <2> QED BY <1>2, <2>2 DEF Grown
<1>7. \A i \in DOMAIN path : c.states[i] = st[path[i]].state
  BY <1>1, <1>2, <1>4
<1>8. SpelledAlong(st, fs, stack, path, c)
  BY <1>2, <1>5, <1>6, <1>7 DEF SpelledAlong
<1> QED BY <1>5, <1>8 DEF Spells

\* The beginning of a path.
LEMMA SpellsPrefix ==
    ASSUME NEW p, Coherent(p), NEW text \in Seq(STRING), NEW st, NEW fs,
           Stacked(p, text, st, fs), Forested(p, text, fs), NEW S, NEW T,
           NEW stack, NEW path, NEW c, c.states \in Seq(S), c.spans \in Seq(T),
           SpelledAlong(st, fs, stack, path, c), NEW n \in Nat, n < Len(path),
           NEW e, e.states = SubSeq(c.states, 1, n + 1), e.spans = SubSeq(c.spans, 1, n)
    PROVE  SpelledAlong(st, fs, path[n + 1], SubSeq(path, 1, n + 1), e)
<1> DEFINE cut == SubSeq(path, 1, n + 1)
<1>1. /\ Len(path) \in Nat \ {0} /\ DOMAIN path = 1..Len(path)
      /\ n + 1 \in 1..Len(path) /\ n + 1 \in 0..Len(path) /\ n \in 0..(Len(path) - 1)
  BY PathTyped
<1>2. /\ path \in Seq(DOMAIN st) /\ path # <<>> /\ path[1] = Root /\ path[Len(path)] = stack
      /\ \A i, j \in DOMAIN path : i <= j => path[i] <= path[j]
      /\ \A i \in 1..(Len(path) - 1) : st[path[i + 1]].previous = path[i]
      /\ Len(c.states) = Len(path) /\ Len(c.spans) = Len(path) - 1
      /\ \A i \in DOMAIN path : c.states[i] = st[path[i]].state
      /\ \A i \in 1..(Len(path) - 1) : c.spans[i] = fs[st[path[i + 1]].node].span
  BY DEF SpelledAlong
<1>3. cut \in Seq(DOMAIN st) /\ Len(cut) = n + 1 /\ \A i \in 1..(n + 1) : cut[i] = path[i]
  BY <1>1, <1>2, Prefix
<1>4. Len(e.states) = n + 1 /\ \A i \in 1..(n + 1) : e.states[i] = c.states[i]
  <2>1. n + 1 \in 0..Len(c.states)
    BY <1>1, <1>2
  <2> QED BY <2>1, Prefix
<1>5. Len(e.spans) = n /\ \A i \in 1..n : e.spans[i] = c.spans[i]
  <2>1. n \in 0..Len(c.spans)
    BY <1>1, <1>2
  <2> QED BY <2>1, Prefix
<1>6. DOMAIN cut = 1..(n + 1) /\ cut # <<>>
  BY <1>3
<1> HIDE DEF cut
<1>7. cut[1] = Root /\ cut[Len(cut)] = path[n + 1]
  BY <1>2, <1>3
<1>8. \A i, j \in DOMAIN cut : i <= j => cut[i] <= cut[j]
  <2> TAKE i, j \in DOMAIN cut
  <2>1. i \in DOMAIN path /\ j \in DOMAIN path
    BY <1>1, <1>6
  <2> QED BY <1>2, <1>3, <1>6, <2>1
<1>9. \A i \in 1..n : /\ st[cut[i + 1]].previous = cut[i]
                      /\ e.spans[i] = fs[st[cut[i + 1]].node].span
  <2> TAKE i \in 1..n
  <2>1. i \in 1..(Len(path) - 1) /\ i \in 1..(n + 1) /\ i + 1 \in 1..(n + 1)
    BY <1>1
  <2>2. cut[i] = path[i] /\ cut[i + 1] = path[i + 1]
    BY <1>3, <2>1
  <2> QED BY <1>2, <1>5, <2>1, <2>2
<1>10. \A i \in DOMAIN cut : e.states[i] = st[cut[i]].state
  <2> TAKE i \in DOMAIN cut
  <2>1. i \in DOMAIN path /\ i \in 1..(n + 1)
    BY <1>1, <1>6
  <2> QED BY <1>2, <1>3, <1>4, <2>1
<1>11. n + 1 - 1 = n
  OBVIOUS
<1>12. SpelledAlong(st, fs, path[n + 1], cut, e)
  BY <1>3, <1>4, <1>5, <1>6, <1>7, <1>8, <1>9, <1>10, <1>11 DEF SpelledAlong
<1> QED BY <1>12 DEF cut

\* A stack on top of what spells a run spells the run with its state pushed.
LEMMA SpellsPushed ==
    ASSUME NEW p, Coherent(p), NEW text \in Seq(STRING), NEW st, NEW fs,
           Stacked(p, text, st, fs), Forested(p, text, fs), NEW S, NEW T,
           NEW stack, NEW path, NEW c, c.states \in Seq(S), c.spans \in Seq(T),
           SpelledAlong(st, fs, stack, path, c),
           NEW dest \in DOMAIN st, st[dest].previous = stack, NEW e,
           st[dest].state \in S, fs[st[dest].node].span \in T,
           e.states = Append(c.states, st[dest].state),
           e.spans = Append(c.spans, fs[st[dest].node].span)
    PROVE  Spells(st, fs, dest, e)
<1> DEFINE longer == Append(path, dest)
           len == Len(path)
<1>1. /\ len \in Nat \ {0} /\ DOMAIN path = 1..len
      /\ \A i \in 1..len : path[i] \in Nat /\ path[i] <= stack
  BY PathTyped
<1>2. /\ path \in Seq(DOMAIN st) /\ path # <<>> /\ path[1] = Root /\ path[len] = stack
      /\ \A i, j \in DOMAIN path : i <= j => path[i] <= path[j]
      /\ \A i \in 1..(len - 1) : st[path[i + 1]].previous = path[i]
      /\ Len(c.states) = len /\ Len(c.spans) = len - 1
      /\ \A i \in DOMAIN path : c.states[i] = st[path[i]].state
      /\ \A i \in 1..(len - 1) : c.spans[i] = fs[st[path[i + 1]].node].span
  BY DEF SpelledAlong
<1>3. longer \in Seq(DOMAIN st) /\ Len(longer) = len + 1 /\ longer[len + 1] = dest
      /\ \A i \in 1..len : longer[i] = path[i]
  BY <1>2, Appended
<1>4. Len(e.states) = len + 1 /\ e.states[len + 1] = st[dest].state
      /\ \A i \in 1..len : e.states[i] = c.states[i]
  BY <1>2, Appended
<1>5. Len(e.spans) = len /\ e.spans[len] = fs[st[dest].node].span
      /\ \A i \in 1..(len - 1) : e.spans[i] = c.spans[i]
  <2>1. Len(e.spans) = Len(c.spans) + 1 /\ e.spans[Len(c.spans) + 1] = fs[st[dest].node].span
        /\ \A i \in 1..Len(c.spans) : e.spans[i] = c.spans[i]
    BY Appended
  <2>2. Len(c.spans) = len - 1
    BY <1>2
  <2> HIDE DEF len
  <2>3. len \in Nat
    BY <1>1
  <2>4. len - 1 + 1 = len
    BY <2>3
  <2> QED BY <2>1, <2>2, <2>4
<1>6. dest \in Nat /\ stack < dest /\ stack \in Nat
  <2>1. DOMAIN st = 1..Len(st) /\ Len(st) \in Nat /\ stack \in DOMAIN st
    <3>1. len \in 1..len
      BY <1>1
    <3> QED BY <1>2, <3>1, EndsLie, Element
  <2>2. dest # Root
    BY <2>1 DEF Stacked, Bottom, None
  <2>3. dest \in 2..Len(st)
    BY <2>1, <2>2 DEF Root
  <2>4. st[dest].previous \in 1..(dest - 1)
    BY <2>3 DEF Stacked, Continues
  <2> QED BY <2>1, <2>4
<1>7. DOMAIN longer = 1..(len + 1) /\ longer # <<>>
  BY <1>1, <1>3
<1> HIDE DEF longer, len
<1>8. longer[1] = Root /\ longer[Len(longer)] = dest
  BY <1>1, <1>2, <1>3
<1>9. \A i, j \in DOMAIN longer : i <= j => longer[i] <= longer[j]
  <2> TAKE i, j \in DOMAIN longer
  <2> HAVE i <= j
  <2>1. CASE j = len + 1 /\ i = len + 1
    BY <1>3, <1>6, <2>1
  <2>2. CASE j = len + 1 /\ i \in 1..len
    <3>1. longer[j] = dest /\ longer[i] = path[i] /\ path[i] \in Nat /\ path[i] <= stack
      BY <1>1, <1>3, <2>2
    <3> QED BY <1>6, <3>1
  <2>3. CASE j \in 1..len
    <3>1. i \in DOMAIN path /\ j \in DOMAIN path /\ i \in 1..len
      BY <1>1, <1>7, <2>3
    <3> QED BY <1>2, <1>3, <2>3, <3>1
  <2> QED BY <1>1, <1>7, <2>1, <2>2, <2>3
<1>10. \A i \in 1..len : /\ st[longer[i + 1]].previous = longer[i]
                         /\ e.spans[i] = fs[st[longer[i + 1]].node].span
  <2> TAKE i \in 1..len
  <2>1. CASE i = len
    BY <1>2, <1>3, <1>5, <2>1
  <2>2. CASE i # len
    <3>1. i \in 1..(len - 1) /\ i + 1 \in 1..len
      BY <1>1, <2>2
    <3>2. longer[i] = path[i] /\ longer[i + 1] = path[i + 1]
      BY <1>3, <3>1
    <3> QED BY <1>2, <1>5, <3>1, <3>2
  <2> QED BY <2>1, <2>2
<1>11. \A i \in DOMAIN longer : e.states[i] = st[longer[i]].state
  <2> TAKE i \in DOMAIN longer
  <2>1. CASE i = len + 1
    BY <1>3, <1>4, <2>1
  <2>2. CASE i # len + 1
    <3>1. i \in 1..len /\ i \in DOMAIN path
      BY <1>1, <1>7, <2>2
    <3> QED BY <1>2, <1>3, <1>4, <3>1
  <2> QED BY <2>1, <2>2
<1>12. len + 1 - 1 = len
  BY <1>1
<1>13. /\ Len(longer) - 1 = len /\ Len(e.states) = Len(longer) /\ Len(e.spans) = Len(longer) - 1
       /\ longer[Len(longer)] = dest
  BY <1>3, <1>4, <1>5, <1>8, <1>12
<1>14. \A i \in 1..(Len(longer) - 1) :
          /\ st[longer[i + 1]].previous = longer[i]
          /\ e.spans[i] = fs[st[longer[i + 1]].node].span
  BY <1>10, <1>13
<1>15. SpelledAlong(st, fs, dest, longer, e)
  BY <1>3, <1>7, <1>8, <1>9, <1>11, <1>13, <1>14 DEF SpelledAlong
<1> QED BY <1>3, <1>15 DEF Spells

\* What is popped for a right-hand side are the nodes at the end of the path.
LEMMA WalkedAlong ==
    ASSUME NEW p, Coherent(p), NEW text \in Seq(STRING), NEW st, NEW fs,
           Stacked(p, text, st, fs), Forested(p, text, fs),
           NEW stack, NEW path, NEW c, SpelledAlong(st, fs, stack, path, c),
           NEW count \in Nat, count < Len(path)
    PROVE  LET w == Walk(st, stack, count)[count]
               base == Len(path) - count
           IN  /\ w.base = path[base]
               /\ w.children \in Seq(DOMAIN fs) /\ Len(w.children) = count
               /\ \A j \in 1..count : w.children[j] = st[path[base + j]].node
<1> DEFINE len == Len(path)
           w(i) == Walk(st, stack, count)[i]
           Along(i) == /\ w(i).base = path[len - i]
                       /\ w(i).children \in Seq(DOMAIN fs) /\ Len(w(i).children) = i
                       /\ \A j \in 1..i : w(i).children[j] = st[path[len - i + j]].node
           Off == {i \in 0..count : ~Along(i)}
<1>1. w(0) = Start(stack) /\ \A i \in 0..count : i > 0 => w(i) = Pop(st, w(i - 1))
  BY WalkUnfolds
<1>2. /\ len \in Nat \ {0} /\ DOMAIN path = 1..len /\ count < len
      /\ \A i \in 2..len : path[i] # Root /\ st[path[i]].node \in DOMAIN fs
  BY PathTyped
<1>3. path[len] = stack /\ \A i \in 1..(len - 1) : st[path[i + 1]].previous = path[i]
  BY DEF SpelledAlong
<1> HIDE DEF w, len
<1>4. Along(0)
  <2>1. w(0).base = stack /\ w(0).children = <<>>
    BY <1>1 DEF Start
  <2>2. <<>> \in Seq(DOMAIN fs) /\ Len(<<>>) = 0 /\ len - 0 = len /\ 1..0 = {}
    BY <1>2
  <2> QED BY <1>3, <2>1, <2>2
<1>5. CASE Off = {}
  <2>1. count \in 0..count
    OBVIOUS
  <2> QED BY <1>5, <2>1 DEF w, len
<1>6. CASE Off # {}
  <2>1. Off \subseteq Nat
    OBVIOUS
  <2>2. PICK i \in Off : \A k \in Off : i <= k
    <3> HIDE DEF Off
    <3> QED BY <1>6, <2>1, HasFirst
  <2>3. i \in 0..count /\ i # 0 /\ ~Along(i)
    BY <2>2, <1>4
  <2> DEFINE h == i - 1
  <2>4. h \in 0..count /\ ~(i <= h) /\ i > 0 /\ h \in Nat /\ i = h + 1
    BY <2>3
  <2>5. Along(h)
    <3>1. h \notin Off
      BY <2>2, <2>4
    <3> QED BY <2>4, <3>1
  <2> DEFINE b == len - h
             node == st[path[b]].node
  <2>6. b \in 2..len /\ b - 1 \in 1..(len - 1) /\ b - 1 + 1 = b /\ len - i = b - 1
    BY <1>2, <2>3, <2>4
  <2>7. path[b] # Root /\ node \in DOMAIN fs /\ st[path[b]].previous = path[b - 1]
    BY <1>2, <1>3, <2>6
  <2>8. w(h).base = path[b] /\ w(h).children \in Seq(DOMAIN fs) /\ Len(w(h).children) = h
        /\ \A j \in 1..h : w(h).children[j] = st[path[b + j]].node
    BY <2>5
  <2>9. w(i) = Pop(st, w(h))
    BY <1>1, <2>3, <2>4
  <2>10. w(i) = [base |-> path[b - 1], children |-> <<node>> \o w(h).children]
    BY <2>7, <2>8, <2>9 DEF Pop
  <2>11. w(i).base = path[len - i] /\ w(i).children = <<node>> \o w(h).children
    BY <2>6, <2>10
  <2> DEFINE old == w(h).children
             new == w(i).children
  <2>12. new \in Seq(DOMAIN fs) /\ Len(new) = h + 1 /\ new[1] = node /\ \A j \in 1..h : new[j + 1] = old[j]
    BY <2>7, <2>8, <2>11, Prepended
  <2> HIDE DEF h, b, Along, Off
  <2>13. \A j \in 1..i : new[j] = st[path[len - i + j]].node
    <3> TAKE j \in 1..i
    <3>1. CASE j = 1
      BY <2>6, <2>12, <3>1
    <3>2. CASE j # 1
      <4>1. j - 1 \in 1..h /\ j - 1 + 1 = j /\ b + (j - 1) = len - i + j
        BY <1>2, <2>3, <2>4, <2>6, <3>2
      <4> QED BY <2>8, <2>12, <4>1
    <3> QED BY <3>1, <3>2
  <2>14. Along(i)
    BY <2>4, <2>11, <2>12, <2>13 DEF Along
  <2> QED BY <2>3, <2>14
<1> QED BY <1>5, <1>6

\* Every stack of a round is taken up.
LEMMA AscendingHolds ==
    ASSUME NEW n \in Nat, NEW S, S \subseteq 1..n, NEW m \in S
    PROVE  \E i \in 1..Len(Ascending(S)) : Ascending(S)[i] = m
<1> DEFINE Lower(x) == {y \in S : y < x}
           card == Cardinality(S)
<1>1. S \subseteq Nat /\ IsFiniteSet(S) /\ card \in Nat
  <2>1. IsFiniteSet(1..n)
    <3>1. 1 \in Int /\ n \in Int
      OBVIOUS
    <3> QED BY <3>1, FS_Interval
  <2>2. IsFiniteSet(S)
    BY <2>1, FS_Subset
  <2>3. S \subseteq Nat
    OBVIOUS
  <2> QED BY <2>2, <2>3, FS_CardinalityType
<1>2. ASSUME NEW x \in S PROVE IsFiniteSet(Lower(x)) /\ Cardinality(Lower(x)) \in Nat
  <2>1. Lower(x) \subseteq S
    OBVIOUS
  <2> QED BY <1>1, <2>1, FS_Subset, FS_CardinalityType
<1>3. ASSUME NEW x \in S, NEW y \in S, x < y PROVE Cardinality(Lower(x)) < Cardinality(Lower(y))
  <2> DEFINE upTo == Lower(x) \cup {x}
  <2>1. x \notin Lower(x) /\ IsFiniteSet(Lower(x)) /\ Cardinality(Lower(x)) \in Nat
    BY <1>1, <1>2
  <2>2. Cardinality(upTo) = Cardinality(Lower(x)) + 1
    BY <2>1, FS_AddElement
  <2>3. upTo \subseteq Lower(y)
    <3>1. x \in Nat /\ y \in Nat /\ \A z \in S : z \in Nat
      BY <1>1
    <3>2. \A z \in Lower(x) : z \in S /\ z < y
      BY <1>3, <3>1
    <3>3. x \in Lower(y)
      BY <1>3
    <3> QED BY <3>2, <3>3
  <2>4. IsFiniteSet(Lower(y)) /\ Cardinality(Lower(y)) \in Nat
    BY <1>2
  <2>5. Cardinality(upTo) <= Cardinality(Lower(y))
    BY <2>3, <2>4, FS_Subset
  <2> HIDE DEF Lower, upTo
  <2> QED BY <2>1, <2>2, <2>4, <2>5
<1>4. \A x, y \in S : Cardinality(Lower(x)) = Cardinality(Lower(y)) => x = y
  <2> TAKE x, y \in S
  <2> HAVE Cardinality(Lower(x)) = Cardinality(Lower(y))
  <2>1. Cardinality(Lower(x)) \in Nat /\ x \in Nat /\ y \in Nat
    BY <1>1, <1>2
  <2>2. ~(x < y) /\ ~(y < x)
    <3>1. ASSUME x < y PROVE FALSE
      BY <1>3, <2>1, <3>1
    <3>2. ASSUME y < x PROVE FALSE
      BY <1>3, <2>1, <3>2
    <3> QED BY <3>1, <3>2
  <2> QED BY <2>1, <2>2
<1>5. Cardinality(Lower(m)) < card
  <2>1. m \notin Lower(m) /\ Lower(m) \subseteq S
    BY <1>1
  <2>2. Cardinality(Lower(m)) \in Nat /\ IsFiniteSet(Lower(m))
    BY <1>2
  <2>3. Cardinality(Lower(m)) <= card /\ (Cardinality(Lower(m)) = card => Lower(m) = S)
    BY <1>1, <2>1, FS_Subset
  <2> HIDE DEF Lower, card
  <2> QED BY <1>1, <2>1, <2>2, <2>3
<1> DEFINE i == Cardinality(Lower(m)) + 1
<1>6. i \in 1..card /\ i - 1 = Cardinality(Lower(m))
  <2>1. Cardinality(Lower(m)) \in Nat
    BY <1>2
  <2> HIDE DEF Lower, card
  <2> QED BY <1>1, <1>5, <2>1
<1>7. Ascending(S)[i] = CHOOSE x \in S : Cardinality(Lower(x)) = i - 1
  BY <1>6 DEF Ascending
<1>8. Ascending(S)[i] = m
  <2> HIDE DEF Lower, i, card
  <2>1. \E x \in S : Cardinality(Lower(x)) = i - 1
    BY <1>6
  <2> DEFINE chosen == CHOOSE x \in S : Cardinality(Lower(x)) = i - 1
  <2>2. chosen \in S /\ Cardinality(Lower(chosen)) = i - 1
    BY <2>1
  <2> QED BY <1>4, <1>6, <1>7, <2>2
<1>9. Len(Ascending(S)) = card
  BY <1>1 DEF Ascending
<1> QED BY <1>6, <1>8, <1>9

\* A branch follows whatever the runs may take.
LEMMA OfferedIsFollowed ==
    ASSUME Sourced, Placed, ~AtSpace, NEW stack, NEW c, c.at = at, Uppermost(c) = stacks[stack].state,
           NEW type, type \in {"shift", "reduce", "accept"}, NEW state, MayTake(P, input, c, type, state)
    PROVE  [type |-> type, state |-> state] \in ActionsOf(stack)
<1> DEFINE w == Window(P, input, at)
           s == stacks[stack].state
           selected == LrAction(P, s, w)
           action == [type |-> type, state |-> state]
<1> SUFFICES action \in ActionsOf(stack)
  OBVIOUS
<1>1. /\ Coherent(P) /\ P.k \in Nat \ {0} /\ input \in Seq(STRING) /\ at \in Places(input)
  <2>1. Coherent(P) /\ WellFormed(P) /\ input \in Seq(STRING)
    BY SourceFacts
  <2> QED BY <2>1 DEF WellFormed, Placed, Places
<1>2. w = Win(P, input, at)
  BY <1>1, WindowThere DEF AtSpace
<1>3. action \in Offered(P, s, w)
  BY <1>2 DEF MayTake
<1>4. ActionsOf(stack) = IF selected = Conflict THEN LrConflict(P, s, w)
                         ELSE IF selected = Invalid THEN {} ELSE {selected}
  BY DEF ActionsOf
<1> HIDE DEF w, s
<1>5. selected = Conflict \/ selected = Invalid \/ selected.type \in {"shift", "reduce", "accept"}
  <2> DEFINE entries == {cell \in P.entries : Covers(cell, s, w)}
             decisions == {cell \in P.decisions : Covers(cell, s, w)}
  <2>1. \A cell \in entries \cup decisions : cell.action.type \in {"shift", "reduce", "accept"}
    BY <1>1 DEF Coherent, SoundCell
  <2>2. selected = IF entries # {} THEN (CHOOSE cell \in entries : TRUE).action
                   ELSE IF decisions # {} THEN (CHOOSE cell \in decisions : TRUE).action
                   ELSE IF \E cell \in P.open : Covers(cell, s, w) THEN Conflict
                   ELSE Invalid
    BY DEF LrAction
  <2> HIDE DEF entries, decisions, selected
  <2>3. CASE entries # {}
    <3>1. (CHOOSE cell \in entries : TRUE) \in entries
      BY <2>3
    <3> QED BY <2>1, <2>2, <2>3, <3>1
  <2>4. CASE entries = {} /\ decisions # {}
    <3>1. (CHOOSE cell \in decisions : TRUE) \in decisions
      BY <2>4
    <3> QED BY <2>1, <2>2, <2>4, <3>1
  <2> QED BY <2>2, <2>3, <2>4
<1>6. action \in IF selected.type = "conflict" THEN LrConflict(P, s, w) ELSE {selected}
  BY <1>3 DEF Offered
<1>7. action.type = type
  OBVIOUS
<1> HIDE DEF selected, action
<1>8. CASE selected = Conflict
  <2>1. selected.type = "conflict"
    BY <1>8 DEF Conflict
  <2> QED BY <1>4, <1>6, <1>8, <2>1
<1>9. CASE selected = Invalid
  <2>1. selected.type = "invalid"
    BY <1>9 DEF Invalid
  <2> QED BY <1>6, <1>7, <2>1
<1>10. CASE selected.type \in {"shift", "reduce", "accept"}
  <2>1. selected # Conflict /\ selected # Invalid /\ action = selected
    BY <1>6, <1>10 DEF Conflict, Invalid
  <2> QED BY <1>4, <2>1
<1> QED BY <1>5, <1>8, <1>9, <1>10

\* The runs that stand where a stack does.
Follows(stack, c) == Spells(stacks, forest, stack, c)
RunsAt(stack) == {c \in Configs(P, input) : c.at = at /\ Follows(stack, c)}

\* An action has taken a run of a stack where it leads.
Went(c, action) ==
    /\ action.type = "accept" /\ Final(P, input, c) => roots # {}
    /\ action.type = "shift" /\ at < Len(input) =>
          \E s \in shifted : Follows(s, PushedOn(c, action.state, TokenSpan(at), at + 1))
    /\ action.type = "reduce" /\ CanReduce(P, c, action.state, BaseOf(P, c, action.state)) =>
          \E s \in closure : Follows(s, ReducedBy(P, c, action.state, BaseOf(P, c, action.state)))

Gone(stack, action) == \A c \in RunsAt(stack) : Went(c, action)

\* A stack the round has met waits, or its actions have all been followed but
\* those still to do.
RoundFollows ==
    phase = "round" =>
        /\ active \subseteq closure /\ ~AtSpace
        /\ \A stack \in closure :
              \/ \E i \in DOMAIN pending : pending[i] = stack
              \/ \A action \in ActionsOf(stack) : (stack = top /\ action \in todo) \/ Gone(stack, action)

\* One of the stacks a round starts from stands where a run that accepts does.
StillThere == \E stack \in active : \E c \in RunsAt(stack) : Accepting(P, input, c)

NothingRefused ==
    IsSentence(P, input) =>
        /\ phase \in {"skip", "round"} => StillThere
        /\ failure \notin {"unexpected token", "unexpected end"}

\* Stacks and nodes are only added.
KeepsStacks ==
    /\ Grown(forest, forest') /\ DOMAIN stacks \subseteq DOMAIN stacks'
    /\ \A s \in DOMAIN stacks : stacks'[s] = stacks[s]

LEMMA FollowsStill ==
    ASSUME DriverInvariant, DriverInvariant', UNCHANGED <<tables, input>>, KeepsStacks,
           NEW stack \in DOMAIN stacks, NEW c
    PROVE  Follows(stack, c)' <=> Follows(stack, c)
<1>1. Coherent(P) /\ input \in Seq(STRING) /\ P' = P /\ input' = input
  BY SourceFacts DEF DriverInvariant, P
<1>2. Stacked(P, input, stacks, forest) /\ Forested(P, input, forest)
  BY DEF DriverInvariant, StacksFollowTheAutomaton, ForestIsOfTheGrammar
<1>3. Stacked(P, input, stacks', forest') /\ Forested(P, input, forest')
  BY <1>1 DEF DriverInvariant, StacksFollowTheAutomaton, ForestIsOfTheGrammar
<1>4. ASSUME Spells(stacks, forest, stack, c) PROVE Spells(stacks', forest', stack, c)
  <2>1. PICK path : SpelledAlong(stacks, forest, stack, path, c)
    BY <1>4 DEF Spells
  <2> QED BY <1>1, <1>2, <2>1, SpellsStill DEF KeepsStacks
<1>5. ASSUME Spells(stacks', forest', stack, c) PROVE Spells(stacks, forest, stack, c)
  <2>1. PICK path : SpelledAlong(stacks', forest', stack, path, c)
    BY <1>5 DEF Spells
  <2> QED BY <1>1, <1>2, <1>3, <2>1, SpelledBefore DEF KeepsStacks
<1> QED BY <1>4, <1>5 DEF Follows

LEMMA RunsStay ==
    ASSUME DriverInvariant, DriverInvariant', UNCHANGED <<tables, input, at>>, KeepsStacks,
           NEW stack \in DOMAIN stacks
    PROVE  RunsAt(stack)' = RunsAt(stack) /\ ActionsOf(stack)' = ActionsOf(stack)
<1>1. P' = P /\ input' = input /\ at' = at
  BY DEF P
<1>2. \A c : Follows(stack, c)' <=> Follows(stack, c)
  BY FollowsStill
<1>3. RunsAt(stack)' = RunsAt(stack)
  BY <1>1, <1>2 DEF RunsAt
<1>4. stacks'[stack] = stacks[stack]
  BY DEF KeepsStacks
<1>5. ActionsOf(stack)' = ActionsOf(stack)
  BY <1>1, <1>4 DEF ActionsOf
<1> QED BY <1>3, <1>5

LEMMA GoneStays ==
    ASSUME DriverInvariant, DriverInvariant', UNCHANGED <<tables, input, at>>, KeepsStacks,
           shifted \subseteq shifted', closure \subseteq closure', roots \subseteq roots',
           phase = "round", NEW stack \in DOMAIN stacks, NEW action, Gone(stack, action)
    PROVE  Gone(stack, action)'
<1>1. P' = P /\ input' = input /\ at' = at /\ RunsAt(stack)' = RunsAt(stack)
  BY RunsStay DEF P
<1>2. \A s \in closure \cup shifted : s \in DOMAIN stacks
  BY DEF DriverInvariant, RoundIsSound
<1>3. \A s \in closure \cup shifted : \A c : Follows(s, c) => Follows(s, c)'
  BY <1>2, FollowsStill
<1> SUFFICES ASSUME NEW c \in RunsAt(stack) PROVE Went(c, action)'
  BY <1>1 DEF Gone
<1>4. Went(c, action)
  BY DEF Gone
<1>5. action.type = "accept" /\ Final(P, input, c) => roots' # {}
  BY <1>4 DEF Went
<1>6. action.type = "shift" /\ at < Len(input) =>
          \E s \in shifted' : Follows(s, PushedOn(c, action.state, TokenSpan(at), at + 1))'
  BY <1>3, <1>4 DEF Went
<1>7. action.type = "reduce" /\ CanReduce(P, c, action.state, BaseOf(P, c, action.state)) =>
          \E s \in closure' : Follows(s, ReducedBy(P, c, action.state, BaseOf(P, c, action.state)))'
  <2> HAVE action.type = "reduce" /\ CanReduce(P, c, action.state, BaseOf(P, c, action.state))
  <2>1. PICK e : e = ReducedBy(P, c, action.state, BaseOf(P, c, action.state))
    OBVIOUS
  <2>2. PICK s \in closure : Follows(s, e)
    BY <1>4, <2>1 DEF Went
  <2>3. Follows(s, e)' /\ s \in closure'
    BY <1>3, <2>2
  <2>4. e = ReducedBy(P', c, action.state, BaseOf(P', c, action.state))
    BY <1>1, <2>1
  <2> QED BY <2>3, <2>4
<1> QED BY <1>1, <1>5, <1>6, <1>7 DEF Went

\* What a step of a round has to see to.
LEMMA BranchFollows ==
    ASSUME DriverInvariant, DriverInvariant', RoundFollows, phase = "round",
           UNCHANGED <<tables, input, at, active, phase>>, KeepsStacks,
           shifted \subseteq shifted', closure \subseteq closure', roots \subseteq roots',
           \A stack \in closure : (\E i \in DOMAIN pending : pending[i] = stack)
                                      => \E i \in DOMAIN pending' : pending'[i] = stack,
           \A stack \in closure' : stack \in closure \/ \E i \in DOMAIN pending' : pending'[i] = stack,
           NEW action, top' = top, todo' = todo \ {action}, top \in DOMAIN stacks, Gone(top, action)'
    PROVE  RoundFollows'
<1>1. P' = P /\ input' = input /\ at' = at /\ phase' = phase /\ (AtSpace' <=> AtSpace)
  BY DEF P, AtSpace
<1>2. active' \subseteq closure' /\ ~AtSpace'
  BY <1>1 DEF RoundFollows
<1>3. ASSUME NEW stack \in closure'
      PROVE  \/ \E i \in DOMAIN pending' : pending'[i] = stack
             \/ \A a \in ActionsOf(stack)' : (stack = top' /\ a \in todo') \/ Gone(stack, a)'
  <2>1. CASE stack \notin closure
    BY <2>1
  <2>2. CASE stack \in closure /\ \E i \in DOMAIN pending : pending[i] = stack
    BY <2>2
  <2>3. CASE stack \in closure /\ ~\E i \in DOMAIN pending : pending[i] = stack
    <3>1. stack \in DOMAIN stacks
      BY <2>3 DEF DriverInvariant, RoundIsSound
    <3>2. ActionsOf(stack)' = ActionsOf(stack)
      BY <3>1, RunsStay
    <3>3. ASSUME NEW a \in ActionsOf(stack) PROVE (stack = top' /\ a \in todo') \/ Gone(stack, a)'
      <4>1. (stack = top /\ a \in todo) \/ Gone(stack, a)
        BY <2>3 DEF RoundFollows
      <4>2. Gone(stack, a) => Gone(stack, a)'
        BY <3>1, GoneStays
      <4>3. CASE a = action /\ stack = top
        BY <4>3
      <4>4. CASE ~(a = action /\ stack = top)
        BY <4>1, <4>2, <4>4
      <4> QED BY <4>3, <4>4
    <3> QED BY <3>2, <3>3
  <2> QED BY <2>1, <2>2, <2>3
<1> QED BY <1>2, <1>3 DEF RoundFollows

\* The driver keeps to a run that accepts through the steps of a round.
LEMMA StillThereStays ==
    ASSUME DriverInvariant, DriverInvariant', UNCHANGED <<tables, input, at, active>>, KeepsStacks, StillThere
    PROVE  StillThere'
<1>1. PICK stack \in active : \E c \in RunsAt(stack) : Accepting(P, input, c)
  BY DEF StillThere
<1>2. stack \in DOMAIN stacks /\ P' = P
  BY DEF DriverInvariant, RoundIsSound, P
<1>3. RunsAt(stack)' = RunsAt(stack)
  BY <1>2, RunsStay
<1> QED BY <1>1, <1>2, <1>3 DEF StillThere

LEMMA RunsOnTop ==
    ASSUME DriverInvariant, NEW stack, NEW c \in RunsAt(stack)
    PROVE  /\ Uppermost(c) = stacks[stack].state /\ c \in Configs(P, input) /\ c.at = at
           /\ \E path : SpelledAlong(stacks, forest, stack, path, c)
<1>1. Coherent(P) /\ input \in Seq(STRING)
  BY SourceFacts DEF DriverInvariant
<1>2. Stacked(P, input, stacks, forest) /\ Forested(P, input, forest)
  BY DEF DriverInvariant, StacksFollowTheAutomaton, ForestIsOfTheGrammar
<1>3. c \in Configs(P, input) /\ c.at = at /\ Follows(stack, c)
  BY DEF RunsAt
<1>4. PICK path : SpelledAlong(stacks, forest, stack, path, c)
  BY <1>3 DEF Follows, Spells
<1>5. Len(path) \in Nat \ {0} /\ DOMAIN path = 1..Len(path)
  BY <1>1, <1>2, <1>4, PathTyped
<1>6. Len(path) \in DOMAIN path
  BY <1>5
<1>7. Len(c.states) = Len(path) /\ path[Len(path)] = stack /\ c.states[Len(path)] = stacks[path[Len(path)]].state
  BY <1>4, <1>6 DEF SpelledAlong
<1> QED BY <1>3, <1>4, <1>7 DEF Uppermost

\* When a round is over, it has read the input or taken a run that accepts
\* over the next token.
LEMMA RoundGoesOn ==
    ASSUME DriverInvariant, RoundFollows, StillThere, phase = "round", todo = {}, pending = <<>>
    PROVE  \/ roots # {}
           \/ \E s \in shifted : \E e \in Configs(P, input) :
                 e.at = at + 1 /\ Follows(s, e) /\ Accepting(P, input, e)
<1> SUFFICES ASSUME roots = {},
                    \A s \in shifted : \A e \in Configs(P, input) :
                        ~(e.at = at + 1 /\ Follows(s, e) /\ Accepting(P, input, e))
             PROVE  FALSE
  OBVIOUS
<1> DEFINE lost == {c \in Configs(P, input) :
                       Accepting(P, input, c) /\ ~\E s \in closure : c \in RunsAt(s)}
<1>1. Sourced /\ Placed /\ ~AtSpace /\ active \subseteq closure
  BY DEF DriverInvariant, RoundFollows
<1>2. ASSUME NEW c \in Configs(P, input), NEW s \in closure, c \in RunsAt(s)
      PROVE  ~Final(P, input, c) /\ ~\E e \in lost : Moves(P, input, c, e)
  <2>1. Uppermost(c) = stacks[s].state /\ c.at = at
    BY <1>2, RunsOnTop
  <2>2. \A action \in ActionsOf(s) : Went(c, action)
    <3>1. ~\E i \in DOMAIN pending : pending[i] = s
      OBVIOUS
    <3> QED BY <1>2, <3>1 DEF RoundFollows, Gone
  <2>3. \A type \in {"shift", "reduce", "accept"} : \A state :
           MayTake(P, input, c, type, state) => Went(c, [type |-> type, state |-> state])
    BY <1>1, <2>1, <2>2, OfferedIsFollowed
  <2>4. ~Final(P, input, c)
    <3> SUFFICES ASSUME Final(P, input, c) PROVE FALSE
      OBVIOUS
    <3>1. Went(c, [type |-> "accept", state |-> 0])
      BY <2>3 DEF Final
    <3> QED BY <3>1 DEF Went
  <2>5. ASSUME NEW e \in lost, Moves(P, input, c, e) PROVE FALSE
    <3>1. e \in Configs(P, input) /\ Accepting(P, input, e) /\ ~\E r \in closure : e \in RunsAt(r)
      BY <2>5
    <3> HIDE DEF lost
    <3>2. ~PassesBlank(P, input, c, e)
      BY <1>1, <2>1 DEF PassesBlank, BeforeBlank, AtSpace
    <3>3. ~Shifts(P, input, c, e)
      <4> SUFFICES ASSUME Shifts(P, input, c, e) PROVE FALSE
        OBVIOUS
      <4>1. PICK state : /\ MayTake(P, input, c, "shift", state) /\ at < Len(input)
                         /\ e = PushedOn(c, state, TokenSpan(at), at + 1)
        BY <2>1 DEF Shifts
      <4> DEFINE action == [type |-> "shift", state |-> state]
      <4>2. Went(c, action) /\ action.type = "shift" /\ action.state = state
        BY <2>3, <4>1
      <4> HIDE DEF action
      <4>3. PICK r \in shifted : Follows(r, e)
        BY <4>1, <4>2 DEF Went
      <4>4. e.at = at + 1
        BY <4>1 DEF PushedOn
      <4> QED BY <3>1, <4>3, <4>4
    <3>4. ~Reduces(P, input, c, e)
      <4> SUFFICES ASSUME Reduces(P, input, c, e) PROVE FALSE
        OBVIOUS
      <4>1. PICK rule : /\ MayTake(P, input, c, "reduce", rule)
                        /\ CanReduce(P, c, rule, BaseOf(P, c, rule))
                        /\ e = ReducedBy(P, c, rule, BaseOf(P, c, rule))
        BY DEF Reduces
      <4> DEFINE action == [type |-> "reduce", state |-> rule]
      <4>2. Went(c, action) /\ action.type = "reduce" /\ action.state = rule
        BY <2>3, <4>1
      <4> HIDE DEF action
      <4>3. PICK r \in closure : Follows(r, e)
        BY <4>1, <4>2 DEF Went
      <4>4. e.at = at
        BY <2>1, <4>1 DEF ReducedBy
      <4> QED BY <3>1, <4>3, <4>4 DEF RunsAt
    <3> QED BY <2>5, <3>2, <3>3, <3>4 DEF Moves
  <2> QED BY <2>4, <2>5
<1>3. Backed(P, input, lost)
  <2> SUFFICES ASSUME NEW c \in Configs(P, input),
                      Final(P, input, c) \/ \E e \in lost : Moves(P, input, c, e)
               PROVE  c \in lost
    BY DEF Backed
  <2>1. Accepting(P, input, c)
    BY FinalAccepts, AcceptsBefore
  <2>2. ~\E s \in closure : c \in RunsAt(s)
    BY <1>2
  <2> QED BY <2>1, <2>2
<1>4. lost \in SUBSET Configs(P, input)
  OBVIOUS
<1>5. PICK stack \in active : \E c \in RunsAt(stack) : Accepting(P, input, c)
  BY DEF StillThere
<1>6. PICK c \in RunsAt(stack) : Accepting(P, input, c)
  BY <1>5
<1>7. c \in lost
  <2> HIDE DEF lost
  <2> QED BY <1>3, <1>4, <1>6 DEF Accepting
<1> QED BY <1>1, <1>5, <1>6, <1>7

LEMMA InitiallyThere ==
    ASSUME NEW aheads, Thorough(aheads), Init
    PROVE  RoundFollows /\ NothingRefused
<1>1. /\ parser \in DOMAIN Parsers /\ P = Parsers[parser] /\ input \in Inputs[parser]
      /\ stacks = <<Bottom>> /\ forest = <<>> /\ active = {Root} /\ at = 0
      /\ phase = "skip" /\ failure = "none"
  BY DEF Init, P
<1>2. RoundFollows
  BY <1>1 DEF RoundFollows
<1> SUFFICES ASSUME IsSentence(P, input) PROVE StillThere
  BY <1>1, <1>2 DEF NothingRefused
<1>3. Complete(P, input, aheads[parser]) /\ P.productions[0].rhs = <<"main">>
  <2>1. Coherent(P) /\ input \in Seq(STRING) /\ P.productions[0].rhs = <<"main">>
    BY <1>1, TablesAssumption, InputsAssumption, StartAssumption
  <2>2. LeavesNothingOut(P, aheads[parser]) /\ \A i \in DOMAIN input : ~IsRule(P, input[i])
    BY <1>1 DEF Thorough
  <2> QED BY <2>1, <2>2 DEF Complete
<1> DEFINE start == [states |-> <<0>>, spans |-> <<>>, at |-> 0]
           path == <<Root>>
<1>4. Accepting(P, input, start) /\ start \in Configs(P, input)
  BY <1>3, SentencesAccept, AcceptingIsThere
<1>5. SpelledAlong(stacks, forest, Root, path, start)
  <2>1. start.states = <<0>> /\ start.spans = <<>> /\ stacks[Root].state = 0 /\ DOMAIN stacks = {Root}
    BY <1>1 DEF Root, Bottom
  <2> HIDE DEF start
  <2>2. path \in Seq(DOMAIN stacks) /\ Len(path) = 1 /\ DOMAIN path = {1} /\ path[1] = Root /\ path # <<>>
    BY <2>1
  <2>3. Len(start.states) = 1 /\ Len(start.spans) = 0 /\ start.states[1] = 0
    BY <2>1
  <2> HIDE DEF path
  <2>4. 1..(Len(path) - 1) = {} /\ Len(path) - 1 = 0 /\ Root <= Root
    BY <2>2 DEF Root
  <2>5. \A i, j \in DOMAIN path : i <= j => path[i] <= path[j]
    BY <2>2, <2>4
  <2>6. \A i \in DOMAIN path : start.states[i] = stacks[path[i]].state
    BY <2>1, <2>2, <2>3
  <2> QED BY <2>2, <2>3, <2>4, <2>5, <2>6 DEF SpelledAlong
<1>6. path \in Seq(DOMAIN stacks)
  BY <1>5 DEF SpelledAlong
<1>7. start.at = at
  BY <1>1
<1> HIDE DEF start, path
<1>8. start \in RunsAt(Root)
  BY <1>4, <1>5, <1>6, <1>7 DEF RunsAt, Follows, Spells
<1> QED BY <1>1, <1>4, <1>8 DEF StillThere

\* Where a run is does not matter to the stack that stands for it.
LEMMA FollowsMoved ==
    ASSUME NEW stack, NEW c, Follows(stack, c), NEW to
    PROVE  Follows(stack, MovedTo(c, to))
<1>1. MovedTo(c, to).states = c.states /\ MovedTo(c, to).spans = c.spans
  BY DEF MovedTo
<1>2. PICK path \in Seq(DOMAIN stacks) : SpelledAlong(stacks, forest, stack, path, c)
  BY DEF Follows, Spells
<1>3. SpelledAlong(stacks, forest, stack, path, MovedTo(c, to))
  BY <1>1, <1>2 DEF SpelledAlong
<1> QED BY <1>2, <1>3 DEF Follows, Spells

LEMMA NothingRefusedHere ==
    ASSUME NothingRefused, UNCHANGED <<tables, input, failure>>,
           StillThere /\ phase \in {"skip", "round"} /\ phase' \in {"skip", "round"} => StillThere',
           phase' \in {"skip", "round"} => phase \in {"skip", "round"}
    PROVE  NothingRefused'
<1>1. P' = P /\ input' = input /\ failure' = failure
  BY DEF P
<1> QED BY <1>1 DEF NothingRefused

LEMMA SkipSpaceKeeps ==
    ASSUME DriverInvariant, NothingRefused, SkipSpace
    PROVE  RoundFollows' /\ NothingRefused'
<1>1. /\ phase = "skip" /\ phase' = "skip" /\ AtSpace /\ at' = at + 1
      /\ UNCHANGED <<tables, input, stacks, forest, active, failure>> /\ P' = P
  BY DEF SkipSpace, source, branches, verdict, P
<1>2. RoundFollows'
  BY <1>1 DEF RoundFollows
<1>3. ASSUME StillThere PROVE StillThere'
  <2>1. PICK stack \in active : \E c \in RunsAt(stack) : Accepting(P, input, c)
    BY <1>3 DEF StillThere
  <2>2. PICK c \in RunsAt(stack) : Accepting(P, input, c)
    BY <2>1
  <2>3. c \in Configs(P, input) /\ c.at = at /\ Follows(stack, c)
    BY <2>2 DEF RunsAt
  <2>4. BeforeBlank(P, input, c)
    BY <1>1, <2>3 DEF AtSpace, BeforeBlank
  <2>5. PICK e \in Configs(P, input) : Moves(P, input, c, e) /\ Accepting(P, input, e)
    <3>1. ~Final(P, input, c)
      BY <2>4 DEF Final, MayTake
    <3> QED BY <2>2, <2>3, <3>1, AcceptsOnwards
  <2>6. e = MovedTo(c, at + 1)
    BY <2>3, <2>4, <2>5 DEF Moves, PassesBlank, Shifts, Reduces, MayTake
  <2>7. Follows(stack, e) /\ e.at = at + 1
    BY <2>3, <2>6, FollowsMoved DEF MovedTo
  <2>8. Follows(stack, e)'
    BY <1>1, <2>7 DEF Follows
  <2>9. e \in RunsAt(stack)'
    BY <1>1, <2>5, <2>7, <2>8 DEF RunsAt
  <2> QED BY <1>1, <2>5, <2>9 DEF StillThere
<1> QED BY <1>1, <1>2, <1>3, NothingRefusedHere

LEMMA OpenRoundKeeps ==
    ASSUME DriverInvariant, DriverInvariant', NothingRefused, OpenRound
    PROVE  RoundFollows' /\ NothingRefused'
<1>1. /\ phase = "skip" /\ phase' = "round" /\ ~AtSpace /\ pending' = Ascending(active) /\ closure' = active
      /\ UNCHANGED <<tables, input, at, stacks, forest, active, failure>> /\ P' = P
  BY DEF OpenRound, source, P
<1>2. KeepsStacks
  BY <1>1, GrownAlready DEF KeepsStacks
<1>3. Len(stacks) \in Nat /\ active \subseteq 1..Len(stacks)
  <2>1. DOMAIN stacks = 1..Len(stacks) /\ Len(stacks) \in Nat
    BY SourceFacts, StackIsLinked DEF DriverInvariant, StacksFollowTheAutomaton
  <2> QED BY <2>1 DEF DriverInvariant, RoundIsSound
<1>4. \A stack \in active : \E i \in DOMAIN Ascending(active) : Ascending(active)[i] = stack
  <2> TAKE stack \in active
  <2>1. PICK i \in 1..Len(Ascending(active)) : Ascending(active)[i] = stack
    BY <1>3, AscendingHolds
  <2>2. Ascending(active) \in Seq(active)
    BY <1>3, AscendingType
  <2>3. i \in DOMAIN Ascending(active)
    BY <2>1, <2>2, Element
  <2> QED BY <2>1, <2>3
<1>5. ~AtSpace'
  BY <1>1 DEF AtSpace
<1>6. RoundFollows'
  BY <1>1, <1>4, <1>5 DEF RoundFollows
<1>7. StillThere => StillThere'
  BY <1>1, <1>2, StillThereStays
<1> QED BY <1>1, <1>6, <1>7, NothingRefusedHere

LEMMA LimitKeeps ==
    ASSUME NothingRefused, UNCHANGED <<tables, input>>, phase' = "failed", failure' = "resource limit"
    PROVE  RoundFollows' /\ NothingRefused'
<1>1. P' = P /\ input' = input
  BY DEF P
<1> QED BY <1>1 DEF RoundFollows, NothingRefused

LEMMA TakeTopKeeps ==
    ASSUME DriverInvariant, DriverInvariant', RoundFollows, NothingRefused, TakeTop
    PROVE  RoundFollows' /\ NothingRefused'
<1>1. /\ phase = "round" /\ todo = {} /\ pending # <<>>
      /\ UNCHANGED <<tables, input, at>> /\ P' = P
  BY DEF TakeTop, source, P
<1>2. CASE OverLimit
  BY <1>1, <1>2, LimitKeeps DEF TakeTop, Fail
<1>3. CASE ~OverLimit
  <2>1. /\ top' = Head(pending) /\ todo' = ActionsOf(Head(pending)) /\ pending' = Tail(pending)
        /\ UNCHANGED <<stacks, forest, active, closure, shifted, roots, phase, failure>>
    BY <1>3 DEF TakeTop, verdict
  <2>2. KeepsStacks
    BY <2>1, GrownAlready DEF KeepsStacks
  <2>3. pending \in Seq(closure) /\ closure \subseteq DOMAIN stacks
    BY DEF DriverInvariant, RoundIsSound
  <2>4. Head(pending) = pending[1] /\ \A i \in DOMAIN pending : i = 1 \/ (i - 1 \in DOMAIN Tail(pending) /\ Tail(pending)[i - 1] = pending[i])
    BY <1>1, <2>3
  <2>5. ASSUME NEW stack \in closure'
        PROVE  \/ \E i \in DOMAIN pending' : pending'[i] = stack
               \/ \A a \in ActionsOf(stack)' : (stack = top' /\ a \in todo') \/ Gone(stack, a)'
    <3>1. stack \in closure /\ stack \in DOMAIN stacks
      BY <2>1, <2>3
    <3>2. ActionsOf(stack)' = ActionsOf(stack)
      BY <1>1, <2>2, <3>1, RunsStay
    <3>3. CASE \E i \in DOMAIN pending : pending[i] = stack
      <4>1. PICK i \in DOMAIN pending : pending[i] = stack
        BY <3>3
      <4>2. CASE i = 1
        BY <2>1, <2>4, <3>2, <4>1, <4>2
      <4>3. CASE i # 1
        BY <2>1, <2>4, <4>1, <4>3
      <4> QED BY <4>2, <4>3
    <3>4. CASE ~\E i \in DOMAIN pending : pending[i] = stack
      <4>1. \A a \in ActionsOf(stack) : Gone(stack, a)
        BY <1>1, <3>1, <3>4 DEF RoundFollows
      <4>2. \A a : Gone(stack, a) => Gone(stack, a)'
        BY <1>1, <2>1, <2>2, <3>1, GoneStays
      <4> QED BY <3>2, <4>1, <4>2
    <3> QED BY <3>3, <3>4
  <2>6. active' \subseteq closure' /\ ~AtSpace'
    BY <1>1, <2>1 DEF RoundFollows, AtSpace
  <2>7. RoundFollows'
    BY <2>5, <2>6 DEF RoundFollows
  <2>8. StillThere => StillThere'
    BY <1>1, <2>1, <2>2, StillThereStays
  <2> QED BY <1>1, <2>1, <2>7, <2>8, NothingRefusedHere
<1> QED BY <1>2, <1>3

LEMMA AcceptBranchKeeps ==
    ASSUME DriverInvariant, DriverInvariant', RoundFollows, NothingRefused, AcceptBranch
    PROVE  RoundFollows' /\ NothingRefused'
<1>1. PICK action \in todo :
        /\ action.type = "accept" /\ Following(action)
        /\ roots' = IF /\ at = Len(input) /\ top # Root
                       /\ stacks[top].previous = Root
                       /\ ~BoundaryViolation(forest[stacks[top].node].span)
                    THEN roots \cup {stacks[top].node} ELSE roots
        /\ UNCHANGED <<stacks, forest, pending, closure, shifted, verdict>>
  BY DEF AcceptBranch
<1>2. /\ phase = "round" /\ todo' = todo \ {action} /\ P' = P
      /\ UNCHANGED <<tables, input, at, active, top, stacks, forest, pending, closure, shifted, phase, failure>>
  BY <1>1 DEF Following, verdict, source, P
<1>3. KeepsStacks
  BY <1>2, GrownAlready DEF KeepsStacks
<1>4. top \in DOMAIN stacks
  BY <1>2 DEF DriverInvariant, RoundIsSound
<1>5. Coherent(P) /\ input \in Seq(STRING) /\ Stacked(P, input, stacks, forest) /\ Forested(P, input, forest)
  BY SourceFacts DEF DriverInvariant, StacksFollowTheAutomaton, ForestIsOfTheGrammar
<1>6. ASSUME NEW c \in RunsAt(top), Final(P, input, c) PROVE roots' # {}
  <2>1. PICK path : SpelledAlong(stacks, forest, top, path, c) /\ c.at = at
    BY RunsOnTop
  <2>2. /\ Len(path) \in Nat \ {0}
        /\ \A i \in 2..Len(path) : path[i] # Root /\ stacks[path[i]].node \in DOMAIN forest
    BY <1>5, <2>1, PathTyped
  <2>3. /\ path[1] = Root /\ path[Len(path)] = top /\ Len(c.spans) = Len(path) - 1
        /\ \A i \in 1..(Len(path) - 1) : /\ stacks[path[i + 1]].previous = path[i]
                                         /\ c.spans[i] = forest[stacks[path[i + 1]].node].span
    BY <2>1 DEF SpelledAlong
  <2>4. /\ Len(c.spans) = 1 /\ at = Len(input)
        /\ c.spans[1].begin # 0 => c.spans[1].leading
        /\ c.at > c.spans[1].end => c.spans[1].trailing
    BY <1>6, <2>1 DEF Final
  <2>5. Len(path) = 2
    <3> DEFINE len == Len(path)
    <3>1. len \in Nat /\ len - 1 = 1
      BY <2>2, <2>3, <2>4
    <3> HIDE DEF len
    <3>2. len = 2
      BY <3>1
    <3> QED BY <3>2 DEF len
  <2>6. path[2] = top /\ top # Root /\ stacks[top].previous = Root /\ c.spans[1] = forest[stacks[top].node].span
    <3>1. 1 \in 1..(Len(path) - 1) /\ 2 \in 2..Len(path) /\ 1 + 1 = 2
      BY <2>5
    <3>2. path[2] = top /\ path[2] # Root
      BY <2>2, <2>3, <2>5, <3>1
    <3>3. stacks[path[2]].previous = path[1] /\ c.spans[1] = forest[stacks[path[2]].node].span
      BY <2>3, <3>1
    <3> QED BY <2>3, <3>2, <3>3
  <2>7. ~BoundaryViolation(forest[stacks[top].node].span)
    BY <2>1, <2>4, <2>6 DEF BoundaryViolation
  <2> QED BY <1>1, <2>4, <2>6, <2>7
<1>7. RunsAt(top)' = RunsAt(top) /\ roots \subseteq roots'
  BY <1>1, <1>2, <1>3, <1>4, RunsStay
<1>8. Gone(top, action)'
  <2> SUFFICES ASSUME NEW c \in RunsAt(top) PROVE Went(c, action)'
    BY <1>2, <1>7 DEF Gone
  <2> QED BY <1>1, <1>2, <1>6 DEF Went
<1>9. RoundFollows'
  BY <1>2, <1>3, <1>4, <1>7, <1>8, BranchFollows
<1>10. StillThere => StillThere'
  BY <1>2, <1>3, StillThereStays
<1> QED BY <1>2, <1>9, <1>10, NothingRefusedHere

\* Interning leaves what is there and has the entry.
LEMMA StackIsThere ==
    ASSUME NEW S, stacks \in Seq(S), NEW previous, NEW state, NEW node,
           NEW dest, dest = Stack(previous, state, node),
           NEW after, after = WithStack(previous, state, node)
    PROVE  /\ DOMAIN stacks \subseteq DOMAIN after /\ dest \in DOMAIN after
           /\ \A s \in DOMAIN stacks : after[s] = stacks[s]
           /\ after[dest] = [previous |-> previous, state |-> state, node |-> node]
           /\ \A s \in DOMAIN after : s = dest \/ s \in DOMAIN stacks
<1> DEFINE link == [previous |-> previous, state |-> state, node |-> node]
           T == S \cup {link}
           len == Len(stacks)
<1>1. stacks \in Seq(T) /\ link \in T
  BY Wider
<1>2. \/ dest \in DOMAIN stacks /\ stacks[dest] = link /\ after = stacks
      \/ dest = len + 1 /\ after = Append(stacks, link)
  BY StackIsInterned
<1>3. len \in Nat /\ DOMAIN stacks = 1..len
  OBVIOUS
<1> HIDE DEF link, T
<1>4. CASE dest = len + 1 /\ after = Append(stacks, link)
  <2>1. /\ after \in Seq(T) /\ Len(after) = len + 1 /\ after[len + 1] = link
        /\ \A i \in 1..len : after[i] = stacks[i]
    BY <1>1, <1>4, Appended
  <2>2. DOMAIN after = 1..(len + 1)
    BY <2>1
  <2> HIDE DEF len
  <2> QED BY <1>3, <1>4, <2>1, <2>2 DEF link
<1> QED BY <1>2, <1>4 DEF link

\* A stack put on one that stands for a run stands for the run pushed on.
LEMMA StackTakesOn ==
    ASSUME DriverInvariant, DriverInvariant', UNCHANGED <<tables, input>>, Grown(forest, forest'),
           NEW base \in DOMAIN stacks, NEW state \in DOMAIN P.items, NEW node \in DOMAIN forest',
           NEW dest, dest = Stack(base, state, node), stacks' = WithStack(base, state, node),
           NEW c \in Configs(P, input), Follows(base, c), NEW to,
           NEW e, e = PushedOn(c, state, forest'[node].span, to)
    PROVE  KeepsStacks /\ Follows(dest, e)'
<1>1. Coherent(P) /\ input \in Seq(STRING) /\ P' = P /\ input' = input
  BY SourceFacts DEF DriverInvariant, P
<1>2. stacks \in Seq(Links(P))
  BY DEF DriverInvariant, StacksFollowTheAutomaton, Stacked
<1>3. /\ DOMAIN stacks \subseteq DOMAIN stacks' /\ dest \in DOMAIN stacks'
      /\ \A s \in DOMAIN stacks : stacks'[s] = stacks[s]
      /\ stacks'[dest] = [previous |-> base, state |-> state, node |-> node]
  <2>1. PICK after : after = WithStack(base, state, node)
    OBVIOUS
  <2>2. /\ DOMAIN stacks \subseteq DOMAIN after /\ dest \in DOMAIN after
        /\ \A s \in DOMAIN stacks : after[s] = stacks[s]
        /\ after[dest] = [previous |-> base, state |-> state, node |-> node]
    BY <1>2, <2>1, StackIsThere
  <2> QED BY <2>1, <2>2
<1>4. KeepsStacks
  BY <1>3 DEF KeepsStacks
<1>5. Stacked(P, input, stacks', forest') /\ Forested(P, input, forest')
  BY <1>1 DEF DriverInvariant, StacksFollowTheAutomaton, ForestIsOfTheGrammar
<1>6. Spells(stacks', forest', base, c)
  BY <1>4, FollowsStill DEF Follows
<1>7. PICK path : SpelledAlong(stacks', forest', base, path, c)
  BY <1>6 DEF Spells
<1>8. PICK st, fs : st = stacks' /\ fs = forest'
  OBVIOUS
<1> DEFINE span == fs[node].span
<1>9. /\ Stacked(P, input, st, fs) /\ Forested(P, input, fs) /\ SpelledAlong(st, fs, base, path, c)
      /\ dest \in DOMAIN st /\ node \in DOMAIN fs
      /\ st[dest].previous = base /\ st[dest].state = state /\ st[dest].node = node
  BY <1>3, <1>5, <1>7, <1>8
<1>10. c.states \in Seq(DOMAIN P.items) /\ c.spans \in Seq(SpansOver(Places(input)))
  BY <1>1, ConfigTyped
<1>11. span \in SpansOver(Places(input))
  BY <1>9, NodeFacts DEF Places
<1>12. e.states = Append(c.states, state) /\ e.spans = Append(c.spans, span)
  BY <1>8 DEF PushedOn
<1> HIDE DEF span
<1>13. /\ st[dest].state \in DOMAIN P.items /\ fs[st[dest].node].span \in SpansOver(Places(input))
       /\ e.states = Append(c.states, st[dest].state)
       /\ e.spans = Append(c.spans, fs[st[dest].node].span)
  BY <1>9, <1>11, <1>12 DEF span
<1> DEFINE S == DOMAIN P.items
           T == SpansOver(Places(input))
<1>14. /\ c.states \in Seq(S) /\ c.spans \in Seq(T) /\ st[dest].state \in S
       /\ fs[st[dest].node].span \in T
  BY <1>10, <1>13
<1> HIDE DEF S, T
<1>15. Spells(st, fs, dest, e)
  BY <1>1, <1>9, <1>13, <1>14, SpellsPushed
<1> QED BY <1>4, <1>8, <1>15 DEF Follows

LEMMA StacksAreKept ==
    ASSUME DriverInvariant, Grown(forest, forest'), NEW base, NEW state, NEW node,
           stacks' = WithStack(base, state, node)
    PROVE  KeepsStacks
<1>1. PICK S : S = Links(P)
  OBVIOUS
<1>2. PICK after : after = WithStack(base, state, node)
  OBVIOUS
<1>3. DOMAIN stacks \subseteq DOMAIN after /\ \A s \in DOMAIN stacks : after[s] = stacks[s]
  <2>1. PICK dest : dest = Stack(base, state, node)
    OBVIOUS
  <2>2. stacks \in Seq(S)
    BY <1>1 DEF DriverInvariant, StacksFollowTheAutomaton, Stacked
  <2>3. /\ DOMAIN stacks \subseteq DOMAIN after /\ dest \in DOMAIN after
        /\ \A s \in DOMAIN stacks : after[s] = stacks[s]
        /\ after[dest] = [previous |-> base, state |-> state, node |-> node]
    BY <1>2, <2>1, <2>2, StackIsThere
  <2> QED BY <2>3
<1> QED BY <1>2, <1>3 DEF KeepsStacks

\* The leaf for the next token is in the forest behind a shift.
LEMMA LeafIsThere ==
    ASSUME DriverInvariant, DriverInvariant', UNCHANGED <<tables, input>>, at < Len(input),
           NEW leaf, leaf = Node(TRUE, input[at + 1], TokenSpan(at)),
           forest' = WithNode(TRUE, input[at + 1], TokenSpan(at))
    PROVE  Grown(forest, forest') /\ leaf \in DOMAIN forest' /\ forest'[leaf].span = TokenSpan(at)
<1> DEFINE token == input[at + 1]
           span == TokenSpan(at)
           fresh == [key |-> <<TRUE, token, span>>, span |-> span, alternatives |-> {}]
           key == <<TRUE, token, span>>
<1>1. /\ Forested(P, input, forest) /\ forest \in Seq(Nodes(input)) /\ input \in Seq(STRING) /\ at \in Nat
  BY SourceFacts, Located DEF DriverInvariant, ForestIsOfTheGrammar, Forested
<1>2. Forested(P, input, forest') /\ forest' \in Seq(Nodes(input))
  <2>1. P' = P /\ input' = input
    BY DEF P
  <2> QED BY <2>1 DEF DriverInvariant, ForestIsOfTheGrammar, Forested
<1>3. \/ leaf \in DOMAIN forest /\ forest[leaf].key = key /\ forest' = forest
      \/ leaf = Len(forest) + 1 /\ forest' = Append(forest, fresh)
  BY <1>1, NodeIsInterned DEF Key, Fresh
<1>4. Grown(forest, forest')
  BY <1>1, <1>3, LeafAdded
<1>5. fresh.span = span /\ key[3] = span
  OBVIOUS
<1> HIDE DEF token, span, fresh, key
<1>6. CASE leaf \in DOMAIN forest /\ forest[leaf].key = key /\ forest' = forest
  <2>1. \A n \in DOMAIN forest : forest[n].key[3] = forest[n].span
    BY <1>1, NodeFacts
  <2>2. forest[leaf].span = span
    BY <1>5, <1>6, <2>1
  <2> QED BY <1>4, <1>6, <2>2 DEF span
<1>7. CASE leaf = Len(forest) + 1 /\ forest' = Append(forest, fresh)
  <2> DEFINE len == Len(forest)
             T == Nodes(input) \cup {fresh}
  <2>1. forest \in Seq(T) /\ fresh \in T /\ len \in Nat
    BY <1>1, Wider
  <2> HIDE DEF T
  <2> DEFINE grown == Append(forest, fresh)
  <2>2. grown \in Seq(T) /\ Len(grown) = len + 1 /\ grown[len + 1] = fresh
    BY <2>1, Appended
  <2>3. leaf = len + 1 /\ forest' = grown
    BY <1>7
  <2> HIDE DEF len, grown
  <2>4. DOMAIN grown = 1..(len + 1)
    BY <2>2
  <2>5. leaf \in DOMAIN grown
    <3>1. len \in Nat
      BY <2>1
    <3>2. len + 1 \in 1..(len + 1)
      BY <3>1
    <3>3. leaf = len + 1
      BY <2>3
    <3> QED BY <2>4, <3>2, <3>3
  <2>6. grown[leaf].span = span
    BY <1>5, <2>2, <2>3
  <2> QED BY <1>4, <2>3, <2>5, <2>6 DEF span
<1> QED BY <1>3, <1>6, <1>7

LEMMA ShiftBranchKeeps ==
    ASSUME DriverInvariant, DriverInvariant', RoundFollows, NothingRefused, ShiftBranch
    PROVE  RoundFollows' /\ NothingRefused'
<1>1. PICK action \in todo :
        /\ action.type = "shift" /\ Following(action)
        /\ IF at = Len(input) THEN UNCHANGED <<stacks, forest, shifted>>
           ELSE LET token == input[at + 1]
                    leaf == Node(TRUE, token, TokenSpan(at))
                IN  /\ forest' = WithNode(TRUE, token, TokenSpan(at))
                    /\ stacks' = WithStack(top, action.state, leaf)
                    /\ shifted' = shifted \cup {Stack(top, action.state, leaf)}
        /\ UNCHANGED <<pending, closure, roots, verdict>>
  BY DEF ShiftBranch
<1>2. /\ phase = "round" /\ todo' = todo \ {action} /\ P' = P
      /\ UNCHANGED <<tables, input, at, active, top, pending, closure, roots, phase, failure>>
  BY <1>1 DEF Following, verdict, source, P
<1>3. /\ top \in DOMAIN stacks /\ Sourced /\ Placed /\ SoundAction(P, input, at, stacks[top].state, action)
  BY <1>2 DEF DriverInvariant, RoundIsSound
<1>4. Coherent(P) /\ input \in Seq(STRING) /\ at \in Nat /\ at <= Len(input) /\ Len(input) \in Nat
  BY <1>3, SourceFacts, Located
<1>5. /\ KeepsStacks /\ shifted \subseteq shifted'
      /\ at < Len(input) => \A c \in RunsAt(top) :
            \E s \in shifted' : Follows(s, PushedOn(c, action.state, TokenSpan(at), at + 1))'
  <2>1. CASE at = Len(input)
    <3>1. UNCHANGED <<stacks, forest, shifted>>
      BY <1>1, <2>1
    <3> QED BY <1>4, <2>1, <3>1, GrownAlready DEF KeepsStacks
  <2>2. CASE at < Len(input)
    <3>1. PICK leaf, dest : leaf = Node(TRUE, input[at + 1], TokenSpan(at)) /\ dest = Stack(top, action.state, leaf)
      OBVIOUS
    <3>2. /\ forest' = WithNode(TRUE, input[at + 1], TokenSpan(at))
          /\ stacks' = WithStack(top, action.state, leaf) /\ shifted' = shifted \cup {dest}
      <4>1. at # Len(input)
        BY <1>4, <2>2
      <4> QED BY <1>1, <3>1, <4>1
    <3>3. Grown(forest, forest') /\ leaf \in DOMAIN forest' /\ forest'[leaf].span = TokenSpan(at)
      BY <1>2, <2>2, <3>1, <3>2, LeafIsThere
    <3>4. action.state \in DOMAIN P.items
      <4>1. <<stacks[top].state, input[at + 1]>> \in DOMAIN P.goto
            /\ P.goto[<<stacks[top].state, input[at + 1]>>] = action.state
        BY <1>1, <1>3, <2>2 DEF SoundAction
      <4> QED BY <1>4, <4>1 DEF Coherent, Transitions
    <3>5. KeepsStacks
      BY <3>2, <3>3, StacksAreKept
    <3>6. ASSUME NEW c \in RunsAt(top)
          PROVE  Follows(dest, PushedOn(c, action.state, TokenSpan(at), at + 1))'
      <4>1. PICK e : e = PushedOn(c, action.state, TokenSpan(at), at + 1)
        OBVIOUS
      <4>2. c \in Configs(P, input) /\ Follows(top, c)
        BY DEF RunsAt
      <4>3. e = PushedOn(c, action.state, forest'[leaf].span, at + 1)
        BY <3>3, <4>1
      <4>4. Follows(dest, e)'
        BY <1>2, <1>3, <3>1, <3>2, <3>3, <3>4, <4>2, <4>3, StackTakesOn
      <4> QED BY <1>2, <4>1, <4>4
    <3>7. dest \in shifted' /\ shifted \subseteq shifted'
      BY <3>2
    <3> QED BY <3>5, <3>6, <3>7
  <2> QED BY <1>4, <2>1, <2>2
<1>6. RunsAt(top)' = RunsAt(top)
  BY <1>2, <1>3, <1>5, RunsStay
<1>7. Gone(top, action)'
  <2> SUFFICES ASSUME NEW c \in RunsAt(top) PROVE Went(c, action)'
    BY <1>2, <1>6 DEF Gone
  <2> QED BY <1>1, <1>2, <1>5 DEF Went
<1>8. RoundFollows'
  BY <1>2, <1>3, <1>5, <1>7, BranchFollows
<1>9. StillThere => StillThere'
  BY <1>2, <1>5, StillThereStays
<1> QED BY <1>2, <1>8, <1>9, NothingRefusedHere
\* What is popped from a stack that stands for a run is what the run gives up.
LEMMA PopsFollow ==
    ASSUME DriverInvariant, phase = "round", NEW action \in todo, action.type = "reduce",
           NEW rule, rule = action.state, NEW popped, popped = Popped(top, LrLength(P, rule)),
           NEW c \in RunsAt(top), NEW b, b = BaseOf(P, c, rule), b >= 0,
           NEW left, left = [states |-> SubSeq(c.states, 1, b + 1), spans |-> SubSeq(c.spans, 1, b), at |-> at]
    PROVE  /\ SpansOf(popped.children) = SubSeq(c.spans, b + 1, Len(c.spans))
           /\ left \in Configs(P, input) /\ Follows(popped.base, left)
           /\ c.states[b + 1] = stacks[popped.base].state
<1>1. /\ Coherent(P) /\ input \in Seq(STRING)
      /\ Stacked(P, input, stacks, forest) /\ Forested(P, input, forest)
  BY SourceFacts DEF DriverInvariant, StacksFollowTheAutomaton, ForestIsOfTheGrammar
<1>2. popped.children \in Seq(DOMAIN forest) /\ Len(popped.children) = LrLength(P, rule)
  BY PoppedMakesUp
<1>3. c \in Configs(P, input) /\ c.at = at
  BY RunsOnTop
<1>4. PICK path : SpelledAlong(stacks, forest, top, path, c)
  BY RunsOnTop
<1> DEFINE n == LrLength(P, rule)
           len == Len(path)
           over == Len(c.spans)
           behind == SubSeq(c.spans, b + 1, over)
           w == Walk(stacks, top, n)[n]
<1>5. /\ c.states \in Seq(DOMAIN P.items) /\ c.spans \in Seq(SpansOver(Places(input)))
      /\ c.at \in Places(input) /\ Len(c.states) = over + 1 /\ over \in Nat
  BY <1>1, <1>3, ConfigTyped
<1>6. len \in Nat \ {0} /\ DOMAIN path = 1..len
  BY <1>1, <1>4, PathTyped
<1>7. /\ over = len - 1
      /\ \A i \in DOMAIN path : c.states[i] = stacks[path[i]].state
      /\ \A i \in 1..(len - 1) : c.spans[i] = forest[stacks[path[i + 1]].node].span
  BY <1>4 DEF SpelledAlong
<1>8. n \in Nat /\ b = over - n
  <2>1. Len(popped.children) \in Nat
    BY <1>2
  <2> QED BY <1>2, <2>1 DEF BaseOf
<1> HIDE DEF n, over, len
<1>9. b \in Nat /\ b < len /\ n < len /\ len - n = b + 1 /\ b + 1 \in 1..len /\ b \in 0..over /\ over - b = n
  BY <1>5, <1>6, <1>7, <1>8
<1>10. popped = w
  BY PoppedIsWalked DEF n
<1> HIDE DEF w
<1>11. /\ popped.base = path[b + 1]
       /\ \A j \in 1..n : popped.children[j] = stacks[path[b + 1 + j]].node
  <2>1. n < Len(path)
    BY <1>9 DEF len
  <2>2. LET base == Len(path) - n
        IN  /\ w.base = path[base]
            /\ \A j \in 1..n : w.children[j] = stacks[path[base + j]].node
    BY <1>1, <1>4, <1>8, <2>1, WalkedAlong DEF w
  <2>3. Len(path) - n = b + 1
    BY <1>9 DEF len
  <2> QED BY <1>10, <2>2, <2>3
<1>12. behind \in Seq(SpansOver(Places(input))) /\ Len(behind) = n
       /\ \A j \in 1..n : behind[j] = c.spans[b + j]
  <2>1. b \in 0..Len(c.spans)
    BY <1>9 DEF over
  <2>2. /\ SubSeq(c.spans, b + 1, Len(c.spans)) \in Seq(SpansOver(Places(input)))
        /\ Len(SubSeq(c.spans, b + 1, Len(c.spans))) = Len(c.spans) - b
        /\ \A j \in 1..(Len(c.spans) - b) : SubSeq(c.spans, b + 1, Len(c.spans))[j] = c.spans[b + j]
    BY <1>5, <2>1, Behind
  <2> QED BY <1>9, <2>2 DEF over
<1> HIDE DEF behind
<1>13. SpansOf(popped.children) = behind
  <2>1. DOMAIN popped.children = 1..n
    BY <1>2 DEF n
  <2>2. DOMAIN behind = 1..n
    BY <1>8, <1>12
  <2>3. \A j \in 1..n : forest[popped.children[j]].span = behind[j]
    <3> TAKE j \in 1..n
    <3>1. b + j \in 1..(len - 1) /\ b + j + 1 = b + 1 + j
      <4>1. over = len - 1 /\ b = over - n /\ n \in Nat /\ b \in Nat /\ over \in Nat /\ len \in Nat
        BY <1>5, <1>6, <1>7, <1>8, <1>9
      <4> QED BY <4>1
    <3> QED BY <1>7, <1>11, <1>12, <3>1
  <2>4. SpansOf(popped.children) = [j \in 1..n |-> behind[j]]
    BY <2>1, <2>3 DEF SpansOf
  <2>5. behind = [j \in 1..n |-> behind[j]]
    BY <1>12, <2>2
  <2> QED BY <2>4, <2>5
<1>14. left.states = SubSeq(c.states, 1, b + 1) /\ left.spans = SubSeq(c.spans, 1, b) /\ left.at = at
  OBVIOUS
<1>15. SpelledAlong(stacks, forest, path[b + 1], SubSeq(path, 1, b + 1), left)
  <2> DEFINE S == DOMAIN P.items
             T == SpansOver(Places(input))
  <2>1. c.states \in Seq(S) /\ c.spans \in Seq(T) /\ b < Len(path)
    BY <1>5, <1>9 DEF len
  <2> HIDE DEF S, T
  <2> QED BY <1>1, <1>4, <1>9, <1>14, <2>1, SpellsPrefix
<1>16. Follows(popped.base, left)
  <2>1. SubSeq(path, 1, b + 1) \in Seq(DOMAIN stacks)
    BY <1>15 DEF SpelledAlong
  <2> QED BY <1>11, <1>15, <2>1 DEF Follows, Spells
<1>17. left \in Configs(P, input)
  <2>1. b + 1 \in 0..Len(c.states) /\ b \in 0..Len(c.spans)
    BY <1>5, <1>9 DEF over
  <2>2. /\ SubSeq(c.states, 1, b + 1) \in Seq(DOMAIN P.items) /\ Len(SubSeq(c.states, 1, b + 1)) = b + 1
        /\ SubSeq(c.spans, 1, b) \in Seq(SpansOver(Places(input))) /\ Len(SubSeq(c.spans, 1, b)) = b
    BY <1>5, <2>1, Prefix
  <2>3. left \in [states : Seq(DOMAIN P.items), spans : Seq(SpansOver(Places(input))), at : Places(input)]
    BY <1>3, <1>5, <2>2
  <2>4. Len(left.states) = Len(left.spans) + 1
    BY <1>14, <2>2
  <2> QED BY <2>3, <2>4, IsConfig
<1>18. c.states[b + 1] = stacks[popped.base].state
  BY <1>6, <1>7, <1>9, <1>11
<1> QED BY <1>13, <1>16, <1>17, <1>18 DEF behind, over
LEMMA ReductionIsAdded ==
    ASSUME DriverInvariant, phase = "round", NEW action \in todo, action.type = "reduce",
           NEW span \in Reductions(action.state, Popped(top, LrLength(P, action.state)).children)
    PROVE  LET rule == action.state
               children == Popped(top, LrLength(P, rule)).children
               lhs == LrLhs(P, rule)
               node == Node(FALSE, lhs, span)
               after == WithReading(WithNode(FALSE, lhs, span), node, rule, children)
           IN  Grown(forest, after) /\ NodeIsFor(after, node, lhs, span)
<1> DEFINE rule == action.state
           children == Popped(top, LrLength(P, rule)).children
           lhs == LrLhs(P, rule)
           node == Node(FALSE, lhs, span)
           grown == WithNode(FALSE, lhs, span)
<1>1. /\ rule \in Nat /\ lhs \in STRING /\ span \in SpansOver(0..Len(input)) /\ Ordered(span)
      /\ Applies(P, input, forest, rule, children, lhs, span)
  BY ReductionApplies
<1>2. Forested(P, input, forest) /\ forest \in Seq(Nodes(input))
  BY DEF DriverInvariant, ForestIsOfTheGrammar, Forested
<1> HIDE DEF rule, children, lhs, node, grown
<1>3. Interned(forest, lhs, span, node, grown)
  BY <1>2, NodeIsInterned DEF Interned, Key, Fresh, node, grown
<1>4. PICK after : after = WithReading(grown, node, rule, children)
  OBVIOUS
<1>5. Forested(P, input, forest)
  BY <1>2
<1>6. Grown(forest, after)
  BY <1>1, <1>3, <1>4, <1>5, ReadingAdded
<1>7. NodeIsFor(after, node, lhs, span)
  BY <1>1, <1>3, <1>4, <1>5, ReadingAdded
<1> QED BY <1>4, <1>6, <1>7 DEF rule, children, lhs, node, grown

\* A reduction leads to a stack that stands for the runs reduced alike.
LEMMA ReductionTakesOn ==
    ASSUME DriverInvariant, DriverInvariant', UNCHANGED <<tables, input, at>>, phase = "round",
           NEW action \in todo, action.type = "reduce", NEW rule, rule = action.state,
           NEW popped, popped = Popped(top, LrLength(P, rule)),
           NEW span \in Reductions(rule, popped.children),
           ReduceOnto(popped.base, rule, popped.children, span)
    PROVE  /\ KeepsStacks
           /\ \E dest :
                 /\ closure' = closure \cup {dest}
                 /\ pending' = IF dest \in closure THEN pending ELSE Append(pending, dest)
                 /\ \A c \in RunsAt(top) : \A e :
                       CanReduce(P, c, rule, BaseOf(P, c, rule)) /\ e = ReducedBy(P, c, rule, BaseOf(P, c, rule))
                          => Follows(dest, e)'
<1>1. /\ Coherent(P) /\ input \in Seq(STRING) /\ Forested(P, input, forest) /\ forest \in Seq(Nodes(input))
  BY SourceFacts DEF DriverInvariant, ForestIsOfTheGrammar, Forested
<1>2. PICK base, children, lhs, target, node :
         /\ base = popped.base /\ children = popped.children /\ lhs = LrLhs(P, rule)
         /\ target = P.goto[<<stacks[base].state, lhs>>] /\ node = Node(FALSE, lhs, span)
  OBVIOUS
<1>3. PICK dest, grown, made :
         /\ dest = Stack(base, target, node) /\ grown = WithNode(FALSE, lhs, span)
         /\ made = WithReading(grown, node, rule, children)
  OBVIOUS
<1>4. /\ forest' = made /\ stacks' = WithStack(base, target, node)
      /\ closure' = closure \cup {dest}
      /\ pending' = IF dest \in closure THEN pending ELSE Append(pending, dest)
  BY <1>2, <1>3 DEF ReduceOnto
<1>5. base \in DOMAIN stacks /\ <<stacks[base].state, lhs>> \in DOMAIN P.goto
  BY <1>2, PoppedMakesUp
<1>6. /\ rule \in Nat /\ lhs \in STRING /\ span \in SpansOver(0..Len(input)) /\ Ordered(span)
      /\ Applies(P, input, forest, rule, children, lhs, span)
  BY <1>2, ReductionApplies
<1>7. Interned(forest, lhs, span, node, grown)
  BY <1>1, <1>2, <1>3, NodeIsInterned DEF Interned, Key, Fresh
<1>8. Grown(forest, made) /\ NodeIsFor(made, node, lhs, span)
  BY <1>2, <1>3, ReductionIsAdded
<1>9. Grown(forest, forest') /\ node \in DOMAIN forest' /\ forest'[node].span = span
  BY <1>4, <1>8 DEF NodeIsFor
<1>10. KeepsStacks
  BY <1>4, <1>9, StacksAreKept
<1>11. target \in DOMAIN P.items
  BY <1>1, <1>2, <1>5 DEF Coherent, Transitions
<1>12. span = ReducedSpan(P, rule, SpansOf(children), at)
  BY <1>2 DEF Reductions
<1>13. ASSUME NEW c \in RunsAt(top), NEW e,
              CanReduce(P, c, rule, BaseOf(P, c, rule)), e = ReducedBy(P, c, rule, BaseOf(P, c, rule))
       PROVE  Follows(dest, e)'
  <2>1. PICK b : b = BaseOf(P, c, rule)
    OBVIOUS
  <2>2. PICK left : left = [states |-> SubSeq(c.states, 1, b + 1), spans |-> SubSeq(c.spans, 1, b), at |-> at]
    OBVIOUS
  <2>3. b >= 0
    BY <1>13, <2>1 DEF CanReduce
  <2>4. /\ SpansOf(popped.children) = SubSeq(c.spans, b + 1, Len(c.spans))
        /\ left \in Configs(P, input) /\ Follows(popped.base, left)
        /\ c.states[b + 1] = stacks[popped.base].state
    BY <2>1, <2>2, <2>3, PopsFollow
  <2>5. c.at = at
    BY RunsOnTop
  <2>6. e = PushedOn(left, target, span, at)
    BY <1>2, <1>12, <1>13, <2>1, <2>2, <2>4, <2>5 DEF ReducedBy, PushedOn
  <2>7. e = PushedOn(left, target, forest'[node].span, at)
    BY <1>9, <2>6
  <2>8. left \in Configs(P, input) /\ Follows(base, left)
    BY <1>2, <2>4
  <2> QED BY <1>3, <1>4, <1>5, <1>9, <1>11, <2>7, <2>8, StackTakesOn
<1> QED BY <1>4, <1>10, <1>13

LEMMA ReduceBranchKeeps ==
    ASSUME DriverInvariant, DriverInvariant', RoundFollows, NothingRefused, ReduceBranch
    PROVE  RoundFollows' /\ NothingRefused'
<1>1. PICK action \in todo :
        /\ action.type = "reduce" /\ Following(action)
        /\ \E popped \in {Popped(top, LrLength(P, action.state))} :
              \/ /\ Reductions(action.state, popped.children) = {}
                 /\ UNCHANGED <<stacks, forest, pending, closure>>
              \/ \E span \in Reductions(action.state, popped.children) :
                    ReduceOnto(popped.base, action.state, popped.children, span)
        /\ UNCHANGED <<shifted, roots, verdict>>
  BY DEF ReduceBranch
<1>2. /\ phase = "round" /\ todo' = todo \ {action} /\ P' = P
      /\ UNCHANGED <<tables, input, at, active, top, shifted, roots, phase, failure>>
  BY <1>1 DEF Following, verdict, source, P
<1>3. PICK rule, popped : rule = action.state /\ popped = Popped(top, LrLength(P, rule))
  OBVIOUS
<1>4. top \in DOMAIN stacks
  BY <1>2 DEF DriverInvariant, RoundIsSound
<1> DEFINE Listed == /\ closure \subseteq closure'
                     /\ \A stack \in closure : (\E i \in DOMAIN pending : pending[i] = stack)
                                                  => \E i \in DOMAIN pending' : pending'[i] = stack
                     /\ \A stack \in closure' :
                           stack \in closure \/ \E i \in DOMAIN pending' : pending'[i] = stack
           Taken == \A c \in RunsAt(top) : \A e :
                       CanReduce(P, c, rule, BaseOf(P, c, rule)) /\ e = ReducedBy(P, c, rule, BaseOf(P, c, rule))
                          => \E s \in closure' : Follows(s, e)'
<1>5. KeepsStacks /\ Listed /\ Taken
  <2>1. CASE Reductions(rule, popped.children) = {} /\ UNCHANGED <<stacks, forest, pending, closure>>
    <3>1. KeepsStacks
      BY <2>1, GrownAlready DEF KeepsStacks
    <3>2. ASSUME NEW c \in RunsAt(top), CanReduce(P, c, rule, BaseOf(P, c, rule)) PROVE FALSE
      <4>1. PICK b : b = BaseOf(P, c, rule)
        OBVIOUS
      <4>2. PICK left : left = [states |-> SubSeq(c.states, 1, b + 1), spans |-> SubSeq(c.spans, 1, b), at |-> at]
        OBVIOUS
      <4>3. b >= 0 /\ ~SpaceViolation(P, rule, SubSeq(c.spans, b + 1, Len(c.spans)))
        BY <3>2, <4>1 DEF CanReduce
      <4>4. SpansOf(popped.children) = SubSeq(c.spans, b + 1, Len(c.spans))
        BY <1>1, <1>2, <1>3, <4>1, <4>2, <4>3, PopsFollow
      <4>5. Len(popped.children) = LrLength(P, rule)
        BY <1>1, <1>2, <1>3, PoppedMakesUp
      <4> QED BY <2>1, <4>3, <4>4, <4>5 DEF Reductions
    <3> QED BY <2>1, <3>1, <3>2
  <2>2. ASSUME NEW span \in Reductions(rule, popped.children),
               ReduceOnto(popped.base, rule, popped.children, span)
        PROVE  KeepsStacks /\ Listed /\ Taken
    <3>1. /\ KeepsStacks
          /\ \E dest :
                /\ closure' = closure \cup {dest}
                /\ pending' = IF dest \in closure THEN pending ELSE Append(pending, dest)
                /\ \A c \in RunsAt(top) : \A e :
                      CanReduce(P, c, rule, BaseOf(P, c, rule)) /\ e = ReducedBy(P, c, rule, BaseOf(P, c, rule))
                         => Follows(dest, e)'
      BY <1>1, <1>2, <1>3, <2>2, ReductionTakesOn
    <3>2. PICK dest :
            /\ closure' = closure \cup {dest}
            /\ pending' = IF dest \in closure THEN pending ELSE Append(pending, dest)
            /\ \A c \in RunsAt(top) : \A e :
                  CanReduce(P, c, rule, BaseOf(P, c, rule)) /\ e = ReducedBy(P, c, rule, BaseOf(P, c, rule))
                     => Follows(dest, e)'
      BY <3>1
    <3>3. Taken
      BY <3>2
    <3>4. Listed
      <4>1. CASE dest \in closure
        BY <3>2, <4>1
      <4>2. CASE dest \notin closure
        <5>1. PICK S : S = closure \cup {dest}
          OBVIOUS
        <5>2. pending \in Seq(S) /\ dest \in S
          BY <5>1 DEF DriverInvariant, RoundIsSound
        <5>3. pending' = Append(pending, dest)
          BY <3>2, <4>2
        <5>4. /\ Len(pending') = Len(pending) + 1 /\ pending'[Len(pending) + 1] = dest
              /\ \A i \in 1..Len(pending) : pending'[i] = pending[i]
              /\ pending' \in Seq(S)
          BY <5>2, <5>3, Appended
        <5>5. DOMAIN pending' = 1..(Len(pending) + 1) /\ DOMAIN pending = 1..Len(pending) /\ Len(pending) \in Nat
          BY <5>2, <5>4
        <5>6. \A i \in DOMAIN pending : i \in DOMAIN pending' /\ pending'[i] = pending[i]
          BY <5>4, <5>5
        <5>7. \E i \in DOMAIN pending' : pending'[i] = dest
          BY <5>4, <5>5
        <5> QED BY <3>2, <5>6, <5>7
      <4> QED BY <4>1, <4>2
    <3> QED BY <3>1, <3>3, <3>4
  <2>3. \/ Reductions(rule, popped.children) = {} /\ UNCHANGED <<stacks, forest, pending, closure>>
        \/ \E span \in Reductions(rule, popped.children) :
              ReduceOnto(popped.base, rule, popped.children, span)
    BY <1>1, <1>3
  <2> QED BY <2>1, <2>2, <2>3
<1>6. RunsAt(top)' = RunsAt(top)
  BY <1>2, <1>4, <1>5, RunsStay
<1>7. Gone(top, action)'
  <2> SUFFICES ASSUME NEW c \in RunsAt(top), CanReduce(P, c, rule, BaseOf(P, c, rule))
               PROVE  \E s \in closure' : Follows(s, ReducedBy(P, c, rule, BaseOf(P, c, rule)))'
    BY <1>1, <1>2, <1>3, <1>6 DEF Gone, Went
  <2>1. PICK e : e = ReducedBy(P, c, rule, BaseOf(P, c, rule))
    OBVIOUS
  <2>2. PICK s \in closure' : Follows(s, e)'
    BY <1>5, <2>1
  <2>3. e = ReducedBy(P', c, rule, BaseOf(P', c, rule))
    BY <1>2, <2>1
  <2> QED BY <2>2, <2>3
<1> HIDE DEF Taken
<1>8. RoundFollows'
  BY <1>2, <1>4, <1>5, <1>7, BranchFollows
<1>9. StillThere => StillThere'
  BY <1>2, <1>5, StillThereStays
<1> QED BY <1>2, <1>8, <1>9, NothingRefusedHere
LEMMA NextTokenKeeps ==
    ASSUME DriverInvariant, RoundFollows, NothingRefused, NextToken
    PROVE  RoundFollows' /\ NothingRefused'
<1>1. /\ phase = "round" /\ todo = {} /\ pending = <<>> /\ at < Len(input)
      /\ UNCHANGED <<tables, input, stacks, forest>> /\ P' = P
  BY DEF NextToken, RoundOver, source, P
<1>2. /\ phase' # "round"
      /\ IF shifted = {} THEN phase' = "failed"
         ELSE active' = shifted /\ at' = at + 1 /\ phase' = "skip" /\ failure' = failure
  BY DEF NextToken, Fail
<1>3. RoundFollows'
  BY <1>2 DEF RoundFollows
<1>4. roots = {}
  BY <1>1, Located, NoRootsBefore DEF DriverInvariant
<1>5. ASSUME IsSentence(P, input) PROVE shifted # {} /\ StillThere' /\ failure \notin {"unexpected token", "unexpected end"}
  <2>1. StillThere /\ failure \notin {"unexpected token", "unexpected end"}
    BY <1>1, <1>5 DEF NothingRefused
  <2>2. PICK s \in shifted : \E e \in Configs(P, input) : e.at = at + 1 /\ Follows(s, e) /\ Accepting(P, input, e)
    BY <1>1, <1>4, <2>1, RoundGoesOn
  <2>3. PICK e \in Configs(P, input) : e.at = at + 1 /\ Follows(s, e) /\ Accepting(P, input, e)
    BY <2>2
  <2>4. Follows(s, e)'
    BY <1>1, <2>3 DEF Follows
  <2>5. s \in active' /\ e.at = at'
    BY <1>2, <2>3
  <2>6. e \in RunsAt(s)'
    BY <1>1, <2>3, <2>4, <2>5 DEF RunsAt
  <2> QED BY <1>1, <2>1, <2>3, <2>5, <2>6 DEF StillThere
<1>6. NothingRefused'
  <2> SUFFICES ASSUME IsSentence(P, input) PROVE StillThere' /\ failure' \notin {"unexpected token", "unexpected end"}
    BY <1>1 DEF NothingRefused
  <2> QED BY <1>2, <1>5
<1> QED BY <1>3, <1>6

LEMMA JudgeKeeps ==
    ASSUME DriverInvariant, RoundFollows, NothingRefused, Judge
    PROVE  RoundFollows' /\ NothingRefused'
<1>1. /\ phase = "round" /\ todo = {} /\ pending = <<>> /\ at = Len(input) /\ P' = P /\ input' = input
  BY DEF Judge, RoundOver, source, P
<1>2. /\ phase' \in {"failed", "evaluate"}
      /\ roots # {} => failure' \in {failure, "ambiguous"}
  BY DEF Judge, Fail
<1>3. RoundFollows'
  BY <1>2 DEF RoundFollows
<1>4. ASSUME IsSentence(P, input) PROVE roots # {} /\ failure \notin {"unexpected token", "unexpected end"}
  <2>1. StillThere /\ failure \notin {"unexpected token", "unexpected end"}
    BY <1>1, <1>4 DEF NothingRefused
  <2>2. ASSUME NEW e \in Configs(P, input), e.at = at + 1 PROVE FALSE
    <3>1. input \in Seq(STRING) /\ Len(input) \in Nat
      BY SourceFacts DEF DriverInvariant
    <3>2. e.at \in Nat /\ e.at <= Len(input)
      BY <3>1, ConfigTyped
    <3> QED BY <1>1, <2>2, <3>1, <3>2
  <2> QED BY <1>1, <2>1, <2>2, RoundGoesOn
<1>5. NothingRefused'
  BY <1>1, <1>2, <1>4 DEF NothingRefused
<1> QED BY <1>3, <1>5

LEMMA NextKeepsNothingRefused ==
    ASSUME DriverInvariant, DriverInvariant', RoundFollows, NothingRefused, [Next]_vars
    PROVE  RoundFollows' /\ NothingRefused'
<1>1. CASE SkipSpace
  BY <1>1, SkipSpaceKeeps
<1>2. CASE OpenRound
  BY <1>2, OpenRoundKeeps
<1>3. CASE TakeTop
  BY <1>3, TakeTopKeeps
<1>4. CASE GiveUp
  <2>1. UNCHANGED <<tables, input>> /\ phase' = "failed" /\ failure' = "resource limit"
    BY <1>4 DEF GiveUp, Fail, source
  <2> QED BY <2>1, LimitKeeps
<1>5. CASE AcceptBranch
  BY <1>5, AcceptBranchKeeps
<1>6. CASE ShiftBranch
  BY <1>6, ShiftBranchKeeps
<1>7. CASE ReduceBranch
  BY <1>7, ReduceBranchKeeps
<1>8. CASE NextToken
  BY <1>8, NextTokenKeeps
<1>9. CASE Judge
  BY <1>9, JudgeKeeps
<1>10. CASE Descend \/ Callback
  <2>1. /\ UNCHANGED <<tables, input, failure>> /\ phase' \in {"evaluate", "accepted"}
    BY <1>10 DEF Descend, Callback, source, verdict
  <2>2. P' = P
    BY <2>1 DEF P
  <2> QED BY <2>1, <2>2 DEF RoundFollows, NothingRefused
<1>11. CASE UNCHANGED vars
  <2>1. UNCHANGED <<tables, input, at, stacks, forest, active, pending, closure, shifted, top, todo, roots, phase, failure>>
    BY <1>11 DEF vars, source, branches, verdict
  <2>2. P' = P /\ KeepsStacks
    BY <2>1, GrownAlready DEF P, KeepsStacks
  <2>3. StillThere => StillThere'
    BY <2>1, <2>2, StillThereStays
  <2>4. ASSUME phase = "round" PROVE RoundFollows'
    <3>1. active' \subseteq closure' /\ ~AtSpace'
      BY <2>1, <2>2, <2>4 DEF RoundFollows, AtSpace
    <3>2. ASSUME NEW stack \in closure
          PROVE  \/ \E i \in DOMAIN pending' : pending'[i] = stack
                 \/ \A a \in ActionsOf(stack)' : (stack = top' /\ a \in todo') \/ Gone(stack, a)'
      <4>1. stack \in DOMAIN stacks
        BY DEF DriverInvariant, RoundIsSound
      <4>2. ActionsOf(stack)' = ActionsOf(stack) /\ \A a : Gone(stack, a) => Gone(stack, a)'
        BY <2>1, <2>2, <2>4, <4>1, RunsStay, GoneStays
      <4> QED BY <2>1, <2>4, <4>2 DEF RoundFollows
    <3> QED BY <2>1, <3>1, <3>2 DEF RoundFollows
  <2>5. RoundFollows'
    BY <2>1, <2>4 DEF RoundFollows
  <2> QED BY <2>1, <2>3, <2>5, NothingRefusedHere
<1> QED BY <1>1, <1>2, <1>3, <1>4, <1>5, <1>6, <1>7, <1>8, <1>9, <1>10, <1>11 DEF Next, Driver, Done

\* No sentence is refused, whatever the order of the branches and however many
\* of them die: with tables that leave nothing out, an input the grammar has is
\* never reported as a syntax error.  It may be found ambiguous, and the limit
\* may stop the driver, nothing else.
THEOREM SentencesAreNotRefused ==
    ASSUME NEW CONSTANT aheads, Thorough(aheads)
    PROVE  Spec => [](IsSentence(P, input) => failure \notin {"unexpected token", "unexpected end"})
<1>1. Init => RoundFollows /\ NothingRefused
  BY InitiallyThere
<1>2. DriverInvariant /\ DriverInvariant' /\ RoundFollows /\ NothingRefused /\ [Next]_vars
         => (RoundFollows /\ NothingRefused)'
  BY NextKeepsNothingRefused
<1>3. NothingRefused => (IsSentence(P, input) => failure \notin {"unexpected token", "unexpected end"})
  BY DEF NothingRefused
<1> QED BY <1>1, <1>2, <1>3, DriverInvariantHolds, PTL DEF Spec
=============================================================================
