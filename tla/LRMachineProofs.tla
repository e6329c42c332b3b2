-------------------------- MODULE LRMachineProofs --------------------------
(***************************************************************************)
(* Proofs about the LR driver, for any coherent tables, inputs, recovery   *)
(* hooks and budgets: its types, what its stacks spell, and that none of   *)
(* the checks against wrong tables can trip.                               *)
(***************************************************************************)
EXTENDS LRMachine, LRGeneratedProofs

-----------------------------------------------------------------------------
(* What the stacks spell, as a property of any two sequences. *)

Spelt(p, st, vs) ==
    \A i \in DOMAIN st : \A item \in p.items[st[i]] :
        /\ item[2] < i
        /\ \A j \in 1..item[2] :
              /\ vs[i - 1 - item[2] + j] = p.productions[item[1]].rhs[j]
              /\ <<item[1], item[2] - j>> \in p.items[st[i - j]]

InStep(p, st, vs) ==
    /\ st \in Seq(DOMAIN p.items) /\ vs \in Seq(STRING)
    /\ Len(st) = Len(vs) + 1
    /\ st[1] = 0
    /\ \A i \in 2..Len(st) : st[i] # 0

\* Popping leaves stacks that still spell their items.
LEMMA SpeltPopped ==
    ASSUME NEW p, NEW st, NEW vs, InStep(p, st, vs), Spelt(p, st, vs), WellFormed(p),
           NEW base \in 0..Len(vs)
    PROVE  /\ InStep(p, SubSeq(st, 1, base + 1), SubSeq(vs, 1, base))
           /\ Spelt(p, SubSeq(st, 1, base + 1), SubSeq(vs, 1, base))
<1> DEFINE st1 == SubSeq(st, 1, base + 1)
           vs1 == SubSeq(vs, 1, base)
<1>1. /\ st1 \in Seq(DOMAIN p.items) /\ Len(st1) = base + 1
      /\ \A i \in 1..(base + 1) : st1[i] = st[i]
  <2>1. base + 1 \in 0..Len(st) /\ st \in Seq(DOMAIN p.items)
    BY DEF InStep
  <2> HIDE DEF st1
  <2> QED BY <2>1, Prefix DEF st1
<1>2. /\ vs1 \in Seq(STRING) /\ Len(vs1) = base
      /\ \A i \in 1..base : vs1[i] = vs[i]
  BY Prefix DEF InStep
<1>3. InStep(p, st1, vs1)
  BY <1>1, <1>2 DEF InStep
<1>4. ASSUME NEW i \in DOMAIN st1, NEW item \in p.items[st1[i]]
      PROVE  /\ item[2] < i
             /\ \A j \in 1..item[2] :
                   /\ vs1[i - 1 - item[2] + j] = p.productions[item[1]].rhs[j]
                   /\ <<item[1], item[2] - j>> \in p.items[st1[i - j]]
  <2>1. i \in 1..(base + 1) /\ st1[i] = st[i] /\ i \in DOMAIN st
    BY <1>1 DEF InStep
  <2>2. item[2] < i /\ item[2] \in Nat
    BY <2>1 DEF Spelt, InStep, WellFormed
  <2>3. ASSUME NEW j \in 1..item[2]
        PROVE  /\ vs1[i - 1 - item[2] + j] = p.productions[item[1]].rhs[j]
               /\ <<item[1], item[2] - j>> \in p.items[st1[i - j]]
    <3>1. i - 1 - item[2] + j \in 1..base /\ i - j \in 1..(base + 1)
      BY <2>1, <2>2
    <3>2. /\ vs[i - 1 - item[2] + j] = p.productions[item[1]].rhs[j]
          /\ <<item[1], item[2] - j>> \in p.items[st[i - j]]
      BY <2>1 DEF Spelt
    <3> QED BY <3>1, <3>2, <1>1, <1>2
  <2> QED BY <2>2, <2>3
<1>5. Spelt(p, st1, vs1)
  BY <1>4 DEF Spelt
<1> QED BY <1>3, <1>5

\* Following a transition leaves stacks that spell their items: an item of the
\* target with its dot at 0 spells nothing, and any other one was read from an
\* item of the top, which spells the rest.
LEMMA SpeltPushed ==
    ASSUME NEW p, Coherent(p), NEW st, NEW vs, InStep(p, st, vs), Spelt(p, st, vs),
           NEW symbol \in STRING, <<st[Len(st)], symbol>> \in DOMAIN p.goto
    PROVE  LET target == p.goto[<<st[Len(st)], symbol>>]
           IN  /\ InStep(p, Append(st, target), Append(vs, symbol))
               /\ Spelt(p, Append(st, target), Append(vs, symbol))
<1> DEFINE n == Len(st)
           target == p.goto[<<st[n], symbol>>]
           st1 == Append(st, target)
           vs1 == Append(vs, symbol)
<1>1. WellFormed(p) /\ Transitions(p)
  BY DEF Coherent
<1>2. n \in Nat \ {0} /\ Len(vs) = n - 1 /\ target \in DOMAIN p.items \ {0}
  BY <1>1 DEF InStep, Transitions
<1>3. /\ st1 \in Seq(DOMAIN p.items) /\ Len(st1) = n + 1 /\ st1[n + 1] = target
      /\ \A i \in 1..n : st1[i] = st[i]
  <2>1. st \in Seq(DOMAIN p.items) /\ target \in DOMAIN p.items
    BY <1>2 DEF InStep
  <2> HIDE DEF target
  <2> QED BY <2>1, Appended
<1>4. /\ vs1 \in Seq(STRING) /\ Len(vs1) = n /\ vs1[n] = symbol
      /\ \A i \in 1..(n - 1) : vs1[i] = vs[i]
  BY <1>2, Appended DEF InStep
<1> HIDE DEF st1, vs1, target, n
<1>5. InStep(p, st1, vs1)
  <2>1. \A i \in 2..(n + 1) : st1[i] # 0
    BY <1>2, <1>3 DEF InStep
  <2>2. st1[1] = 0
    BY <1>2, <1>3 DEF InStep
  <2> QED BY <2>1, <2>2, <1>2, <1>3, <1>4 DEF InStep
<1> DEFINE Fine(i, item) ==
             /\ item[2] < i
             /\ \A j \in 1..item[2] :
                   /\ vs1[i - 1 - item[2] + j] = p.productions[item[1]].rhs[j]
                   /\ <<item[1], item[2] - j>> \in p.items[st1[i - j]]
<1>6. ASSUME NEW i \in 1..n, NEW item \in p.items[st1[i]]
      PROVE  Fine(i, item)
  <2>1. st1[i] = st[i] /\ i \in DOMAIN st
    BY <1>2, <1>3 DEF InStep, n
  <2>2. item[2] < i /\ item[2] \in Nat
    BY <2>1, <1>1 DEF Spelt, InStep, WellFormed
  <2>3. ASSUME NEW j \in 1..item[2]
        PROVE  /\ vs1[i - 1 - item[2] + j] = p.productions[item[1]].rhs[j]
               /\ <<item[1], item[2] - j>> \in p.items[st1[i - j]]
    <3>1. i - 1 - item[2] + j \in 1..(n - 1) /\ i - j \in 1..n
      BY <2>1, <2>2, <1>2
    <3>2. /\ vs[i - 1 - item[2] + j] = p.productions[item[1]].rhs[j]
          /\ <<item[1], item[2] - j>> \in p.items[st[i - j]]
      BY <2>1 DEF Spelt
    <3> QED BY <3>1, <3>2, <1>3, <1>4
  <2> QED BY <2>2, <2>3
<1>7. ASSUME NEW item \in p.items[st1[n + 1]]
      PROVE  Fine(n + 1, item)
  <2>1. item \in p.items[target] /\ item[2] \in Nat
    BY <1>1, <1>2, <1>3 DEF WellFormed
  <2>2. CASE item[2] = 0
    BY <2>2, <1>2
  <2>3. CASE item[2] > 0
    <3> DEFINE before == <<item[1], item[2] - 1>>
    <3>1. p.productions[item[1]].rhs[item[2]] = symbol /\ before \in p.items[st[n]]
      <4> DEFINE edge == <<st[n], symbol>>
      <4>1. edge \in DOMAIN p.goto /\ target = p.goto[edge] /\ edge[1] = st[n] /\ edge[2] = symbol
        BY DEF target, n
      <4> HIDE DEF edge
      <4> QED BY <4>1, <1>1, <2>1, <2>3 DEF Transitions
    <3>2. n \in DOMAIN st /\ before[2] = item[2] - 1 /\ before[1] = item[1]
      BY <1>2 DEF InStep, n
    <3>3. /\ item[2] - 1 < n
          /\ \A j \in 1..(item[2] - 1) :
                /\ vs[n - 1 - (item[2] - 1) + j] = p.productions[item[1]].rhs[j]
                /\ <<item[1], item[2] - 1 - j>> \in p.items[st[n - j]]
      BY <3>1, <3>2 DEF Spelt
    <3>4. ASSUME NEW j \in 1..item[2]
          PROVE  vs1[n + 1 - 1 - item[2] + j] = p.productions[item[1]].rhs[j]
      <4>1. CASE j = item[2]
        <5>1. n + 1 - 1 - item[2] + j = n
          BY <4>1, <1>2, <2>1
        <5> QED BY <4>1, <5>1, <3>1, <1>4
      <4>2. CASE j < item[2]
        <5>1. j \in 1..(item[2] - 1) /\ n - item[2] + j \in 1..(n - 1)
          BY <4>2, <2>1, <3>3, <1>2
        <5>2. vs[n - 1 - (item[2] - 1) + j] = p.productions[item[1]].rhs[j]
          BY <5>1, <3>3
        <5>3. n - 1 - (item[2] - 1) + j = n - item[2] + j /\ n + 1 - 1 - item[2] + j = n - item[2] + j
          BY <2>1, <1>2
        <5> QED BY <5>1, <5>2, <5>3, <1>4
      <4> QED BY <4>1, <4>2, <2>1
    <3>5. ASSUME NEW j \in 1..item[2]
          PROVE  <<item[1], item[2] - j>> \in p.items[st1[n + 1 - j]]
      <4>1. CASE j = 1
        BY <4>1, <3>1, <1>2, <1>3, <2>1
      <4>2. CASE j > 1
        <5>1. j - 1 \in 1..(item[2] - 1) /\ n + 1 - j \in 1..n
          BY <4>2, <2>1, <3>3, <1>2
        <5>2. <<item[1], item[2] - 1 - (j - 1)>> \in p.items[st[n - (j - 1)]]
          BY <5>1, <3>3
        <5>3. item[2] - 1 - (j - 1) = item[2] - j /\ n - (j - 1) = n + 1 - j
          BY <2>1, <1>2
        <5> QED BY <5>1, <5>2, <5>3, <1>3
      <4> QED BY <4>1, <4>2
    <3>6. item[2] < n + 1
      BY <3>3, <1>2, <2>1
    <3>7. \A j \in 1..item[2] :
            /\ vs1[n + 1 - 1 - item[2] + j] = p.productions[item[1]].rhs[j]
            /\ <<item[1], item[2] - j>> \in p.items[st1[n + 1 - j]]
      BY <3>4, <3>5
    <3> QED BY <3>6, <3>7, <1>2, <2>1 DEF Fine
  <2> QED BY <2>1, <2>2, <2>3
<1>8. Spelt(p, st1, vs1)
  <2>1. DOMAIN st1 = 1..(n + 1)
    BY <1>3, <1>2
  <2>2. ASSUME NEW i \in DOMAIN st1, NEW item \in p.items[st1[i]]
        PROVE  Fine(i, item)
    <3>1. i \in 1..n \/ i = n + 1
      BY <2>1, <1>2
    <3> HIDE DEF Fine
    <3> QED BY <3>1, <1>6, <1>7
  <2> QED BY <2>2 DEF Spelt
<1> QED BY <1>5, <1>8 DEF st1, vs1, target, n

-----------------------------------------------------------------------------
(* Types. *)

LEMMA TablesCohere ==
    ASSUME TypeOK
    PROVE  /\ Coherent(P) /\ WellFormed(P)
           /\ input \in Seq(STRING) /\ \A i \in DOMAIN input : input[i] # EndOfInput
BY TablesAssumption, InputsAssumption DEF TypeOK, P, Coherent

\* The parts of the type invariant, which steps keep separately.
Kept ==
    /\ parser \in DOMAIN Parsers /\ tables = Parsers[parser] /\ input \in Inputs[parser]
    /\ recoveredPrefix \in BOOLEAN

StacksTyped ==
    /\ states \in Seq(DOMAIN P.items) /\ values \in Seq(STRING) /\ spans \in Seq(SpanType)
    /\ Len(states) = Len(values) + 1 /\ Len(spans) = Len(values)

\* region.cursor lags behind region.pos after a block that moved.
PositionsTyped == at \in 0..Len(input) /\ cursor \in 0..Len(input) /\ cursor <= at

ControlTyped ==
    /\ diagnostics \in Nat
    /\ phase \in {"decide", "fail block", "accepted", "failed"}
    /\ failure \in Reasons

ContextTyped ==
    /\ host \in [reported : Nat, skipped : Nat]
    /\ ctx \in [before : Nat, begin : Nat, skipped : Nat,
                requested : {"none", "insert", "retry", "abort"}]

\* While a fail block runs, its generic diagnostic is there to be dropped.
BlockOpen == phase = "fail block" => diagnostics > 0 /\ ctx.begin <= host.reported

TypeInv == Kept /\ StacksTyped /\ PositionsTyped /\ ControlTyped /\ ContextTyped /\ BlockOpen

SiteInv == phase = "fail block" => Top \in DOMAIN P.failSites

LEMMA TypeGives ==
    ASSUME TypeInv
    PROVE  /\ TypeOK
           /\ at \in Nat /\ cursor \in Nat /\ Len(input) \in Nat /\ Len(values) \in Nat
           /\ at <= Len(input) /\ cursor <= at
<1>1. TypeOK
  BY DEF TypeInv, TypeOK, Kept, StacksTyped, PositionsTyped, ControlTyped, ContextTyped
<1>2. Len(input) \in Nat
  BY <1>1, TablesCohere
<1>3. Len(values) \in Nat
  BY DEF TypeInv, StacksTyped
<1> QED BY <1>1, <1>2, <1>3 DEF TypeInv, PositionsTyped

\* What is pushed is of the right type.
LEMMA PushedTypes ==
    ASSUME TypeOK, NEW state \in DOMAIN P.items, NEW value \in STRING, NEW span \in SpanType,
           Push(state, value, span)
    PROVE  /\ states' \in Seq(DOMAIN P.items) /\ values' \in Seq(STRING) /\ spans' \in Seq(SpanType)
           /\ Len(states') = Len(values') + 1 /\ Len(spans') = Len(values')
<1>1. states \in Seq(DOMAIN P.items) /\ values \in Seq(STRING) /\ spans \in Seq(SpanType)
  BY DEF TypeOK
<1>2. Len(states) = Len(values) + 1 /\ Len(spans) = Len(values)
  BY DEF TypeOK
<1> QED BY <1>1, <1>2, Appended DEF Push

LEMMA TypeInit == Init => TypeInv
<1> SUFFICES ASSUME Init PROVE TypeInv
  OBVIOUS
<1>1. parser \in DOMAIN Parsers /\ tables = Parsers[parser] /\ input \in Inputs[parser]
  BY DEF Init
<1>2. input \in Seq(STRING) /\ 0 \in DOMAIN P.items
  BY <1>1, TablesAssumption, InputsAssumption DEF P, Coherent, WellFormed
<1>3. states \in Seq(DOMAIN P.items) /\ Len(states) = 1
  <2> DEFINE S == DOMAIN P.items
  <2>1. 0 \in S /\ states = <<0>>
    BY <1>2 DEF Init
  <2> HIDE DEF S
  <2>2. states \in Seq(S)
    BY <2>1
  <2> QED BY <2>1, <2>2 DEF S
<1>4. values \in Seq(STRING) /\ spans \in Seq(SpanType) /\ Len(values) = 0 /\ Len(spans) = 0
  BY DEF Init
<1>5. host \in [reported : Nat, skipped : Nat]
      /\ ctx \in [before : Nat, begin : Nat, skipped : Nat,
                  requested : {"none", "insert", "retry", "abort"}]
  BY DEF Init, Unspent, NoContext
<1>6. at \in 0..Len(input) /\ cursor \in 0..Len(input) /\ cursor <= at
  <2>1. Len(input) \in Nat /\ at = 0 /\ cursor = 0
    BY <1>2 DEF Init
  <2> QED BY <2>1
<1>7. ControlTyped /\ BlockOpen
  BY DEF Init, ControlTyped, BlockOpen, Reasons
<1>8. Kept
  BY <1>1 DEF Init, Kept
<1>9. StacksTyped
  BY <1>3, <1>4 DEF StacksTyped
<1> QED BY <1>5, <1>6, <1>7, <1>8, <1>9 DEF TypeInv, PositionsTyped, ContextTyped

LEMMA StacksStay ==
    ASSUME StacksTyped, UNCHANGED <<source, stack>>
    PROVE  StacksTyped'
BY DEF StacksTyped, source, stack, P

LEMMA TokenType ==
    ASSUME TypeInv, at < Len(input)
    PROVE  /\ input[at + 1] \in STRING /\ input[at + 1] # EndOfInput
           /\ at + 1 \in 0..Len(input)
           /\ KindAt(input, at) = input[at + 1]
<1>1. at + 1 \in 1..Len(input) /\ at # Len(input)
  BY TypeGives
<1>2. input \in Seq(STRING) /\ \A i \in DOMAIN input : input[i] # EndOfInput
  BY TypeGives, TablesCohere
<1> QED BY <1>1, <1>2 DEF KindAt

LEMMA ShiftType ==
    ASSUME TypeInv, ShiftToken
    PROVE  TypeInv'
<1> USE DEF TypeInv
<1>1. Coherent(P) /\ WellFormed(P) /\ TypeOK
  BY TypeGives, TablesCohere
<1>2. Kept' /\ ContextTyped' /\ input' = input /\ P' = P
  BY DEF ShiftToken, Kept, ContextTyped, source, P
<1>3. CASE at = Len(input)
  <2>1. UNCHANGED <<at, cursor, stack, source, diagnostics>> /\ Fail("shift past end of input")
    BY <1>3 DEF ShiftToken
  <2>2. StacksTyped' /\ PositionsTyped' /\ ControlTyped' /\ BlockOpen'
    BY <2>1, StacksStay DEF PositionsTyped, ControlTyped, BlockOpen, Fail, Reasons, source
  <2> QED BY <1>2, <2>2
<1>4. CASE at # Len(input)
  <2>1. /\ Push(Decision.state, input[at + 1], TokenSpan(cursor))
        /\ at' = at + 1 /\ cursor' = cursor + 1 /\ UNCHANGED <<phase, failure, diagnostics>>
        /\ phase = "decide" /\ Decision.type = "shift"
    BY <1>4 DEF ShiftToken, Deciding
  <2>2. Decision.state \in DOMAIN P.items
    BY <2>1, <1>1, ShiftIsTransition DEF Decision
  <2>3. at < Len(input) /\ cursor <= at /\ at \in Nat /\ cursor \in Nat
    BY <1>4, TypeGives
  <2>4. input[at + 1] \in STRING /\ at + 1 \in 0..Len(input)
    BY <2>3, TokenType
  <2>5. TokenSpan(cursor) \in SpanType
    BY <2>3 DEF TokenSpan, SpanType
  <2>6. StacksTyped'
    BY <2>1, <2>2, <2>4, <2>5, <1>1, <1>2, PushedTypes DEF StacksTyped
  <2>7. PositionsTyped'
    BY <2>1, <2>3, <2>4, <1>2 DEF PositionsTyped
  <2>8. ControlTyped' /\ BlockOpen'
    BY <2>1 DEF ControlTyped, BlockOpen
  <2> QED BY <1>2, <2>6, <2>7, <2>8
<1> QED BY <1>3, <1>4

\* What a reduction pops is there, and what it pushes has its type.
LEMMA ReduceFacts ==
    ASSUME TypeInv, Deciding("reduce")
    PROVE  LET rule == Decision.state
               base == Len(values) - LrLength(P, rule)
           IN  /\ rule \in Nat /\ rule + 1 \in DOMAIN P.productions
               /\ <<rule + 1, LrLength(P, rule)>> \in P.items[Top]
               /\ LrLength(P, rule) \in Nat /\ LrLhs(P, rule) \in STRING
               /\ base \in Int /\ base <= Len(values)
<1>1. Coherent(P) /\ WellFormed(P)
  BY TypeGives, TablesCohere
<1>2. LET rule == Decision.state
      IN  /\ rule \in Nat /\ rule + 1 \in DOMAIN P.productions
          /\ <<rule + 1, LrLength(P, rule)>> \in P.items[Top]
  BY <1>1, ReduceIsComplete DEF Deciding, Decision
<1>3. LrLength(P, Decision.state) \in Nat /\ LrLhs(P, Decision.state) \in STRING
  BY <1>1, <1>2 DEF WellFormed, LrLength, LrRhs, LrLhs
<1>4. Len(values) \in Nat
  BY TypeGives
<1> QED BY <1>2, <1>3, <1>4

LEMMA ReduceToTypes ==
    ASSUME TypeOK, NEW rule, LrLhs(P, rule) \in STRING, NEW base \in 0..Len(values),
           ReduceTo(rule, base), UNCHANGED source, phase = "decide"
    PROVE  /\ StacksTyped'
           /\ phase' \in {"decide", "failed"} /\ failure' \in Reasons \cup {failure}
<1> DEFINE children == SubSeq(spans, base + 1, Len(spans))
           target == <<states[base + 1], LrLhs(P, rule)>>
<1>1. /\ states \in Seq(DOMAIN P.items) /\ values \in Seq(STRING) /\ spans \in Seq(SpanType)
      /\ Len(states) = Len(values) + 1 /\ Len(spans) = Len(values)
      /\ cursor \in Nat /\ P' = P /\ Len(values) \in Nat
  <2>1. Len(input) \in Nat
    BY TablesCohere
  <2> QED BY <2>1 DEF TypeOK, source, P
<1>2. CASE SpaceViolation(P, rule, children) \/ target \notin DOMAIN P.goto
  <2>1. UNCHANGED stack /\ phase' = "failed" /\ failure' \in Reasons
    BY <1>2 DEF ReduceTo, Fail, Reasons
  <2> QED BY <2>1, <1>1 DEF StacksTyped, stack
<1>3. CASE ~SpaceViolation(P, rule, children) /\ target \in DOMAIN P.goto
  <2>1. /\ states' = Append(SubSeq(states, 1, base + 1), P.goto[target])
        /\ values' = Append(SubSeq(values, 1, base), LrLhs(P, rule))
        /\ spans' = Append(SubSeq(spans, 1, base), ReducedSpan(P, rule, children, cursor))
        /\ UNCHANGED <<phase, failure>>
    BY <1>3 DEF ReduceTo
  <2>2. P.goto[target] \in DOMAIN P.items
    BY <1>3, TablesCohere DEF Coherent, Transitions
  <2>3. children \in Seq(SpanType)
    BY <1>1
  <2>4. ReducedSpan(P, rule, children, cursor) \in SpanType
    BY <2>3, <1>1, ReducedSpanType DEF SpanType, SpansOver
  <2> DEFINE S == DOMAIN P.items
             goal == P.goto[target]
             span == ReducedSpan(P, rule, children, cursor)
             name == LrLhs(P, rule)
  <2>5. SubSeq(states, 1, base + 1) \in Seq(S) /\ Len(SubSeq(states, 1, base + 1)) = base + 1
    <3> HIDE DEF S
    <3>1. states \in Seq(S) /\ base + 1 \in 0..Len(states)
      BY <1>1 DEF S
    <3> QED BY <3>1, Prefix
  <2>6. SubSeq(values, 1, base) \in Seq(STRING) /\ Len(SubSeq(values, 1, base)) = base
    BY <1>1, Prefix
  <2>7. SubSeq(spans, 1, base) \in Seq(SpanType) /\ Len(SubSeq(spans, 1, base)) = base
    BY <1>1, Prefix
  <2> HIDE DEF S, goal, span, name
  <2>8. states' \in Seq(S) /\ Len(states') = base + 2
    <3>1. goal \in S /\ states' = Append(SubSeq(states, 1, base + 1), goal)
      BY <2>1, <2>2 DEF goal, S
    <3> QED BY <3>1, <2>5, Appended
  <2>9. values' \in Seq(STRING) /\ Len(values') = base + 1
    <3>1. name \in STRING /\ values' = Append(SubSeq(values, 1, base), name)
      BY <2>1 DEF name
    <3> QED BY <3>1, <2>6, Appended
  <2>10. spans' \in Seq(SpanType) /\ Len(spans') = base + 1
    <3>1. span \in SpanType /\ spans' = Append(SubSeq(spans, 1, base), span)
      BY <2>1, <2>4 DEF span
    <3> QED BY <3>1, <2>7, Appended
  <2>11. phase' = "decide" /\ failure' = failure
    BY <2>1
  <2> QED BY <2>8, <2>9, <2>10, <2>11, <1>1 DEF StacksTyped, S
<1> QED BY <1>2, <1>3

LEMMA ReduceType ==
    ASSUME TypeInv, ReduceRule
    PROVE  TypeInv'
<1> USE DEF TypeInv
<1> DEFINE rule == Decision.state
           base == Len(values) - LrLength(P, rule)
<1>1. /\ TypeOK /\ Deciding("reduce") /\ phase = "decide"
      /\ UNCHANGED <<source, at, cursor, recoveredPrefix, diagnostics, host, ctx>>
  BY TypeGives DEF ReduceRule, Deciding
<1>2. Kept' /\ ContextTyped' /\ PositionsTyped'
  BY <1>1 DEF Kept, ContextTyped, PositionsTyped, source
<1>3. /\ base \in Int /\ base <= Len(values) /\ LrLhs(P, rule) \in STRING
  BY <1>1, ReduceFacts
<1>4. CASE base < 0
  <2>1. UNCHANGED stack /\ Fail("stack underflow")
    BY <1>4 DEF ReduceRule
  <2>2. StacksTyped' /\ ControlTyped' /\ BlockOpen'
    BY <2>1, <1>1, StacksStay DEF ControlTyped, BlockOpen, Fail, Reasons
  <2> QED BY <2>2, <1>2
<1>5. CASE base >= 0
  <2>1. ReduceTo(rule, base)
    <3>1. ~(base < 0)
      BY <1>5, <1>3
    <3> QED BY <3>1 DEF ReduceRule
  <2>2. base \in 0..Len(values)
    BY <1>3, <1>5, TypeGives
  <2>3. UNCHANGED source
    BY <1>1
  <2> HIDE DEF rule, base
  <2>4. StacksTyped' /\ phase' \in {"decide", "failed"} /\ failure' \in Reasons \cup {failure}
    BY <2>1, <2>2, <2>3, <1>1, <1>3, ReduceToTypes
  <2>5. ControlTyped' /\ BlockOpen'
    BY <2>4, <1>1 DEF ControlTyped, BlockOpen
  <2> QED BY <2>4, <2>5, <1>2
<1> QED BY <1>3, <1>4, <1>5

\* A token dropped by a hook marks the entry on top of the stack.
LEMMA DeleteType ==
    ASSUME TypeInv, DeleteToken
    PROVE  TypeInv'
<1> USE DEF TypeInv
<1>1. /\ TypeOK /\ phase = "decide" /\ at < Len(input)
      /\ diagnostics' = diagnostics + 1 /\ at' = at + 1 /\ cursor' = cursor + 1
      /\ UNCHANGED <<source, states, values, phase, failure, host, ctx>>
  BY TypeGives DEF DeleteToken, Deciding
<1>2. ContextTyped' /\ ControlTyped' /\ BlockOpen' /\ P' = P /\ input' = input
  BY <1>1 DEF ContextTyped, ControlTyped, BlockOpen, source, P
<1>3. PositionsTyped'
  BY <1>1, <1>2, TypeGives DEF PositionsTyped
<1>4. CASE spans = <<>>
  <2>1. recoveredPrefix' = TRUE /\ UNCHANGED spans
    BY <1>4 DEF DeleteToken
  <2>2. StacksTyped' /\ Kept'
    BY <2>1, <1>1, <1>2 DEF StacksTyped, Kept, source
  <2> QED BY <2>2, <1>2, <1>3
<1>5. CASE spans # <<>>
  <2>1. /\ UNCHANGED recoveredPrefix
        /\ spans' = [spans EXCEPT ![Len(spans)].trailing = TRUE]
    BY <1>5 DEF DeleteToken
  <2>2. spans \in Seq(SpanType) /\ Len(spans) \in DOMAIN spans
    BY <1>1, <1>5 DEF TypeOK
  <2>3. [spans[Len(spans)] EXCEPT !.trailing = TRUE] \in SpanType
    <3>1. \A span \in SpanType : [span EXCEPT !.trailing = TRUE] \in SpanType
      BY DEF SpanType
    <3> HIDE DEF SpanType
    <3> QED BY <2>2, <3>1
  <2>4. spans' \in Seq(SpanType) /\ Len(spans') = Len(spans)
    <3> HIDE DEF SpanType
    <3>1. spans' = [spans EXCEPT ![Len(spans)] = [spans[Len(spans)] EXCEPT !.trailing = TRUE]]
      BY <2>1
    <3> QED BY <3>1, <2>2, <2>3
  <2>5. StacksTyped' /\ Kept'
    BY <2>1, <2>4, <1>1, <1>2 DEF StacksTyped, Kept, source
  <2> QED BY <2>5, <1>2, <1>3
<1> QED BY <1>4, <1>5

LEMMA AtMostNext ==
    ASSUME NEW m \in Nat, NEW n \in Nat, m <= n
    PROVE  m <= n + 1
OBVIOUS

LEMMA CountersType ==
    ASSUME ContextTyped
    PROVE  LET hosts == [reported : Nat, skipped : Nat]
               contexts == [before : Nat, begin : Nat, skipped : Nat,
                            requested : {"none", "insert", "retry", "abort"}]
           IN  /\ host.reported \in Nat /\ ctx.begin \in Nat
               /\ [host EXCEPT !.reported = @ + 1] \in hosts
               /\ [host EXCEPT !.reported = @ + 1].reported = host.reported + 1
               /\ [host EXCEPT !.skipped = @ + 1] \in hosts
               /\ [host EXCEPT !.skipped = @ + 1].reported = host.reported
               /\ [ctx EXCEPT !.skipped = @ + 1] \in contexts
               /\ [ctx EXCEPT !.skipped = @ + 1].begin = ctx.begin
BY DEF ContextTyped

\* The calls of a fail block move region.pos only, and never take back a report.
LEMMA CallType ==
    ASSUME TypeInv, CtxCall
    PROVE  TypeInv'
<1> USE DEF TypeInv
<1>1. /\ TypeOK /\ Len(input) \in Nat /\ phase = "fail block"
      /\ UNCHANGED <<source, cursor, stack, recoveredPrefix, diagnostics, phase, failure>>
  BY TypeGives DEF CtxCall, CtxError, CtxSkip, CtxTake, CtxRequest, InBlock, BlockUnchanged
<1>2. Kept' /\ StacksTyped' /\ ControlTyped' /\ input' = input
  BY <1>1, StacksStay DEF Kept, ControlTyped, source
<1>3. ASSUME NEW mode \in {"insert", "retry", "abort"}, Request(mode)
      PROVE  /\ ctx' \in [before : Nat, begin : Nat, skipped : Nat,
                         requested : {"none", "insert", "retry", "abort"}]
             /\ ctx'.begin = ctx.begin
  BY <1>3 DEF Request, ContextTyped
<1>4. CASE CtxError
  <2>1. at' = at
    BY <1>4 DEF CtxError
  <2>2. CASE ExhaustedBy(host)
    <3>1. Request("abort") /\ host' = host
      BY <1>4, <2>2 DEF CtxError
    <3>2. ContextTyped' /\ BlockOpen' /\ PositionsTyped'
      BY <3>1, <2>1, <1>1, <1>2, <1>3, TypeGives DEF ContextTyped, BlockOpen, PositionsTyped
    <3> QED BY <3>2, <1>2
  <2>3. CASE ~ExhaustedBy(host)
    <3>1. host' = [host EXCEPT !.reported = @ + 1] /\ ctx' = ctx
      BY <1>4, <2>3 DEF CtxError
    <3>2. ContextTyped' /\ BlockOpen' /\ PositionsTyped'
      <4>1. host' \in [reported : Nat, skipped : Nat] /\ host'.reported = host.reported + 1
        BY <3>1, CountersType
      <4>2. ctx'.begin = ctx.begin /\ ctx.begin \in Nat /\ host.reported \in Nat
        BY <3>1, CountersType
      <4>3. ContextTyped'
        BY <4>1, <3>1 DEF ContextTyped
      <4>5. BlockOpen'
        <5>1. ctx.begin <= host.reported /\ diagnostics > 0
          BY <1>1 DEF BlockOpen
        <5>2. ctx.begin <= host.reported + 1
          BY <5>1, <4>2, AtMostNext
        <5> QED BY <5>1, <5>2, <4>1, <4>2, <1>1 DEF BlockOpen
      <4>4. PositionsTyped'
        BY <3>1, <2>1, <1>1, <1>2, TypeGives DEF PositionsTyped
      <4> QED BY <4>3, <4>4, <4>5
    <3> QED BY <3>2, <1>2
  <2> QED BY <2>2, <2>3
<1>5. CASE CtxSkip
  <2>1. CASE ExhaustedBy(host)
    <3>1. Request("abort") /\ host' = host /\ at' = at
      BY <1>5, <2>1 DEF CtxSkip
    <3>2. ContextTyped' /\ BlockOpen' /\ PositionsTyped'
      BY <3>1, <1>1, <1>2, <1>3, TypeGives DEF ContextTyped, BlockOpen, PositionsTyped
    <3> QED BY <3>2, <1>2
  <2>2. CASE ~ExhaustedBy(host)
    <3>1. /\ at < Len(input) /\ at' = at + 1
          /\ ctx' = [ctx EXCEPT !.skipped = @ + 1] /\ host' = [host EXCEPT !.skipped = @ + 1]
      BY <1>5, <2>2 DEF CtxSkip
    <3>2. ContextTyped' /\ BlockOpen' /\ PositionsTyped'
      <4>1. ContextTyped' /\ BlockOpen'
        BY <3>1, <1>1, <1>2, CountersType DEF ContextTyped, BlockOpen
      <4>2. PositionsTyped'
        <5>1. at + 1 \in 0..Len(input) /\ cursor <= at + 1
          BY <3>1, TokenType, TypeGives
        <5> QED BY <5>1, <3>1, <1>1, <1>2 DEF PositionsTyped
      <4> QED BY <4>1, <4>2
    <3> QED BY <3>2, <1>2
  <2> QED BY <2>1, <2>2
<1>6. CASE CtxTake
  <2>1. at < Len(input) /\ at' = at + 1 /\ UNCHANGED <<host, ctx>>
    BY <1>6 DEF CtxTake
  <2>2. ContextTyped' /\ BlockOpen' /\ PositionsTyped'
    <3>1. ContextTyped' /\ BlockOpen'
      BY <2>1, <1>1, <1>2, CountersType DEF ContextTyped, BlockOpen
    <3>2. PositionsTyped'
      <4>1. at + 1 \in 0..Len(input) /\ cursor <= at + 1
        BY <2>1, TokenType, TypeGives
      <4> QED BY <4>1, <2>1, <1>1, <1>2 DEF PositionsTyped
    <3> QED BY <3>1, <3>2
  <2> QED BY <2>2, <1>2
<1>7. ASSUME NEW mode \in {"insert", "retry", "abort"}, CtxRequest(mode)
      PROVE  TypeInv'
  <2>1. Request(mode) /\ UNCHANGED <<at, host>>
    BY <1>7 DEF CtxRequest
  <2>2. ContextTyped' /\ BlockOpen' /\ PositionsTyped'
    BY <2>1, <1>1, <1>2, <1>3, TypeGives DEF ContextTyped, BlockOpen, PositionsTyped
  <2> QED BY <2>2, <1>2
<1> QED BY <1>4, <1>5, <1>6, <1>7 DEF CtxCall

LEMMA ChargedType ==
    ASSUME TypeInv
    PROVE  Charged \in [reported : Nat, skipped : Nat] /\ Charged.reported = host.reported
<1>1. /\ host \in [reported : Nat, skipped : Nat] /\ ctx.skipped \in Nat /\ ctx.before \in Nat
      /\ at \in Int
  BY TypeGives DEF TypeInv, ContextTyped
<1>2. (IF Moved > ctx.skipped THEN Moved - ctx.skipped ELSE 0) \in Nat
  BY <1>1 DEF Moved
<1> QED BY <1>1, <1>2 DEF Charged

LEMMA Successor ==
    ASSUME NEW n \in Nat
    PROVE  n + 1 \in Nat
OBVIOUS

LEMMA Predecessor ==
    ASSUME NEW n \in Nat, n > 0
    PROVE  n - 1 \in Nat
OBVIOUS

LEMMA Exceeding ==
    ASSUME NEW m \in Nat, NEW n \in Nat, m > n
    PROVE  m > 0
OBVIOUS

LEMMA SecondOfTwo ==
    ASSUME NEW n \in Nat, NEW length \in Nat, length = n + 1, 1 < length,
           ~(length - 1 \in 2..length)
    PROVE  n = 1
OBVIOUS

LEMMA SupersededType ==
    ASSUME TypeInv, phase = "fail block"
    PROVE  Superseded \in Nat
<1>1. diagnostics \in Nat /\ diagnostics > 0
  BY DEF TypeInv, ControlTyped, BlockOpen
<1>2. diagnostics - 1 \in Nat
  BY <1>1, Predecessor
<1> QED BY <1>1, <1>2 DEF Superseded

\* A missing token that is inserted is shifted like any other.
LEMMA InsertTypes ==
    ASSUME TypeInv, InsertMissing, phase = "fail block", Top \in DOMAIN P.failSites, UNCHANGED source
    PROVE  StacksTyped' /\ ControlTyped' /\ phase' # "fail block"
<1> DEFINE expected == P.failSites[Top]
           window == InsertWindow(P, input, at, expected.symbol)
           action == LrAction(P, Top, window)
<1>1. /\ TypeOK /\ Coherent(P) /\ WellFormed(P) /\ StacksTyped /\ ControlTyped /\ P' = P
      /\ diagnostics > 0 /\ cursor \in Nat
  BY TypeGives, TablesCohere DEF TypeInv, BlockOpen, source, P
<1>2. CASE expected.isToken /\ action.type = "shift"
  <2>1. /\ Push(action.state, expected.symbol, SyntheticSpan(cursor))
        /\ phase' = "decide" /\ failure' = failure /\ diagnostics' = Superseded
    BY <1>2 DEF InsertMissing
  <2>2. action.state \in DOMAIN P.items
    BY <1>1, <1>2, ShiftIsTransition
  <2>3. expected.symbol \in STRING
    BY <1>1 DEF WellFormed
  <2>4. SyntheticSpan(cursor) \in SpanType
    BY <1>1 DEF SyntheticSpan, SpanType
  <2> HIDE DEF action, expected
  <2>5. StacksTyped'
    BY <2>1, <2>2, <2>3, <2>4, <1>1, PushedTypes DEF StacksTyped
  <2>6. Superseded \in Nat
    BY SupersededType
  <2>7. ControlTyped'
    BY <2>1, <2>6, <1>1 DEF ControlTyped
  <2> QED BY <2>1, <2>5, <2>7
<1>3. CASE ~(expected.isToken /\ action.type = "shift")
  <2>1. Fail("unexpected token") /\ UNCHANGED <<stack, diagnostics>>
    BY <1>3 DEF InsertMissing
  <2>2. StacksTyped' /\ ControlTyped' /\ phase' # "fail block"
    BY <2>1, <1>1, StacksStay DEF ControlTyped, Fail, Reasons
  <2> QED BY <2>2
<1> QED BY <1>2, <1>3

LEMMA FinishType ==
    ASSUME TypeInv, SiteInv, FinishFailBlock
    PROVE  TypeInv'
<1> USE DEF TypeInv
<1>1. /\ phase = "fail block" /\ host' = Charged /\ ctx' = NoContext
      /\ UNCHANGED <<source, at, cursor, recoveredPrefix>>
  BY DEF FinishFailBlock
<1>2. Kept' /\ PositionsTyped' /\ ContextTyped'
  BY <1>1, ChargedType DEF Kept, PositionsTyped, ContextTyped, NoContext, source
<1>3. CASE FinishMode = "abort"
  <2>1. Fail("unexpected token") /\ UNCHANGED <<stack, diagnostics>>
    BY <1>3 DEF FinishFailBlock
  <2>2. StacksTyped' /\ ControlTyped' /\ BlockOpen'
    BY <2>1, <1>1, StacksStay DEF ControlTyped, BlockOpen, Fail, Reasons
  <2> QED BY <2>2, <1>2
<1>4. CASE FinishMode = "retry"
  <2>1. Fail("recovery made no progress") /\ UNCHANGED stack /\ diagnostics' = Superseded
    BY <1>4 DEF FinishFailBlock
  <2>2. Superseded \in Nat
    BY <1>1, SupersededType
  <2>3. StacksTyped' /\ ControlTyped' /\ BlockOpen'
    BY <2>1, <2>2, <1>1, StacksStay DEF ControlTyped, BlockOpen, Fail, Reasons
  <2> QED BY <2>3, <1>2
<1>5. CASE FinishMode \notin {"abort", "retry"}
  <2>1. InsertMissing
    BY <1>5 DEF FinishFailBlock
  <2>2. StacksTyped' /\ ControlTyped' /\ phase' # "fail block"
    BY <2>1, <1>1, InsertTypes DEF SiteInv
  <2> QED BY <2>2, <1>2 DEF BlockOpen
<1> QED BY <1>3, <1>4, <1>5

\* The turns that touch neither the stack nor the input's position.
LEMMA DecisionType ==
    ASSUME TypeInv, AcceptInput \/ Unexpected \/ EnterFailBlock
    PROVE  TypeInv'
<1> USE DEF TypeInv
<1>1. /\ UNCHANGED <<source, at, cursor, stack, recoveredPrefix, host>>
      /\ diagnostics' \in {diagnostics, diagnostics + 1}
      /\ phase' \in {"accepted", "failed", "fail block"}
      /\ failure' \in Reasons \cup {failure}
  BY DEF AcceptInput, Unexpected, EnterFailBlock, Fail, Reasons
<1>2. Kept' /\ StacksTyped' /\ PositionsTyped' /\ ControlTyped'
  <2>1. Kept'
    BY <1>1 DEF Kept, source
  <2>2. StacksTyped'
    BY <1>1, StacksStay
  <2>3. PositionsTyped'
    <3>1. input' = input
      BY <1>1 DEF source
    <3> QED BY <1>1, <3>1 DEF PositionsTyped
  <2>4. ControlTyped'
    <3>1. diagnostics' \in Nat
      <4>1. diagnostics \in Nat
        BY DEF ControlTyped
      <4>2. diagnostics + 1 \in Nat
        BY <4>1, Successor
      <4> QED BY <1>1, <4>1, <4>2
    <3>2. failure' \in Reasons
      BY <1>1 DEF ControlTyped
    <3> QED BY <1>1, <3>1, <3>2 DEF ControlTyped
  <2> QED BY <2>1, <2>2, <2>3, <2>4
<1>3. CASE EnterFailBlock
  <2>1. ctx' = [before |-> at, begin |-> host.reported, skipped |-> 0, requested |-> "none"]
        /\ diagnostics' = diagnostics + 1 /\ host' = host
    BY <1>3 DEF EnterFailBlock
  <2>2. host.reported \in Nat /\ diagnostics \in Nat /\ at \in Nat
    BY TypeGives DEF ContextTyped, ControlTyped
  <2>3. ContextTyped'
    BY <2>1, <2>2 DEF ContextTyped
  <2>4. BlockOpen'
    <3>1. ctx'.begin = host.reported /\ host'.reported = host.reported
      BY <2>1
    <3>2. diagnostics' > 0
      BY <2>1, <2>2
    <3>3. ctx'.begin <= host'.reported
      BY <3>1, <2>2
    <3> QED BY <3>2, <3>3 DEF BlockOpen
  <2> QED BY <1>2, <2>3, <2>4
<1>4. CASE AcceptInput \/ Unexpected
  <2>1. phase' # "fail block" /\ UNCHANGED <<host, ctx>>
    BY <1>4 DEF AcceptInput, Unexpected, Fail
  <2>2. ContextTyped' /\ BlockOpen'
    BY <2>1 DEF ContextTyped, BlockOpen
  <2> QED BY <1>2, <2>2
<1> QED BY <1>3, <1>4

LEMMA SpaceType ==
    ASSUME TypeInv, SkipSpace
    PROVE  TypeInv'
<1> USE DEF TypeInv
<1>1. /\ at < Len(input) /\ at' = at + 1 /\ cursor' = cursor + 1
      /\ UNCHANGED <<source, stack, recoveredPrefix, diagnostics, phase, failure, host, ctx>>
  BY DEF SkipSpace, AtSpace
<1>2. Kept' /\ StacksTyped' /\ ControlTyped' /\ ContextTyped' /\ BlockOpen'
  BY <1>1, StacksStay DEF Kept, ControlTyped, ContextTyped, BlockOpen, source
<1>3. PositionsTyped'
  <2>1. input' = input
    BY <1>1 DEF source
  <2> QED BY <1>1, <2>1, TypeGives DEF PositionsTyped
<1> QED BY <1>2, <1>3

\* A fail block only runs at a site that has one.
LEMMA SiteStep == SiteInv /\ [Next]_vars => SiteInv'
<1> SUFFICES ASSUME SiteInv, [Next]_vars, phase' = "fail block"
             PROVE  Top' \in DOMAIN P'.failSites
  BY DEF SiteInv
<1>1. CASE EnterFailBlock
  <2>1. Top \in DOMAIN P.failSites /\ UNCHANGED <<source, stack>>
    BY <1>1 DEF EnterFailBlock, FailSite
  <2> QED BY <2>1 DEF Top, P, source, stack
<1>2. CASE CtxCall
  <2>1. phase = "fail block" /\ UNCHANGED <<source, stack>>
    BY <1>2 DEF CtxCall, CtxError, CtxSkip, CtxTake, CtxRequest, InBlock, BlockUnchanged
  <2> QED BY <2>1 DEF SiteInv, Top, P, source, stack
<1>3. CASE UNCHANGED vars
  BY <1>3 DEF SiteInv, Top, P, source, stack, vars
<1>4. CASE Driver /\ ~EnterFailBlock
  <2>1. phase' # "fail block"
    BY <1>4 DEF Driver, SkipSpace, ShiftToken, ReduceRule, ReduceTo, AcceptInput, Unexpected,
        DeleteToken, FinishFailBlock, InsertMissing, Deciding, Fail
  <2> QED BY <2>1
<1> QED BY <1>1, <1>2, <1>3, <1>4 DEF Next, Done

LEMMA TypeStep == TypeInv /\ SiteInv /\ [Next]_vars => TypeInv'
<1> SUFFICES ASSUME TypeInv, SiteInv, [Next]_vars PROVE TypeInv'
  OBVIOUS
<1>1. CASE Driver
  BY <1>1, SpaceType, ShiftType, ReduceType, DecisionType, DeleteType, FinishType DEF Driver
<1>2. CASE CtxCall
  BY <1>2, CallType
<1>3. CASE UNCHANGED vars
  BY <1>3, StacksStay DEF vars, TypeInv, Kept, PositionsTyped, ControlTyped, ContextTyped, BlockOpen, source
<1> QED BY <1>1, <1>2, <1>3 DEF Next, Done

\* Every variable of the driver keeps its type, the three stacks stay in step
\* and neither position leaves the input, whatever a recovery does.
THEOREM TypeCorrect == Spec => []TypeOK
<1>1. Init => TypeInv /\ SiteInv
  BY TypeInit DEF Init, SiteInv
<1>2. TypeInv /\ SiteInv /\ [Next]_vars => (TypeInv /\ SiteInv)'
  BY TypeStep, SiteStep
<1>3. TypeInv => TypeOK
  BY TypeGives
<1> QED BY <1>1, <1>2, <1>3, PTL DEF Spec

-----------------------------------------------------------------------------
(* What the stacks of the driver spell, and the checks that never trip. *)

StackInv == InStep(P, states, values) /\ Spelt(P, states, values) /\ NoTableFault

LEMMA StackStays ==
    ASSUME StackInv, UNCHANGED <<source, states, values>>,
           failure' \in {failure, "unexpected token", "whitespace not allowed", "recovery made no progress"}
    PROVE  StackInv'
BY DEF StackInv, InStep, Spelt, NoTableFault, source, P

\* Pushing along a transition keeps what the stack spells.
LEMMA PushKeeps ==
    ASSUME TypeOK, StackInv, NEW symbol \in STRING, NEW span,
           <<Top, symbol>> \in DOMAIN P.goto, Push(P.goto[<<Top, symbol>>], symbol, span),
           UNCHANGED <<source, failure>>
    PROVE  StackInv'
<1>1. Coherent(P) /\ InStep(P, states, values) /\ Spelt(P, states, values) /\ P' = P
  BY TablesCohere DEF StackInv, source, P
<1>2. states' = Append(states, P.goto[<<states[Len(states)], symbol>>]) /\ values' = Append(values, symbol)
  BY DEF Push, Top
<1>3. InStep(P, states', values') /\ Spelt(P, states', values')
  BY <1>1, <1>2, SpeltPushed DEF Top
<1>4. InStep(P', states', values') /\ Spelt(P', states', values')
  BY <1>1, <1>3
<1> QED BY <1>4 DEF StackInv, NoTableFault

LEMMA ShiftKeeps ==
    ASSUME TypeInv, StackInv, ShiftToken
    PROVE  StackInv'
<1> DEFINE w == Window(P, input, at)
<1>1. Coherent(P) /\ WellFormed(P) /\ TypeOK
  BY TypeGives, TablesCohere
<1>2. LrAction(P, Top, w).type = "shift" /\ Decision.state = LrAction(P, Top, w).state
  BY DEF ShiftToken, Deciding, Decision
<1>3. /\ w[1] # EndOfInput /\ w[1] \in STRING /\ <<Top, w[1]>> \in DOMAIN P.goto
      /\ P.goto[<<Top, w[1]>>] = Decision.state
  BY <1>1, <1>2, ShiftIsTransition
<1>4. w[1] = KindAt(input, at)
  BY <1>1, WindowStarts
<1>5. at # Len(input) /\ at < Len(input)
  BY <1>3, <1>4, TypeGives DEF KindAt
<1>6. w[1] = input[at + 1]
  BY <1>4, <1>5, TokenType
<1>7. Push(Decision.state, input[at + 1], TokenSpan(cursor)) /\ UNCHANGED <<source, failure>>
  BY <1>5 DEF ShiftToken
<1> HIDE DEF w
<1> QED BY <1>1, <1>3, <1>6, <1>7, PushKeeps

\* The members of a rule to reduce are on the stack, and below them is a state
\* with a transition on its left-hand side.
LEMMA ReducePossible ==
    ASSUME TypeInv, StackInv, Deciding("reduce")
    PROVE  LET rule == Decision.state
               base == Len(values) - LrLength(P, rule)
           IN  base \in 0..Len(values) /\ <<states[base + 1], LrLhs(P, rule)>> \in DOMAIN P.goto
<1> DEFINE rule == Decision.state
           length == LrLength(P, rule)
           base == Len(values) - length
           n == Len(states)
           item == <<rule + 1, length>>
<1>1. Coherent(P) /\ TypeOK /\ Len(values) \in Nat /\ n = Len(values) + 1
  BY TypeGives, TablesCohere DEF TypeOK
<1>2. rule \in Nat /\ rule + 1 \in DOMAIN P.productions /\ item \in P.items[Top] /\ length \in Nat
  BY ReduceFacts
<1>3. n \in DOMAIN states /\ Top = states[n] /\ \A i \in 1..n : states[i] \in DOMAIN P.items
  <2>1. states \in Seq(DOMAIN P.items)
    BY <1>1 DEF TypeOK
  <2> DEFINE S == DOMAIN P.items
  <2>2. states \in Seq(S)
    BY <2>1
  <2> HIDE DEF S
  <2>3. n \in 1..n /\ DOMAIN states = 1..n /\ \A i \in 1..n : states[i] \in S
    BY <1>1, <2>2
  <2> QED BY <2>3 DEF Top, S
<1> HIDE DEF rule, length
<1>4. length < n /\ \A j \in 1..length : <<rule + 1, length - j>> \in P.items[states[n - j]]
  <2>1. item[1] = rule + 1 /\ item[2] = length
    OBVIOUS
  <2>2. item[2] < n /\ \A j \in 1..item[2] : <<item[1], item[2] - j>> \in P.items[states[n - j]]
    BY <1>2, <1>3 DEF StackInv, Spelt
  <2> QED BY <2>1, <2>2
<1>5. base \in 0..Len(values) /\ base + 1 \in 1..n
  BY <1>1, <1>2, <1>4
<1>6. <<rule + 1, 0>> \in P.items[states[base + 1]]
  <2>1. CASE length = 0
    BY <2>1, <1>1, <1>2, <1>3
  <2>2. CASE length > 0
    <3>1. length \in 1..length /\ length - length = 0 /\ n - length = base + 1
      BY <2>2, <1>1, <1>2
    <3> QED BY <3>1, <1>4
  <2> QED BY <2>1, <2>2, <1>2
<1>7. <<states[base + 1], P.productions[rule + 1].lhs>> \in DOMAIN P.goto
  <2>1. states[base + 1] \in DOMAIN P.items
    BY <1>3, <1>5
  <2>2. rule + 1 # 0
    BY <1>2
  <2> HIDE DEF base
  <2> QED BY <2>1, <2>2, <1>1, <1>6 DEF Coherent, GotosExist
<1> QED BY <1>5, <1>7 DEF LrLhs, rule, length

LEMMA ReduceKeeps ==
    ASSUME TypeInv, StackInv, ReduceRule
    PROVE  StackInv'
<1> DEFINE rule == Decision.state
           base == Len(values) - LrLength(P, rule)
           children == SubSeq(spans, base + 1, Len(spans))
           name == LrLhs(P, rule)
           st1 == SubSeq(states, 1, base + 1)
           vs1 == SubSeq(values, 1, base)
<1>1. Deciding("reduce") /\ UNCHANGED source
  BY DEF ReduceRule
<1>2. Coherent(P) /\ WellFormed(P) /\ P' = P /\ Len(values) \in Nat
  BY <1>1, TypeGives, TablesCohere DEF P, source
<1>3. base \in 0..Len(values) /\ <<states[base + 1], name>> \in DOMAIN P.goto /\ name \in STRING
  BY <1>1, ReducePossible, ReduceFacts
<1>4. ReduceTo(rule, base)
  <2>1. ~(base < 0)
    BY <1>3, <1>2
  <2> QED BY <2>1 DEF ReduceRule
<1>5. CASE SpaceViolation(P, rule, children)
  <2>1. UNCHANGED stack /\ failure' = "whitespace not allowed"
    BY <1>4, <1>5 DEF ReduceTo, Fail
  <2>2. UNCHANGED <<source, states, values>>
    BY <2>1, <1>1 DEF stack
  <2> QED BY <2>1, <2>2, StackStays
<1>6. CASE ~SpaceViolation(P, rule, children)
  <2>1. /\ states' = Append(st1, P.goto[<<states[base + 1], name>>])
        /\ values' = Append(vs1, name) /\ UNCHANGED failure
    BY <1>3, <1>4, <1>6 DEF ReduceTo
  <2>2. InStep(P, st1, vs1) /\ Spelt(P, st1, vs1)
    <3> HIDE DEF base
    <3> QED BY <1>2, <1>3, SpeltPopped DEF StackInv
  <2>3. Len(st1) = base + 1 /\ st1[base + 1] = states[base + 1]
    <3> HIDE DEF base
    <3>1. states \in Seq(DOMAIN P.items) /\ base + 1 \in 1..Len(states) /\ base \in Nat
      <4>1. states \in Seq(DOMAIN P.items) /\ Len(states) = Len(values) + 1 /\ Len(values) \in Nat
        BY TypeGives DEF TypeOK
      <4> QED BY <1>3, <4>1
    <3> DEFINE S == DOMAIN P.items
    <3>2. states \in Seq(S) /\ base + 1 \in 0..Len(states)
      BY <3>1
    <3> HIDE DEF S
    <3>3. Len(SubSeq(states, 1, base + 1)) = base + 1
          /\ \A i \in 1..(base + 1) : SubSeq(states, 1, base + 1)[i] = states[i]
      BY <3>2, Prefix
    <3> QED BY <3>1, <3>3
  <2> HIDE DEF st1, vs1, name, base
  <2>4. <<st1[Len(st1)], name>> \in DOMAIN P.goto
        /\ P.goto[<<st1[Len(st1)], name>>] = P.goto[<<states[base + 1], name>>]
    BY <2>3, <1>3
  <2>5. InStep(P, states', values') /\ Spelt(P, states', values')
    BY <1>2, <1>3, <2>1, <2>2, <2>4, SpeltPushed
  <2>6. InStep(P', states', values') /\ Spelt(P', states', values')
    BY <1>2, <2>5
  <2> QED BY <2>1, <2>6 DEF StackInv, NoTableFault
<1> QED BY <1>5, <1>6

\* Only the start symbol is on the stack when the tables accept.
LEMMA AcceptKeeps ==
    ASSUME TypeInv, StackInv, AcceptInput
    PROVE  StackInv'
<1> DEFINE w == Window(P, input, at)
           n == Len(states)
<1>1. Coherent(P) /\ WellFormed(P) /\ TypeOK /\ Len(values) \in Nat /\ n = Len(values) + 1
  BY TypeGives, TablesCohere DEF TypeOK
<1>2. w[1] = EndOfInput /\ <<0, 1>> \in P.items[Top]
  <2>1. LrAction(P, Top, w).type = "accept"
    BY DEF AcceptInput, Deciding, Decision
  <2> QED BY <2>1, <1>1, AcceptIsAtTheEnd
<1>3. at = Len(input)
  <2>1. w[1] = KindAt(input, at)
    BY <1>1, WindowStarts
  <2>2. ~(at < Len(input))
    BY <2>1, <1>2, TokenType
  <2> QED BY <2>2, TypeGives
<1>4. Len(values) = 1
  <2> DEFINE S == DOMAIN P.items
  <2>a. states \in Seq(S)
    BY <1>1 DEF TypeOK
  <2> HIDE DEF S
  <2>b. DOMAIN states = 1..n /\ \A i \in 1..n : states[i] \in S
    BY <1>1, <2>a
  <2>1. n \in DOMAIN states /\ Top = states[n]
    BY <1>1, <2>b DEF Top
  <2> DEFINE item == <<0, 1>>
  <2>2. item[1] = 0 /\ item[2] = 1
    OBVIOUS
  <2>3. item \in P.items[states[n]]
    BY <1>2, <2>1
  <2>4. item[2] < n /\ \A j \in 1..item[2] : <<item[1], item[2] - j>> \in P.items[states[n - j]]
    BY <2>1, <2>3 DEF StackInv, Spelt
  <2>5. 1 < n /\ <<0, 0>> \in P.items[states[n - 1]]
    BY <2>2, <2>4
  <2>6. n - 1 \in 1..n /\ states[n - 1] \in DOMAIN P.items
    BY <1>1, <2>5, <2>b DEF S
  <2>7. states[n - 1] = 0
    BY <2>5, <2>6, <1>1 DEF Coherent, Transitions
  <2>8. \A i \in 2..n : states[i] # 0
    BY DEF StackInv, InStep
  <2>9. ~(n - 1 \in 2..n)
    BY <2>7, <2>8
  <2>10. n \in Nat
    BY <1>1
  <2> HIDE DEF n
  <2> QED BY <2>5, <2>9, <2>10, <1>1, SecondOfTwo
<1>5. failure' \in {failure, "whitespace not allowed"} /\ UNCHANGED <<source, stack>>
  BY <1>3, <1>4 DEF AcceptInput, Fail
<1> QED BY <1>5, StackStays DEF stack

LEMMA FinishKeeps ==
    ASSUME TypeInv, SiteInv, StackInv, FinishFailBlock
    PROVE  StackInv'
<1> DEFINE expected == P.failSites[Top]
           w == InsertWindow(P, input, at, expected.symbol)
           action == LrAction(P, Top, w)
<1>1. phase = "fail block" /\ UNCHANGED source
  BY DEF FinishFailBlock
<1>2. CASE FinishMode \in {"abort", "retry"}
  <2>1. UNCHANGED stack /\ failure' \in {"unexpected token", "recovery made no progress"}
    BY <1>2 DEF FinishFailBlock, Fail
  <2> QED BY <2>1, <1>1, StackStays DEF stack
<1>3. CASE FinishMode \notin {"abort", "retry"}
  <2>1. InsertMissing
    BY <1>3 DEF FinishFailBlock
  <2>2. CASE ~(expected.isToken /\ action.type = "shift")
    <3>1. UNCHANGED stack /\ failure' = "unexpected token"
      BY <2>1, <2>2 DEF InsertMissing, Fail
    <3> QED BY <3>1, <1>1, StackStays DEF stack
  <2>3. CASE expected.isToken /\ action.type = "shift"
    <3>1. Push(action.state, expected.symbol, SyntheticSpan(cursor)) /\ UNCHANGED failure
      BY <2>1, <2>3 DEF InsertMissing
    <3>2. Coherent(P) /\ WellFormed(P) /\ TypeOK
      BY TypeGives, TablesCohere
    <3>3. w[1] = expected.symbol
      BY <3>2, WindowStarts
    <3>4. <<Top, w[1]>> \in DOMAIN P.goto /\ P.goto[<<Top, w[1]>>] = action.state /\ w[1] \in STRING
      BY <2>3, <3>2, ShiftIsTransition
    <3> HIDE DEF w, action, expected
    <3> QED BY <1>1, <3>1, <3>2, <3>3, <3>4, PushKeeps
  <2> QED BY <2>2, <2>3
<1> QED BY <1>2, <1>3

LEMMA StackStep == TypeInv /\ SiteInv /\ StackInv /\ [Next]_vars => StackInv'
<1> SUFFICES ASSUME TypeInv, SiteInv, StackInv, [Next]_vars PROVE StackInv'
  OBVIOUS
<1>1. CASE SkipSpace \/ Unexpected \/ DeleteToken \/ EnterFailBlock \/ CtxCall \/ UNCHANGED vars
  <2>1. UNCHANGED <<source, states, values>> /\ failure' \in {failure, "unexpected token"}
    BY <1>1 DEF SkipSpace, Unexpected, DeleteToken, EnterFailBlock, CtxCall, CtxError, CtxSkip, CtxTake,
        CtxRequest, BlockUnchanged, vars, stack, Fail
  <2> QED BY <2>1, StackStays
<1>2. CASE ShiftToken
  BY <1>2, ShiftKeeps
<1>3. CASE ReduceRule
  BY <1>3, ReduceKeeps
<1>4. CASE AcceptInput
  BY <1>4, AcceptKeeps
<1>5. CASE FinishFailBlock
  BY <1>5, FinishKeeps
<1> QED BY <1>1, <1>2, <1>3, <1>4, <1>5 DEF Next, Driver, Done

LEMMA StackInit == Init => StackInv
<1> SUFFICES ASSUME Init PROVE StackInv
  OBVIOUS
<1>1. Coherent(P) /\ states \in Seq(DOMAIN P.items) /\ values \in Seq(STRING)
  BY TypeInit, TypeGives, TablesCohere DEF TypeOK
<1>2. states = <<0>> /\ values = <<>>
  BY DEF Init
<1>3. Len(states) = 1 /\ Len(values) = 0 /\ states[1] = 0 /\ DOMAIN states = {1}
  BY <1>2
<1>4. InStep(P, states, values)
  BY <1>1, <1>3 DEF InStep
<1>5. Spelt(P, states, values)
  <2>1. \A item \in P.items[0] : item[2] = 0
    BY <1>1 DEF Coherent, Transitions
  <2> QED BY <1>3, <2>1 DEF Spelt
<1> QED BY <1>4, <1>5 DEF StackInv, NoTableFault, Init

LEMMA StackAlways == Spec => [](TypeInv /\ SiteInv /\ StackInv)
<1>1. Init => TypeInv /\ SiteInv /\ StackInv
  BY TypeInit, StackInit DEF Init, SiteInv
<1>2. TypeInv /\ SiteInv /\ StackInv /\ [Next]_vars => (TypeInv /\ SiteInv /\ StackInv)'
  BY TypeStep, SiteStep, StackStep
<1> QED BY <1>1, <1>2, PTL DEF Spec

\* In every state, after any recovery, the items of the states on the stack
\* spell the symbols below them: a right-hand side is there when it is popped.
THEOREM StackIsSpelt == Spec => []ItemsSpellStack
<1>1. StackInv => ItemsSpellStack
  BY DEF StackInv, Spelt, ItemsSpellStack, ItemSpelt
<1> QED BY <1>1, StackAlways, PTL

\* The driver's checks for wrong tables never fail on coherent ones: no
\* underflow, no missing goto, no shift past the end, no invalid accept.
THEOREM TableFaultsNeverHappen == Spec => []NoTableFault
<1>1. StackInv => NoTableFault
  BY DEF StackInv
<1> QED BY <1>1, StackAlways, PTL

-----------------------------------------------------------------------------
(* Budgets and reports. *)

BudgetInv == phase \in {"decide", "accepted"} => host = Unspent \/ ~ExhaustedBy(host)

LEMMA BudgetStep == BudgetInv /\ [Next]_vars => BudgetInv'
<1> SUFFICES ASSUME BudgetInv, [Next]_vars, phase' \in {"decide", "accepted"}
             PROVE  host' = Unspent \/ ~ExhaustedBy(host')
  BY DEF BudgetInv, ExhaustedBy
<1>1. CASE FinishFailBlock
  <2>1. FinishMode # "abort"
    BY <1>1 DEF FinishFailBlock, Fail
  <2>2. ~ExhaustedBy(Charged)
    BY <2>1 DEF FinishMode
  <2>3. host' = Charged
    BY <1>1 DEF FinishFailBlock
  <2> QED BY <2>2, <2>3 DEF ExhaustedBy
<1>2. CASE SkipSpace \/ ShiftToken \/ ReduceRule \/ AcceptInput \/ DeleteToken
  <2>1. host' = host /\ phase = "decide"
    BY <1>2 DEF SkipSpace, ShiftToken, ReduceRule, AcceptInput, DeleteToken, Deciding
  <2> QED BY <2>1 DEF BudgetInv, ExhaustedBy
<1>3. CASE Unexpected \/ EnterFailBlock \/ CtxCall
  <2>1. phase' \in {"failed", "fail block"}
    BY <1>3 DEF Unexpected, EnterFailBlock, CtxCall, CtxError, CtxSkip, CtxTake, CtxRequest,
        InBlock, BlockUnchanged, Fail
  <2> QED BY <2>1
<1>4. CASE UNCHANGED vars
  BY <1>4 DEF BudgetInv, ExhaustedBy, vars
<1> QED BY <1>1, <1>2, <1>3, <1>4 DEF Next, Driver, Done

\* No parse is accepted on a budget its fail blocks used up, however they
\* moved: finish() charges what take() did not count, before going on.
THEOREM BudgetsHold == Spec => []AcceptedWithinBudget
<1>1. Init => BudgetInv
  BY DEF Init, BudgetInv
<1>2. BudgetInv => AcceptedWithinBudget
  BY DEF BudgetInv, AcceptedWithinBudget
<1> QED BY <1>1, <1>2, BudgetStep, PTL DEF Spec

LEMMA SumPositive ==
    ASSUME NEW m \in Nat, NEW n \in Nat, m > 0 \/ n > 0
    PROVE  m + n > 0
OBVIOUS

LEMMA LeavingReports ==
    ASSUME TypeInv, Next, phase = "fail block", phase' # "fail block"
    PROVE  Reported' > 0
<1>1. FinishFailBlock
  BY DEF Next, Driver, Done, SkipSpace, ShiftToken, ReduceRule, AcceptInput, Unexpected, DeleteToken,
      EnterFailBlock, Deciding, CtxCall, CtxError, CtxSkip, CtxTake, CtxRequest, BlockUnchanged
<1>2. /\ host' = Charged /\ Charged.reported = host.reported
      /\ diagnostics' \in {diagnostics, Superseded}
  BY <1>1, ChargedType DEF FinishFailBlock, InsertMissing
<1>3. diagnostics \in Nat /\ diagnostics > 0 /\ host.reported \in Nat /\ ctx.begin \in Nat
  BY CountersType DEF TypeInv, ControlTyped, BlockOpen
<1>4. CASE host.reported > ctx.begin
  <2>1. host.reported > 0
    BY <1>3, <1>4, Exceeding
  <2>2. Superseded \in Nat
    BY <1>1, SupersededType DEF FinishFailBlock
  <2>3. diagnostics' \in Nat
    BY <1>2, <1>3, <2>2
  <2> QED BY <1>2, <1>3, <2>1, <2>3, SumPositive DEF Reported
<1>5. CASE ~(host.reported > ctx.begin)
  <2>1. diagnostics' = diagnostics
    BY <1>2, <1>5 DEF Superseded
  <2> QED BY <1>2, <1>3, <2>1, SumPositive DEF Reported
<1> QED BY <1>4, <1>5

\* Leaving a fail block, by a repair or not, leaves a report behind: the
\* generic diagnostic is dropped only when the block made one of its own.
THEOREM ReportsStay == Spec => RepairsStayReported
<1>1. TypeInv /\ [Next]_vars => [phase = "fail block" /\ phase' # "fail block" => Reported' > 0]_vars
  BY LeavingReports
<1> QED BY <1>1, StackAlways, PTL DEF Spec, RepairsStayReported

-----------------------------------------------------------------------------
(* The LR driver implements bottom-up recognition (BottomUp), for any      *)
(* coherent tables, inputs, recovery hooks and budgets: every step of      *)
(* LRMachine is a step of the recogniser or leaves it where it is.         *)

DriverInv == TypeInv /\ SiteInv /\ StackInv

-----------------------------------------------------------------------------
(* Facts about single steps. *)

LEMMA ReportedIsNatural ==
    ASSUME TypeInv
    PROVE  /\ diagnostics \in Nat /\ host.reported \in Nat
           /\ phase = "fail block" => diagnostics > 0 /\ Reported > 0
BY CountersType, SumPositive DEF TypeInv, ControlTyped, BlockOpen, Reported

\* The right-hand side of the rule to reduce is on top of the stack.
LEMMA RightSideIsThere ==
    ASSUME DriverInv, Deciding("reduce")
    PROVE  LET rule == Decision.state
               base == Len(values) - LrLength(P, rule)
           IN  SubSeq(values, base + 1, Len(values)) = LrRhs(P, rule)
<1> DEFINE rule == Decision.state
           rhs == LrRhs(P, rule)
           length == Len(rhs)
           base == Len(values) - length
           n == Len(states)
           item == <<rule + 1, length>>
<1>1. Coherent(P) /\ WellFormed(P) /\ values \in Seq(STRING) /\ Len(values) \in Nat /\ n = Len(values) + 1
  BY TypeGives, TablesCohere DEF DriverInv, TypeOK
<1>2. rule \in Nat /\ rule + 1 \in DOMAIN P.productions /\ item \in P.items[Top] /\ length \in Nat
  BY ReduceFacts DEF DriverInv, LrLength
<1>3. base \in 0..Len(values)
  BY ReducePossible DEF DriverInv, LrLength
<1>4. rhs \in Seq(STRING)
  BY <1>1, <1>2 DEF WellFormed, LrRhs
<1>5. n \in DOMAIN states /\ Top = states[n]
  <2> DEFINE S == DOMAIN P.items
  <2>1. states \in Seq(S)
    BY TypeGives DEF DriverInv, TypeOK
  <2> HIDE DEF S
  <2> QED BY <1>1, <2>1 DEF Top
<1>6. \A j \in 1..length : values[n - 1 - length + j] = rhs[j]
  <2> HIDE DEF length, n
  <2>1. item[1] = rule + 1 /\ item[2] = length
    OBVIOUS
  <2>2. \A j \in 1..item[2] : values[n - 1 - item[2] + j] = P.productions[item[1]].rhs[j]
    BY <1>2, <1>5 DEF DriverInv, StackInv, Spelt
  <2> QED BY <2>1, <2>2 DEF LrRhs
<1> DEFINE top == SubSeq(values, base + 1, Len(values))
<1>7. top \in Seq(STRING) /\ Len(top) = length /\ \A j \in 1..length : top[j] = values[base + j]
  <2> HIDE DEF rhs, length
  <2> QED BY <1>1, <1>2, <1>3
<1>8. \A j \in 1..length : top[j] = rhs[j]
  <2> HIDE DEF top, rhs, length, n
  <2>1. \A j \in 1..length : n - 1 - length + j = base + j
    BY <1>1, <1>2
  <2> QED BY <2>1, <1>6, <1>7
<1> HIDE DEF top, rhs
<1>9. top = rhs
  BY <1>4, <1>7, <1>8
<1> QED BY <1>9 DEF top, rhs, LrLength

\* Where the tables accept, the start symbol alone has been recognised.
LEMMA AcceptedForm ==
    ASSUME DriverInv, Deciding("accept"), Len(values) = 1
    PROVE  values = <<"main">>
<1> DEFINE w == Window(P, input, at)
           n == Len(states)
           item == <<0, 1>>
<1>1. Coherent(P) /\ values \in Seq(STRING) /\ n = 2
  <2>1. Coherent(P)
    BY TypeGives, TablesCohere DEF DriverInv
  <2>2. values \in Seq(STRING) /\ n = Len(values) + 1
    BY DEF DriverInv, TypeInv, StacksTyped
  <2> HIDE DEF n
  <2> QED BY <2>1, <2>2
<1>2. item \in P.items[Top]
  <2>1. LrAction(P, Top, w).type = "accept"
    BY DEF Deciding, Decision
  <2> QED BY <2>1, <1>1, AcceptIsAtTheEnd
<1>3. n \in DOMAIN states /\ Top = states[n]
  <2> DEFINE S == DOMAIN P.items
  <2>1. states \in Seq(S)
    BY TypeGives DEF DriverInv, TypeOK
  <2> HIDE DEF S
  <2> QED BY <1>1, <2>1 DEF Top
<1>4. item[1] = 0 /\ item[2] = 1
  OBVIOUS
<1>5. \A j \in 1..item[2] : values[n - 1 - item[2] + j] = P.productions[item[1]].rhs[j]
  BY <1>2, <1>3 DEF DriverInv, StackInv, Spelt
<1>6. values[1] = P.productions[0].rhs[1]
  <2> HIDE DEF item, n
  <2>1. 1 \in 1..item[2] /\ n - 1 - item[2] + 1 = 1
    BY <1>1, <1>4
  <2>2. values[n - 1 - item[2] + 1] = P.productions[item[1]].rhs[1]
    BY <2>1, <1>5
  <2> QED BY <2>1, <2>2, <1>4
<1>7. P.productions[0].rhs = <<"main">>
  BY StartAssumption DEF DriverInv, TypeInv, Kept, P
<1> QED BY <1>1, <1>6, <1>7

LEMMA AppendedPrefix ==
    ASSUME NEW S, NEW s \in Seq(S), NEW e \in S, NEW t, t = Append(s, e)
    PROVE  Len(t) = Len(s) + 1 /\ SubSeq(t, 1, Len(s)) = s
OBVIOUS

LEMMA FinishLeaves ==
    ASSUME DriverInv, FinishFailBlock
    PROVE  phase' # "fail block"
BY DEF FinishFailBlock, InsertMissing, Fail

\* A diagnostic is a report, whatever the hook does then.
LEMMA ErrorReports ==
    ASSUME DriverInv, Unexpected \/ DeleteToken \/ EnterFailBlock
    PROVE  Reported' > 0
<1>1. diagnostics' = diagnostics + 1 /\ host' = host
  BY DEF Unexpected, DeleteToken, EnterFailBlock
<1>2. diagnostics \in Nat /\ host.reported \in Nat
  BY ReportedIsNatural DEF DriverInv
<1>3. diagnostics + 1 \in Nat /\ diagnostics + 1 > 0
  BY <1>2
<1>4. diagnostics + 1 + host.reported > 0
  BY <1>2, <1>3, SumPositive
<1> QED BY <1>1, <1>4 DEF Reported

\* A block runs after the report that opened it, and leaves one behind.
LEMMA BlockReports ==
    ASSUME DriverInv, CtxCall \/ FinishFailBlock
    PROVE  Reported > 0 /\ Reported' > 0
<1>1. phase = "fail block"
  BY DEF CtxCall, CtxError, CtxSkip, CtxTake, CtxRequest, InBlock, FinishFailBlock
<1>2. diagnostics \in Nat /\ diagnostics > 0 /\ Reported > 0
  BY <1>1, ReportedIsNatural DEF DriverInv
<1>3. CASE CtxCall
  <2>1. host'.reported \in Nat
    BY <1>3, CallType, CountersType DEF DriverInv, TypeInv, ContextTyped
  <2>2. diagnostics' = diagnostics
    BY <1>3 DEF CtxCall, CtxError, CtxSkip, CtxTake, CtxRequest, BlockUnchanged
  <2>3. diagnostics' \in Nat /\ diagnostics' > 0
    BY <1>2, <2>2
  <2> QED BY <1>2, <2>1, <2>3, SumPositive DEF Reported
<1>4. CASE FinishFailBlock
  <2>1. phase' # "fail block"
    BY <1>4, FinishLeaves DEF DriverInv
  <2> QED BY <1>1, <1>2, <1>4, <2>1, LeavingReports DEF DriverInv, Next, Driver
<1> QED BY <1>3, <1>4

-----------------------------------------------------------------------------
(* The steps of the driver as steps of the recogniser. *)

Simulated == Recogniser!BNext \/ UNCHANGED Recogniser!bvars

\* What the recogniser sees unchanged.
LEMMA Stutters ==
    ASSUME UNCHANGED <<parser, input, at, values, phase>>, (Reported > 0)' = (Reported > 0)
    PROVE  Simulated
BY DEF Simulated, Recogniser!bvars

LEMMA GivesUp ==
    ASSUME UNCHANGED <<parser, input, at, values>>, (Reported > 0)' = (Reported > 0),
           phase \in {"decide", "fail block"}, phase' = "failed"
    PROVE  Simulated
BY DEF Simulated, Recogniser!BNext, Recogniser!GiveUp, Recogniser!Running

LEMMA SpaceSimulated ==
    ASSUME DriverInv, SkipSpace
    PROVE  Simulated
<1>1. at < Len(input) /\ input[at + 1] = Whitespace /\ phase = "decide"
  BY DEF SkipSpace, AtSpace, LrIsSpace
<1>2. at' = at + 1 /\ UNCHANGED <<parser, input, values, phase, diagnostics, host>>
  BY DEF SkipSpace, source, stack
<1>3. Recogniser!PassBlank
  BY <1>1, <1>2 DEF Recogniser!PassBlank, Recogniser!Running, Reported
<1> QED BY <1>3 DEF Simulated, Recogniser!BNext

LEMMA ShiftSimulated ==
    ASSUME DriverInv, ShiftToken
    PROVE  Simulated
<1>1. phase = "decide" /\ UNCHANGED <<parser, input, diagnostics, host>>
  BY DEF ShiftToken, Deciding, source
<1>2. CASE at = Len(input)
  BY <1>1, <1>2, GivesUp DEF ShiftToken, Fail, stack, Reported
<1>3. CASE at # Len(input)
  <2>1. at < Len(input)
    BY <1>3, TypeGives DEF DriverInv
  <2>2. at' = at + 1 /\ values' = Append(values, input[at + 1]) /\ phase' = phase
    BY <1>3 DEF ShiftToken, Push
  <2>3. Recogniser!Take
    BY <1>1, <2>1, <2>2 DEF Recogniser!Take, Recogniser!Running, Reported
  <2> QED BY <2>3 DEF Simulated, Recogniser!BNext
<1> QED BY <1>2, <1>3

LEMMA ReduceSimulated ==
    ASSUME DriverInv, ReduceRule
    PROVE  Simulated
<1> DEFINE rule == Decision.state
           base == Len(values) - LrLength(P, rule)
           children == SubSeq(spans, base + 1, Len(spans))
           target == <<states[base + 1], LrLhs(P, rule)>>
<1>1. Deciding("reduce") /\ phase = "decide" /\ UNCHANGED <<parser, input, at, diagnostics, host>>
  BY DEF ReduceRule, Deciding, source
<1>2. base \in 0..Len(values) /\ rule \in Nat /\ rule + 1 \in DOMAIN P.productions
  BY <1>1, ReducePossible, ReduceFacts DEF DriverInv
<1>3. ReduceTo(rule, base)
  <2>1. ~(base < 0)
    BY <1>2
  <2> QED BY <2>1 DEF ReduceRule
<1>4. CASE SpaceViolation(P, rule, children) \/ target \notin DOMAIN P.goto
  <2>1. UNCHANGED stack /\ phase' = "failed"
    BY <1>3, <1>4 DEF ReduceTo, Fail
  <2> QED BY <1>1, <2>1, GivesUp DEF stack, Reported
<1>5. CASE ~SpaceViolation(P, rule, children) /\ target \in DOMAIN P.goto
  <2>1. values' = Append(SubSeq(values, 1, base), LrLhs(P, rule)) /\ phase' = phase
    BY <1>3, <1>5 DEF ReduceTo
  <2>2. SubSeq(values, base + 1, Len(values)) = LrRhs(P, rule)
    BY <1>1, RightSideIsThere
  <2> DEFINE id == rule + 1
             production == Parsers[parser].productions[id]
  <2>3. Parsers[parser] = P /\ parser \in DOMAIN Parsers
    BY DEF DriverInv, TypeInv, Kept, P
  <2>4. production.rhs = LrRhs(P, rule) /\ production.lhs = LrLhs(P, rule) /\ LrLength(P, rule) = Len(production.rhs)
    BY <2>3 DEF LrRhs, LrLhs, LrLength
  <2>5. id \in DOMAIN Parsers[parser].productions \ {0}
    BY <1>2, <2>3
  <2> HIDE DEF rule, production
  <2>6. base = Len(values) - Len(production.rhs) /\ base >= 0
    BY <2>4, <1>2
  <2> HIDE DEF base, id
  <2>7. /\ base >= 0
        /\ SubSeq(values, base + 1, Len(values)) = production.rhs
        /\ values' = Append(SubSeq(values, 1, base), production.lhs)
    BY <2>1, <2>2, <2>4, <2>6
  <2>8. Recogniser!Rewrite
    BY <1>1, <2>1, <2>3, <2>5, <2>6, <2>7 DEF Recogniser!Rewrite, Recogniser!Running, Reported, production
  <2> QED BY <2>8 DEF Simulated, Recogniser!BNext
<1> QED BY <1>4, <1>5

LEMMA AcceptSimulated ==
    ASSUME DriverInv, AcceptInput
    PROVE  Simulated
<1>1. Deciding("accept") /\ phase = "decide" /\ UNCHANGED <<parser, input, at, values, diagnostics, host>>
  BY DEF AcceptInput, Deciding, source, stack
<1>2. CASE phase' = "failed"
  BY <1>1, <1>2, GivesUp DEF Reported
<1>3. CASE phase' # "failed"
  <2>1. Len(values) = 1 /\ at = Len(input) /\ phase' = "accepted"
    BY <1>3 DEF AcceptInput, Fail
  <2>2. values = <<"main">>
    BY <1>1, <2>1, AcceptedForm
  <2>3. Recogniser!Accept
    BY <1>1, <2>1, <2>2 DEF Recogniser!Accept, Recogniser!Running, Reported
  <2> QED BY <2>3 DEF Simulated, Recogniser!BNext
<1> QED BY <1>2, <1>3

LEMMA ErrorSimulated ==
    ASSUME DriverInv, Unexpected \/ DeleteToken \/ EnterFailBlock
    PROVE  Simulated
<1>1. /\ phase = "decide" /\ diagnostics' = diagnostics + 1
      /\ UNCHANGED <<parser, input, values, host>>
      /\ at' = at \/ (at' = at + 1 /\ at < Len(input))
      /\ phase' \in {"decide", "fail block", "failed"}
  BY DEF Unexpected, DeleteToken, EnterFailBlock, Deciding, source, stack, Fail
<1>2. at' \in {at, at + 1} /\ at' <= Len(input)
  <2>1. at \in Nat /\ Len(input) \in Nat /\ at <= Len(input)
    BY TypeGives DEF DriverInv
  <2>2. CASE at' = at
    BY <2>1, <2>2
  <2>3. CASE at' = at + 1 /\ at < Len(input)
    BY <2>1, <2>3
  <2> QED BY <2>2, <2>3, <1>1
<1>3. Reported' > 0
  BY ErrorReports
<1>4. Recogniser!Report
  BY <1>1, <1>2, <1>3 DEF Recogniser!Report, Recogniser!Running
<1> QED BY <1>4 DEF Simulated, Recogniser!BNext

\* A block drops tokens after the report that opened it.
LEMMA CallSimulated ==
    ASSUME DriverInv, CtxCall
    PROVE  Simulated
<1>1. /\ phase = "fail block" /\ UNCHANGED <<parser, input, values, phase, diagnostics>>
      /\ at' = at \/ (at' = at + 1 /\ at < Len(input))
  BY DEF CtxCall, CtxError, CtxSkip, CtxTake, CtxRequest, InBlock, BlockUnchanged, source, stack
<1>3. Reported > 0 /\ Reported' > 0
  BY BlockReports
<1>4. CASE at' = at
  BY <1>1, <1>3, <1>4, Stutters
<1>5. CASE at' = at + 1 /\ at < Len(input)
  <2>1. Recogniser!Drop
    BY <1>1, <1>3, <1>5 DEF Recogniser!Drop, Recogniser!Running
  <2> QED BY <2>1 DEF Simulated, Recogniser!BNext
<1> QED BY <1>1, <1>4, <1>5

\* Leaving a block supplies a token or gives up, the report made before it.
LEMMA FinishSimulated ==
    ASSUME DriverInv, FinishFailBlock
    PROVE  Simulated
<1>1. phase = "fail block" /\ UNCHANGED <<parser, input, at>>
  BY DEF FinishFailBlock, source
<1>2. Reported > 0 /\ Reported' > 0
  BY BlockReports
<1>3. CASE UNCHANGED values /\ phase' = "failed"
  BY <1>1, <1>2, <1>3, GivesUp
<1>4. CASE ~(UNCHANGED values /\ phase' = "failed")
  <2> DEFINE expected == P.failSites[Top]
  <2>1. InsertMissing
    BY <1>4 DEF FinishFailBlock, Fail, stack
  <2>2. values' = Append(values, expected.symbol) /\ phase' = "decide"
    BY <1>4, <2>1 DEF InsertMissing, Push, Fail, stack
  <2>3. values \in Seq(STRING) /\ expected.symbol \in STRING
    BY <1>1, TypeGives, TablesCohere DEF DriverInv, SiteInv, TypeOK, WellFormed
  <2> HIDE DEF expected
  <2>4. Len(values') = Len(values) + 1 /\ SubSeq(values', 1, Len(values)) = values
    BY <2>2, <2>3, AppendedPrefix
  <2>5. Recogniser!Supply
    BY <1>1, <1>2, <2>2, <2>4 DEF Recogniser!Supply, Recogniser!Running
  <2> QED BY <2>5 DEF Simulated, Recogniser!BNext
<1> QED BY <1>3, <1>4

-----------------------------------------------------------------------------
LEMMA InitSimulated == Init => Recogniser!BInit
<1> SUFFICES ASSUME Init PROVE Recogniser!BInit
  OBVIOUS
<1>1. parser \in DOMAIN Parsers /\ input \in Inputs[parser] /\ at = 0 /\ values = <<>> /\ phase = "decide"
  BY DEF Init
<1>2. ~(Reported > 0)
  <2>1. diagnostics = 0 /\ host.reported = 0
    BY DEF Init, Unspent
  <2> QED BY <2>1 DEF Reported
<1> QED BY <1>1, <1>2 DEF Recogniser!BInit

LEMMA StepSimulated == DriverInv /\ [Next]_vars => [Recogniser!BNext]_(Recogniser!bvars)
<1> SUFFICES ASSUME DriverInv, [Next]_vars PROVE Simulated
  BY DEF Simulated
<1>1. CASE SkipSpace
  BY <1>1, SpaceSimulated
<1>2. CASE ShiftToken
  BY <1>2, ShiftSimulated
<1>3. CASE ReduceRule
  BY <1>3, ReduceSimulated
<1>4. CASE AcceptInput
  BY <1>4, AcceptSimulated
<1>5. CASE Unexpected \/ DeleteToken \/ EnterFailBlock
  BY <1>5, ErrorSimulated
<1>6. CASE FinishFailBlock
  BY <1>6, FinishSimulated
<1>7. CASE CtxCall
  BY <1>7, CallSimulated
<1>8. CASE UNCHANGED vars
  BY <1>8, Stutters DEF vars, source, stack, Reported
<1> QED BY <1>1, <1>2, <1>3, <1>4, <1>5, <1>6, <1>7, <1>8 DEF Next, Driver, Done

\* Every run of the driver, on any coherent tables, with any recovery and
\* budget, is bottom-up recognition: an accepted parse is a derivation read
\* backwards, and it left the input only after a report.
THEOREM ImplementsBottomUp == Spec => RefinesBottomUp
<1>1. Spec => [](TypeInv /\ SiteInv /\ StackInv)
  BY StackAlways
<1>2. TypeInv /\ SiteInv /\ StackInv /\ [Next]_vars => [Recogniser!BNext]_(Recogniser!bvars)
  BY StepSimulated DEF DriverInv
<1> QED BY <1>1, <1>2, InitSimulated, PTL DEF Spec, RefinesBottomUp, Recogniser!BSpec
-----------------------------------------------------------------------------
(* What an unreported parse has read. *)

\* As long as nothing was reported the region has one cursor, and its stacks
\* have read the input up to there, whitespace where the grammar has it.
Readable ==
    /\ cursor = at /\ ~recoveredPrefix
    /\ ReadTo(P, input, values, spans, at)
    /\ phase = "accepted" => IsSentence(P, input)

ReadInv == Reported = 0 => Readable

LEMMA ReadInit == Init => ReadInv
<1> SUFFICES ASSUME Init PROVE Readable
  BY DEF ReadInv
<1>1. at = 0 /\ cursor = 0 /\ ~recoveredPrefix /\ values = <<>> /\ spans = <<>> /\ phase = "decide"
  BY DEF Init
<1>2. input \in Seq(STRING)
  BY InputsAssumption DEF Init
<1> QED BY <1>1, <1>2, NothingIsRead DEF Readable

\* Where nothing of it changes but the phase.
LEMMA ReadStays ==
    ASSUME Readable, UNCHANGED <<source, at, cursor, recoveredPrefix, values, spans>>,
           phase' = phase \/ phase' # "accepted"
    PROVE  Readable'
BY DEF Readable, source, P

LEMMA SpaceRead ==
    ASSUME DriverInv, Readable, SkipSpace
    PROVE  Readable'
<1>1. at \in Nat /\ at < Len(input) /\ LrIsSpace(P, input[at + 1]) /\ input \in Seq(STRING)
  BY TypeGives, TablesCohere DEF DriverInv, SkipSpace, AtSpace
<1>2. at' = at + 1 /\ cursor' = cursor + 1 /\ phase' = "decide"
      /\ UNCHANGED <<recoveredPrefix, values, spans, input, P>>
  BY DEF SkipSpace, source, stack, P
<1>3. ReadTo(P, input, values, spans, at + 1)
  BY <1>1, ReadOverBlank DEF Readable
<1> QED BY <1>2, <1>3 DEF Readable

LEMMA ShiftRead ==
    ASSUME DriverInv, Readable, ShiftToken
    PROVE  Readable'
<1>1. phase = "decide" /\ UNCHANGED <<source, recoveredPrefix, input, P>>
  BY DEF ShiftToken, Deciding, source, P
<1>2. CASE at = Len(input)
  BY <1>1, <1>2, ReadStays DEF ShiftToken, Fail, stack
<1>3. CASE at # Len(input)
  <2>1. at \in Nat /\ at < Len(input) /\ input \in Seq(STRING) /\ cursor = at
    BY <1>3, TypeGives, TablesCohere DEF DriverInv, Readable
  <2>2. /\ at' = at + 1 /\ cursor' = cursor + 1 /\ phase' = phase
        /\ values' = Append(values, input[at + 1]) /\ spans' = Append(spans, TokenSpan(cursor))
    BY <1>3 DEF ShiftToken, Push
  <2>3. ReadTo(P, input, Append(values, input[at + 1]), Append(spans, TokenSpan(at)), at + 1)
    BY <2>1, ReadAToken DEF Readable
  <2> QED BY <1>1, <2>1, <2>2, <2>3 DEF Readable
<1> QED BY <1>2, <1>3

LEMMA ReduceRead ==
    ASSUME DriverInv, Readable, ReduceRule
    PROVE  Readable'
<1> DEFINE rule == Decision.state
           base == Len(values) - LrLength(P, rule)
           children == SubSeq(spans, base + 1, Len(spans))
           target == <<states[base + 1], LrLhs(P, rule)>>
           span == ReducedSpan(P, rule, children, cursor)
<1>1. /\ Deciding("reduce") /\ phase = "decide"
      /\ UNCHANGED <<source, at, cursor, recoveredPrefix, input, P>>
  BY DEF ReduceRule, Deciding, source, P
<1>2. /\ base \in 0..Len(values) /\ rule \in Nat /\ rule + 1 \in DOMAIN P.productions
      /\ LrLhs(P, rule) \in STRING
  BY <1>1, ReducePossible, ReduceFacts DEF DriverInv
<1>3. ReduceTo(rule, base)
  <2>1. ~(base < 0)
    BY <1>2
  <2> QED BY <2>1 DEF ReduceRule
<1>4. CASE SpaceViolation(P, rule, children) \/ target \notin DOMAIN P.goto
  <2>1. UNCHANGED stack /\ phase' = "failed"
    BY <1>3, <1>4 DEF ReduceTo, Fail
  <2> QED BY <1>1, <2>1, ReadStays DEF stack
<1>5. CASE ~SpaceViolation(P, rule, children) /\ target \in DOMAIN P.goto
  <2>1. /\ values' = Append(SubSeq(values, 1, base), LrLhs(P, rule))
        /\ spans' = Append(SubSeq(spans, 1, base), span) /\ phase' = phase
    BY <1>3, <1>5 DEF ReduceTo
  <2>2. SubSeq(values, base + 1, Len(values)) = LrRhs(P, rule)
    BY <1>1, RightSideIsThere
  <2>3. LrRhs(P, rule) \in Seq(STRING)
    BY <1>2, TypeGives, TablesCohere DEF DriverInv, WellFormed, LrRhs
  <2>4. input \in Seq(STRING) /\ at \in Places(input) /\ cursor = at
    BY TypeGives, TablesCohere DEF DriverInv, TypeOK, Places, Readable
  <2>5. Len(spans) = Len(values) /\ base \in 0..Len(spans)
    BY <1>2 DEF DriverInv, TypeInv, StacksTyped
  <2>6. ReadTo(P, input, values, spans, at)
    BY DEF Readable
  <2>7. ~SpaceViolation(P, rule, children)
    BY <1>5
  <2> HIDE DEF rule, base
  <2>8. ReadTo(P, input, Append(SubSeq(values, 1, base), LrLhs(P, rule)),
               Append(SubSeq(spans, 1, base), ReducedSpan(P, rule, children, at)), at)
    BY <1>2, <2>2, <2>3, <2>4, <2>5, <2>6, <2>7, ReadARule
  <2> QED BY <1>1, <2>1, <2>4, <2>8 DEF Readable
<1> QED BY <1>4, <1>5

LEMMA AcceptRead ==
    ASSUME DriverInv, Readable, AcceptInput
    PROVE  Readable'
<1>1. /\ Deciding("accept") /\ phase = "decide"
      /\ UNCHANGED <<source, at, cursor, recoveredPrefix, values, spans, input, P>>
  BY DEF AcceptInput, Deciding, source, stack, P
<1>2. CASE phase' = "failed"
  BY <1>1, <1>2, ReadStays
<1>3. CASE phase' # "failed"
  <2>1. Len(values) = 1 /\ at = Len(input) /\ phase' = "accepted" /\ ~BoundaryViolation(spans[1])
    BY <1>3 DEF AcceptInput, Fail
  <2>2. values = <<"main">>
    BY <1>1, <2>1, AcceptedForm
  <2>3. input \in Seq(STRING) /\ cursor = Len(input) /\ ~recoveredPrefix
    BY <2>1, TypeGives, TablesCohere DEF DriverInv, Readable
  <2>4. ReadTo(P, input, <<"main">>, spans, Len(input))
    BY <2>1, <2>2 DEF Readable
  <2>5. /\ spans[1].begin # 0 => spans[1].leading
        /\ Len(input) > spans[1].end => spans[1].trailing
    BY <2>1, <2>3 DEF BoundaryViolation
  <2>6. IsSentence(P, input)
    BY <2>3, <2>4, <2>5, ReadToTheEnd
  <2> QED BY <1>1, <2>6 DEF Readable
<1> QED BY <1>2, <1>3

LEMMA ReadStep == DriverInv /\ ReadInv /\ [Next]_vars => ReadInv'
<1> SUFFICES ASSUME DriverInv, ReadInv, [Next]_vars, Reported' = 0 PROVE Readable'
  BY DEF ReadInv
<1> DEFINE Quiet == SkipSpace \/ ShiftToken \/ ReduceRule \/ AcceptInput
<1>1. CASE Quiet
  <2>1. Reported' = Reported
    BY <1>1 DEF SkipSpace, ShiftToken, ReduceRule, AcceptInput, Reported
  <2>2. Readable
    BY <2>1 DEF ReadInv
  <2> QED BY <1>1, <2>2, SpaceRead, ShiftRead, ReduceRead, AcceptRead
<1>2. CASE UNCHANGED vars
  <2>1. UNCHANGED <<source, at, cursor, recoveredPrefix, values, spans, phase, Reported>>
    BY <1>2 DEF vars, stack, Reported
  <2>2. Readable
    BY <2>1 DEF ReadInv
  <2> QED BY <2>1, <2>2, ReadStays
<1>3. CASE Unexpected \/ DeleteToken \/ EnterFailBlock
  BY <1>3, ErrorReports
<1>4. CASE CtxCall \/ FinishFailBlock
  BY <1>4, BlockReports
<1> QED BY <1>1, <1>2, <1>3, <1>4 DEF Next, Driver, Done

\* An input lr_parse accepts without a report is derived from the start symbol
\* by the productions the tables were made of, with whitespace only in the gaps
\* they have: for any coherent tables, whatever recovery and budgets.  The
\* spans, which are all the driver knows of the gaps, lose nothing that matters.
THEOREM UnreportedParsesAreReadings == Spec => [](phase = "accepted" /\ Reported = 0 => IsSentence(P, input))
<1>1. Spec => [](TypeInv /\ SiteInv /\ StackInv)
  BY StackAlways
<1>2. DriverInv <=> TypeInv /\ SiteInv /\ StackInv
  BY DEF DriverInv
<1>3. ReadInv => (phase = "accepted" /\ Reported = 0 => IsSentence(P, input))
  BY DEF ReadInv, Readable
<1> QED BY <1>1, <1>2, <1>3, ReadInit, ReadStep, PTL DEF Spec
\* The run's form of it: an input accepted without a report is among the words
\* of the start symbol, in any Language that leaves out nothing the productions
\* derive.
THEOREM UnreportedParsesAreSentences == Spec => []UnreportedIsASentence
<1>1. ASSUME TypeInv, ReadInv PROVE UnreportedIsASentence
  <2> SUFFICES ASSUME phase = "accepted", Reported = 0 PROVE input \in Language[parser]["main"]
    BY DEF UnreportedIsASentence
  <2>1. parser \in DOMAIN Parsers /\ P = Parsers[parser] /\ input \in Inputs[parser]
    BY <1>1 DEF TypeInv, Kept, P
  <2>2. WellFormed(P) /\ input \in Seq(STRING) /\ IsSentence(P, input)
    BY <1>1, TypeGives, TablesCohere DEF ReadInv, Readable
  <2> DEFINE words == Language[parser]
  <2>3. /\ Longest \in Nat /\ Len(input) <= Longest
        /\ \A i \in DOMAIN input : <<input[i]>> \in words[input[i]]
        /\ WordsClosed(P, words, Longest)
    BY <2>1, LanguageAssumption
  <2> HIDE DEF words
  <2>4. input \in words["main"]
    BY <2>2, <2>3, WordsHoldSentences
  <2> QED BY <2>4 DEF words
<1>2. Spec => [](TypeInv /\ SiteInv /\ StackInv)
  BY StackAlways
<1>3. DriverInv <=> TypeInv /\ SiteInv /\ StackInv
  BY DEF DriverInv
<1> QED BY <1>1, <1>2, <1>3, ReadInit, ReadStep, PTL DEF Spec

-----------------------------------------------------------------------------
(* A sentence goes through: the driver is where the runs of LRGeneratedProofs *)
(* are, and whatever it does next is what they do.                            *)

Here == [states |-> states, spans |-> spans, at |-> at]

\* Tables without conflicts offer the action the driver takes.
LEMMA OnlyAction ==
    ASSUME NEW p, Coherent(p), p.open = {}, NEW s, NEW w, NEW a \in Offered(p, s, w)
    PROVE  a = LrAction(p, s, w)
<1>1. LrAction(p, s, w).type # "conflict"
  <2> DEFINE entries == {c \in p.entries : Covers(c, s, w)}
             decisions == {c \in p.decisions : Covers(c, s, w)}
  <2>1. \A cell \in entries \cup decisions : cell.action.type # "conflict"
    BY DEF Coherent, SoundCell
  <2>2. LrAction(p, s, w) = IF entries # {} THEN (CHOOSE c \in entries : TRUE).action
                            ELSE IF decisions # {} THEN (CHOOSE c \in decisions : TRUE).action
                            ELSE Invalid
    BY DEF LrAction
  <2> HIDE DEF entries, decisions
  <2>3. CASE entries # {}
    <3>1. (CHOOSE c \in entries : TRUE) \in entries
      BY <2>3
    <3> QED BY <2>1, <2>2, <2>3, <3>1
  <2>4. CASE entries = {} /\ decisions # {}
    <3>1. (CHOOSE c \in decisions : TRUE) \in decisions
      BY <2>4
    <3> QED BY <2>1, <2>2, <2>4, <3>1
  <2>5. CASE entries = {} /\ decisions = {}
    BY <2>2, <2>5 DEF Invalid
  <2> QED BY <2>3, <2>4, <2>5
<1> QED BY <1>1 DEF Offered

\* What the runs may take, the driver decides on.
LEMMA TakenIsDecided ==
    ASSUME DriverInv, phase = "decide", P.open = {}, NEW type, NEW state,
           MayTake(P, input, Here, type, state)
    PROVE  Deciding(type) /\ Decision.state = state
<1>1. Coherent(P) /\ P.k \in Nat \ {0} /\ input \in Seq(STRING) /\ at \in Places(input)
  <2>1. Coherent(P) /\ WellFormed(P) /\ input \in Seq(STRING)
    BY TypeGives, TablesCohere DEF DriverInv
  <2>2. at \in Places(input)
    BY DEF DriverInv, TypeInv, PositionsTyped, Places
  <2> QED BY <2>1, <2>2 DEF WellFormed
<1>2. Here.states = states /\ Here.at = at
  BY DEF Here
<1>3. Uppermost(Here) = Top
  BY <1>2 DEF Uppermost, Top
<1>4. ~AtSpace
  BY <1>2 DEF MayTake, BeforeBlank, AtSpace
<1>5. Window(P, input, at) = Win(P, input, at)
  BY <1>1, <1>4, WindowThere DEF AtSpace
<1>6. [type |-> type, state |-> state] \in Offered(P, Top, Window(P, input, at))
  BY <1>2, <1>3, <1>5 DEF MayTake
<1>7. [type |-> type, state |-> state] = Decision
  BY <1>1, <1>6, OnlyAction DEF Decision
<1>8. Decision.type = type /\ Decision.state = state
  BY <1>7
<1> QED BY <1>4, <1>8 DEF Deciding

\* A turn of the driver is the one its decision calls for.
LEMMA TurnAtSpace ==
    ASSUME [Next]_vars, phase = "decide", AtSpace
    PROVE  SkipSpace \/ UNCHANGED vars
BY DEF Next, Driver, Done, CtxCall, CtxError, CtxSkip, CtxTake, CtxRequest, InBlock, ShiftToken, ReduceRule,
       AcceptInput, Unexpected, DeleteToken, EnterFailBlock, FinishFailBlock, Deciding

LEMMA TurnDecided ==
    ASSUME [Next]_vars, NEW type, Deciding(type)
    PROVE  /\ type = "shift" => ShiftToken \/ UNCHANGED vars
           /\ type = "reduce" => ReduceRule \/ UNCHANGED vars
           /\ type = "accept" => AcceptInput \/ UNCHANGED vars
BY DEF Next, Driver, Done, CtxCall, CtxError, CtxSkip, CtxTake, CtxRequest, InBlock, ShiftToken, ReduceRule, SkipSpace,
       AcceptInput, Unexpected, DeleteToken, EnterFailBlock, FinishFailBlock, Deciding

\* A driver from which a final configuration can be reached.
OnItsWay == phase = "decide" /\ Accepting(P, input, Here)
Unrefused == phase = "accepted" \/ OnItsWay

LEMMA WayStays ==
    ASSUME Unrefused, UNCHANGED vars
    PROVE  Unrefused'
BY DEF Unrefused, OnItsWay, Here, vars, stack, source, P

LEMMA BlankOnwards ==
    ASSUME [Next]_vars, phase = "decide", OnItsWay, NEW e, PassesBlank(P, input, Here, e), Accepting(P, input, e)
    PROVE  Unrefused'
<1>1. Here.at = at /\ Here.states = states /\ Here.spans = spans
  BY DEF Here
<1>2. AtSpace /\ e = [states |-> states, spans |-> spans, at |-> at + 1]
  BY <1>1 DEF PassesBlank, BeforeBlank, AtSpace, MovedTo
<1>3. CASE UNCHANGED vars
  BY <1>3, WayStays DEF Unrefused
<1>4. CASE SkipSpace
  <2>1. /\ at' = at + 1 /\ states' = states /\ spans' = spans /\ phase' = "decide"
        /\ P' = P /\ input' = input
    BY <1>4 DEF SkipSpace, stack, source, P
  <2>2. Here' = e
    BY <1>2, <2>1 DEF Here
  <2> QED BY <2>1, <2>2 DEF Unrefused, OnItsWay
<1> QED BY <1>2, <1>3, <1>4, TurnAtSpace

LEMMA ShiftOnwards ==
    ASSUME DriverInv, Readable, P.open = {}, [Next]_vars, OnItsWay,
           NEW e, Shifts(P, input, Here, e), Accepting(P, input, e)
    PROVE  Unrefused'
<1>1. Here.at = at /\ Here.states = states /\ Here.spans = spans /\ phase = "decide" /\ cursor = at
  BY DEF Here, OnItsWay, Readable
<1>2. PICK state : /\ MayTake(P, input, Here, "shift", state) /\ at < Len(input)
                   /\ e = PushedOn(Here, state, TokenSpan(at), at + 1)
  BY <1>1 DEF Shifts
<1>3. Deciding("shift") /\ Decision.state = state
  BY <1>1, <1>2, TakenIsDecided
<1>4. CASE UNCHANGED vars
  BY <1>4, WayStays DEF Unrefused
<1>5. CASE ShiftToken
  <2>1. at # Len(input)
    BY <1>2, TypeGives DEF DriverInv
  <2>2. /\ states' = Append(states, state) /\ spans' = Append(spans, TokenSpan(at))
        /\ at' = at + 1 /\ phase' = "decide" /\ P' = P /\ input' = input
    BY <1>1, <1>3, <1>5, <2>1 DEF ShiftToken, Push, source, P
  <2>3. Here' = e
    BY <1>1, <1>2, <2>2 DEF Here, PushedOn
  <2> QED BY <2>2, <2>3 DEF Unrefused, OnItsWay
<1> QED BY <1>3, <1>4, <1>5, TurnDecided

LEMMA ReduceOnwards ==
    ASSUME DriverInv, Readable, P.open = {}, [Next]_vars, OnItsWay,
           NEW e, Reduces(P, input, Here, e), Accepting(P, input, e)
    PROVE  Unrefused'
<1>1. /\ Here.at = at /\ Here.states = states /\ Here.spans = spans /\ phase = "decide" /\ cursor = at
      /\ Len(spans) = Len(values) /\ Len(values) \in Nat
  <2>1. Here.at = at /\ Here.states = states /\ Here.spans = spans /\ phase = "decide" /\ cursor = at
    BY DEF Here, OnItsWay, Readable
  <2>2. Len(spans) = Len(values) /\ Len(values) \in Nat
    BY TypeGives DEF DriverInv, TypeInv, StacksTyped
  <2> QED BY <2>1, <2>2
<1>2. PICK rule : /\ MayTake(P, input, Here, "reduce", rule)
                  /\ CanReduce(P, Here, rule, BaseOf(P, Here, rule))
                  /\ e = ReducedBy(P, Here, rule, BaseOf(P, Here, rule))
  BY DEF Reduces
<1> DEFINE base == Len(values) - LrLength(P, rule)
           children == SubSeq(spans, base + 1, Len(spans))
           target == <<states[base + 1], LrLhs(P, rule)>>
<1>3. Deciding("reduce") /\ Decision.state = rule
  BY <1>1, <1>2, TakenIsDecided
<1>4. BaseOf(P, Here, rule) = base
  BY <1>1 DEF BaseOf
<1>5. base >= 0 /\ ~SpaceViolation(P, rule, children) /\ target \in DOMAIN P.goto
  <2>1. CanReduce(P, Here, rule, base)
    BY <1>2, <1>4
  <2> HIDE DEF base
  <2> QED BY <1>1, <2>1 DEF CanReduce
<1>6. e = [states |-> Append(SubSeq(states, 1, base + 1), P.goto[target]),
           spans |-> Append(SubSeq(spans, 1, base), ReducedSpan(P, rule, children, at)),
           at |-> at]
  <2>1. e = ReducedBy(P, Here, rule, base)
    BY <1>2, <1>4
  <2> HIDE DEF base
  <2> QED BY <1>1, <2>1 DEF ReducedBy
<1>7. CASE UNCHANGED vars
  BY <1>7, WayStays DEF Unrefused
<1>8. CASE ReduceRule
  <2>1. ~(base < 0)
    <3>1. base \in Int
      BY <1>3, ReduceFacts DEF DriverInv
    <3> HIDE DEF base
    <3> QED BY <1>5, <3>1
  <2>2. ReduceTo(rule, base) /\ UNCHANGED <<source, at>>
    BY <1>3, <1>8, <2>1 DEF ReduceRule
  <2>3. /\ states' = Append(SubSeq(states, 1, base + 1), P.goto[target])
        /\ spans' = Append(SubSeq(spans, 1, base), ReducedSpan(P, rule, children, cursor))
        /\ phase' = phase
    BY <1>5, <2>2 DEF ReduceTo
  <2>4. at' = at /\ P' = P /\ input' = input
    BY <2>2 DEF source, P
  <2>5. Here' = e
    <3> HIDE DEF base
    <3> QED BY <1>1, <1>6, <2>3, <2>4 DEF Here
  <2> QED BY <1>1, <2>3, <2>4, <2>5 DEF Unrefused, OnItsWay
<1> QED BY <1>3, <1>7, <1>8, TurnDecided

LEMMA FinalOnwards ==
    ASSUME DriverInv, Readable, P.open = {}, [Next]_vars, OnItsWay, Final(P, input, Here)
    PROVE  Unrefused'
<1>1. Here.at = at /\ Here.states = states /\ Here.spans = spans /\ phase = "decide" /\ cursor = at /\ ~recoveredPrefix
  BY DEF Here, OnItsWay, Readable
<1>2. Deciding("accept")
  BY <1>1, TakenIsDecided DEF Final
<1>3. CASE UNCHANGED vars
  BY <1>3, WayStays DEF Unrefused
<1>4. CASE AcceptInput
  <2>1. Len(values) = 1 /\ at = Len(input)
    BY <1>1 DEF Final, DriverInv, TypeInv, StacksTyped
  <2>2. ~BoundaryViolation(spans[1])
    BY <1>1 DEF Final, BoundaryViolation
  <2>3. phase' = "accepted"
    BY <1>4, <2>1, <2>2 DEF AcceptInput
  <2> QED BY <2>3 DEF Unrefused
<1> QED BY <1>2, <1>3, <1>4, TurnDecided

LEMMA WayGoesOn ==
    ASSUME DriverInv, Readable, P.open = {}, [Next]_vars, OnItsWay
    PROVE  Unrefused' /\ Reported' = Reported
<1>1. Here \in Configs(P, input) /\ Accepting(P, input, Here) /\ phase = "decide"
  BY AcceptingIsThere DEF OnItsWay
<1>2. Final(P, input, Here) \/ \E e : Moves(P, input, Here, e) /\ Accepting(P, input, e)
  BY <1>1, AcceptsOnwards
<1>3. Unrefused'
  BY <1>1, <1>2, FinalOnwards, BlankOnwards, ShiftOnwards, ReduceOnwards DEF Moves
<1>4. SkipSpace \/ ShiftToken \/ ReduceRule \/ AcceptInput \/ UNCHANGED vars
  <2>1. CASE Final(P, input, Here)
    BY <1>1, <2>1, TakenIsDecided, TurnDecided DEF Final
  <2>2. ASSUME NEW e, Moves(P, input, Here, e) PROVE SkipSpace \/ ShiftToken \/ ReduceRule \/ UNCHANGED vars
    <3>1. CASE PassesBlank(P, input, Here, e)
      BY <1>1, <3>1, TurnAtSpace DEF PassesBlank, BeforeBlank, AtSpace, Here
    <3>2. CASE Shifts(P, input, Here, e)
      BY <1>1, <3>2, TakenIsDecided, TurnDecided DEF Shifts
    <3>3. CASE Reduces(P, input, Here, e)
      BY <1>1, <3>3, TakenIsDecided, TurnDecided DEF Reduces
    <3> QED BY <2>2, <3>1, <3>2, <3>3 DEF Moves
  <2> QED BY <1>2, <2>1, <2>2
<1>5. Reported' = Reported
  BY <1>4 DEF SkipSpace, ShiftToken, ReduceRule, AcceptInput, Reported, vars
<1> QED BY <1>3, <1>5

\* The inductive invariant of a driver that has a sentence to read.
SentenceInv == IsSentence(P, input) => Reported = 0 /\ Unrefused

LEMMA SentenceStep ==
    ASSUME DriverInv, ReadInv, SentenceInv, [Next]_vars, P.open = {}
    PROVE  SentenceInv'
<1>1. UNCHANGED vars \/ Next
  OBVIOUS
<1>2. UNCHANGED <<P, input>>
  BY <1>1 DEF vars, Next, Driver, Done, CtxCall, CtxError, CtxSkip, CtxTake, CtxRequest, BlockUnchanged, SkipSpace,
       ShiftToken, ReduceRule, AcceptInput, Unexpected, DeleteToken, EnterFailBlock, FinishFailBlock, source, P
<1> SUFFICES ASSUME IsSentence(P, input) PROVE Reported' = 0 /\ Unrefused'
  BY <1>2 DEF SentenceInv
<1>3. Reported = 0 /\ Unrefused /\ Readable
  BY DEF SentenceInv, ReadInv
<1>4. CASE OnItsWay
  BY <1>3, <1>4, WayGoesOn
<1>5. CASE phase = "accepted"
  <2>1. UNCHANGED vars
    BY <1>1, <1>5 DEF Next, Driver, Done, CtxCall, CtxError, CtxSkip, CtxTake, CtxRequest, InBlock, SkipSpace,
         ShiftToken, ReduceRule, AcceptInput, Unexpected, DeleteToken, EnterFailBlock, FinishFailBlock, Deciding
  <2>2. Reported' = Reported
    BY <2>1 DEF vars, Reported
  <2> QED BY <1>3, <2>1, <2>2, WayStays
<1> QED BY <1>3, <1>4, <1>5 DEF Unrefused

LEMMA SentenceInit ==
    ASSUME NEW aheads, Thorough(aheads), Init
    PROVE  SentenceInv
<1> SUFFICES ASSUME IsSentence(P, input) PROVE Reported = 0 /\ Unrefused
  BY DEF SentenceInv
<1>1. /\ parser \in DOMAIN Parsers /\ P = Parsers[parser] /\ input \in Inputs[parser]
      /\ Here = [states |-> <<0>>, spans |-> <<>>, at |-> 0] /\ phase = "decide"
      /\ diagnostics = 0 /\ host = Unspent
  BY DEF Init, P, Here
<1>2. Complete(P, input, aheads[parser])
  <2>1. Coherent(P) /\ input \in Seq(STRING)
    BY <1>1, TablesAssumption, InputsAssumption
  <2>2. LeavesNothingOut(P, aheads[parser]) /\ \A i \in DOMAIN input : ~IsRule(P, input[i])
    BY <1>1 DEF Thorough
  <2> QED BY <2>1, <2>2 DEF Complete
<1>3. P.productions[0].rhs = <<"main">>
  BY <1>1, StartAssumption
<1>4. Accepting(P, input, Here)
  BY <1>1, <1>2, <1>3, SentencesAccept
<1>5. Reported = 0
  BY <1>1 DEF Reported, Unspent
<1> QED BY <1>1, <1>4, <1>5 DEF Unrefused, OnItsWay

LEMMA SentenceAlways ==
    ASSUME NEW CONSTANT aheads, Thorough(aheads)
    PROVE  Spec => []SentenceInv
<1>1. Spec => [](TypeInv /\ SiteInv /\ StackInv)
  BY StackAlways
<1>2. DriverInv <=> TypeInv /\ SiteInv /\ StackInv
  BY DEF DriverInv
<1>3. DriverInv => P.open = {}
  BY DEF DriverInv, TypeInv, Kept, P, Thorough
<1>4. Init => SentenceInv
  BY SentenceInit
<1>5. DriverInv /\ ReadInv /\ SentenceInv /\ [Next]_vars => SentenceInv'
  BY <1>3, SentenceStep
<1> QED BY <1>1, <1>2, <1>4, <1>5, ReadInit, ReadStep, PTL DEF Spec

\* A sentence is never refused and never reaches a recovery hook: lr_parse
\* accepts every input the productions derive, when the tables have no conflict
\* left and leave nothing out.  The actions a derivation needs are offered, the
\* spans of its members leave room for its whitespace, and nothing else comes
\* between.
THEOREM DerivedInputsGoThrough ==
    ASSUME NEW CONSTANT aheads, Thorough(aheads)
    PROVE  Spec => [](IsSentence(P, input) => phase \in {"decide", "accepted"} /\ Reported = 0)
<1>1. SentenceInv => (IsSentence(P, input) => phase \in {"decide", "accepted"} /\ Reported = 0)
  BY DEF SentenceInv, Unrefused, OnItsWay
<1> QED BY <1>1, SentenceAlways, PTL

\* The run's form of it, where Language has nothing but what the productions
\* derive.
THEOREM SentencesAreAccepted ==
    ASSUME NEW CONSTANT aheads, NEW CONSTANT stages, Thorough(aheads), Grounded(stages)
    PROVE  Spec => []SentencesGoThrough
<1>1. ASSUME TypeInv, SentenceInv PROVE SentencesGoThrough
  <2> SUFFICES ASSUME input \in Language[parser]["main"]
               PROVE  phase \in {"decide", "accepted"} /\ Reported = 0
    BY DEF SentencesGoThrough
  <2>1. parser \in DOMAIN Parsers /\ P = Parsers[parser]
    BY <1>1 DEF TypeInv, Kept, P
  <2>2. WellFormed(P) /\ input \in Seq(STRING)
    BY <1>1, TypeGives, TablesCohere
  <2> DEFINE own == stages[parser]
             last == Len(own)
  <2>3. Staged(P, own, Longest) /\ "main" \in DOMAIN own[1] /\ input \in own[last]["main"]
    BY <2>1 DEF Grounded
  <2>4. last \in DOMAIN own
    <3> HIDE DEF own
    <3> QED BY <2>3 DEF Staged
  <2> HIDE DEF last, own
  <2>5. IsSentence(P, input)
    BY <2>2, <2>3, <2>4, StagesAreDerived
  <2> QED BY <1>1, <2>5 DEF SentenceInv, Unrefused, OnItsWay
<1>2. Spec => [](TypeInv /\ SiteInv /\ StackInv)
  BY StackAlways
<1>3. TypeInv /\ SiteInv /\ StackInv /\ SentenceInv => SentencesGoThrough
  BY <1>1
<1> QED BY <1>2, <1>3, SentenceAlways, PTL

-----------------------------------------------------------------------------
(* What the driver has read without a report begins a sentence.              *)

LEMMA ReadBegins ==
    ASSUME DriverInv, Readable, Plain(P, {input}), Rooted(P)
    PROVE  BeginsSentence(P, Tokens(P, input, 0, at))
<1>1. Reasoned(P, input)
  <2>1. Coherent(P) /\ input \in Seq(STRING)
    BY TypeGives, TablesCohere DEF DriverInv
  <2>2. P.productions[0].rhs = <<"main">>
    BY StartAssumption DEF DriverInv, TypeInv, Kept, P
  <2> QED BY <2>1, <2>2 DEF Reasoned
<1>2. /\ at \in Places(input) /\ ReadTo(P, input, values, spans, at) /\ Len(states) = Len(spans) + 1
  BY DEF DriverInv, TypeInv, StacksTyped, PositionsTyped, Readable, Places
<1>3. /\ states[1] = 0 /\ states \in Seq(DOMAIN P.items) /\ \A i \in 2..Len(states) : states[i] # 0
  BY DEF DriverInv, StackInv, InStep
<1>4. \A i \in 1..Len(states) : states[i] \in DOMAIN P.items
  BY <1>3
<1>5. ASSUME NEW i \in 2..Len(states), NEW item \in P.items[states[i]], item[2] > 0
      PROVE  /\ Rhs(P, item[1])[item[2]] = values[i - 1]
             /\ <<item[1], item[2] - 1>> \in P.items[states[i - 1]]
  <2>1. i \in DOMAIN states /\ i \in Nat
    BY <1>3
  <2>2. item[2] \in Nat
    <3>1. WellFormed(P) /\ states[i] \in DOMAIN P.items
      BY <1>3, TypeGives, TablesCohere DEF DriverInv
    <3> QED BY <3>1 DEF WellFormed
  <2>3. \A j \in 1..item[2] :
           /\ values[i - 1 - item[2] + j] = P.productions[item[1]].rhs[j]
           /\ <<item[1], item[2] - j>> \in P.items[states[i - j]]
    BY <2>1 DEF DriverInv, StackInv, Spelt
  <2>4. 1 \in 1..item[2] /\ item[2] \in 1..item[2] /\ i - 1 - item[2] + item[2] = i - 1
    BY <1>5, <2>1, <2>2
  <2> QED BY <2>3, <2>4 DEF Rhs
<1> QED BY <1>1, <1>2, <1>3, <1>4, <1>5, StackBegins

LEMMA FoundedHere ==
    ASSUME NEW CONSTANT orders, Founded(Parsers, Inputs, orders), TypeInv
    PROVE  /\ Rooted(P) /\ Plain(P, {input}) /\ Plain(P, {})
           /\ orders[parser] \in Seq(STRING) /\ Fertile(P, orders[parser])
  BY DEF Founded, Plain, TypeInv, Kept, P

LEMMA ReadAlways == Spec => [](DriverInv /\ ReadInv)
<1>1. Init => ReadInv
  BY ReadInit
<1>2. DriverInv /\ ReadInv /\ [Next]_vars => ReadInv'
  BY ReadStep
<1>3. Spec => []DriverInv
  BY StackAlways DEF DriverInv
<1> QED BY <1>1, <1>2, <1>3, PTL DEF Spec

\* Without a report the driver is never past an error: from the tokens it has
\* consumed a sentence can still be reached, wherever it stands, when nothing
\* is in the tables without a reason and every rule derives a text.  A report
\* is made at the first token that ends all sentences.
THEOREM ConsumedTokensGoOn ==
    ASSUME NEW CONSTANT orders, Founded(Parsers, Inputs, orders)
    PROVE  Spec => [](Reported = 0 => \E rest \in Seq(STRING) :
                                         IsSentence(P, Solid(P, SubSeq(input, 1, at)) \o rest))
<1>1. ASSUME DriverInv, ReadInv, Reported = 0
      PROVE  \E rest \in Seq(STRING) : IsSentence(P, Solid(P, SubSeq(input, 1, at)) \o rest)
  <2>1. TypeInv /\ Readable
    BY <1>1 DEF DriverInv, ReadInv
  <2>2. /\ Rooted(P) /\ Plain(P, {input}) /\ Plain(P, {})
        /\ orders[parser] \in Seq(STRING) /\ Fertile(P, orders[parser])
    BY <2>1, FoundedHere
  <2>3. WellFormed(P) /\ input \in Seq(STRING) /\ P.productions[0].rhs = <<"main">>
    BY <2>1, TypeGives, TablesCohere, StartAssumption DEF TypeInv, Kept, P
  <2> DEFINE read == Tokens(P, input, 0, at)
  <2>4. BeginsSentence(P, read)
    BY <1>1, <2>1, <2>2, ReadBegins
  <2>5. read = Solid(P, SubSeq(input, 1, at))
    BY DEF Tokens
  <2>6. SubSeq(input, 1, at) \in Seq(STRING)
    <3>1. at \in 0..Len(input)
      BY <2>1 DEF TypeInv, PositionsTyped
    <3> QED BY <2>3, <3>1, Prefix
  <2>7. read \in Seq(STRING)
    BY <2>5, <2>6, SolidIsTyped
  <2> HIDE DEF read
  <2>8. \E rest \in Seq(STRING) : IsSentence(P, read \o rest)
    BY <2>2, <2>3, <2>4, <2>7, BeginningGoesOn
  <2> QED BY <2>5, <2>8
<1>2. Spec => [](DriverInv /\ ReadInv)
  BY ReadAlways
<1> QED BY <1>1, <1>2, PTL

\* The run's form of it: the tokens consumed before any report are in Viable,
\* when Viable names every beginning of a sentence as short as the inputs.
THEOREM ErrorsAreMet ==
    ASSUME NEW CONSTANT orders, NEW CONSTANT words, NEW CONSTANT begins, NEW CONSTANT bounds,
           Founded(Parsers, Inputs, orders), NamesBeginnings(Parsers, Inputs, Viable, words, begins, bounds)
    PROVE  Spec => []ErrorsAreFoundAtOnce
<1>1. ASSUME DriverInv, ReadInv, Reported = 0
      PROVE  Solid(P, SubSeq(input, 1, at)) \in Viable[parser]
  <2>1. TypeInv /\ Readable
    BY <1>1 DEF DriverInv, ReadInv
  <2>2. Rooted(P) /\ Plain(P, {input})
    BY <2>1, FoundedHere
  <2>3. BeginsSentence(P, Tokens(P, input, 0, at))
    BY <1>1, <2>1, <2>2, ReadBegins
  <2>4. /\ bounds[parser] \in Nat /\ Len(input) <= bounds[parser]
        /\ BeginningsClosed(P, words[parser], begins[parser], bounds[parser])
        /\ begins[parser]["main"] \subseteq Viable[parser]
    BY <2>1 DEF NamesBeginnings, TypeInv, Kept, P
  <2>5. WellFormed(P) /\ input \in Seq(STRING) /\ at \in Places(input)
    BY <2>1, TypeGives, TablesCohere DEF TypeInv, PositionsTyped, Places
  <2>6. Solid(P, SubSeq(input, 1, at)) \in begins[parser]["main"]
    BY <2>3, <2>4, <2>5, ReadIsNamed
  <2> QED BY <2>4, <2>6
<1>2. Spec => [](DriverInv /\ ReadInv)
  BY ReadAlways
<1> QED BY <1>1, <1>2, PTL DEF ErrorsAreFoundAtOnce
=============================================================================
