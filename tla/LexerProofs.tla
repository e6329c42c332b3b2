---------------------------- MODULE LexerProofs ----------------------------
(***************************************************************************)
(* Proofs about Lexer, for all tables that keep TablesAssumption and all   *)
(* inputs: the walk stays within its tables and registers, tokens follow   *)
(* each other, and captures lie in their tokens.                           *)
(***************************************************************************)
EXTENDS Lexer, TLAPS

Emissions ==
    [token : Int, from : Nat, to : Nat,
     spans : UNION {[D -> [from : Int, to : Int]] : D \in SUBSET Nat}]

\* Operations are under way on a character that is there, or accept a token
\* and then set nothing behind the cursor.
Walk ==
    /\ phase = "act" /\ goal # Recognized => place < Len(input)
    /\ phase = "act" /\ goal = Recognized => \A i \in DOMAIN todo : ~todo[i].next

\* How far from the start of the token a register may stand.
Reach == IF phase = "act" /\ goal # Recognized THEN place - begun + 1 ELSE place - begun
RegistersReach == \A r \in DOMAIN regs : regs[r] <= Reach

\* While a token is looked for, the tokens there are end before it.
TokensBehind == phase \in {"scan", "act"} => \A i \in DOMAIN emitted : emitted[i].to <= begun

IInv ==
    /\ TypeOK
    /\ emitted \in Seq(Emissions)
    /\ Walk
    /\ RegistersReach
    /\ TokensAreInOrder
    /\ TokensBehind
    /\ CapturesLieInTokens

USE DEF None, Unset, Start, Recognized

\* The tables of the lexer that was chosen keep the assumption.
LEMMA Tables ==
    ASSUME NEW l \in Lexers
    PROVE  /\ l.registers \in Nat /\ l.captures \in Nat /\ 2 * l.captures <= l.registers
           /\ Start \in DOMAIN l.states /\ Recognized \notin DOMAIN l.states
           /\ \A s \in DOMAIN l.states :
                 /\ \A e \in l.states[s].edges : e.to \in DOMAIN l.states /\ e.ops \in Seq(Operations(l.registers))
                 /\ l.states[s].token \in Nat \cup {None}
                 /\ l.states[s].acceptOps \in Seq({op \in Operations(l.registers) : ~op.next})
BY TablesAssumption

\* An operation writes a register there is, and what it writes is a position
\* the cursor has reached, one more before a character is read.
LEMMA ValueInReach ==
    ASSUME IInv, phase = "act", todo # <<>>
    PROVE  /\ Head(todo).a \in DOMAIN regs
           /\ Value(Head(todo)) \in Unset .. Len(input)
           /\ Value(Head(todo)) <= Reach
<1> DEFINE op == Head(todo)
<1>1. op \in Operations(lexer.registers) /\ op = todo[1] /\ 1 \in DOMAIN todo
  BY DEF IInv, TypeOK
<1>2. /\ op.kind \in {"set", "copy"} /\ op.next \in BOOLEAN /\ op.a \in 0 .. lexer.registers - 1
      /\ op.kind = "copy" => op.b \in 0 .. lexer.registers - 1
  BY <1>1 DEF Operations
<1>3. DOMAIN regs = 0 .. lexer.registers - 1
  BY DEF IInv, TypeOK
<1>4. Len(input) \in Nat /\ place \in 0 .. Len(input) /\ begun \in 0 .. place
  BY DEF IInv, TypeOK
<1>5. CASE op.kind = "copy"
  BY <1>2, <1>3, <1>5 DEF IInv, TypeOK, RegistersReach, Value
<1>6. CASE op.kind # "copy" /\ goal = Recognized
  BY <1>1, <1>2, <1>3, <1>4, <1>6 DEF IInv, Walk, Value, Reach
<1>7. CASE op.kind # "copy" /\ goal # Recognized
  BY <1>2, <1>3, <1>4, <1>7 DEF IInv, Walk, Value, Reach
<1> QED
  BY <1>5, <1>6, <1>7

\* What Emit makes of the registers lies in the token.
LEMMA SpansAreInside ==
    ASSUME IInv, phase = "act", goal = Recognized
    PROVE  /\ Spans \in UNION {[D -> [from : Int, to : Int]] : D \in SUBSET Nat}
           /\ \A c \in DOMAIN Spans :
                 0 <= Spans[c].from /\ Spans[c].from < Spans[c].to /\ Spans[c].to <= place - begun
<1> DEFINE D == {k \in 0 .. lexer.captures - 1 : regs[2 * k] # Unset /\ regs[2 * k + 1] > regs[2 * k]}
<1>1. lexer.registers \in Nat /\ lexer.captures \in Nat /\ 2 * lexer.captures <= lexer.registers
  BY Tables DEF IInv, TypeOK
<1>2. Len(input) \in Nat /\ place \in 0 .. Len(input) /\ begun \in 0 .. place
  BY DEF IInv, TypeOK
<1>3. \A k \in 0 .. lexer.captures - 1 :
          2 * k \in 0 .. lexer.registers - 1 /\ 2 * k + 1 \in 0 .. lexer.registers - 1
  BY <1>1
<1>4. \A r \in 0 .. lexer.registers - 1 : regs[r] \in Unset .. Len(input) /\ regs[r] <= place - begun
  BY DEF IInv, TypeOK, RegistersReach, Reach
<1>5. Spans = [c \in D |-> [from |-> regs[2 * c], to |-> regs[2 * c + 1]]]
  BY DEF Spans
<1>6. \A c \in D : /\ regs[2 * c] \in Int /\ regs[2 * c + 1] \in Int
                   /\ 0 <= regs[2 * c] /\ regs[2 * c] < regs[2 * c + 1] /\ regs[2 * c + 1] <= place - begun
  <2> SUFFICES ASSUME NEW c \in D
               PROVE  /\ regs[2 * c] \in Int /\ regs[2 * c + 1] \in Int
                      /\ 0 <= regs[2 * c] /\ regs[2 * c] < regs[2 * c + 1] /\ regs[2 * c + 1] <= place - begun
    OBVIOUS
  <2>1. c \in 0 .. lexer.captures - 1 /\ regs[2 * c] # Unset /\ regs[2 * c + 1] > regs[2 * c]
    OBVIOUS
  <2>2. /\ regs[2 * c] \in Unset .. Len(input)
        /\ regs[2 * c + 1] \in Unset .. Len(input) /\ regs[2 * c + 1] <= place - begun
    BY <1>3, <1>4, <2>1
  <2> QED
    BY <1>2, <2>1, <2>2
<1>7. D \in SUBSET Nat
  BY <1>1
<1>8. Spans \in [D -> [from : Int, to : Int]]
  BY <1>5, <1>6
<1> HIDE DEF D
<1>9. \A c \in DOMAIN Spans : c \in D /\ Spans[c].from = regs[2 * c] /\ Spans[c].to = regs[2 * c + 1]
  BY <1>5
<1> QED
  BY <1>6, <1>7, <1>8, <1>9

LEMMA InitIInv == Init => IInv
<1> SUFFICES ASSUME Init PROVE IInv
  OBVIOUS
<1>1. lexer \in Lexers /\ input \in Seq(Chars)
  BY InputsAssumption DEF Init
<1>2. lexer.registers \in Nat /\ Start \in DOMAIN lexer.states
  BY <1>1, Tables
<1>3. TypeOK
  BY <1>1, <1>2 DEF Init, TypeOK, Cleared
<1>4. RegistersReach
  BY <1>2 DEF Init, RegistersReach, Reach, Cleared
<1>5. emitted = <<>> /\ emitted \in Seq(Emissions)
  BY DEF Init
<1> QED
  BY <1>3, <1>4, <1>5 DEF Init, IInv, Walk, TokensAreInOrder, TokensBehind, CapturesLieInTokens

\* Actions that leave the tokens alone and take no token for behind the cursor
\* that is not.
LEMMA SameTokens ==
    ASSUME IInv, UNCHANGED <<emitted>>, place' \in Nat, place' >= place,
           phase' \in {"scan", "act"} => begun' = begun \/ begun' = place,
           phase' \in {"scan", "act"} => phase \in {"next", "scan", "act"},
           phase' \in {"scan", "act"} /\ phase = "next" => begun' = place
    PROVE  (emitted \in Seq(Emissions))' /\ TokensAreInOrder' /\ TokensBehind' /\ CapturesLieInTokens'
<1>1. emitted' = emitted /\ emitted \in Seq(Emissions)
  BY DEF IInv
<1>2. place \in Nat /\ begun \in Nat /\ begun <= place
  BY DEF IInv, TypeOK
<1>3. \A i \in DOMAIN emitted : emitted[i] \in Emissions /\ emitted[i].from \in Nat /\ emitted[i].to \in Nat
  <2>1. \A i \in DOMAIN emitted : emitted[i] \in Emissions
    BY <1>1
  <2>2. \A e \in Emissions : e.from \in Nat /\ e.to \in Nat
    BY DEF Emissions
  <2> QED
    BY <2>1, <2>2
<1>4. \A i \in DOMAIN emitted : 0 <= emitted[i].from /\ emitted[i].from < emitted[i].to /\ emitted[i].to <= place
  BY DEF IInv, TokensAreInOrder
<1>5. TokensAreInOrder'
  <2>1. \A i \in DOMAIN emitted : emitted[i].to <= place'
    BY <1>2, <1>3, <1>4
  <2>2. \A i, j \in DOMAIN emitted : i < j => emitted[i].to <= emitted[j].from
    BY DEF IInv, TokensAreInOrder
  <2> QED
    BY <1>1, <1>4, <2>1, <2>2 DEF TokensAreInOrder
<1>6. CapturesLieInTokens'
  BY <1>1 DEF IInv, CapturesLieInTokens
<1>7. TokensBehind'
  <2>1. phase \in {"scan", "act"} => \A i \in DOMAIN emitted : emitted[i].to <= begun
    BY DEF IInv, TokensBehind
  <2> QED
    BY <1>1, <1>4, <2>1 DEF TokensBehind
<1> QED
  BY <1>1, <1>5, <1>6, <1>7

LEMMA MakeTokenIInv == IInv /\ MakeToken => IInv'
<1> SUFFICES ASSUME IInv, MakeToken PROVE IInv'
  OBVIOUS
<1>1. lexer \in Lexers /\ lexer.registers \in Nat /\ Start \in DOMAIN lexer.states
  BY Tables DEF IInv, TypeOK
<1>2. place \in 0 .. Len(input) /\ Len(input) \in Nat
  BY DEF IInv, TypeOK
<1>3. TypeOK'
  BY <1>1, <1>2 DEF IInv, TypeOK, MakeToken, Cleared, source
<1>4. RegistersReach'
  BY <1>1, <1>2 DEF RegistersReach, Reach, MakeToken, Cleared
<1>5. (emitted \in Seq(Emissions))' /\ TokensAreInOrder' /\ TokensBehind' /\ CapturesLieInTokens'
  BY <1>2, SameTokens DEF MakeToken
<1> QED
  BY <1>3, <1>4, <1>5 DEF IInv, Walk, MakeToken

\* An edge that can be taken has a character to read.
LEMMA EdgesAreThere ==
    ASSUME IInv, NEW edge \in Edges
    PROVE  /\ place < Len(input) /\ edge.to \in DOMAIN lexer.states /\ edge.to # Recognized
           /\ edge.ops \in Seq(Operations(lexer.registers))
<1>1. lexer \in Lexers /\ node \in DOMAIN lexer.states
  BY DEF IInv, TypeOK
<1>2. place < Len(input) /\ edge \in lexer.states[node].edges
  BY DEF Edges, Row
<1> QED
  BY <1>1, <1>2, Tables

LEMMA RegistersAreIntegers == ASSUME IInv PROVE \A r \in DOMAIN regs : regs[r] \in Int
<1>1. regs \in [0 .. lexer.registers - 1 -> Unset .. Len(input)] /\ Len(input) \in Nat
  BY DEF IInv, TypeOK
<1>2. \A r \in DOMAIN regs : regs[r] \in Unset .. Len(input)
  BY <1>1
<1> QED
  BY <1>1, <1>2

LEMMA StepIInv == ASSUME IInv, NEW edge \in Edges, Step(edge) PROVE IInv'
<1>1. place < Len(input) /\ edge.to \in DOMAIN lexer.states
  BY EdgesAreThere
<1>2. place \in 0 .. Len(input) /\ Len(input) \in Nat /\ begun \in 0 .. place
  BY DEF IInv, TypeOK
<1>3. TypeOK'
  BY <1>1, <1>2 DEF IInv, TypeOK, Step, source
<1>4. RegistersReach'
  <2>1. \A r \in DOMAIN regs : regs[r] \in Int /\ regs[r] <= place - begun
    <3>1. \A r \in DOMAIN regs : regs[r] <= place - begun
      BY DEF IInv, RegistersReach, Reach, Step
    <3> QED
      BY <3>1, RegistersAreIntegers
  <2> QED
    BY <1>2, <2>1 DEF RegistersReach, Reach, Step
<1>5. (emitted \in Seq(Emissions))' /\ TokensAreInOrder' /\ TokensBehind' /\ CapturesLieInTokens'
  BY <1>2, SameTokens DEF Step
<1> QED
  BY <1>3, <1>4, <1>5 DEF IInv, Walk, Step

LEMMA StartActionsIInv == ASSUME IInv, NEW edge \in Edges, StartActions(edge) PROVE IInv'
<1>1. /\ place < Len(input) /\ edge.to \in DOMAIN lexer.states /\ edge.to # Recognized
      /\ edge.ops \in Seq(Operations(lexer.registers))
  BY EdgesAreThere
<1>2. place \in 0 .. Len(input) /\ Len(input) \in Nat /\ begun \in 0 .. place
  BY DEF IInv, TypeOK
<1>3. TypeOK'
  BY <1>1 DEF IInv, TypeOK, StartActions, source
<1>4. RegistersReach'
  <2>1. \A r \in DOMAIN regs : regs[r] \in Int /\ regs[r] <= place - begun
    <3>1. \A r \in DOMAIN regs : regs[r] <= place - begun
      BY DEF IInv, RegistersReach, Reach, StartActions
    <3> QED
      BY <3>1, RegistersAreIntegers
  <2> QED
    BY <1>1, <1>2, <2>1 DEF RegistersReach, Reach, StartActions
<1>5. (emitted \in Seq(Emissions))' /\ TokensAreInOrder' /\ TokensBehind' /\ CapturesLieInTokens'
  BY <1>2, SameTokens DEF StartActions
<1> QED
  BY <1>1, <1>3, <1>4, <1>5 DEF IInv, Walk, StartActions, source

LEMMA RecognizeIInv == IInv /\ Recognize => IInv'
<1> SUFFICES ASSUME IInv, Recognize PROVE IInv'
  OBVIOUS
<1>1. Row.acceptOps \in Seq({op \in Operations(lexer.registers) : ~op.next})
  BY Tables DEF IInv, TypeOK, Row
<1>2. place \in 0 .. Len(input) /\ Len(input) \in Nat /\ begun \in 0 .. place
  BY DEF IInv, TypeOK
<1>3. TypeOK'
  <2>1. Row.acceptOps \in Seq(Operations(lexer.registers))
    BY <1>1
  <2> QED
    BY <2>1 DEF IInv, TypeOK, Recognize, source
<1>4. RegistersReach'
  BY <1>2 DEF IInv, TypeOK, RegistersReach, Reach, Recognize
<1>5. (emitted \in Seq(Emissions))' /\ TokensAreInOrder' /\ TokensBehind' /\ CapturesLieInTokens'
  BY <1>2, SameTokens DEF Recognize
<1>6. Walk'
  BY <1>1 DEF Walk, Recognize
<1> QED
  BY <1>3, <1>4, <1>5, <1>6 DEF IInv, Recognize

LEMMA ActIInv == IInv /\ Act => IInv'
<1> SUFFICES ASSUME IInv, Act PROVE IInv'
  OBVIOUS
<1>1. /\ Head(todo).a \in DOMAIN regs
      /\ Value(Head(todo)) \in Unset .. Len(input)
      /\ Value(Head(todo)) <= Reach
  BY ValueInReach DEF Act
<1>2. place \in 0 .. Len(input) /\ Len(input) \in Nat /\ begun \in 0 .. place
  BY DEF IInv, TypeOK
<1>3. todo \in Seq(Operations(lexer.registers)) /\ todo # <<>>
  BY DEF IInv, TypeOK, Act
<1>4. TypeOK'
  BY <1>1, <1>3 DEF IInv, TypeOK, Act, source
<1>5. RegistersReach'
  <2>1. Reach' = Reach
    BY DEF Reach, Act
  <2>2. regs' = [regs EXCEPT ![Head(todo).a] = Value(Head(todo))]
    BY DEF Act
  <2> QED
    BY <1>1, <2>1, <2>2 DEF IInv, RegistersReach
<1>6. Walk'
  <2>1. \A i \in DOMAIN Tail(todo) : i + 1 \in DOMAIN todo /\ Tail(todo)[i] = todo[i + 1]
    BY <1>3
  <2> QED
    BY <2>1 DEF IInv, Walk, Act, source
<1>7. (emitted \in Seq(Emissions))' /\ TokensAreInOrder' /\ TokensBehind' /\ CapturesLieInTokens'
  BY <1>2, SameTokens DEF Act
<1> QED
  BY <1>4, <1>5, <1>6, <1>7 DEF IInv

LEMMA ArriveIInv == IInv /\ Arrive => IInv'
<1> SUFFICES ASSUME IInv, Arrive PROVE IInv'
  OBVIOUS
<1>1. place < Len(input) /\ goal \in DOMAIN lexer.states
  BY DEF IInv, TypeOK, Walk, Arrive
<1>2. place \in 0 .. Len(input) /\ Len(input) \in Nat /\ begun \in 0 .. place
  BY DEF IInv, TypeOK
<1>3. TypeOK'
  BY <1>1, <1>2 DEF IInv, TypeOK, Arrive, source
<1>4. RegistersReach'
  <2>1. \A r \in DOMAIN regs : regs[r] <= place - begun + 1
    BY DEF IInv, RegistersReach, Reach, Arrive
  <2> QED
    BY <1>2, <2>1 DEF RegistersReach, Reach, Arrive
<1>5. (emitted \in Seq(Emissions))' /\ TokensAreInOrder' /\ TokensBehind' /\ CapturesLieInTokens'
  BY <1>2, SameTokens DEF Arrive
<1> QED
  BY <1>3, <1>4, <1>5 DEF IInv, Walk, Arrive

LEMMA EmitIInv == IInv /\ Emit => IInv'
<1> SUFFICES ASSUME IInv, Emit PROVE IInv'
  OBVIOUS
<1>1. place \in 0 .. Len(input) /\ Len(input) \in Nat /\ begun \in 0 .. place
  BY DEF IInv, TypeOK
<1>2. TypeOK'
  BY DEF IInv, TypeOK, Emit, source
<1>3. RegistersReach'
  BY DEF IInv, RegistersReach, Reach, Emit
<1>4. CASE place = begun
  <2>1. (emitted \in Seq(Emissions))' /\ TokensAreInOrder' /\ TokensBehind' /\ CapturesLieInTokens'
    BY <1>1, <1>4, SameTokens DEF Emit
  <2> QED
    BY <1>2, <1>3, <1>4, <2>1 DEF IInv, Walk, Emit
<1>5. CASE place # begun
  <2> DEFINE one == [token |-> Row.token, from |-> begun, to |-> place, spans |-> Spans]
  <2>1. one \in Emissions
    <3>1. Row.token \in Int
      <4>1. lexer \in Lexers /\ node \in DOMAIN lexer.states
        BY DEF IInv, TypeOK
      <4>2. lexer.states[node].token \in Nat \cup {None}
        BY <4>1, Tables
      <4> QED
        BY <4>2 DEF Row
    <3>2. Spans \in UNION {[D -> [from : Int, to : Int]] : D \in SUBSET Nat}
      BY SpansAreInside DEF Emit
    <3> QED
      BY <1>1, <3>1, <3>2 DEF Emissions
  <2>2. emitted \in Seq(Emissions) /\ emitted' = Append(emitted, one)
    BY <1>5 DEF IInv, Emit
  <2>3. /\ one.from = begun /\ one.to = place /\ one.spans = Spans
        /\ 0 <= begun /\ begun < place
    BY <1>1, <1>5
  <2>4. \A c \in DOMAIN one.spans :
           0 <= one.spans[c].from /\ one.spans[c].from < one.spans[c].to /\ one.spans[c].to <= one.to - one.from
    BY SpansAreInside, <2>3 DEF Emit
  <2> HIDE DEF one
  <2>5. emitted' \in Seq(Emissions)
    BY <2>1, <2>2
  <2>6. DOMAIN emitted' = DOMAIN emitted \cup {Len(emitted) + 1} /\ Len(emitted) \in Nat
    BY <2>1, <2>2
  <2>7. \A i \in DOMAIN emitted : emitted'[i] = emitted[i] /\ i < Len(emitted) + 1
    BY <2>1, <2>2
  <2>8. emitted'[Len(emitted) + 1] = one
    BY <2>1, <2>2
  <2>9. TokensAreInOrder'
    <3>1. \A i \in DOMAIN emitted : emitted[i].to <= begun
      BY DEF IInv, TokensBehind, Emit
    <3>2. \A i \in DOMAIN emitted : 0 <= emitted[i].from /\ emitted[i].from < emitted[i].to /\ emitted[i].to <= place
      BY DEF IInv, TokensAreInOrder
    <3>3. \A i, j \in DOMAIN emitted : i < j => emitted[i].to <= emitted[j].from
      BY DEF IInv, TokensAreInOrder
    <3>4. \A i \in DOMAIN emitted' :
             0 <= emitted'[i].from /\ emitted'[i].from < emitted'[i].to /\ emitted'[i].to <= place
      BY <1>1, <2>3, <2>6, <2>7, <2>8, <3>2
    <3>5. \A i, j \in DOMAIN emitted' : i < j => emitted'[i].to <= emitted'[j].from
      <4> SUFFICES ASSUME NEW i \in DOMAIN emitted', NEW j \in DOMAIN emitted', i < j
                   PROVE  emitted'[i].to <= emitted'[j].from
        OBVIOUS
      <4>1. i \in DOMAIN emitted
        BY <2>2, <2>6
      <4>2. CASE j \in DOMAIN emitted
        BY <2>7, <3>3, <4>1, <4>2
      <4>3. CASE j = Len(emitted) + 1
        BY <2>3, <2>7, <2>8, <3>1, <4>1, <4>3
      <4> QED
        BY <2>6, <4>2, <4>3
    <3> QED
      BY <3>4, <3>5 DEF TokensAreInOrder, Emit
  <2>10. CapturesLieInTokens'
    <3>1. \A i \in DOMAIN emitted : \A c \in DOMAIN emitted[i].spans :
             /\ 0 <= emitted[i].spans[c].from /\ emitted[i].spans[c].from < emitted[i].spans[c].to
             /\ emitted[i].spans[c].to <= emitted[i].to - emitted[i].from
      BY DEF IInv, CapturesLieInTokens
    <3> QED
      BY <2>4, <2>6, <2>7, <2>8, <3>1 DEF CapturesLieInTokens
  <2> QED
    BY <1>2, <1>3, <1>5, <2>5, <2>9, <2>10 DEF IInv, Walk, TokensBehind, Emit
<1> QED
  BY <1>4, <1>5

\* The other ends of a scan, and the end of the input.
LEMMA StopIInv == IInv /\ (Die \/ Finish) => IInv'
<1> SUFFICES ASSUME IInv, Die \/ Finish PROVE IInv'
  OBVIOUS
<1>1. place \in Nat
  BY DEF IInv, TypeOK
<1>2. /\ UNCHANGED <<lexer, input, place, begun, node, regs, todo, goal, emitted>>
      /\ phase' \in {"next", "done", "thrown"} /\ phase # "act"
  BY DEF Die, Finish, source
<1>3. TypeOK' /\ RegistersReach' /\ Walk'
  BY <1>2 DEF IInv, TypeOK, RegistersReach, Reach, Walk
<1>4. (emitted \in Seq(Emissions))' /\ TokensAreInOrder' /\ TokensBehind' /\ CapturesLieInTokens'
  BY <1>1, <1>2, SameTokens
<1> QED
  BY <1>3, <1>4 DEF IInv

LEMMA NextIInv == IInv /\ [Next]_vars => IInv'
<1> SUFFICES ASSUME IInv, [Next]_vars PROVE IInv'
  OBVIOUS
<1>1. CASE Next
  BY <1>1, MakeTokenIInv, StepIInv, StartActionsIInv, RecognizeIInv, ActIInv, ArriveIInv, EmitIInv, StopIInv DEF Next
<1>2. CASE UNCHANGED vars
  BY <1>2 DEF vars, IInv, TypeOK, Walk, RegistersReach, Reach, TokensAreInOrder, TokensBehind, CapturesLieInTokens
<1> QED
  BY <1>1, <1>2

LEMMA Invariant == Spec => []IInv
BY InitIInv, NextIInv, PTL DEF Spec

\* For all tables and inputs the walk stays within the states, registers and
\* characters there are: dfa_run.hpp never throws "register out of range".
THEOREM TypeCorrect == Spec => []TypeOK
<1>1. IInv => TypeOK
  BY DEF IInv
<1> QED
  BY <1>1, Invariant, PTL

\* For all tables and inputs the tokens that makeTokens has pushed are not
\* empty and follow each other in the part of the input that was read.
THEOREM TokensStayInOrder == Spec => []TokensAreInOrder
<1>1. IInv => TokensAreInOrder
  BY DEF IInv
<1> QED
  BY <1>1, Invariant, PTL

\* For all tables and inputs a capture that a token carries lies in its text:
\* the string_view of Captures::view never looks beside the token.
THEOREM CapturesStayInTokens == Spec => []CapturesLieInTokens
<1>1. IInv => CapturesLieInTokens
  BY DEF IInv
<1> QED
  BY <1>1, Invariant, PTL
=============================================================================
