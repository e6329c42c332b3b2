---------------------------- MODULE LexerTables ----------------------------
(***************************************************************************)
(* From the determinized automaton to the tables of a lexer: registers are *)
(* shared where their values are never wanted at the same time             *)
(* (DFA.TDFA.cppm), and states that behave alike are merged (DFA.cpp).     *)
(***************************************************************************)
EXTENDS TaggedDFA

(***************************************************************************)
(* Liveness. The outputs are wanted when a token is accepted.              *)
(***************************************************************************)
\* What is wanted before the operations, when live is wanted after them.
Backward(ops, live) ==
    FoldRight(LAMBDA op, after :
                  IF op.a \notin after THEN after
                  ELSE (after \ {op.a}) \cup ({op.b} \ {None}),
              ops, live)

LiveAfterEdge(live, edge) == Backward(edge.ops, live[edge.to])

RECURSIVE Liveness(_, _, _)
Liveness(dfa, outputs, live) ==
    LET more == [s \in DOMAIN dfa |->
                    UNION {LiveAfterEdge(live, e) : e \in Range(dfa[s].edges)}
                    \cup (IF dfa[s].token = None THEN {} ELSE Backward(dfa[s].acceptOps, outputs))]
    IN  IF more = live THEN live ELSE Liveness(dfa, outputs, more)

\* What is wanted after operation k of a sequence.
After(ops, k, live) == Backward(SubSeq(ops, k + 1, Len(ops)), live)

\* Operations whose result nobody wants are dropped.
RECURSIVE Strip(_, _)
Strip(ops, live) ==
    IF ops = <<>> THEN <<>>
    ELSE LET op == Last(ops)
         IN  IF op.a \notin live THEN Strip(Front(ops), live)
             ELSE Append(Strip(Front(ops), Backward(<<op>>, live)), op)

\* The sequences of operations of the automaton, each with what is wanted after it.
Sequences(dfa, live, outputs) ==
    UNION {{[ops |-> e.ops, live |-> live[e.to]] : e \in Range(dfa[s].edges)}
           \cup (IF dfa[s].token = None THEN {} ELSE {[ops |-> dfa[s].acceptOps, live |-> outputs]}) :
              s \in DOMAIN dfa}

StripAll(dfa, live, outputs) ==
    [s \in DOMAIN dfa |->
        [dfa[s] EXCEPT !.edges = [i \in DOMAIN @ |-> [@[i] EXCEPT !.ops = Strip(@, live[dfa[s].edges[i].to])]],
                       !.acceptOps = Strip(@, outputs)]]

(***************************************************************************)
(* Interference. A register must keep away from what is wanted when it is  *)
(* written, but a copy need not keep away from its source.                 *)
(***************************************************************************)
Conflicts(seq) ==
    UNION {LET op == seq.ops[k]
           IN  {{op.a, r} : r \in After(seq.ops, k, seq.live) \ ({op.a} \cup (IF op.kind = "copy" THEN {op.b} ELSE {}))} :
               k \in DOMAIN seq.ops}

Pairs(S) == {{x, y} : x, y \in S} \ {{x} : x \in S}

Interference(dfa, live, outputs) ==
    UNION {Conflicts(seq) : seq \in Sequences(dfa, live, outputs)}
    \cup UNION {Pairs(live[s]) : s \in DOMAIN dfa}
    \cup Pairs(outputs)

Operations(dfa) ==
    UNION {UNION {Range(e.ops) : e \in Range(dfa[s].edges)} \cup Range(dfa[s].acceptOps) : s \in DOMAIN dfa}

\* Registers in ascending order take the place of a register they are copied
\* to or from, if they may, or else the first free one.
Colour(interference, copies, acc, reg) ==
    LET used == {acc[r] : r \in {q \in DOMAIN acc : {q, reg} \in interference}}
        partners == {r \in DOMAIN acc : <<r, reg>> \in copies \/ <<reg, r>> \in copies}
        preferred == {r \in partners : acc[r] \notin used}
        free == Min((0 .. Cardinality(used)) \ used)
    IN  (reg :> IF preferred # {} THEN acc[Min(preferred)] ELSE free) @@ acc

Colours(dfa, live, outputs) ==
    LET ops == Operations(dfa)
        registers == ({op.a : op \in ops} \cup {op.b : op \in ops}) \ (outputs \cup {None})
        interference == Interference(dfa, live, outputs)
        copies == {<<op.a, op.b>> : op \in {o \in ops : o.kind = "copy"}}
    IN  FoldLeft(LAMBDA acc, reg : Colour(interference, copies, acc, reg),
                 [r \in outputs |-> r], Ascending(registers))

Rename(ops, colours) ==
    SelectSeq([i \in DOMAIN ops |->
                  [ops[i] EXCEPT !.a = colours[@], !.b = IF @ = None THEN None ELSE colours[@]]],
              LAMBDA op : op.a # op.b)

AllocateRegisters(dfa, outputs) ==
    LET live == Liveness(dfa, outputs, [s \in DOMAIN dfa |-> {}])
        stripped == StripAll(dfa, live, outputs)
        colours == Colours(stripped, live, outputs)
    IN  [states |-> [s \in DOMAIN dfa |->
                        [stripped[s] EXCEPT !.edges = [i \in DOMAIN @ |-> [@[i] EXCEPT !.ops = Rename(@, colours)]],
                                            !.acceptOps = Rename(@, colours)]],
         registers |-> Max(Range(colours) \cup {-1}) + 1]

(***************************************************************************)
(* Minimization: states are alike while they accept the same token by the  *)
(* same operations, and go on by the same operations to states alike.      *)
(***************************************************************************)
SameSignature(dfa, classOf, s, t) ==
    LET Key(u) == {[char |-> e.char, ops |-> e.ops, to |-> classOf[e.to]] : e \in Range(dfa[u].edges)}
    IN  /\ dfa[s].token = dfa[t].token
        /\ dfa[s].acceptOps = dfa[t].acceptOps
        /\ Key(s) = Key(t)

Classes(dfa, classOf) == [s \in DOMAIN dfa |-> Min({t \in DOMAIN dfa : SameSignature(dfa, classOf, s, t)})]

RECURSIVE Refine(_, _)
Refine(dfa, classOf) ==
    IF Classes(dfa, classOf) = classOf THEN classOf ELSE Refine(dfa, Classes(dfa, classOf))

\* A class is known by its first state, and its other states are left out.
Minimize(dfa) ==
    LET classOf == Refine(dfa, [s \in DOMAIN dfa |-> 1])
    IN  [s \in Range(classOf) |->
            [edges |-> {[char |-> e.char, to |-> classOf[e.to], ops |-> e.ops] : e \in Range(dfa[s].edges)},
             token |-> dfa[s].token,
             acceptOps |-> dfa[s].acceptOps]]

(***************************************************************************)
(* The tables: states by number, from the first, and how many registers    *)
(* and outputs there are.                                                  *)
(***************************************************************************)
Compile(nfa) ==
    LET outputs == 0 .. Tags(nfa) - 1
        allocated == AllocateRegisters(Determinize(nfa), outputs)
        minimal == Minimize(allocated.states)
    IN  [states |-> [s \in DOMAIN minimal |->
                        [minimal[s] EXCEPT !.token = IF @ = None THEN None ELSE nfa.tokenOf[@]]],
         registers |-> allocated.registers,
         captures |-> nfa.captures]
=============================================================================
