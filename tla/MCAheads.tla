------------------------------ MODULE MCAheads ------------------------------
(* The least windows LeavesNothingOut may be asked about: the fields of a     *)
(* record ahead, closed under what the condition says of them.                *)
EXTENDS LRDerivations, LRCompleteness

LOCAL Gr == INSTANCE MCGrammars

\* One round of the closure.
OneRound(p, ahead) ==
    LET wanting == {f \in ahead.follows : f[2][2] < Len(Rhs(p, f[2][1]))}
        wanted(f) == Rhs(p, f[2][1])[f[2][2] + 1]
        tokens == {x \in UNION {Gr!Range(Rhs(p, id)) : id \in DOMAIN p.productions} : ~IsRule(p, x)}
    IN  [starts |-> ahead.starts \cup {<<x, <<x>>>> : x \in tokens}
             \cup {<<p.productions[o[1]].lhs, o[3]>> : o \in {q \in ahead.opens : q[2] = Len(Rhs(p, q[1]))}},
         opens |-> ahead.opens \cup {<<id, 0, <<>>>> : id \in Rules(p)}
             \cup {<<os[1][1], os[1][2] + 1, Cut(p, os[1][3] \o os[2][2])>> :
                      os \in {x \in ahead.opens \X ahead.starts :
                                 /\ x[1][2] < Len(Rhs(p, x[1][1]))
                                 /\ Rhs(p, x[1][1])[x[1][2] + 1] = x[2][1]}},
         goes |-> ahead.goes \cup {<<f[2][1], Len(Rhs(p, f[2][1])), f[3], f[3]>> : f \in ahead.follows}
             \cup {<<gs[1][1], gs[1][2] - 1, Cut(p, gs[2][2] \o gs[1][3]), gs[1][4]>> :
                      gs \in {x \in ahead.goes \X ahead.starts :
                                 x[1][2] > 0 /\ Rhs(p, x[1][1])[x[1][2]] = x[2][1]}},
         follows |-> ahead.follows \cup {<<0, <<0, 0>>, AtTheEnd(p)>>}
             \cup {<<p.goto[<<f[1], wanted(f)>>], <<f[2][1], f[2][2] + 1>>, f[3]>> : f \in wanting}
             \cup UNION {{<<f[1], <<rule, 0>>, go[3]>> :
                             rule \in {r \in Rules(p) : p.productions[r].lhs = wanted(f)},
                             go \in {g \in ahead.goes : /\ g[1] = f[2][1] /\ g[2] = f[2][2] + 1
                                                        /\ g[4] = f[3]}} : f \in wanting}]

AheadOf(p) ==
    LET grow[ahead \in [starts : SUBSET (STRING \X Seq(STRING)),
                        opens : SUBSET (Nat \X Nat \X Seq(STRING)),
                        goes : SUBSET (Nat \X Nat \X Seq(STRING) \X Seq(STRING)),
                        follows : SUBSET (Nat \X (Nat \X Nat) \X Seq(STRING))]] ==
            LET next == Gr!WorkedOut(OneRound(p, ahead))
            IN  IF next = ahead THEN ahead ELSE grow[next]
    IN  grow[[starts |-> {}, opens |-> {}, goes |-> {}, follows |-> {}]]
=============================================================================
