--------------------------- MODULE LRCompleteness ---------------------------
(***************************************************************************)
(* What it takes for tables p to leave nothing out: wherever a text the    *)
(* productions derive goes on, the action it needs is among those the      *)
(* tables offer.  The condition follows productions, states and cells, and *)
(* says nothing about how they were made.  It is about four sets of        *)
(* windows, the fields of a record ahead:                                  *)
(*                                                                         *)
(*   starts   the beginnings of a symbol, as <<symbol, window>>;           *)
(*   opens    those of the members before the dot of a production, as      *)
(*            <<production, dot, window>>;                                 *)
(*   follows  what may come behind an item of a state, as                  *)
(*            <<state, item, window>>;                                     *)
(*   goes     what may come at a dot, as <<production, dot, window, w>>    *)
(*            with the window w behind the item.                           *)
(***************************************************************************)
EXTENDS LRGenerated

\* The first p.k tokens of a window.
Cut(p, window) == SubSeq(window, 1, IF Len(window) < p.k THEN Len(window) ELSE p.k)

AtTheEnd(p) == [i \in 1..p.k |-> EndOfInput]

\* The actions the tables leave the drivers.
Offered(p, state, window) ==
    LET action == LrAction(p, state, window)
    IN  IF action.type = "conflict" THEN LrConflict(p, state, window) ELSE {action}

Rhs(p, id) == p.productions[id].rhs
IsRule(p, symbol) == \E id \in DOMAIN p.productions \ {0} : p.productions[id].lhs = symbol

\* Members that are no rules are tokens, and no whitespace that is skipped.
TokensStart(p, ahead) ==
    \A id \in DOMAIN p.productions : \A d \in DOMAIN Rhs(p, id) :
        LET symbol == Rhs(p, id)[d]
        IN  ~IsRule(p, symbol) => ~LrIsSpace(p, symbol) /\ <<symbol, <<symbol>>>> \in ahead.starts

\* Beginnings, member by member.
RulesStart(p, ahead) ==
    /\ \A id \in DOMAIN p.productions \ {0} : <<id, 0, <<>>>> \in ahead.opens
    /\ \A open \in ahead.opens :
          LET rhs == Rhs(p, open[1])
          IN  IF open[2] = Len(rhs) THEN <<p.productions[open[1]].lhs, open[3]>> \in ahead.starts
              ELSE \A start \in ahead.starts :
                      start[1] = rhs[open[2] + 1]
                         => <<open[1], open[2] + 1, Cut(p, open[3] \o start[2])>> \in ahead.opens

\* What comes at a dot: the beginnings of the members behind it, then what
\* comes behind the item.
MembersGo(p, ahead) ==
    /\ \A follow \in ahead.follows :
          LET id == follow[2][1]
          IN  <<id, Len(Rhs(p, id)), follow[3], follow[3]>> \in ahead.goes
    /\ \A go \in ahead.goes : \A start \in ahead.starts :
          go[2] > 0 /\ Rhs(p, go[1])[go[2]] = start[1]
             => <<go[1], go[2] - 1, Cut(p, start[2] \o go[3]), go[4]>> \in ahead.goes

\* Transitions keep what follows an item, and a rule an item expects begins in
\* the same state, before what comes behind its place.
StatesFollow(p, ahead) ==
    /\ <<0, <<0, 0>>, AtTheEnd(p)>> \in ahead.follows
    /\ \A follow \in ahead.follows :
          LET state == follow[1]
              id == follow[2][1]
              dot == follow[2][2]
              symbol == Rhs(p, id)[dot + 1]
          IN  /\ state \in DOMAIN p.items /\ follow[2] \in p.items[state]
              /\ dot < Len(Rhs(p, id)) =>
                    /\ <<state, symbol>> \in DOMAIN p.goto
                    /\ <<p.goto[<<state, symbol>>], <<id, dot + 1>>, follow[3]>> \in ahead.follows
                    /\ \A rule \in DOMAIN p.productions \ {0} : \A go \in ahead.goes :
                          /\ p.productions[rule].lhs = symbol
                          /\ go[1] = id /\ go[2] = dot + 1 /\ go[4] = follow[3]
                          => <<state, <<rule, 0>>, go[3]>> \in ahead.follows

\* The action for an item that is complete, and for one that expects a token.
ActionsAreOffered(p, ahead) ==
    \A follow \in ahead.follows :
        LET state == follow[1]
            id == follow[2][1]
            dot == follow[2][2]
            symbol == Rhs(p, id)[dot + 1]
        IN  IF dot = Len(Rhs(p, id))
            THEN (IF id = 0 THEN [type |-> "accept", state |-> 0]
                            ELSE [type |-> "reduce", state |-> id - 1]) \in Offered(p, state, follow[3])
            ELSE ~IsRule(p, symbol) =>
                    \A go \in ahead.goes :
                        go[1] = id /\ go[2] = dot /\ go[4] = follow[3]
                           => [type |-> "shift", state |-> p.goto[<<state, symbol>>]]
                                 \in Offered(p, state, go[3])

LeavesNothingOut(p, ahead) ==
    /\ TokensStart(p, ahead) /\ RulesStart(p, ahead)
    /\ MembersGo(p, ahead) /\ StatesFollow(p, ahead) /\ ActionsAreOffered(p, ahead)
=============================================================================
