---------------------------- MODULE LRGenerated ----------------------------
(***************************************************************************)
(* The callbacks ConstructLRParser emits for a parser p and the span       *)
(* arithmetic the two LR drivers share.  p is a record                     *)
(*                                                                         *)
(*   productions  [lhs, rhs, gaps] by number, 0 is the augmented one;      *)
(*   items        the LR(0) items <<production, dot>> of every state;      *)
(*   goto         the transitions, a function from <<state, symbol>>;      *)
(*   entries, decisions   action cells [state, window, action];            *)
(*   open         conflict cells left to the generalized parser;           *)
(*   k, skipsSpace, failSites                                              *)
(***************************************************************************)
EXTENDS Integers, Sequences

Whitespace == "WS"
EndOfInput == "$"

\* lr_length, lr_lhs and lr_space: rules are numbered without production 0.
LrRhs(p, rule) == p.productions[rule + 1].rhs
\* A fault: a member that is whitespace is counted, though nothing is pushed for it.
LrLengthWithGaps(p, rule) ==
    Len(LrRhs(p, rule)) + (IF p.productions[rule + 1].gaps = {} THEN 0 ELSE 1)

LrLength(p, rule) == Len(LrRhs(p, rule))
LrLhs(p, rule) == p.productions[rule + 1].lhs
LrSpace(p, rule, gap) == gap \in p.productions[rule + 1].gaps

LrIsSpace(p, token) == p.skipsSpace /\ token = Whitespace

\* The condition conditionFor emits for a cell: its window is a prefix.
Covers(cell, state, window) ==
    /\ cell.state = state
    /\ Len(cell.window) <= Len(window)
    /\ \A i \in DOMAIN cell.window : cell.window[i] = window[i]

Invalid == [type |-> "invalid", state |-> 0]
Conflict == [type |-> "conflict", state |-> 0]

\* lr_action: the table cells first, then the decisions and conflict cells.
LrAction(p, state, window) ==
    LET entries == {c \in p.entries : Covers(c, state, window)}
        decisions == {c \in p.decisions : Covers(c, state, window)}
    IN  IF entries # {} THEN (CHOOSE c \in entries : TRUE).action
        ELSE IF decisions # {} THEN (CHOOSE c \in decisions : TRUE).action
        ELSE IF \E c \in p.open : Covers(c, state, window) THEN Conflict
        ELSE Invalid

\* lr_conflict: the candidate actions of a conflict cell.
LrConflict(p, state, window) ==
    UNION {c.actions : c \in {d \in p.open : Covers(d, state, window)}}

-----------------------------------------------------------------------------
(* What the drivers take for granted of the tables. *)

WellFormed(p) ==
    /\ 0 \in DOMAIN p.productions /\ DOMAIN p.productions \subseteq Nat
    /\ \A id \in DOMAIN p.productions :
          p.productions[id].lhs \in STRING /\ p.productions[id].rhs \in Seq(STRING)
    /\ 0 \in DOMAIN p.items
    /\ \A s \in DOMAIN p.items : \A item \in p.items[s] :
          item \in (DOMAIN p.productions) \X Nat /\ item[2] <= Len(p.productions[item[1]].rhs)
    /\ p.k \in Nat \ {0}
    /\ \A site \in DOMAIN p.failSites : p.failSites[site].symbol \in STRING

\* Transitions move the dot: the items of a target that have read something
\* read it from an item of the state the transition leaves.  Only state 0, to
\* which no transition leads, holds the item the parse starts from.
Transitions(p) ==
    /\ \A item \in p.items[0] : item[2] = 0
    /\ \A s \in DOMAIN p.items : <<0, 0>> \in p.items[s] => s = 0
    /\ \A edge \in DOMAIN p.goto :
          /\ edge \in (DOMAIN p.items) \X STRING
          /\ p.goto[edge] \in DOMAIN p.items \ {0}
          /\ \A item \in p.items[p.goto[edge]] :
                item[2] > 0 =>
                    /\ p.productions[item[1]].rhs[item[2]] = edge[2]
                    /\ <<item[1], item[2] - 1>> \in p.items[edge[1]]

\* Where a rule can begin there is a transition for it once it is reduced.
GotosExist(p) ==
    \A s \in DOMAIN p.items : \A item \in p.items[s] :
        item[1] # 0 /\ item[2] = 0 => <<s, p.productions[item[1]].lhs>> \in DOMAIN p.goto

SoundCell(p, cell) ==
    LET action == cell.action
        rule == action.state + 1
    IN  /\ cell.window \in Seq(STRING) \ {<<>>}
        /\ action.type \in {"shift", "reduce", "accept"}
        /\ action.type = "shift" =>
              /\ cell.window[1] # EndOfInput
              /\ <<cell.state, cell.window[1]>> \in DOMAIN p.goto
              /\ p.goto[<<cell.state, cell.window[1]>>] = action.state
        /\ action.type = "reduce" =>
              /\ action.state \in Nat /\ rule \in DOMAIN p.productions
              /\ <<rule, Len(p.productions[rule].rhs)>> \in p.items[cell.state]
        /\ action.type = "accept" =>
              cell.window[1] = EndOfInput /\ <<0, 1>> \in p.items[cell.state]

Coherent(p) ==
    /\ WellFormed(p) /\ Transitions(p) /\ GotosExist(p)
    /\ \A cell \in p.entries \cup p.decisions : SoundCell(p, cell)

\* The same of the conflict cells: each of their actions could be in a table.
OpenCellsSound(p) ==
    \A cell \in p.open : \A action \in cell.actions :
        SoundCell(p, [state |-> cell.state, window |-> cell.window, action |-> action])

-----------------------------------------------------------------------------
(* Lookahead: position i of an input stands before element i + 1. *)

\* A fault: the lookahead lags one token behind.
KindBehind(input, i) == IF i = Len(input) THEN EndOfInput ELSE IF i = 0 THEN input[1] ELSE input[i]

KindAt(input, i) == IF i = Len(input) THEN EndOfInput ELSE input[i + 1]

\* The tokens from each position on, whitespace aside.
SolidFrom(p, input) ==
    LET from[i \in 0..(Len(input) + 1)] ==
            IF i >= Len(input) THEN <<>>
            ELSE IF LrIsSpace(p, input[i + 1]) THEN from[i + 1]
            ELSE <<input[i + 1]>> \o from[i + 1]
    IN  from

Solid(p, tokens) == SolidFrom(p, tokens)[0]

\* The j-th token of the input from position i on, whitespace aside.
Ahead(p, input, i, j) ==
    LET solid == SolidFrom(p, input)[i]
    IN  IF j <= Len(solid) THEN solid[j] ELSE EndOfInput

\* _window at a position that is not before whitespace.
Window(p, input, i) ==
    [j \in 1..p.k |-> IF j = 1 THEN KindAt(input, i) ELSE Ahead(p, input, i + 1, j - 1)]

\* The window lr_recover asks about: the missing token, then the input.
InsertWindow(p, input, i, token) ==
    [j \in 1..p.k |-> IF j = 1 THEN token ELSE Ahead(p, input, i, j - 1)]

-----------------------------------------------------------------------------
(* Spans of stack entries: [begin, end, leading, trailing, empty]. *)

TokenSpan(cursor) == [begin |-> cursor, end |-> cursor + 1,
                      leading |-> FALSE, trailing |-> FALSE, empty |-> FALSE]

SyntheticSpan(cursor) == [begin |-> cursor, end |-> cursor,
                          leading |-> FALSE, trailing |-> FALSE, empty |-> TRUE]

\* A fault: only the rule's own gaps count, not the whitespace its members end with.
AllowedByGaps(p, rule, children, lo, hi) == \E gap \in lo..(hi - 1) : LrSpace(p, rule, gap)

\* Whitespace is allowed between member lo and member hi of a rule when only
\* empty members lie between them; 0 and Len + 1 are the ends of the rule.
Allowed(p, rule, children, lo, hi) ==
    \/ lo > 0 /\ children[lo].trailing
    \/ \E gap \in lo..(hi - 1) : LrSpace(p, rule, gap)
    \/ \E i \in (lo + 1)..(hi - 1) : children[i].leading \/ children[i].trailing

Visible(children) == {i \in DOMAIN children : ~children[i].empty}

\* A fault: only members next to each other are compared, empty ones included.
SpaceViolationNextTo(p, rule, children) ==
    \E i \in DOMAIN children :
        /\ i + 1 \in DOMAIN children /\ {i, i + 1} \subseteq Visible(children)
        /\ children[i + 1].begin > children[i].end
        /\ ~Allowed(p, rule, children, i, i + 1)
        /\ ~children[i + 1].leading

\* _reduce_span refuses a gap between two neighbours that touch no whitespace.
SpaceViolation(p, rule, children) ==
    \E i, j \in Visible(children) :
        /\ i < j
        /\ \A m \in (i + 1)..(j - 1) : children[m].empty
        /\ children[j].begin > children[i].end
        /\ ~Allowed(p, rule, children, i, j)
        /\ ~children[j].leading

ReducedSpan(p, rule, children, cursor) ==
    LET after == Len(children) + 1
        first == CHOOSE i \in Visible(children) : \A j \in Visible(children) : i <= j
        last == CHOOSE i \in Visible(children) : \A j \in Visible(children) : j <= i
        everywhere == Allowed(p, rule, children, 0, after)
    IN  IF Visible(children) = {}
        THEN [begin |-> cursor, end |-> cursor,
              leading |-> everywhere, trailing |-> everywhere, empty |-> TRUE]
        ELSE [begin |-> children[first].begin, end |-> children[last].end,
              leading |-> Allowed(p, rule, children, 0, first) \/ children[first].leading,
              trailing |-> Allowed(p, rule, children, last, after), empty |-> FALSE]
=============================================================================
