------------------------- MODULE LRGeneratedProofs -------------------------
(***************************************************************************)
(* Lemmas about the tables and spans of LRGenerated, which the proofs      *)
(* about both LR drivers rest on.                                          *)
(***************************************************************************)
EXTENDS LRBeginnings, WellFoundedInduction, TLAPS

-----------------------------------------------------------------------------
(* Sequences. *)

LEMMA Appended ==
    ASSUME NEW S, NEW s \in Seq(S), NEW e \in S
    PROVE  /\ Append(s, e) \in Seq(S)
           /\ Len(Append(s, e)) = Len(s) + 1
           /\ Append(s, e)[Len(s) + 1] = e
           /\ \A i \in 1..Len(s) : Append(s, e)[i] = s[i]
OBVIOUS

LEMMA Element ==
    ASSUME NEW S, NEW s \in Seq(S), NEW i \in 1..Len(s)
    PROVE  i \in DOMAIN s /\ s[i] \in S
OBVIOUS

LEMMA SameElements ==
    ASSUME NEW S, NEW s \in Seq(S), NEW t \in Seq(S), Len(s) = Len(t), \A i \in 1..Len(t) : s[i] = t[i]
    PROVE  s = t
OBVIOUS

LEMMA Prefix ==
    ASSUME NEW S, NEW s \in Seq(S), NEW n \in 0..Len(s)
    PROVE  /\ SubSeq(s, 1, n) \in Seq(S)
           /\ Len(SubSeq(s, 1, n)) = n
           /\ \A i \in 1..n : SubSeq(s, 1, n)[i] = s[i]
OBVIOUS

-----------------------------------------------------------------------------
(* The action function of the tables. *)

\* An action that is not an error or a conflict comes from a sound cell that
\* covers the window.
LEMMA ActionHasCell ==
    ASSUME NEW p, Coherent(p), NEW s, NEW w,
           LrAction(p, s, w).type \in {"shift", "reduce", "accept"}
    PROVE  \E cell \in p.entries \cup p.decisions :
              SoundCell(p, cell) /\ Covers(cell, s, w) /\ cell.action = LrAction(p, s, w)
<1> DEFINE entries == {c \in p.entries : Covers(c, s, w)}
           decisions == {c \in p.decisions : Covers(c, s, w)}
<1>1. CASE entries # {}
  <2>1. PICK cell \in entries : cell = CHOOSE c \in entries : TRUE
    BY <1>1
  <2>2. LrAction(p, s, w) = cell.action
    BY <1>1, <2>1 DEF LrAction
  <2> QED BY <2>1, <2>2 DEF Coherent
<1>2. CASE entries = {} /\ decisions # {}
  <2>1. PICK cell \in decisions : cell = CHOOSE c \in decisions : TRUE
    BY <1>2
  <2>2. LrAction(p, s, w) = cell.action
    BY <1>2, <2>1 DEF LrAction
  <2> QED BY <2>1, <2>2 DEF Coherent
<1>3. CASE entries = {} /\ decisions = {}
  <2>1. LrAction(p, s, w) \in {Conflict, Invalid}
    BY <1>3 DEF LrAction
  <2> QED BY <2>1 DEF Conflict, Invalid
<1> QED BY <1>1, <1>2, <1>3

\* A shift follows the transition of the first token of the window.
LEMMA ShiftIsTransition ==
    ASSUME NEW p, Coherent(p), NEW s, NEW w, LrAction(p, s, w).type = "shift"
    PROVE  /\ w[1] # EndOfInput /\ w[1] \in STRING
           /\ <<s, w[1]>> \in DOMAIN p.goto
           /\ p.goto[<<s, w[1]>>] = LrAction(p, s, w).state
           /\ LrAction(p, s, w).state \in DOMAIN p.items \ {0}
<1>1. PICK cell \in p.entries \cup p.decisions :
         SoundCell(p, cell) /\ Covers(cell, s, w) /\ cell.action = LrAction(p, s, w)
  BY ActionHasCell
<1>2. cell.window[1] = w[1] /\ cell.state = s /\ cell.window[1] \in STRING
  BY <1>1 DEF SoundCell, Covers
<1>3. Transitions(p)
  BY DEF Coherent
<1> QED BY <1>1, <1>2, <1>3 DEF SoundCell, Transitions

\* A reduction is of a rule whose item is complete in the state.
LEMMA ReduceIsComplete ==
    ASSUME NEW p, Coherent(p), NEW s, NEW w, LrAction(p, s, w).type = "reduce"
    PROVE  LET rule == LrAction(p, s, w).state
           IN  /\ rule \in Nat /\ rule + 1 \in DOMAIN p.productions
               /\ <<rule + 1, LrLength(p, rule)>> \in p.items[s]
<1>1. PICK cell \in p.entries \cup p.decisions :
         SoundCell(p, cell) /\ Covers(cell, s, w) /\ cell.action = LrAction(p, s, w)
  BY ActionHasCell
<1> QED BY <1>1 DEF SoundCell, Covers, LrLength, LrRhs

\* The parse is accepted at the end of the input, after the start symbol.
LEMMA AcceptIsAtTheEnd ==
    ASSUME NEW p, Coherent(p), NEW s, NEW w, LrAction(p, s, w).type = "accept"
    PROVE  w[1] = EndOfInput /\ <<0, 1>> \in p.items[s]
<1>1. PICK cell \in p.entries \cup p.decisions :
         SoundCell(p, cell) /\ Covers(cell, s, w) /\ cell.action = LrAction(p, s, w)
  BY ActionHasCell
<1> QED BY <1>1 DEF SoundCell, Covers

-----------------------------------------------------------------------------
(* Lookahead. *)

LEMMA WindowStarts ==
    ASSUME NEW p, WellFormed(p), NEW text, NEW i, NEW token
    PROVE  /\ Window(p, text, i)[1] = KindAt(text, i)
           /\ InsertWindow(p, text, i, token)[1] = token
BY DEF WellFormed, Window, InsertWindow

-----------------------------------------------------------------------------
(* Spans, with the positions of a set. *)

SpansOver(B) == [begin : B, end : B, leading : BOOLEAN, trailing : BOOLEAN, empty : BOOLEAN]

LEMMA HasFirst ==
    ASSUME NEW S, S \subseteq Nat, S # {}
    PROVE  \E i \in S : \A j \in S : i <= j
<1>1. \E i \in S : \A j \in S : <<j, i>> \notin OpToRel(<, Nat)
  BY NatLessThanWellFounded, WFMin
<1>2. PICK i \in S : \A j \in S : <<j, i>> \notin OpToRel(<, Nat)
  BY <1>1
<1>3. ASSUME NEW j \in S PROVE i <= j
  <2>1. OpToRel(<, Nat) = {pair \in Nat \X Nat : pair[1] < pair[2]}
    BY Zenon DEF OpToRel
  <2>2. <<j, i>> \notin {pair \in Nat \X Nat : pair[1] < pair[2]}
    BY <1>2, <2>1, Zenon
  <2> QED BY <2>2
<1> QED BY <1>3

LEMMA HasLast ==
    ASSUME NEW n \in Nat, NEW S, S \subseteq 1..n, S # {}
    PROVE  \E i \in S : \A j \in S : j <= i
<1> DEFINE T == {n - i : i \in S}
<1>1. T \subseteq Nat /\ T # {}
  <2>1. \A i \in S : n - i \in Nat
    OBVIOUS
  <2> QED BY <2>1
<1>2. PICK t \in T : \A u \in T : t <= u
  BY <1>1, HasFirst
<1>3. PICK i \in S : t = n - i
  BY <1>2
<1>4. ASSUME NEW j \in S PROVE j <= i
  <2>1. n - j \in T /\ t <= n - j
    BY <1>2
  <2> QED BY <2>1, <1>3
<1> QED BY <1>4

\* A reduction begins where its first member that is not empty does and ends
\* where its last one does; when there is none it is empty, at the cursor.
LEMMA ReducedSpanOfEmpty ==
    ASSUME NEW p, NEW rule, NEW children, NEW c, Visible(children) = {}
    PROVE  \E everywhere \in BOOLEAN :
              ReducedSpan(p, rule, children, c) =
                [begin |-> c, end |-> c, leading |-> everywhere, trailing |-> everywhere, empty |-> TRUE]
<1> DEFINE everywhere == Allowed(p, rule, children, 0, Len(children) + 1)
<1>1. everywhere \in BOOLEAN
  BY DEF Allowed
<1>2. ReducedSpan(p, rule, children, c) =
        [begin |-> c, end |-> c, leading |-> everywhere, trailing |-> everywhere, empty |-> TRUE]
  BY DEF ReducedSpan
<1> HIDE DEF everywhere
<1> QED BY <1>1, <1>2

LEMMA ReducedSpanOfVisible ==
    ASSUME NEW p, NEW rule, NEW children, NEW n \in Nat, DOMAIN children = 1..n, Len(children) = n,
           NEW c, Visible(children) # {}
    PROVE  \E first, last \in Visible(children), leading, trailing \in BOOLEAN :
              /\ \A j \in Visible(children) : first <= j /\ j <= last
              /\ ReducedSpan(p, rule, children, c) =
                   [begin |-> children[first].begin, end |-> children[last].end,
                    leading |-> leading, trailing |-> trailing, empty |-> FALSE]
<1> DEFINE V == Visible(children)
           first == CHOOSE i \in V : \A j \in V : i <= j
           last == CHOOSE i \in V : \A j \in V : j <= i
           leading == Allowed(p, rule, children, 0, first) \/ children[first].leading
           trailing == Allowed(p, rule, children, last, n + 1)
<1>1. V \subseteq 1..n /\ V # {}
  BY DEF Visible
<1>2. \E i \in V : \A j \in V : i <= j
  BY <1>1, HasFirst
<1>3. \E i \in V : \A j \in V : j <= i
  BY <1>1, HasLast
<1>4. first \in V /\ \A j \in V : first <= j
  BY <1>2
<1>5. last \in V /\ \A j \in V : j <= last
  BY <1>3
<1>6. ReducedSpan(p, rule, children, c) =
        [begin |-> children[first].begin, end |-> children[last].end,
         leading |-> leading, trailing |-> trailing, empty |-> FALSE]
  BY <1>1 DEF ReducedSpan
<1>7. leading \in BOOLEAN /\ trailing \in BOOLEAN
  BY DEF Allowed
<1> HIDE DEF V, first, last, leading, trailing
<1> QED BY <1>4, <1>5, <1>6, <1>7 DEF V

LEMMA ReducedSpanType ==
    ASSUME NEW p, NEW rule, NEW B, NEW children \in Seq(SpansOver(B)), NEW c \in B
    PROVE  ReducedSpan(p, rule, children, c) \in SpansOver(B)
<1>1. CASE Visible(children) = {}
  <2>1. PICK everywhere \in BOOLEAN :
           ReducedSpan(p, rule, children, c) =
             [begin |-> c, end |-> c, leading |-> everywhere, trailing |-> everywhere, empty |-> TRUE]
    BY <1>1, ReducedSpanOfEmpty
  <2> QED BY <2>1 DEF SpansOver
<1>2. CASE Visible(children) # {}
  <2> DEFINE n == Len(children)
  <2>1. n \in Nat /\ DOMAIN children = 1..n /\ \A i \in 1..n : children[i] \in SpansOver(B)
    OBVIOUS
  <2>2. PICK first, last \in Visible(children), leading, trailing \in BOOLEAN :
          /\ \A j \in Visible(children) : first <= j /\ j <= last
          /\ ReducedSpan(p, rule, children, c) =
               [begin |-> children[first].begin, end |-> children[last].end,
                leading |-> leading, trailing |-> trailing, empty |-> FALSE]
    BY <2>1, <1>2, ReducedSpanOfVisible
  <2>3. children[first] \in SpansOver(B) /\ children[last] \in SpansOver(B)
    BY <2>1, <2>2 DEF Visible
  <2> QED BY <2>2, <2>3 DEF SpansOver
<1> QED BY <1>1, <1>2

-----------------------------------------------------------------------------
(* Spans in a row, of the text of a parser p. *)

Ordered(span) == span.begin <= span.end /\ (span.empty => span.begin = span.end)

LEMMA BlankHere ==
    ASSUME NEW p, NEW text, NEW a \in Int
    PROVE  Blanks(p, text, a, a)
BY DEF Blanks

LEMMA BlankJoins ==
    ASSUME NEW p, NEW text, NEW a \in Int, NEW b \in Int, NEW c \in Int,
           Blanks(p, text, a, b), Blanks(p, text, b, c)
    PROVE  Blanks(p, text, a, c)
<1>1. a <= c
  BY DEF Blanks
<1>2. ASSUME NEW m \in (a + 1)..c PROVE LrIsSpace(p, text[m])
  <2>1. m \in (a + 1)..b \/ m \in (b + 1)..c
    OBVIOUS
  <2> QED BY <2>1 DEF Blanks
<1> QED BY <1>1, <1>2 DEF Blanks

LEMMA SpansTyped ==
    ASSUME NEW spans \in Seq(SpansOver(Int))
    PROVE  /\ Len(spans) \in Nat /\ DOMAIN spans = 1..Len(spans)
           /\ \A i \in 1..Len(spans) : spans[i].begin \in Int /\ spans[i].end \in Int
<1>1. \A i \in 1..Len(spans) : spans[i] \in SpansOver(Int)
  OBVIOUS
<1>2. \A span \in SpansOver(Int) : span.begin \in Int /\ span.end \in Int
  BY DEF SpansOver
<1> QED BY <1>1, <1>2

LEMMA SpansReduced ==
    ASSUME NEW p, NEW rule, NEW spans \in Seq(SpansOver(Int)), NEW c, Visible(spans) # {}
    PROVE  \E first, last \in Visible(spans), leading, trailing \in BOOLEAN :
              /\ \A j \in Visible(spans) : first <= j /\ j <= last
              /\ ReducedSpan(p, rule, spans, c) =
                   [begin |-> spans[first].begin, end |-> spans[last].end,
                    leading |-> leading, trailing |-> trailing, empty |-> FALSE]
<1>1. Len(spans) \in Nat /\ DOMAIN spans = 1..Len(spans)
  OBVIOUS
<1> QED BY <1>1, ReducedSpanOfVisible

\* Spans that follow each other with only whitespace between them.
InARow(p, text, spans) ==
    \A j \in DOMAIN spans :
        /\ Ordered(spans[j])
        /\ j + 1 \in DOMAIN spans => Blanks(p, text, spans[j].end, spans[j + 1].begin)

\* Over members that are all empty there is only whitespace, from the left...
LEMMA BlankUpTo ==
    ASSUME NEW p, NEW text, NEW spans \in Seq(SpansOver(Int)), InARow(p, text, spans),
           NEW lo \in Int, NEW j \in DOMAIN spans,
           Blanks(p, text, lo, spans[1].begin), \A i \in 1..(j - 1) : spans[i].empty
    PROVE  Blanks(p, text, lo, spans[j].begin)
<1> DEFINE Far == {i \in 1..j : ~Blanks(p, text, lo, spans[i].begin)}
           n == Len(spans)
<1>1. n \in Nat /\ DOMAIN spans = 1..n /\ j \in 1..n
  OBVIOUS
<1>2. \A i \in 1..n : spans[i].begin \in Int /\ spans[i].end \in Int
  BY SpansTyped
<1>3. CASE Far = {}
  <2>1. j \in 1..j
    BY <1>1
  <2> QED BY <2>1, <1>3
<1>4. CASE Far # {}
  <2>1. Far \subseteq Nat
    OBVIOUS
  <2>2. PICK i \in Far : \A k \in Far : i <= k
    BY <1>4, <2>1, HasFirst
  <2>3. i \in 1..j /\ ~Blanks(p, text, lo, spans[i].begin) /\ i # 1
    BY <2>2
  <2> HIDE DEF n
  <2>4. i - 1 \in 1..(j - 1) /\ i - 1 \in 1..n /\ i \in 1..n /\ i - 1 + 1 = i /\ ~(i <= i - 1)
    BY <2>3, <1>1
  <2>5. Blanks(p, text, lo, spans[i - 1].begin)
    <3>1. i - 1 \notin Far
      BY <2>2, <2>4
    <3>2. i - 1 \in 1..j
      BY <2>3
    <3> QED BY <3>1, <3>2
  <2>6. spans[i - 1].begin = spans[i - 1].end /\ Blanks(p, text, spans[i - 1].end, spans[i].begin)
    BY <2>4, <1>1 DEF InARow, Ordered
  <2>7. Blanks(p, text, lo, spans[i].begin)
    BY <2>4, <2>5, <2>6, <1>2, BlankJoins
  <2> QED BY <2>3, <2>7
<1> QED BY <1>3, <1>4

\* ...and from the right.
LEMMA BlankFrom ==
    ASSUME NEW p, NEW text, NEW spans \in Seq(SpansOver(Int)), InARow(p, text, spans),
           NEW hi \in Int, NEW j \in DOMAIN spans,
           Blanks(p, text, spans[Len(spans)].end, hi), \A i \in (j + 1)..Len(spans) : spans[i].empty
    PROVE  Blanks(p, text, spans[j].end, hi)
<1> DEFINE n == Len(spans)
           Far == {i \in j..n : ~Blanks(p, text, spans[i].end, hi)}
<1>1. n \in Nat /\ DOMAIN spans = 1..n /\ j \in 1..n
  OBVIOUS
<1>2. \A i \in 1..n : spans[i].begin \in Int /\ spans[i].end \in Int
  BY SpansTyped
<1>3. CASE Far = {}
  <2>1. j \in j..n
    BY <1>1
  <2> QED BY <2>1, <1>3
<1>4. CASE Far # {}
  <2>1. Far \subseteq 1..n
    BY <1>1
  <2>2. PICK i \in Far : \A k \in Far : k <= i
    <3> HIDE DEF Far, n
    <3> QED BY <1>1, <1>4, <2>1, HasLast
  <2>3. i \in j..n /\ ~Blanks(p, text, spans[i].end, hi) /\ i # n
    BY <2>2
  <2> HIDE DEF n
  <2>4. i + 1 \in (j + 1)..n /\ i + 1 \in 1..n /\ i \in 1..n /\ ~(i + 1 <= i)
    BY <2>3, <1>1
  <2>5. Blanks(p, text, spans[i + 1].end, hi)
    <3>1. i + 1 \notin Far
      BY <2>2, <2>4
    <3>2. i + 1 \in j..n
      BY <2>3, <1>1
    <3> QED BY <3>1, <3>2
  <2>6. spans[i + 1].begin = spans[i + 1].end
    <3>1. spans[i + 1].empty
      BY <2>4 DEF n
    <3> QED BY <3>1, <2>4, <1>1 DEF InARow, Ordered
  <2>7. Blanks(p, text, spans[i].end, spans[i + 1].begin)
    BY <2>4, <1>1 DEF InARow
  <2>8. Blanks(p, text, spans[i].end, hi)
    BY <2>4, <2>5, <2>6, <2>7, <1>2, BlankJoins
  <2> QED BY <2>3, <2>8
<1> QED BY <1>3, <1>4

\* Of spans in a row, an earlier one begins before a later one ends.
LEMMA RowIsOrdered ==
    ASSUME NEW p, NEW text, NEW spans \in Seq(SpansOver(Int)), InARow(p, text, spans),
           NEW i \in DOMAIN spans, NEW j \in DOMAIN spans, i <= j
    PROVE  spans[i].begin <= spans[j].end
<1> DEFINE n == Len(spans)
           Early == {k \in i..j : ~(spans[i].begin <= spans[k].end)}
<1>1. n \in Nat /\ DOMAIN spans = 1..n /\ i \in 1..n /\ j \in 1..n
  OBVIOUS
<1>2. \A k \in 1..n : spans[k].begin \in Int /\ spans[k].end \in Int
  BY SpansTyped
<1>3. CASE Early = {}
  <2>1. j \in i..j
    BY <1>1
  <2> QED BY <2>1, <1>3
<1>4. CASE Early # {}
  <2>1. Early \subseteq Nat
    BY <1>1
  <2>2. PICK k \in Early : \A other \in Early : k <= other
    <3> HIDE DEF Early
    <3> QED BY <1>4, <2>1, HasFirst
  <2>3. k \in i..j /\ ~(spans[i].begin <= spans[k].end)
    BY <2>2
  <2>4. k # i
    BY <2>3, <1>1 DEF InARow, Ordered
  <2> HIDE DEF n
  <2>5. k - 1 \in i..j /\ k - 1 \in 1..n /\ k \in 1..n /\ k - 1 + 1 = k /\ ~(k <= k - 1)
    BY <2>3, <2>4, <1>1
  <2>6. spans[i].begin <= spans[k - 1].end
    BY <2>2, <2>5
  <2>7. spans[k - 1].end <= spans[k].begin /\ spans[k].begin <= spans[k].end
    BY <2>5, <1>1 DEF InARow, Ordered, Blanks
  <2> QED BY <2>3, <2>5, <2>6, <2>7, <1>1, <1>2
<1> QED BY <1>3, <1>4

\* What a reduction makes of spans in a row lies between the same positions.
LEMMA ReducedSpanLies ==
    ASSUME NEW p, NEW text, NEW rule, NEW spans \in Seq(SpansOver(Int)), InARow(p, text, spans),
           NEW lo \in Int, NEW hi \in Int,
           IF spans = <<>> THEN Blanks(p, text, lo, hi)
           ELSE Blanks(p, text, lo, spans[1].begin) /\ Blanks(p, text, spans[Len(spans)].end, hi)
    PROVE  LET span == ReducedSpan(p, rule, spans, hi)
           IN  Ordered(span) /\ Blanks(p, text, lo, span.begin) /\ Blanks(p, text, span.end, hi)
<1> DEFINE n == Len(spans)
           V == Visible(spans)
           span == ReducedSpan(p, rule, spans, hi)
<1>1. n \in Nat /\ DOMAIN spans = 1..n /\ \A i \in 1..n : spans[i].begin \in Int /\ spans[i].end \in Int
  BY SpansTyped
<1>2. CASE V = {}
  <2>1. \A i \in 1..n : spans[i].empty
    BY <1>1, <1>2 DEF Visible
  <2>2. span.begin = hi /\ span.end = hi
    BY <1>2, ReducedSpanOfEmpty
  <2>3. Ordered(span)
    BY <2>2 DEF Ordered
  <2>4. Blanks(p, text, lo, hi)
    <3>1. CASE spans = <<>>
      BY <3>1
    <3>2. CASE spans # <<>>
      <4>1. 1 \in 1..n /\ n \in 1..n
        BY <3>2, <1>1
      <4>2. Blanks(p, text, lo, spans[n].begin)
        <5>1. \A i \in 1..(n - 1) : spans[i].empty
          BY <2>1, <1>1
        <5> QED BY <5>1, <4>1, <3>2, <1>1, BlankUpTo
      <4>3. spans[n].begin = spans[n].end
        BY <4>1, <2>1, <1>1 DEF InARow, Ordered
      <4>4. Blanks(p, text, spans[n].end, hi)
        BY <3>2
      <4> QED BY <4>1, <4>2, <4>3, <4>4, <1>1, BlankJoins
    <3> QED BY <3>1, <3>2
  <2>5. Blanks(p, text, hi, hi)
    BY BlankHere
  <2> HIDE DEF span
  <2> QED BY <2>2, <2>3, <2>4, <2>5 DEF span
<1>3. CASE V # {}
  <2>1. PICK first, last \in Visible(spans), leading, trailing \in BOOLEAN :
          /\ \A j \in Visible(spans) : first <= j /\ j <= last
          /\ ReducedSpan(p, rule, spans, hi) =
               [begin |-> spans[first].begin, end |-> spans[last].end,
                leading |-> leading, trailing |-> trailing, empty |-> FALSE]
    BY <1>3, SpansReduced
  <2>2. span.begin = spans[first].begin /\ span.end = spans[last].end /\ span.empty = FALSE
    BY <2>1
  <2> HIDE DEF span
  <2>3. first \in 1..n /\ last \in 1..n /\ first <= last
    BY <2>1, <1>1 DEF Visible
  <2>4. \A i \in 1..n : ~spans[i].empty => i \in V
    BY <1>1 DEF Visible
  <2> HIDE DEF V
  <2>5. spans # <<>>
    BY <2>3, <1>1
  <2>6. Ordered(span)
    BY <2>2, <2>3, <1>1, RowIsOrdered DEF Ordered
  <2>7. Blanks(p, text, lo, spans[first].begin)
    <3>1. ASSUME NEW i \in 1..(first - 1) PROVE spans[i].empty
      <4>1. i \in 1..n /\ ~(first <= i)
        BY <2>3, <1>1
      <4> QED BY <4>1, <2>1, <2>4 DEF V
    <3> QED BY <3>1, <2>3, <2>5, <1>1, BlankUpTo
  <2>8. Blanks(p, text, spans[last].end, hi)
    <3>1. ASSUME NEW i \in (last + 1)..n PROVE spans[i].empty
      <4>1. i \in 1..n /\ ~(i <= last)
        BY <2>3, <1>1
      <4> QED BY <4>1, <2>1, <2>4 DEF V
    <3> QED BY <3>1, <2>3, <2>5, <1>1, BlankFrom
  <2> QED BY <2>2, <2>6, <2>7, <2>8 DEF span
<1> QED BY <1>2, <1>3

LEMMA LeafDerived ==
    ASSUME NEW p, NEW text, NEW i \in DOMAIN text
    PROVE  Derived(p, text, text[i], i - 1, i, <<>>)
BY DEF Derived, ClosedUnder

LEMMA StartDerived ==
    ASSUME NEW p, NEW text, NEW id \in Rules(p), NEW lo \in Places(text), NEW hi \in Places(text),
           Gap(p, text, id, 0, lo, hi)
    PROVE  PartDerived(p, text, id, 0, lo, hi, <<>>)
BY DEF PartDerived, ClosedUnder

LEMMA MemberDerived ==
    ASSUME NEW p, NEW text, NEW id \in Rules(p), NEW d \in DOMAIN p.productions[id].rhs,
           NEW lo \in Places(text), NEW from \in Places(text), NEW to \in Places(text), NEW hi \in Places(text),
           NEW before \in Seq(Nat), NEW own \in Seq(Nat),
           PartDerived(p, text, id, d - 1, lo, from, before),
           Derived(p, text, p.productions[id].rhs[d], from, to, own),
           Gap(p, text, id, d, to, hi)
    PROVE  PartDerived(p, text, id, d, lo, hi, before \o own)
<1> SUFFICES ASSUME NEW whole, NEW part, ClosedUnder(p, text, whole, part)
             PROVE  <<id, d, lo, hi, before \o own>> \in part
  BY DEF PartDerived
<1>1. <<id, d - 1, lo, from, before>> \in part /\ <<p.productions[id].rhs[d], from, to, own>> \in whole
  BY DEF PartDerived, Derived
<1> QED BY <1>1 DEF ClosedUnder

LEMMA RuleDerived ==
    ASSUME NEW p, NEW text, NEW id \in Rules(p), NEW lo \in Places(text), NEW hi \in Places(text),
           NEW calls \in Seq(Nat), PartDerived(p, text, id, Len(p.productions[id].rhs), lo, hi, calls)
    PROVE  Derived(p, text, p.productions[id].lhs, lo, hi, Append(calls, id - 1))
<1> SUFFICES ASSUME NEW whole, NEW part, ClosedUnder(p, text, whole, part)
             PROVE  <<p.productions[id].lhs, lo, hi, Append(calls, id - 1)>> \in whole
  BY DEF Derived
<1>1. <<id, Len(p.productions[id].rhs), lo, hi, calls>> \in part
  BY DEF PartDerived
<1> QED BY <1>1 DEF ClosedUnder

\* A symbol with a span: it can be read anywhere the span leaves room for, its
\* whitespace included; an empty one wherever the text has what it allows.
Fits(p, text, span, lo, hi) ==
    IF span.empty THEN Blanks(p, text, lo, hi) /\ (lo = hi \/ span.leading \/ span.trailing)
    ELSE /\ Blanks(p, text, lo, span.begin) /\ (lo = span.begin \/ span.leading)
         /\ Blanks(p, text, span.end, hi) /\ (hi = span.end \/ span.trailing)

Reads(p, text, symbol, span, calls) ==
    \A lo, hi \in Places(text) : Fits(p, text, span, lo, hi) => Derived(p, text, symbol, lo, hi, calls)

\* The last member before the dot that is not empty, 0 for none.
LastBefore(spans, d, l) ==
    /\ l \in 0..d /\ (l = 0 \/ l \in Visible(spans))
    /\ \A j \in (l + 1)..d : j \notin Visible(spans)

EdgeOf(spans, l, lo) == IF l = 0 THEN lo ELSE spans[l].end

\* Where a rule may begin, given its first member that is not empty...
Begins(p, text, rule, spans, lo) ==
    \A f \in Visible(spans) :
        (\A j \in Visible(spans) : f <= j) =>
            /\ Blanks(p, text, lo, spans[f].begin)
            /\ lo = spans[f].begin \/ spans[f].leading \/ Allowed(p, rule, spans, 0, f)

\* ...and where the gap behind its first d members may end.
Ends(p, text, rule, spans, d, lo, hi) ==
    \A l \in 0..d : LastBefore(spans, d, l) =>
        /\ Blanks(p, text, EdgeOf(spans, l, lo), hi)
        /\ hi = EdgeOf(spans, l, lo) \/ Allowed(p, rule, spans, l, d + 1)

PartReads(p, text, rule, spans, d, calls) ==
    \A lo, hi \in Places(text) :
        Begins(p, text, rule, spans, lo) /\ Ends(p, text, rule, spans, d, lo, hi)
            => PartDerived(p, text, rule + 1, d, lo, hi, calls)

LEMMA NothingReads ==
    ASSUME NEW p, NEW text, NEW rule \in Nat, rule + 1 \in DOMAIN p.productions, NEW spans
    PROVE  PartReads(p, text, rule, spans, 0, <<>>)
<1> SUFFICES ASSUME NEW lo \in Places(text), NEW hi \in Places(text),
                    Ends(p, text, rule, spans, 0, lo, hi)
             PROVE  PartDerived(p, text, rule + 1, 0, lo, hi, <<>>)
  BY DEF PartReads
<1>1. LastBefore(spans, 0, 0)
  BY DEF LastBefore
<1>2. Blanks(p, text, lo, hi) /\ (hi = lo \/ Allowed(p, rule, spans, 0, 1))
  BY <1>1 DEF Ends, EdgeOf
<1>3. Allowed(p, rule, spans, 0, 1) => 0 \in p.productions[rule + 1].gaps
  BY DEF Allowed, LrSpace
<1>4. rule + 1 \in Rules(p)
  BY DEF Rules
<1> QED BY <1>2, <1>3, <1>4, StartDerived DEF Gap

LEMMA LastExists ==
    ASSUME NEW spans, NEW d \in Nat
    PROVE  \E l \in 0..d : LastBefore(spans, d, l)
<1> DEFINE S == {j \in 1..d : j \in Visible(spans)}
<1>1. CASE S = {}
  BY <1>1 DEF LastBefore
<1>2. CASE S # {}
  <2>1. S \subseteq 1..d
    OBVIOUS
  <2>2. PICK l \in S : \A j \in S : j <= l
    <3> HIDE DEF S
    <3> QED BY <1>2, <2>1, HasLast
  <2>3. l \in 1..d /\ l \in Visible(spans)
    BY <2>2
  <2>4. \A j \in (l + 1)..d : j \notin Visible(spans)
    <3> SUFFICES ASSUME NEW j \in (l + 1)..d, j \in Visible(spans) PROVE FALSE
      OBVIOUS
    <3>1. j \in S /\ ~(j <= l)
      BY <2>3
    <3> QED BY <3>1, <2>2
  <2> QED BY <2>3, <2>4 DEF LastBefore
<1> QED BY <1>1, <1>2

LEMMA LastIsOne ==
    ASSUME NEW spans, NEW d \in Nat, NEW l \in 0..d, NEW k \in 0..d,
           LastBefore(spans, d, l), LastBefore(spans, d, k)
    PROVE  l = k
<1>1. ~(l < k)
  <2> SUFFICES ASSUME l < k PROVE FALSE
    OBVIOUS
  <2>1. k \in (l + 1)..d /\ k # 0
    OBVIOUS
  <2> QED BY <2>1 DEF LastBefore
<1>2. ~(k < l)
  <2> SUFFICES ASSUME k < l PROVE FALSE
    OBVIOUS
  <2>1. l \in (k + 1)..d /\ l # 0
    OBVIOUS
  <2> QED BY <2>1 DEF LastBefore
<1> QED BY <1>1, <1>2

LEMMA AllowedOneMore ==
    ASSUME NEW p, NEW rule, NEW spans, NEW lo \in Nat, NEW hi \in Nat, lo < hi
    PROVE  Allowed(p, rule, spans, lo, hi + 1) <=>
             \/ Allowed(p, rule, spans, lo, hi) \/ LrSpace(p, rule, hi)
             \/ spans[hi].leading \/ spans[hi].trailing
<1>1. \A g : g \in lo..(hi + 1 - 1) <=> g \in lo..(hi - 1) \/ g = hi
  OBVIOUS
<1>2. \A i : i \in (lo + 1)..(hi + 1 - 1) <=> i \in (lo + 1)..(hi - 1) \/ i = hi
  OBVIOUS
<1> QED BY <1>1, <1>2 DEF Allowed

LEMMA AllowedNext ==
    ASSUME NEW p, NEW rule, NEW spans, NEW lo \in Nat
    PROVE  Allowed(p, rule, spans, lo, lo + 1) <=> (lo > 0 /\ spans[lo].trailing) \/ LrSpace(p, rule, lo)
<1>1. \A g : g \in lo..(lo + 1 - 1) <=> g = lo
  OBVIOUS
<1>2. \A i : i \notin (lo + 1)..(lo + 1 - 1)
  OBVIOUS
<1> QED BY <1>1, <1>2 DEF Allowed
\* Members that are empty take no place between two others.
LEMMA RowBlank ==
    ASSUME NEW p, NEW text, NEW spans \in Seq(SpansOver(Int)), InARow(p, text, spans),
           NEW i \in DOMAIN spans, NEW j \in DOMAIN spans, i < j,
           \A m \in (i + 1)..(j - 1) : spans[m].empty
    PROVE  Blanks(p, text, spans[i].end, spans[j].begin)
<1> DEFINE Far == {k \in (i + 1)..j : ~Blanks(p, text, spans[i].end, spans[k].begin)}
           n == Len(spans)
<1>1. n \in Nat /\ DOMAIN spans = 1..n /\ i \in 1..n /\ j \in 1..n
  OBVIOUS
<1>2. \A k \in 1..n : spans[k].begin \in Int /\ spans[k].end \in Int
  BY SpansTyped
<1>3. CASE Far = {}
  <2>1. j \in (i + 1)..j
    BY <1>1
  <2> QED BY <2>1, <1>3
<1>4. CASE Far # {}
  <2>1. Far \subseteq Nat
    BY <1>1
  <2>2. PICK k \in Far : \A other \in Far : k <= other
    <3> HIDE DEF Far
    <3> QED BY <1>4, <2>1, HasFirst
  <2>3. k \in (i + 1)..j /\ ~Blanks(p, text, spans[i].end, spans[k].begin)
    BY <2>2
  <2> HIDE DEF n
  <2>4. k - 1 \in 1..n /\ k \in 1..n /\ k - 1 + 1 = k /\ ~(k <= k - 1)
    BY <2>3, <1>1
  <2>5. Blanks(p, text, spans[k - 1].end, spans[k].begin)
    BY <2>4, <1>1 DEF InARow
  <2>6. k - 1 # i
    BY <2>3, <2>5
  <2>7. k - 1 \in (i + 1)..j /\ k - 1 \in (i + 1)..(j - 1)
    BY <2>3, <2>6, <1>1
  <2>8. Blanks(p, text, spans[i].end, spans[k - 1].begin)
    <3>1. k - 1 \notin Far
      BY <2>2, <2>4
    <3> QED BY <3>1, <2>7
  <2>9. spans[k - 1].begin = spans[k - 1].end
    BY <2>4, <2>7, <1>1 DEF InARow, Ordered
  <2> QED BY <2>3, <2>4, <2>5, <2>8, <2>9, <1>1, <1>2, BlankJoins
<1> QED BY <1>3, <1>4

LEMMA PlacesTyped ==
    ASSUME NEW text \in Seq(STRING), NEW spans \in Seq(SpansOver(Places(text)))
    PROVE  /\ spans \in Seq(SpansOver(Int)) /\ Len(spans) \in Nat /\ DOMAIN spans = 1..Len(spans)
           /\ \A i \in 1..Len(spans) :
                 /\ spans[i].begin \in Places(text) /\ spans[i].end \in Places(text)
                 /\ spans[i].leading \in BOOLEAN /\ spans[i].trailing \in BOOLEAN /\ spans[i].empty \in BOOLEAN
<1>1. Places(text) \subseteq Int
  BY DEF Places
<1>2. \A i \in 1..Len(spans) : spans[i] \in SpansOver(Places(text))
  OBVIOUS
<1>3. SpansOver(Places(text)) \subseteq SpansOver(Int)
  BY <1>1 DEF SpansOver
<1>4. \A span \in SpansOver(Places(text)) :
         /\ span.begin \in Places(text) /\ span.end \in Places(text)
         /\ span.leading \in BOOLEAN /\ span.trailing \in BOOLEAN /\ span.empty \in BOOLEAN
  BY DEF SpansOver
<1> QED BY <1>2, <1>3, <1>4

\* A row of members of which the first d - 1 can be read, and the next one too.
Rowed(p, text, rule, spans, d) ==
    /\ text \in Seq(STRING) /\ spans \in Seq(SpansOver(Places(text)))
    /\ InARow(p, text, spans) /\ ~SpaceViolation(p, rule, spans)
    /\ rule \in Nat /\ rule + 1 \in DOMAIN p.productions
    /\ Len(spans) = LrLength(p, rule)
    /\ d \in DOMAIN spans

LEMMA RowedFacts ==
    ASSUME NEW p, NEW text, NEW rule, NEW spans, NEW d, Rowed(p, text, rule, spans, d)
    PROVE  /\ d \in Nat \ {0} /\ d - 1 \in Nat /\ rule + 1 \in Rules(p)
           /\ Len(text) \in Nat
           /\ d \in DOMAIN p.productions[rule + 1].rhs \/ p.productions[rule + 1].rhs \notin Seq(STRING)
<1>1. spans \in Seq(SpansOver(Places(text))) /\ d \in 1..Len(spans) /\ Len(spans) \in Nat
  BY DEF Rowed
<1>2. rule + 1 # 0
  BY DEF Rowed
<1>3. p.productions[rule + 1].rhs \in Seq(STRING) =>
         DOMAIN p.productions[rule + 1].rhs = 1..Len(p.productions[rule + 1].rhs)
  OBVIOUS
<1>4. Len(spans) = Len(p.productions[rule + 1].rhs)
  BY DEF Rowed, LrLength, LrRhs
<1> QED BY <1>1, <1>2, <1>3, <1>4 DEF Rowed, Rules

\* The next member, read from one position to another, and its gap.
LEMMA OneMemberMore ==
    ASSUME NEW p, NEW text, NEW rule, NEW spans, NEW d, Rowed(p, text, rule, spans, d),
           p.productions[rule + 1].rhs \in Seq(STRING),
           NEW before \in Seq(Nat), NEW own \in Seq(Nat),
           PartReads(p, text, rule, spans, d - 1, before),
           Reads(p, text, LrRhs(p, rule)[d], spans[d], own),
           NEW lo \in Places(text), NEW from \in Places(text), NEW to \in Places(text), NEW hi \in Places(text),
           Begins(p, text, rule, spans, lo),
           Ends(p, text, rule, spans, d - 1, lo, from),
           Fits(p, text, spans[d], from, to),
           to = hi \/ (LrSpace(p, rule, d) /\ Blanks(p, text, to, hi))
    PROVE  PartDerived(p, text, rule + 1, d, lo, hi, before \o own)
<1>1. PartDerived(p, text, rule + 1, d - 1, lo, from, before)
  BY DEF PartReads
<1>2. Derived(p, text, p.productions[rule + 1].rhs[d], from, to, own)
  BY DEF Reads, LrRhs
<1>3. Gap(p, text, rule + 1, d, to, hi)
  BY DEF Gap, LrSpace
<1>4. rule + 1 \in Rules(p) /\ d \in DOMAIN p.productions[rule + 1].rhs
  BY RowedFacts
<1> QED BY <1>1, <1>2, <1>3, <1>4, MemberDerived

\* The gap behind the members so far may end where it may end for the last one.
LEMMA EndsAt ==
    ASSUME NEW p, NEW text, NEW rule, NEW spans, NEW d \in Nat, NEW l \in 0..d, LastBefore(spans, d, l),
           NEW lo, NEW hi, Blanks(p, text, EdgeOf(spans, l, lo), hi),
           hi = EdgeOf(spans, l, lo) \/ Allowed(p, rule, spans, l, d + 1)
    PROVE  Ends(p, text, rule, spans, d, lo, hi)
BY LastIsOne DEF Ends

LEMMA EmptyMemberMore ==
    ASSUME NEW p, NEW text, NEW rule, NEW spans, NEW d, Rowed(p, text, rule, spans, d),
           p.productions[rule + 1].rhs \in Seq(STRING),
           NEW before \in Seq(Nat), NEW own \in Seq(Nat),
           PartReads(p, text, rule, spans, d - 1, before),
           Reads(p, text, LrRhs(p, rule)[d], spans[d], own),
           spans[d].empty
    PROVE  PartReads(p, text, rule, spans, d, before \o own)
<1> SUFFICES ASSUME NEW lo \in Places(text), NEW hi \in Places(text),
                    Begins(p, text, rule, spans, lo), Ends(p, text, rule, spans, d, lo, hi)
             PROVE  PartDerived(p, text, rule + 1, d, lo, hi, before \o own)
  BY DEF PartReads
<1>1. d \in Nat /\ d # 0 /\ d - 1 \in Nat /\ d - 1 + 1 = d
  BY RowedFacts
<1>2. PICK l \in 0..d : LastBefore(spans, d, l)
  BY <1>1, LastExists
<1> DEFINE edge == EdgeOf(spans, l, lo)
<1>3. l # d /\ l \in 0..(d - 1) /\ l \in Nat /\ l < d
  <2>1. d \notin Visible(spans)
    BY DEF Visible
  <2> QED BY <1>1, <1>2, <2>1 DEF LastBefore
<1>4. LastBefore(spans, d - 1, l)
  BY <1>1, <1>2, <1>3 DEF LastBefore
<1>5. Blanks(p, text, edge, hi) /\ (hi = edge \/ Allowed(p, rule, spans, l, d + 1))
  BY <1>2 DEF Ends
<1>6. edge \in Places(text) /\ edge \in Int /\ hi \in Int
  <2>1. l # 0 => l \in 1..Len(spans)
    BY <1>1, <1>3 DEF Rowed
  <2>2. l # 0 => spans[l].end \in Places(text)
    BY <2>1, PlacesTyped DEF Rowed
  <2> QED BY <2>2 DEF EdgeOf, Places
<1>7. Allowed(p, rule, spans, l, d + 1) =>
        Allowed(p, rule, spans, l, d) \/ LrSpace(p, rule, d) \/ spans[d].leading \/ spans[d].trailing
  BY <1>1, <1>3, AllowedOneMore
<1> HIDE DEF edge
<1>8. Blanks(p, text, edge, edge) /\ Blanks(p, text, hi, hi)
  BY <1>6, BlankHere
<1>9. CASE hi = edge \/ Allowed(p, rule, spans, l, d)
  <2>1. Ends(p, text, rule, spans, d - 1, lo, hi)
    BY <1>1, <1>3, <1>4, <1>5, <1>9, EndsAt DEF edge
  <2>2. Fits(p, text, spans[d], hi, hi)
    BY <1>8 DEF Fits
  <2> QED BY <2>1, <2>2, OneMemberMore
<1>10. CASE LrSpace(p, rule, d) \/ spans[d].leading \/ spans[d].trailing
  <2>1. Ends(p, text, rule, spans, d - 1, lo, edge)
    BY <1>1, <1>3, <1>4, <1>8, EndsAt DEF edge
  <2>2. CASE LrSpace(p, rule, d)
    <3>1. Fits(p, text, spans[d], edge, edge)
      BY <1>8 DEF Fits
    <3> QED BY <1>5, <1>6, <2>1, <2>2, <3>1, OneMemberMore
  <2>3. CASE spans[d].leading \/ spans[d].trailing
    <3>1. Fits(p, text, spans[d], edge, hi)
      BY <1>5, <2>3 DEF Fits
    <3> QED BY <1>6, <2>1, <3>1, OneMemberMore
  <2> QED BY <1>10, <2>2, <2>3
<1> QED BY <1>5, <1>7, <1>9, <1>10

\* Where the next member that is not empty joins those before it.
LEMMA JoinsThere ==
    ASSUME NEW p, NEW text, NEW rule, NEW spans, NEW d, Rowed(p, text, rule, spans, d),
           ~spans[d].empty, NEW lo \in Places(text), Begins(p, text, rule, spans, lo),
           NEW l \in 0..(d - 1), LastBefore(spans, d - 1, l)
    PROVE  /\ Blanks(p, text, EdgeOf(spans, l, lo), spans[d].begin)
           /\ \/ EdgeOf(spans, l, lo) = spans[d].begin \/ spans[d].leading
              \/ Allowed(p, rule, spans, l, d)
<1>1. /\ d \in 1..Len(spans) /\ Len(spans) \in Nat /\ DOMAIN spans = 1..Len(spans)
      /\ spans \in Seq(SpansOver(Int)) /\ InARow(p, text, spans) /\ ~SpaceViolation(p, rule, spans)
  BY PlacesTyped DEF Rowed
<1>2. d \in Visible(spans)
  BY <1>1 DEF Visible
<1>3. \A j \in (l + 1)..(d - 1) : j \notin Visible(spans)
  BY DEF LastBefore
<1>4. CASE l = 0
  <2>1. \A j \in Visible(spans) : d <= j
    <3> SUFFICES ASSUME NEW j \in Visible(spans), ~(d <= j) PROVE FALSE
      OBVIOUS
    <3>1. j \in 1..Len(spans)
      BY <1>1 DEF Visible
    <3>2. j \in (l + 1)..(d - 1)
      BY <3>1, <1>1, <1>4
    <3> QED BY <3>2, <1>3
  <2> QED BY <1>2, <1>4, <2>1 DEF Begins, EdgeOf
<1>5. CASE l # 0
  <2>1. l \in Visible(spans) /\ l \in 1..Len(spans) /\ l < d
    BY <1>1, <1>5 DEF LastBefore
  <2>2. \A j \in (l + 1)..(d - 1) : spans[j].empty
    <3> SUFFICES ASSUME NEW j \in (l + 1)..(d - 1), ~spans[j].empty PROVE FALSE
      OBVIOUS
    <3>1. j \in DOMAIN spans
      BY <1>1, <2>1
    <3> QED BY <3>1, <1>3 DEF Visible
  <2>3. Blanks(p, text, spans[l].end, spans[d].begin)
    BY <1>1, <2>1, <2>2, RowBlank
  <2>4. spans[d].begin > spans[l].end => Allowed(p, rule, spans, l, d) \/ spans[d].leading
    BY <1>1, <1>2, <2>1, <2>2 DEF SpaceViolation
  <2>5. spans[l].end <= spans[d].begin
    BY <2>3 DEF Blanks
  <2>6. spans[l].end \in Int /\ spans[d].begin \in Int
    BY <1>1, <2>1, SpansTyped
  <2>7. spans[l].end = spans[d].begin \/ spans[d].begin > spans[l].end
    BY <2>5, <2>6
  <2> QED BY <1>5, <2>3, <2>4, <2>7 DEF EdgeOf
<1> QED BY <1>4, <1>5

LEMMA VisibleMemberMore ==
    ASSUME NEW p, NEW text, NEW rule, NEW spans, NEW d, Rowed(p, text, rule, spans, d),
           p.productions[rule + 1].rhs \in Seq(STRING),
           NEW before \in Seq(Nat), NEW own \in Seq(Nat),
           PartReads(p, text, rule, spans, d - 1, before),
           Reads(p, text, LrRhs(p, rule)[d], spans[d], own),
           ~spans[d].empty
    PROVE  PartReads(p, text, rule, spans, d, before \o own)
<1> SUFFICES ASSUME NEW lo \in Places(text), NEW hi \in Places(text),
                    Begins(p, text, rule, spans, lo), Ends(p, text, rule, spans, d, lo, hi)
             PROVE  PartDerived(p, text, rule + 1, d, lo, hi, before \o own)
  BY DEF PartReads
<1> DEFINE begin == spans[d].begin
           end == spans[d].end
<1>1. /\ d \in Nat /\ d # 0 /\ d - 1 \in Nat /\ d - 1 + 1 = d /\ d \in DOMAIN spans
      /\ begin \in Places(text) /\ end \in Places(text) /\ begin \in Int /\ end \in Int
  BY RowedFacts, PlacesTyped DEF Rowed, Places
<1>2. LastBefore(spans, d, d)
  BY <1>1 DEF LastBefore, Visible
<1>3. Blanks(p, text, end, hi) /\ (hi = end \/ Allowed(p, rule, spans, d, d + 1))
  BY <1>1, <1>2 DEF Ends, EdgeOf
<1>4. Allowed(p, rule, spans, d, d + 1) => spans[d].trailing \/ LrSpace(p, rule, d)
  BY <1>1, AllowedNext
<1>5. PICK l \in 0..(d - 1) : LastBefore(spans, d - 1, l)
  BY <1>1, LastExists
<1> DEFINE edge == EdgeOf(spans, l, lo)
<1>6. Blanks(p, text, edge, begin) /\ (edge = begin \/ spans[d].leading \/ Allowed(p, rule, spans, l, d))
  BY <1>5, JoinsThere
<1>7. edge \in Places(text) /\ edge \in Int /\ hi \in Int
  <2>1. l # 0 => l \in 1..Len(spans)
    <3>1. d \in 1..Len(spans) /\ Len(spans) \in Nat
      BY DEF Rowed
    <3> QED BY <3>1
  <2>2. l # 0 => spans[l].end \in Places(text)
    BY <2>1, PlacesTyped DEF Rowed
  <2> QED BY <2>2 DEF EdgeOf, Places
<1>8. Blanks(p, text, edge, edge) /\ Blanks(p, text, begin, begin) /\ Blanks(p, text, end, end)
      /\ Blanks(p, text, hi, hi)
  BY <1>1, <1>7, BlankHere
<1> HIDE DEF edge, begin, end
<1>9. \E from \in Places(text) :
         /\ Ends(p, text, rule, spans, d - 1, lo, from)
         /\ Blanks(p, text, from, begin) /\ (from = begin \/ spans[d].leading)
  <2>1. CASE edge = begin \/ Allowed(p, rule, spans, l, d)
    <3>1. Ends(p, text, rule, spans, d - 1, lo, begin)
      BY <1>1, <1>5, <1>6, <2>1, EndsAt DEF edge
    <3> QED BY <3>1, <1>1, <1>8
  <2>2. CASE spans[d].leading
    <3>1. Ends(p, text, rule, spans, d - 1, lo, edge)
      BY <1>1, <1>5, <1>8, EndsAt DEF edge
    <3> QED BY <3>1, <1>6, <1>7, <2>2
  <2> QED BY <1>6, <2>1, <2>2
<1>10. PICK from \in Places(text) :
          /\ Ends(p, text, rule, spans, d - 1, lo, from)
          /\ Blanks(p, text, from, begin) /\ (from = begin \/ spans[d].leading)
  BY <1>9
<1>11. CASE hi = end \/ spans[d].trailing
  <2>1. Fits(p, text, spans[d], from, hi)
    BY <1>3, <1>10, <1>11 DEF Fits, begin, end
  <2> QED BY <1>10, <2>1, OneMemberMore
<1>12. CASE LrSpace(p, rule, d)
  <2>1. Fits(p, text, spans[d], from, end)
    BY <1>8, <1>10 DEF Fits, begin, end
  <2> QED BY <1>1, <1>3, <1>10, <1>12, <2>1, OneMemberMore
<1> QED BY <1>3, <1>4, <1>11, <1>12

\* With one member more the row reads on.
LEMMA PartReadsOn ==
    ASSUME NEW p, NEW text, NEW rule, NEW spans, NEW d, Rowed(p, text, rule, spans, d),
           p.productions[rule + 1].rhs \in Seq(STRING),
           NEW before \in Seq(Nat), NEW own \in Seq(Nat),
           PartReads(p, text, rule, spans, d - 1, before),
           Reads(p, text, LrRhs(p, rule)[d], spans[d], own)
    PROVE  PartReads(p, text, rule, spans, d, before \o own)
BY EmptyMemberMore, VisibleMemberMore

\* Once all its members are read a rule is, with the span of the reduction.
LEMMA RuleReads ==
    ASSUME NEW p, NEW text \in Seq(STRING), NEW rule \in Nat, rule + 1 \in DOMAIN p.productions,
           NEW spans \in Seq(SpansOver(Places(text))), Len(spans) = LrLength(p, rule),
           NEW calls \in Seq(Nat), PartReads(p, text, rule, spans, Len(spans), calls), NEW c
    PROVE  Reads(p, text, LrLhs(p, rule), ReducedSpan(p, rule, spans, c), Append(calls, rule))
<1> DEFINE n == Len(spans)
           span == ReducedSpan(p, rule, spans, c)
<1>1. n \in Nat /\ DOMAIN spans = 1..n /\ Visible(spans) \subseteq 1..n /\ n + 1 \in Nat
  BY PlacesTyped DEF Visible
<1> SUFFICES ASSUME NEW lo \in Places(text), NEW hi \in Places(text), Fits(p, text, span, lo, hi)
             PROVE  Derived(p, text, LrLhs(p, rule), lo, hi, Append(calls, rule))
  BY DEF Reads
<1>2. Begins(p, text, rule, spans, lo) /\ Ends(p, text, rule, spans, n, lo, hi)
  <2>1. CASE Visible(spans) = {}
    <3> DEFINE everywhere == Allowed(p, rule, spans, 0, n + 1)
    <3>1. span = [begin |-> c, end |-> c, leading |-> everywhere, trailing |-> everywhere, empty |-> TRUE]
      BY <2>1 DEF ReducedSpan
    <3> HIDE DEF everywhere
    <3>2. span.empty /\ span.leading = everywhere /\ span.trailing = everywhere
      BY <3>1
    <3> HIDE DEF span, n
    <3>3. Blanks(p, text, lo, hi) /\ (hi = lo \/ everywhere)
      BY <3>2 DEF Fits
    <3>4. LastBefore(spans, n, 0)
      BY <2>1, <1>1 DEF LastBefore
    <3>5. EdgeOf(spans, 0, lo) = lo
      BY DEF EdgeOf
    <3>6. Ends(p, text, rule, spans, n, lo, hi)
      <4>1. 0 \in 0..n
        BY <1>1
      <4> QED BY <1>1, <3>3, <3>4, <3>5, <4>1, EndsAt DEF everywhere
    <3> QED BY <3>6, <2>1 DEF Begins
  <2>2. CASE Visible(spans) # {}
    <3> DEFINE first == CHOOSE i \in Visible(spans) : \A j \in Visible(spans) : i <= j
               last == CHOOSE i \in Visible(spans) : \A j \in Visible(spans) : j <= i
               leading == Allowed(p, rule, spans, 0, first) \/ spans[first].leading
               trailing == Allowed(p, rule, spans, last, n + 1)
    <3>1. first \in Visible(spans) /\ \A j \in Visible(spans) : first <= j
      <4>1. Visible(spans) \subseteq Nat
        <5> HIDE DEF n
        <5> QED BY <1>1
      <4>2. \E i \in Visible(spans) : \A j \in Visible(spans) : i <= j
        BY <2>2, <4>1, HasFirst
      <4> QED BY <4>2
    <3>2. last \in Visible(spans) /\ \A j \in Visible(spans) : j <= last
      <4>1. \E i \in Visible(spans) : \A j \in Visible(spans) : j <= i
        BY <1>1, <2>2, HasLast
      <4> QED BY <4>1
    <3>3. span = [begin |-> spans[first].begin, end |-> spans[last].end,
                  leading |-> leading, trailing |-> trailing, empty |-> FALSE]
      BY <2>2 DEF ReducedSpan
    <3> HIDE DEF first, last, leading, trailing
    <3>4. /\ span.begin = spans[first].begin /\ span.end = spans[last].end /\ ~span.empty
          /\ span.leading = leading /\ span.trailing = trailing
      BY <3>3
    <3> HIDE DEF span, n
    <3>5. /\ Blanks(p, text, lo, spans[first].begin) /\ (lo = spans[first].begin \/ leading)
          /\ Blanks(p, text, spans[last].end, hi) /\ (hi = spans[last].end \/ trailing)
      BY <3>4 DEF Fits
    <3>6. Begins(p, text, rule, spans, lo)
      <4> SUFFICES ASSUME NEW f \in Visible(spans), \A j \in Visible(spans) : f <= j
                   PROVE  /\ Blanks(p, text, lo, spans[f].begin)
                          /\ lo = spans[f].begin \/ spans[f].leading \/ Allowed(p, rule, spans, 0, f)
        BY DEF Begins
      <4>1. f <= first /\ first <= f /\ f \in Int /\ first \in Int
        BY <3>1, <1>1
      <4>2. f = first
        BY <4>1
      <4> QED BY <4>2, <3>5 DEF leading
    <3>7. last \in 1..n /\ last # 0 /\ last \in 0..n
      BY <3>2, <1>1
    <3>8. LastBefore(spans, n, last)
      <4>1. ASSUME NEW j \in (last + 1)..n, j \in Visible(spans) PROVE FALSE
        <5>1. ~(j <= last)
          BY <3>7, <1>1
        <5> QED BY <5>1, <4>1, <3>2
      <4> QED BY <4>1, <3>2, <3>7 DEF LastBefore
    <3>9. EdgeOf(spans, last, lo) = spans[last].end
      BY <3>7 DEF EdgeOf
    <3>10. Ends(p, text, rule, spans, n, lo, hi)
      BY <1>1, <3>5, <3>7, <3>8, <3>9, EndsAt DEF trailing
    <3> QED BY <3>6, <3>10
  <2> QED BY <2>1, <2>2
<1>3. PartDerived(p, text, rule + 1, n, lo, hi, calls)
  BY <1>2 DEF PartReads
<1>4. n = Len(p.productions[rule + 1].rhs) /\ rule + 1 \in Rules(p) /\ rule + 1 - 1 = rule
  BY DEF LrLength, LrRhs, Rules
<1> QED BY <1>3, <1>4, RuleDerived DEF LrLhs

\* A token read with its own span.
LEMMA TokenReads ==
    ASSUME NEW p, NEW text \in Seq(STRING), NEW i \in DOMAIN text
    PROVE  Reads(p, text, text[i], TokenSpan(i - 1), <<>>)
<1> SUFFICES ASSUME NEW lo \in Places(text), NEW hi \in Places(text),
                    Fits(p, text, TokenSpan(i - 1), lo, hi)
             PROVE  Derived(p, text, text[i], lo, hi, <<>>)
  BY DEF Reads
<1>1. i \in Int /\ i - 1 + 1 = i
  OBVIOUS
<1>2. lo = i - 1 /\ hi = i
  BY <1>1 DEF Fits, TokenSpan
<1> QED BY <1>2, LeafDerived

LEMMA Concatenated ==
    ASSUME NEW S, NEW s \in Seq(S), NEW t \in Seq(S)
    PROVE  s \o t \in Seq(S)
OBVIOUS

\* A rule whose members have each been read, in a row, has been read.
LEMMA RowReads ==
    ASSUME NEW p, NEW text \in Seq(STRING), NEW rule \in Nat, rule + 1 \in DOMAIN p.productions,
           LrRhs(p, rule) \in Seq(STRING),
           NEW spans \in Seq(SpansOver(Places(text))), Len(spans) = LrLength(p, rule),
           InARow(p, text, spans), ~SpaceViolation(p, rule, spans),
           \A d \in DOMAIN spans : \E own \in Seq(Nat) : Reads(p, text, LrRhs(p, rule)[d], spans[d], own),
           NEW c
    PROVE  \E calls \in Seq(Nat) : Reads(p, text, LrLhs(p, rule), ReducedSpan(p, rule, spans, c), calls)
<1> DEFINE n == Len(spans)
           Unread == {d \in 0..n : ~\E calls \in Seq(Nat) : PartReads(p, text, rule, spans, d, calls)}
<1>1. n \in Nat /\ DOMAIN spans = 1..n
  BY PlacesTyped
<1>2. Unread = {}
  <2> SUFFICES ASSUME Unread # {} PROVE FALSE
    OBVIOUS
  <2>1. Unread \subseteq Nat
    BY <1>1
  <2>2. PICK d \in Unread : \A other \in Unread : d <= other
    <3> HIDE DEF Unread
    <3> QED BY <2>1, HasFirst
  <2>3. d \in 0..n /\ ~\E calls \in Seq(Nat) : PartReads(p, text, rule, spans, d, calls)
    BY <2>2
  <2>4. <<>> \in Seq(Nat)
    OBVIOUS
  <2>5. d # 0
    BY <2>3, <2>4, NothingReads
  <2> HIDE DEF n
  <2>6. d - 1 \in 0..n /\ d \in 1..n /\ ~(d <= d - 1)
    BY <1>1, <2>3, <2>5
  <2>7. PICK before \in Seq(Nat) : PartReads(p, text, rule, spans, d - 1, before)
    <3>1. d - 1 \notin Unread
      BY <2>2, <2>6
    <3> QED BY <3>1, <2>6
  <2>8. PICK own \in Seq(Nat) : Reads(p, text, LrRhs(p, rule)[d], spans[d], own)
    BY <1>1, <2>6
  <2>9. Rowed(p, text, rule, spans, d)
    BY <1>1, <2>6 DEF Rowed
  <2>10. PartReads(p, text, rule, spans, d, before \o own)
    BY <2>7, <2>8, <2>9, PartReadsOn DEF LrRhs
  <2>11. before \o own \in Seq(Nat)
    BY Concatenated
  <2> QED BY <2>3, <2>10, <2>11
<1>3. PICK calls \in Seq(Nat) : PartReads(p, text, rule, spans, n, calls)
  <2>1. n \in 0..n
    BY <1>1
  <2> QED BY <1>2, <2>1
<1>4. Append(calls, rule) \in Seq(Nat)
  OBVIOUS
<1> QED BY <1>3, <1>4, RuleReads

-----------------------------------------------------------------------------
(* The spans of a stack. *)

Edge(spans, n) == IF n = 0 THEN 0 ELSE spans[n].end

\* What a stack has read follows in the text up to a position.
Covered(p, text, spans, hi) ==
    /\ spans \in Seq(SpansOver(Places(text)))
    /\ \A j \in DOMAIN spans : Ordered(spans[j]) /\ Blanks(p, text, Edge(spans, j - 1), spans[j].begin)
    /\ Blanks(p, text, Edge(spans, Len(spans)), hi)

LEMMA EdgeLies ==
    ASSUME NEW text \in Seq(STRING), NEW spans \in Seq(SpansOver(Places(text))), NEW n \in 0..Len(spans)
    PROVE  Edge(spans, n) \in Places(text) /\ Edge(spans, n) \in Int
<1>1. 0 \in Places(text) /\ Places(text) \subseteq Int
  BY DEF Places
<1>2. n # 0 => n \in 1..Len(spans)
  BY PlacesTyped
<1>3. n # 0 => spans[n].end \in Places(text)
  BY <1>2, PlacesTyped
<1> QED BY <1>1, <1>3 DEF Edge

\* A span put behind the first n ones.
LEMMA CoveredPushed ==
    ASSUME NEW p, NEW text \in Seq(STRING), NEW spans, NEW at, Covered(p, text, spans, at),
           NEW n \in 0..Len(spans), NEW span \in SpansOver(Places(text)), Ordered(span), NEW hi,
           Blanks(p, text, Edge(spans, n), span.begin), Blanks(p, text, span.end, hi)
    PROVE  Covered(p, text, Append(SubSeq(spans, 1, n), span), hi)
<1> DEFINE Spans == SpansOver(Places(text))
           front == SubSeq(spans, 1, n)
           more == Append(front, span)
<1>1. spans \in Seq(Spans) /\ Len(spans) \in Nat /\ DOMAIN spans = 1..Len(spans) /\ n \in Nat
  BY PlacesTyped DEF Covered
<1>2. front \in Seq(Spans) /\ Len(front) = n /\ \A i \in 1..n : front[i] = spans[i]
  <2> HIDE DEF Spans
  <2> QED BY <1>1, Prefix
<1> HIDE DEF Spans, front
<1>3. more \in Seq(Spans) /\ Len(more) = n + 1 /\ more[n + 1] = span /\ \A i \in 1..n : more[i] = spans[i]
  <2>1. span \in Spans
    BY DEF Spans
  <2> QED BY <1>2, <2>1, Appended
<1> HIDE DEF more
<1>4. DOMAIN more = 1..(n + 1)
  BY <1>1, <1>3
<1>5. \A j \in 0..n : Edge(more, j) = Edge(spans, j)
  BY <1>3, <1>1 DEF Edge
<1>6. Edge(more, n + 1) = span.end
  BY <1>3, <1>1 DEF Edge
<1>7. ASSUME NEW j \in DOMAIN more
      PROVE  Ordered(more[j]) /\ Blanks(p, text, Edge(more, j - 1), more[j].begin)
  <2>1. CASE j = n + 1
    <3>1. j - 1 = n /\ n \in 0..n
      BY <2>1, <1>1
    <3> QED BY <2>1, <3>1, <1>3, <1>5
  <2>2. CASE j # n + 1
    <3>1. j \in 1..n /\ j - 1 \in 0..n /\ j \in DOMAIN spans
      BY <2>2, <1>1, <1>4
    <3> QED BY <3>1, <1>3, <1>5 DEF Covered
  <2> QED BY <2>1, <2>2
<1>8. more \in Seq(SpansOver(Places(text))) /\ Blanks(p, text, Edge(more, Len(more)), hi)
  BY <1>3, <1>6 DEF Spans
<1> QED BY <1>7, <1>8 DEF Covered, more, front

LEMMA Behind ==
    ASSUME NEW S, NEW s \in Seq(S), NEW n \in 0..Len(s)
    PROVE  /\ SubSeq(s, n + 1, Len(s)) \in Seq(S)
           /\ Len(SubSeq(s, n + 1, Len(s))) = Len(s) - n
           /\ \A j \in 1..(Len(s) - n) : SubSeq(s, n + 1, Len(s))[j] = s[n + j]
OBVIOUS

\* The members a reduction pops are in a row, and its span takes their place.
LEMMA CoveredReduced ==
    ASSUME NEW p, NEW text \in Seq(STRING), NEW spans, NEW at \in Places(text), Covered(p, text, spans, at),
           NEW n \in 0..Len(spans), NEW rule
    PROVE  LET children == SubSeq(spans, n + 1, Len(spans))
               span == ReducedSpan(p, rule, children, at)
           IN  /\ children \in Seq(SpansOver(Places(text))) /\ Len(children) = Len(spans) - n
               /\ \A j \in 1..(Len(spans) - n) : children[j] = spans[n + j]
               /\ InARow(p, text, children)
               /\ Covered(p, text, Append(SubSeq(spans, 1, n), span), at)
<1> DEFINE Spans == SpansOver(Places(text))
           len == Len(spans)
           children == SubSeq(spans, n + 1, len)
           span == ReducedSpan(p, rule, children, at)
<1>1. spans \in Seq(Spans) /\ len \in Nat /\ DOMAIN spans = 1..len /\ n \in 0..len
  BY PlacesTyped DEF Covered
<1> HIDE DEF Spans
<1>2. /\ children \in Seq(Spans) /\ Len(children) = len - n
      /\ \A j \in 1..(len - n) : children[j] = spans[n + j]
  BY <1>1, Behind
<1> HIDE DEF len, children
<1>3. DOMAIN children = 1..(len - n)
  <2> DEFINE k == Len(children)
  <2>1. DOMAIN children = 1..k
    BY <1>2
  <2> QED BY <1>2, <2>1
<1>4. InARow(p, text, children)
  <2> SUFFICES ASSUME NEW j \in 1..(len - n)
               PROVE  /\ Ordered(children[j])
                      /\ j + 1 \in 1..(len - n) => Blanks(p, text, children[j].end, children[j + 1].begin)
    BY <1>3 DEF InARow
  <2>1. n + j \in 1..len /\ children[j] = spans[n + j]
    BY <1>1, <1>2
  <2>2. ASSUME j + 1 \in 1..(len - n) PROVE Blanks(p, text, children[j].end, children[j + 1].begin)
    <3>1. n + (j + 1) \in 1..len /\ n + (j + 1) - 1 = n + j /\ n + j # 0 /\ children[j + 1] = spans[n + (j + 1)]
      BY <1>1, <1>2, <2>2
    <3>2. Edge(spans, n + j) = spans[n + j].end
      BY <3>1 DEF Edge
    <3> QED BY <1>1, <2>1, <3>1, <3>2 DEF Covered
  <2> QED BY <1>1, <2>1, <2>2 DEF Covered
<1>5. children \in Seq(SpansOver(Int)) /\ at \in Int
  <2>1. children \in Seq(SpansOver(Places(text)))
    BY <1>2 DEF Spans
  <2> QED BY <2>1, PlacesTyped DEF Places
<1>6. Edge(spans, n) \in Int
  BY <1>1, EdgeLies DEF len, Spans
<1>7. IF children = <<>> THEN Blanks(p, text, Edge(spans, n), at)
      ELSE Blanks(p, text, Edge(spans, n), children[1].begin) /\ Blanks(p, text, children[Len(children)].end, at)
  <2>1. CASE children = <<>>
    <3>1. len - n = 0
      BY <1>2, <2>1
    <3>2. n = len
      BY <1>1, <3>1
    <3> QED BY <2>1, <3>2 DEF Covered, len
  <2>2. CASE children # <<>>
    <3>1. len - n # 0
      BY <1>2, <2>2
    <3>2. /\ n + 1 \in 1..len /\ n + 1 - 1 = n /\ 1 \in 1..(len - n) /\ len - n \in 1..(len - n)
          /\ n + (len - n) = len /\ len # 0
      BY <1>1, <3>1
    <3>3. children[1] = spans[n + 1] /\ children[len - n] = spans[len]
      BY <1>2, <3>2
    <3>4. Blanks(p, text, Edge(spans, n), spans[n + 1].begin)
      BY <1>1, <3>2 DEF Covered
    <3>5. Blanks(p, text, spans[len].end, at)
      BY <3>2 DEF Covered, Edge, len
    <3> QED BY <1>2, <2>2, <3>3, <3>4, <3>5
  <2> QED BY <2>1, <2>2
<1>8. Ordered(span) /\ Blanks(p, text, Edge(spans, n), span.begin) /\ Blanks(p, text, span.end, at)
  BY <1>4, <1>5, <1>6, <1>7, ReducedSpanLies
<1>9. span \in SpansOver(Places(text))
  BY <1>2, ReducedSpanType DEF Spans
<1> HIDE DEF span
<1>10. Covered(p, text, Append(SubSeq(spans, 1, n), span), at)
  BY <1>8, <1>9, CoveredPushed
<1> QED BY <1>2, <1>4, <1>10 DEF len, Spans, children, span
-----------------------------------------------------------------------------
(* What a stack of symbols and their spans has read of a text. *)

ReadTo(p, text, symbols, spans, at) ==
    /\ Covered(p, text, spans, at)
    /\ symbols \in Seq(STRING) /\ Len(symbols) = Len(spans)
    /\ \A i \in 1..Len(spans) : \E own \in Seq(Nat) : Reads(p, text, symbols[i], spans[i], own)

LEMMA NothingIsRead ==
    ASSUME NEW p, NEW text \in Seq(STRING)
    PROVE  ReadTo(p, text, <<>>, <<>>, 0)
<1>1. Blanks(p, text, 0, 0)
  BY BlankHere
<1>2. <<>> \in Seq(SpansOver(Places(text))) /\ <<>> \in Seq(STRING) /\ Len(<<>>) = 0 /\ DOMAIN <<>> = 1..0
  OBVIOUS
<1>3. Edge(<<>>, Len(<<>>)) = 0
  BY <1>2 DEF Edge
<1>4. 1..0 = {}
  OBVIOUS
<1> HIDE <1>2
<1> QED BY <1>1, <1>2, <1>3, <1>4 DEF ReadTo, Covered

LEMMA ReadOverBlank ==
    ASSUME NEW p, NEW text \in Seq(STRING), NEW symbols, NEW spans, NEW at \in Nat,
           ReadTo(p, text, symbols, spans, at), at < Len(text), LrIsSpace(p, text[at + 1])
    PROVE  ReadTo(p, text, symbols, spans, at + 1)
<1> DEFINE edge == Edge(spans, Len(spans))
<1>1. spans \in Seq(SpansOver(Places(text))) /\ Blanks(p, text, edge, at)
  BY DEF ReadTo, Covered
<1>2. Len(spans) \in 0..Len(spans)
  BY <1>1, PlacesTyped
<1>3. edge \in Int
  BY <1>1, <1>2, EdgeLies
<1> HIDE DEF edge
<1>4. Blanks(p, text, at, at + 1)
  BY DEF Blanks
<1>5. Blanks(p, text, edge, at + 1)
  BY <1>1, <1>3, <1>4, BlankJoins
<1> QED BY <1>5 DEF ReadTo, Covered, edge

LEMMA ReadAndPushed ==
    ASSUME NEW p, NEW text \in Seq(STRING), NEW symbols, NEW spans, NEW at,
           ReadTo(p, text, symbols, spans, at),
           NEW n \in 0..Len(spans), NEW symbol \in STRING, NEW span, NEW own \in Seq(Nat),
           Reads(p, text, symbol, span, own), NEW hi,
           Covered(p, text, Append(SubSeq(spans, 1, n), span), hi)
    PROVE  ReadTo(p, text, Append(SubSeq(symbols, 1, n), symbol), Append(SubSeq(spans, 1, n), span), hi)
<1> DEFINE Spans == SpansOver(Places(text))
           front == SubSeq(spans, 1, n)
           below == SubSeq(symbols, 1, n)
           more == Append(front, span)
           named == Append(below, symbol)
<1>1. spans \in Seq(Spans) /\ Len(spans) \in Nat /\ symbols \in Seq(STRING) /\ Len(symbols) = Len(spans)
  BY PlacesTyped DEF ReadTo, Covered
<1>2. more \in Seq(Spans)
  BY DEF Covered
<1> HIDE DEF Spans
<1>3. front \in Seq(Spans) /\ Len(front) = n /\ \A i \in 1..n : front[i] = spans[i]
  BY <1>1, Prefix
<1>4. below \in Seq(STRING) /\ Len(below) = n /\ \A i \in 1..n : below[i] = symbols[i]
  <2>1. n \in 0..Len(symbols)
    BY <1>1
  <2> QED BY <1>1, <2>1, Prefix
<1> HIDE DEF front, below
<1>5. Len(more) = n + 1 /\ more[n + 1] = span /\ \A i \in 1..n : more[i] = spans[i]
  BY <1>3
<1>6. named \in Seq(STRING) /\ Len(named) = n + 1 /\ named[n + 1] = symbol /\ \A i \in 1..n : named[i] = symbols[i]
  <2>1. /\ named \in Seq(STRING) /\ Len(named) = Len(below) + 1 /\ named[Len(below) + 1] = symbol
        /\ \A i \in 1..Len(below) : named[i] = below[i]
    BY <1>4, Appended
  <2> HIDE DEF named
  <2> QED BY <1>4, <2>1
<1> HIDE DEF more, named
<1>7. ASSUME NEW i \in 1..(n + 1)
      PROVE  \E calls \in Seq(Nat) : Reads(p, text, named[i], more[i], calls)
  <2>1. CASE i = n + 1
    BY <2>1, <1>5, <1>6
  <2>2. CASE i # n + 1
    <3>1. i \in 1..n /\ i \in 1..Len(spans)
      BY <2>2, <1>1
    <3> QED BY <3>1, <1>5, <1>6 DEF ReadTo
  <2> QED BY <2>1, <2>2
<1>8. Covered(p, text, more, hi)
  BY DEF more, front
<1>9. ReadTo(p, text, named, more, hi)
  BY <1>5, <1>6, <1>7, <1>8 DEF ReadTo
<1> QED BY <1>9 DEF more, named, front, below

\* A shift.
LEMMA ReadAToken ==
    ASSUME NEW p, NEW text \in Seq(STRING), NEW symbols, NEW spans, NEW at \in Nat,
           ReadTo(p, text, symbols, spans, at), at < Len(text)
    PROVE  ReadTo(p, text, Append(symbols, text[at + 1]), Append(spans, TokenSpan(at)), at + 1)
<1> DEFINE n == Len(spans)
           span == TokenSpan(at)
<1>1. /\ Covered(p, text, spans, at) /\ spans \in Seq(SpansOver(Places(text)))
      /\ symbols \in Seq(STRING) /\ Len(symbols) = n
  BY DEF ReadTo, Covered
<1>2. n \in 0..n
  BY <1>1, PlacesTyped
<1>3. SubSeq(spans, 1, n) = spans /\ SubSeq(symbols, 1, n) = symbols
  BY <1>1
<1>4. at + 1 \in DOMAIN text /\ at + 1 - 1 = at /\ text[at + 1] \in STRING /\ at \in Places(text) /\ at + 1 \in Places(text)
  BY DEF Places
<1>5. span = [begin |-> at, end |-> at + 1, leading |-> FALSE, trailing |-> FALSE, empty |-> FALSE]
  BY DEF TokenSpan
<1>6. span \in SpansOver(Places(text)) /\ Ordered(span) /\ span.begin = at /\ span.end = at + 1
  BY <1>4, <1>5 DEF SpansOver, Ordered
<1>7. Reads(p, text, text[at + 1], span, <<>>) /\ <<>> \in Seq(Nat)
  <2> DEFINE i == at + 1
  <2>1. i \in DOMAIN text /\ i - 1 = at
    BY <1>4
  <2> HIDE DEF i
  <2>2. Reads(p, text, text[i], TokenSpan(i - 1), <<>>)
    BY <2>1, TokenReads
  <2> QED BY <2>1, <2>2 DEF i
<1> HIDE DEF span, n
<1>8. Blanks(p, text, Edge(spans, n), span.begin) /\ Blanks(p, text, span.end, at + 1)
  <2>1. Blanks(p, text, at + 1, at + 1)
    BY BlankHere
  <2> QED BY <2>1, <1>1, <1>6 DEF Covered, n
<1>9. Covered(p, text, Append(SubSeq(spans, 1, n), span), at + 1)
  BY <1>1, <1>2, <1>6, <1>8, CoveredPushed DEF n
<1>10. ReadTo(p, text, Append(SubSeq(symbols, 1, n), text[at + 1]), Append(SubSeq(spans, 1, n), span), at + 1)
  BY <1>2, <1>4, <1>7, <1>9, ReadAndPushed DEF n
<1> QED BY <1>3, <1>10 DEF span

\* A reduction.
LEMMA ReadARule ==
    ASSUME NEW p, NEW text \in Seq(STRING), NEW symbols, NEW spans, NEW at \in Places(text),
           ReadTo(p, text, symbols, spans, at),
           NEW rule \in Nat, rule + 1 \in DOMAIN p.productions,
           LrRhs(p, rule) \in Seq(STRING), LrLhs(p, rule) \in STRING,
           NEW n \in 0..Len(spans), SubSeq(symbols, n + 1, Len(symbols)) = LrRhs(p, rule),
           ~SpaceViolation(p, rule, SubSeq(spans, n + 1, Len(spans)))
    PROVE  ReadTo(p, text, Append(SubSeq(symbols, 1, n), LrLhs(p, rule)),
                  Append(SubSeq(spans, 1, n), ReducedSpan(p, rule, SubSeq(spans, n + 1, Len(spans)), at)), at)
<1> DEFINE len == Len(spans)
           children == SubSeq(spans, n + 1, len)
           span == ReducedSpan(p, rule, children, at)
           rhs == LrRhs(p, rule)
<1>1. Covered(p, text, spans, at) /\ symbols \in Seq(STRING) /\ Len(symbols) = len
  BY DEF ReadTo
<1>2. len \in Nat
  BY <1>1, PlacesTyped DEF Covered
<1>3. /\ children \in Seq(SpansOver(Places(text))) /\ Len(children) = len - n
      /\ \A j \in 1..(len - n) : children[j] = spans[n + j]
      /\ InARow(p, text, children)
      /\ Covered(p, text, Append(SubSeq(spans, 1, n), span), at)
  BY <1>1, CoveredReduced
<1> HIDE DEF len
<1>4. Len(rhs) = len - n /\ \A j \in 1..(len - n) : rhs[j] = symbols[n + j]
  <2>1. n \in 0..Len(symbols)
    BY <1>1 DEF len
  <2>2. /\ Len(SubSeq(symbols, n + 1, Len(symbols))) = Len(symbols) - n
        /\ \A j \in 1..(Len(symbols) - n) : SubSeq(symbols, n + 1, Len(symbols))[j] = symbols[n + j]
    BY <1>1, <2>1, Behind
  <2> QED BY <1>1, <2>2
<1> HIDE DEF children, rhs
<1>5. \A d \in DOMAIN children : \E own \in Seq(Nat) : Reads(p, text, rhs[d], children[d], own)
  <2>1. DOMAIN children = 1..(len - n)
    <3> DEFINE k == Len(children)
    <3>1. DOMAIN children = 1..k
      BY <1>3, PlacesTyped
    <3> QED BY <1>3, <3>1
  <2>2. ASSUME NEW d \in 1..(len - n) PROVE \E own \in Seq(Nat) : Reads(p, text, rhs[d], children[d], own)
    <3>1. n + d \in 1..len
      BY <1>2, <2>2 DEF len
    <3>2. \E own \in Seq(Nat) : Reads(p, text, symbols[n + d], spans[n + d], own)
      BY <3>1 DEF ReadTo, len
    <3> QED BY <3>2, <1>3, <1>4
  <2> QED BY <2>1, <2>2
<1>6. PICK own \in Seq(Nat) : Reads(p, text, LrLhs(p, rule), span, own)
  <2>1. Len(children) = LrLength(p, rule)
    BY <1>3, <1>4 DEF LrLength, rhs
  <2>2. ~SpaceViolation(p, rule, children)
    BY DEF children, len
  <2> HIDE DEF span
  <2>3. \E own \in Seq(Nat) : Reads(p, text, LrLhs(p, rule), ReducedSpan(p, rule, children, at), own)
    BY <1>3, <1>5, <2>1, <2>2, RowReads DEF rhs
  <2> QED BY <2>3 DEF span
<1> HIDE DEF span
<1>7. ReadTo(p, text, Append(SubSeq(symbols, 1, n), LrLhs(p, rule)), Append(SubSeq(spans, 1, n), span), at)
  BY <1>3, <1>6, ReadAndPushed DEF len
<1> QED BY <1>7 DEF span, children, len

\* The start symbol, with whitespace around it only where it allows some.
LEMMA ReadWhole ==
    ASSUME NEW p, NEW text \in Seq(STRING), NEW spans, NEW own,
           spans \in Seq(SpansOver(Places(text))), NEW span, Ordered(span),
           Blanks(p, text, 0, span.begin), Blanks(p, text, span.end, Len(text)),
           span \in SpansOver(Places(text)),
           Reads(p, text, "main", span, own),
           span.begin # 0 => span.leading, Len(text) > span.end => span.trailing
    PROVE  IsReading(p, text, own)
<1> DEFINE len == Len(text)
<1>1. len \in Nat /\ 0 \in Places(text) /\ len \in Places(text) /\ Places(text) = 0..len
  BY DEF Places
<1>2. span.begin \in 0..len /\ span.end \in 0..len
  BY <1>1 DEF SpansOver
<1> HIDE DEF len
<1>3. Fits(p, text, span, 0, len)
  <2>1. CASE span.empty
    <3>1. span.begin = span.end
      BY <2>1 DEF Ordered
    <3>2. Blanks(p, text, 0, len)
      <4>1. 0 \in Int /\ span.begin \in Int /\ len \in Int
        BY <1>1, <1>2
      <4> QED BY <4>1, <3>1, BlankJoins DEF len
    <3>3. 0 = len \/ span.leading \/ span.trailing
      <4>1. span.begin # 0 => span.leading
        OBVIOUS
      <4>2. len > span.end => span.trailing
        BY DEF len
      <4> QED BY <4>1, <4>2, <3>1, <1>1, <1>2
    <3> QED BY <2>1, <3>2, <3>3 DEF Fits
  <2>2. CASE ~span.empty
    <3>1. span.end # len => span.trailing
      <4>1. len > span.end => span.trailing
        BY DEF len
      <4> QED BY <4>1, <1>1, <1>2
    <3>2. Blanks(p, text, 0, span.begin) /\ Blanks(p, text, span.end, len)
      BY DEF len
    <3> QED BY <2>2, <3>1, <3>2 DEF Fits
  <2> QED BY <2>1, <2>2
<1>4. Derived(p, text, "main", 0, len, own)
  BY <1>1, <1>3 DEF Reads
<1> QED BY <1>4 DEF IsReading, len

LEMMA ReadToTheEnd ==
    ASSUME NEW p, NEW text \in Seq(STRING), NEW spans, ReadTo(p, text, <<"main">>, spans, Len(text)),
           spans[1].begin # 0 => spans[1].leading, Len(text) > spans[1].end => spans[1].trailing
    PROVE  IsSentence(p, text)
<1> DEFINE span == spans[1]
<1>1. Covered(p, text, spans, Len(text)) /\ Len(spans) = 1 /\ spans \in Seq(SpansOver(Places(text)))
  BY DEF ReadTo, Covered
<1>2. PICK own \in Seq(Nat) : Reads(p, text, "main", span, own)
  <2>1. 1 \in 1..Len(spans) /\ <<"main">>[1] = "main"
    BY <1>1
  <2>2. \E own \in Seq(Nat) : Reads(p, text, <<"main">>[1], spans[1], own)
    BY <2>1 DEF ReadTo
  <2> QED BY <2>1, <2>2
<1>3. 1 \in DOMAIN spans /\ span \in SpansOver(Places(text))
  <2> DEFINE Spans == SpansOver(Places(text))
  <2>1. spans \in Seq(Spans) /\ 1 \in 1..Len(spans)
    BY <1>1
  <2> HIDE DEF Spans
  <2>2. 1 \in DOMAIN spans /\ spans[1] \in Spans
    BY <2>1, Element
  <2> QED BY <2>2 DEF Spans
<1>4. Ordered(span) /\ Blanks(p, text, 0, span.begin) /\ Blanks(p, text, span.end, Len(text))
  BY <1>1, <1>3 DEF Covered, Edge
<1>5. IsReading(p, text, own)
  <2> HIDE DEF span
  <2>1. span.begin # 0 => span.leading
    BY DEF span
  <2>2. Len(text) > span.end => span.trailing
    BY DEF span
  <2> QED BY <1>1, <1>2, <1>3, <1>4, <2>1, <2>2, ReadWhole
<1> QED BY <1>5 DEF IsSentence
-----------------------------------------------------------------------------
(* Closed sets of words hold every sentence that is short enough. *)

OpenAt(p, words, id, n, open, d) ==
    IF d = 0 THEN GapTexts(p, id, 0, n)
    ELSE Joined(Joined(open[d - 1], words[p.productions[id].rhs[d]], n), GapTexts(p, id, d, n), n)

IsOpening(p, words, id, n, open, len) == open = [d \in 0..len |-> OpenAt(p, words, id, n, open, d)]

LEMMA OpeningsExist ==
    ASSUME NEW p, NEW words, NEW id, NEW n, NEW len \in Nat
    PROVE  \E open : IsOpening(p, words, id, n, open, len)
<1> DEFINE Missing == {m \in Nat : ~\E open : IsOpening(p, words, id, n, open, m)}
<1>1. CASE Missing = {}
  BY <1>1
<1>2. CASE Missing # {}
  <2>1. Missing \subseteq Nat
    OBVIOUS
  <2>2. PICK m \in Missing : \A other \in Missing : m <= other
    <3> HIDE DEF Missing
    <3> QED BY <1>2, <2>1, HasFirst
  <2>3. m \in Nat /\ ~\E open : IsOpening(p, words, id, n, open, m)
    BY <2>2
  <2>4. CASE m = 0
    <3> DEFINE open == [d \in 0..0 |-> GapTexts(p, id, 0, n)]
    <3>1. open = [d \in 0..0 |-> OpenAt(p, words, id, n, open, d)]
      BY DEF OpenAt
    <3> QED BY <2>3, <2>4, <3>1 DEF IsOpening
  <2>5. CASE m > 0
    <3>1. m - 1 \in Nat /\ ~(m <= m - 1) /\ m # 0
      BY <2>3, <2>5
    <3>2. PICK before : IsOpening(p, words, id, n, before, m - 1)
      <4>1. m - 1 \notin Missing
        BY <2>2, <3>1
      <4> QED BY <3>1, <4>1
    <3> DEFINE open == [d \in 0..m |-> IF d < m THEN before[d] ELSE OpenAt(p, words, id, n, before, m)]
    <3>3. \A d \in 0..(m - 1) : before[d] = OpenAt(p, words, id, n, before, d)
      BY <3>2 DEF IsOpening
    <3>4. \A d \in 0..m : open[d] = OpenAt(p, words, id, n, open, d)
      <4> SUFFICES ASSUME NEW d \in 0..m PROVE open[d] = OpenAt(p, words, id, n, open, d)
        OBVIOUS
      <4>1. CASE d = 0
        <5>1. 0 \in 0..m /\ 0 < m /\ 0 \in 0..(m - 1)
          BY <2>3, <2>5
        <5>2. open[0] = before[0] /\ before[0] = OpenAt(p, words, id, n, before, 0)
          BY <3>3, <5>1
        <5> QED BY <4>1, <5>2 DEF OpenAt
      <4>2. CASE d # 0
        <5>1. d - 1 \in 0..m /\ d - 1 < m
          BY <4>2, <2>3
        <5>2. open[d - 1] = before[d - 1]
          BY <5>1
        <5>3. OpenAt(p, words, id, n, open, d) = OpenAt(p, words, id, n, before, d)
          BY <5>2 DEF OpenAt
        <5>4. CASE d < m
          <6>1. d \in 0..(m - 1)
            BY <5>4, <2>3
          <6>2. open[d] = before[d]
            BY <5>4
          <6> QED BY <6>1, <6>2, <5>3, <3>3
        <5>5. CASE ~(d < m)
          <6>1. d = m
            BY <5>5, <2>3
          <6>2. open[d] = OpenAt(p, words, id, n, before, m)
            BY <5>5
          <6> QED BY <6>1, <6>2, <5>3
        <5> QED BY <5>4, <5>5
      <4> QED BY <4>1, <4>2
    <3>5. open = [d \in 0..m |-> open[d]]
      OBVIOUS
    <3> HIDE DEF open
    <3>6. IsOpening(p, words, id, n, open, m)
      BY <3>4, <3>5 DEF IsOpening
    <3> QED BY <2>3, <3>6
  <2> QED BY <2>3, <2>4, <2>5
<1> QED BY <1>1, <1>2

LEMMA OpeningsUnfold ==
    ASSUME NEW p, NEW words, NEW id, NEW n, Len(p.productions[id].rhs) \in Nat
    PROVE  /\ Openings(p, words, id, n)[0] = GapTexts(p, id, 0, n)
           /\ \A d \in 1..Len(p.productions[id].rhs) :
                 Openings(p, words, id, n)[d] =
                    Joined(Joined(Openings(p, words, id, n)[d - 1], words[p.productions[id].rhs[d]], n),
                           GapTexts(p, id, d, n), n)
<1> DEFINE len == Len(p.productions[id].rhs)
           open == Openings(p, words, id, n)
<1>1. open = CHOOSE o : o = [d \in 0..len |-> OpenAt(p, words, id, n, o, d)]
  BY DEF Openings, OpenAt
<1>2. \E o : o = [d \in 0..len |-> OpenAt(p, words, id, n, o, d)]
  <2> HIDE DEF len
  <2>1. len \in Nat
    BY DEF len
  <2>2. PICK o : IsOpening(p, words, id, n, o, len)
    BY <2>1, OpeningsExist
  <2> QED BY <2>2 DEF IsOpening
<1> HIDE DEF open
<1>3. open = [d \in 0..len |-> OpenAt(p, words, id, n, open, d)]
  BY <1>1, <1>2
<1>4. len \in Nat
  OBVIOUS
<1> HIDE DEF len
<1>5. \A d \in 0..len : open[d] = OpenAt(p, words, id, n, open, d)
  BY <1>3
<1>6. 0 \in 0..len /\ \A d \in 1..len : d \in 0..len /\ d # 0
  BY <1>4
<1>7. open[0] = GapTexts(p, id, 0, n)
  BY <1>5, <1>6 DEF OpenAt
<1>8. \A d \in 1..len : open[d] = Joined(Joined(open[d - 1], words[p.productions[id].rhs[d]], n),
                                         GapTexts(p, id, d, n), n)
  BY <1>5, <1>6 DEF OpenAt
<1> QED BY <1>7, <1>8 DEF open, len

LEMMA PieceOf ==
    ASSUME NEW text \in Seq(STRING), NEW lo \in Places(text), NEW hi \in Places(text), lo <= hi
    PROVE  /\ SubSeq(text, lo + 1, hi) \in Seq(STRING) /\ Len(SubSeq(text, lo + 1, hi)) = hi - lo
           /\ \A i \in 1..(hi - lo) : SubSeq(text, lo + 1, hi)[i] = text[lo + i]
<1>1. lo \in Nat /\ hi \in Nat /\ hi <= Len(text) /\ Len(text) \in Nat
  BY DEF Places
<1> QED BY <1>1

LEMMA PiecesJoin ==
    ASSUME NEW text \in Seq(STRING), NEW lo \in Places(text), NEW mid \in Places(text), NEW hi \in Places(text),
           lo <= mid, mid <= hi, NEW left, NEW right, NEW n \in Nat, Len(text) <= n,
           SubSeq(text, lo + 1, mid) \in left, SubSeq(text, mid + 1, hi) \in right
    PROVE  SubSeq(text, lo + 1, hi) \in Joined(left, right, n)
<1> DEFINE one == SubSeq(text, lo + 1, mid)
           two == SubSeq(text, mid + 1, hi)
           both == SubSeq(text, lo + 1, hi)
<1>1. lo \in Nat /\ mid \in Nat /\ hi \in Nat /\ hi <= Len(text) /\ Len(text) \in Nat /\ lo <= hi
  BY DEF Places
<1>2. /\ one \in Seq(STRING) /\ Len(one) = mid - lo /\ \A i \in 1..(mid - lo) : one[i] = text[lo + i]
      /\ two \in Seq(STRING) /\ Len(two) = hi - mid /\ \A i \in 1..(hi - mid) : two[i] = text[mid + i]
      /\ both \in Seq(STRING) /\ Len(both) = hi - lo /\ \A i \in 1..(hi - lo) : both[i] = text[lo + i]
  BY <1>1, PieceOf
<1>3. one \in left /\ two \in right
  OBVIOUS
<1> HIDE DEF one, two, both
<1>4. one \o two = both
  <2>1. /\ one \o two \in Seq(STRING) /\ Len(one \o two) = Len(one) + Len(two)
        /\ \A i \in 1..(Len(one) + Len(two)) :
              (one \o two)[i] = IF i <= Len(one) THEN one[i] ELSE two[i - Len(one)]
    BY <1>2
  <2>2. Len(one \o two) = hi - lo
    BY <1>1, <1>2, <2>1
  <2>3. ASSUME NEW i \in 1..(hi - lo) PROVE (one \o two)[i] = both[i]
    <3>1. i \in 1..(Len(one) + Len(two))
      BY <1>1, <1>2
    <3>2. CASE i <= mid - lo
      <4>1. i \in 1..(mid - lo)
        BY <1>1, <3>2
      <4> QED BY <4>1, <3>1, <3>2, <2>1, <1>2
    <3>3. CASE ~(i <= mid - lo)
      <4> DEFINE j == i - (mid - lo)
      <4>1. j \in 1..(hi - mid) /\ mid + j = lo + i
        BY <1>1, <3>3
      <4>2. (one \o two)[i] = two[j]
        <5>1. (one \o two)[i] = IF i <= Len(one) THEN one[i] ELSE two[i - Len(one)]
          BY <3>1, <2>1
        <5>2. Len(one) = mid - lo
          BY <1>2
        <5> QED BY <5>1, <5>2, <3>3
      <4> HIDE DEF j
      <4> QED BY <4>1, <4>2, <1>2
    <3> QED BY <3>2, <3>3
  <2> DEFINE joint == one \o two
  <2> HIDE DEF joint
  <2>4. joint \in Seq(STRING) /\ Len(joint) = Len(both) /\ \A i \in 1..Len(both) : joint[i] = both[i]
    BY <1>2, <2>1, <2>2, <2>3 DEF joint
  <2>5. joint = both
    BY <1>2, <2>4, SameElements
  <2> QED BY <2>5 DEF joint
<1>5. Len(one) + Len(two) <= n
  BY <1>1, <1>2
<1>6. <<one, two>> \in {x \in left \X right : Len(x[1]) + Len(x[2]) <= n}
  BY <1>3, <1>5
<1>7. <<one, two>>[1] \o <<one, two>>[2] = both
  BY <1>4
<1>8. both \in Joined(left, right, n)
  BY <1>6, <1>7 DEF Joined
<1> QED BY <1>8 DEF both

LEMMA GapIsText ==
    ASSUME NEW p, NEW text \in Seq(STRING), NEW id, NEW g, NEW lo \in Places(text), NEW hi \in Places(text),
           Gap(p, text, id, g, lo, hi), NEW n \in Nat, Len(text) <= n
    PROVE  lo <= hi /\ SubSeq(text, lo + 1, hi) \in GapTexts(p, id, g, n)
<1> DEFINE piece == SubSeq(text, lo + 1, hi)
<1>1. lo \in Nat /\ hi \in Nat /\ hi <= Len(text) /\ Len(text) \in Nat
  BY DEF Places
<1>2. lo <= hi
  BY <1>1 DEF Gap, Blanks
<1>3. piece \in Seq(STRING) /\ Len(piece) = hi - lo /\ \A i \in 1..(hi - lo) : piece[i] = text[lo + i]
  BY <1>2, PieceOf
<1> HIDE DEF piece
<1>4. CASE lo = hi
  <2>1. piece = <<>>
    BY <1>1, <1>3, <1>4
  <2> QED BY <1>2, <2>1 DEF GapTexts, piece
<1>5. CASE lo # hi
  <2>1. g \in p.productions[id].gaps /\ \A m \in (lo + 1)..hi : LrIsSpace(p, text[m])
    BY <1>5 DEF Gap, Blanks
  <2> DEFINE m == hi - lo
  <2>2. m \in 1..n /\ \A i \in 1..m : lo + i \in (lo + 1)..hi
    BY <1>1, <1>2, <1>5
  <2> HIDE DEF m
  <2>3. \A i \in 1..m : piece[i] = Whitespace
    BY <1>3, <2>1, <2>2 DEF LrIsSpace, m
  <2>4. p.skipsSpace
    <3>1. 1 \in 1..m
      BY <2>2
    <3> QED BY <2>1, <2>2, <3>1 DEF LrIsSpace
  <2>5. piece = [i \in 1..m |-> Whitespace]
    <3>1. DOMAIN piece = 1..m /\ piece = [i \in DOMAIN piece |-> piece[i]]
      BY <1>3 DEF m
    <3> QED BY <2>3, <3>1
  <2> QED BY <1>2, <2>1, <2>2, <2>4, <2>5 DEF GapTexts, piece
<1> QED BY <1>4, <1>5

LEMMA WordsHoldSentences ==
    ASSUME NEW p, WellFormed(p), NEW text \in Seq(STRING), NEW words, NEW n \in Nat, Len(text) <= n,
           \A i \in DOMAIN text : <<text[i]>> \in words[text[i]],
           WordsClosed(p, words, n), IsSentence(p, text)
    PROVE  text \in words["main"]
<1> DEFINE Piece(lo, hi) == SubSeq(text, lo + 1, hi)
           Open(id, d) == Openings(p, words, id, n)[d]
           InWords(symbol, lo, hi) == lo <= hi /\ Piece(lo, hi) \in words[symbol]
           InOpening(id, d, lo, hi) == lo <= hi /\ Piece(lo, hi) \in Open(id, d)
           Symbols == STRING \cup {"main"}
           whole == {t \in Symbols \X Places(text) \X Places(text) \X Seq(Nat) : InWords(t[1], t[2], t[3])}
           part == {t \in Rules(p) \X Nat \X Places(text) \X Places(text) \X Seq(Nat) :
                       InOpening(t[1], t[2], t[3], t[4])}
<1>1. \A symbol \in Symbols : \A lo, hi \in Places(text) : \A calls \in Seq(Nat) :
         <<symbol, lo, hi, calls>> \in whole <=> InWords(symbol, lo, hi)
  <2> HIDE DEF InWords
  <2> QED OBVIOUS
<1>2. \A id \in Rules(p) : \A d \in Nat : \A lo, hi \in Places(text) : \A calls \in Seq(Nat) :
         <<id, d, lo, hi, calls>> \in part <=> InOpening(id, d, lo, hi)
  <2> HIDE DEF InOpening
  <2> QED OBVIOUS
<1>3. \A id \in Rules(p) :
         /\ id \in Nat /\ id # 0 /\ p.productions[id].lhs \in STRING
         /\ Len(p.productions[id].rhs) \in Nat
         /\ DOMAIN p.productions[id].rhs = 1..Len(p.productions[id].rhs)
         /\ \A d \in DOMAIN p.productions[id].rhs : p.productions[id].rhs[d] \in STRING
  BY DEF WellFormed, Rules
<1>4. <<>> \in Seq(Nat) /\ Len(text) \in Nat /\ Places(text) \subseteq Nat /\ 0 \in Nat
  BY DEF Places
<1> HIDE DEF whole, part
<1>5. ASSUME NEW i \in DOMAIN text PROVE <<text[i], i - 1, i, <<>>>> \in whole
  <2>1. i \in 1..Len(text) /\ text[i] \in STRING
    OBVIOUS
  <2>2. i - 1 \in Places(text) /\ i \in Places(text) /\ i - 1 <= i /\ i - (i - 1) = 1 /\ i - 1 + 1 = i
    BY <2>1, <1>4 DEF Places
  <2> DEFINE piece == Piece(i - 1, i)
  <2>3. piece \in Seq(STRING) /\ Len(piece) = 1 /\ piece[1] = text[i]
    <3>1. /\ piece \in Seq(STRING) /\ Len(piece) = i - (i - 1)
          /\ \A j \in 1..(i - (i - 1)) : piece[j] = text[i - 1 + j]
      BY <2>2, PieceOf
    <3>2. 1 \in 1..(i - (i - 1))
      BY <2>2
    <3> HIDE DEF piece
    <3> QED BY <3>1, <3>2, <2>2
  <2> HIDE DEF piece
  <2>4. piece = <<text[i]>>
    BY <2>3
  <2>5. InWords(text[i], i - 1, i)
    BY <2>2, <2>4 DEF piece
  <2> HIDE DEF InWords
  <2> QED BY <1>1, <1>4, <2>1, <2>2, <2>5
<1>6. ASSUME NEW id \in Rules(p), NEW lo \in Places(text), NEW hi \in Places(text), Gap(p, text, id, 0, lo, hi)
      PROVE  <<id, 0, lo, hi, <<>>>> \in part
  <2>1. lo <= hi /\ Piece(lo, hi) \in GapTexts(p, id, 0, n)
    BY <1>6, GapIsText
  <2>2. InOpening(id, 0, lo, hi)
    BY <1>3, <2>1, OpeningsUnfold
  <2> HIDE DEF InOpening
  <2> QED BY <1>2, <1>4, <2>2
<1>7. ASSUME NEW id \in Rules(p), NEW d \in DOMAIN p.productions[id].rhs,
             NEW lo \in Places(text), NEW from \in Places(text), NEW to \in Places(text), NEW hi \in Places(text),
             NEW before \in Seq(Nat), NEW own \in Seq(Nat),
             <<id, d - 1, lo, from, before>> \in part,
             <<p.productions[id].rhs[d], from, to, own>> \in whole,
             Gap(p, text, id, d, to, hi)
      PROVE  <<id, d, lo, hi, before \o own>> \in part
  <2> DEFINE symbol == p.productions[id].rhs[d]
  <2>1. d \in 1..Len(p.productions[id].rhs) /\ d - 1 \in Nat /\ d \in Nat /\ symbol \in STRING
    BY <1>3
  <2> HIDE DEF symbol
  <2>2. InOpening(id, d - 1, lo, from)
    <3> HIDE DEF InOpening
    <3> QED BY <1>2, <1>7, <2>1
  <2>3. InWords(symbol, from, to)
    <3> HIDE DEF InWords
    <3> QED BY <1>1, <1>7, <2>1 DEF symbol
  <2>4. to <= hi /\ Piece(to, hi) \in GapTexts(p, id, d, n)
    BY <1>7, GapIsText
  <2>5. lo <= from /\ from <= to /\ lo <= to /\ lo <= hi
    BY <1>4, <2>2, <2>3, <2>4
  <2>6. Piece(lo, to) \in Joined(Open(id, d - 1), words[symbol], n)
    BY <2>2, <2>3, <2>5, PiecesJoin
  <2>7. Piece(lo, hi) \in Joined(Joined(Open(id, d - 1), words[symbol], n), GapTexts(p, id, d, n), n)
    BY <2>4, <2>5, <2>6, PiecesJoin
  <2>8. InOpening(id, d, lo, hi)
    BY <1>3, <2>1, <2>5, <2>7, OpeningsUnfold DEF symbol
  <2>9. before \o own \in Seq(Nat)
    BY Concatenated
  <2> HIDE DEF InOpening
  <2> QED BY <1>2, <2>1, <2>8, <2>9
<1>8. ASSUME NEW id \in Rules(p), NEW lo \in Places(text), NEW hi \in Places(text), NEW calls \in Seq(Nat),
             <<id, Len(p.productions[id].rhs), lo, hi, calls>> \in part
      PROVE  <<p.productions[id].lhs, lo, hi, Append(calls, id - 1)>> \in whole
  <2> DEFINE len == Len(p.productions[id].rhs)
             lhs == p.productions[id].lhs
  <2>1. len \in Nat /\ lhs \in STRING /\ id - 1 \in Nat
    BY <1>3
  <2>2. Open(id, len) \subseteq words[lhs]
    BY DEF WordsClosed
  <2>3. <<id, len, lo, hi, calls>> \in part
    BY <1>8
  <2> HIDE DEF len, lhs
  <2>4. InOpening(id, len, lo, hi)
    <3> HIDE DEF InOpening
    <3> QED BY <1>2, <2>1, <2>3
  <2>5. InWords(lhs, lo, hi)
    BY <2>2, <2>4
  <2>6. Append(calls, id - 1) \in Seq(Nat)
    BY <2>1
  <2> HIDE DEF InWords
  <2> QED BY <1>1, <2>1, <2>5, <2>6 DEF lhs
<1>9. ClosedUnder(p, text, whole, part)
  <2>1. \A i \in DOMAIN text : <<text[i], i - 1, i, <<>>>> \in whole
    BY <1>5
  <2>2. \A id \in Rules(p) : \A lo, hi \in Places(text) :
           Gap(p, text, id, 0, lo, hi) => <<id, 0, lo, hi, <<>>>> \in part
    BY <1>6
  <2>3. \A id \in Rules(p) : \A d \in DOMAIN p.productions[id].rhs :
           \A lo, from, to, hi \in Places(text) : \A before, own \in Seq(Nat) :
              /\ <<id, d - 1, lo, from, before>> \in part
              /\ <<p.productions[id].rhs[d], from, to, own>> \in whole
              /\ Gap(p, text, id, d, to, hi)
              => <<id, d, lo, hi, before \o own>> \in part
    <3> TAKE id \in Rules(p)
    <3> TAKE d \in DOMAIN p.productions[id].rhs
    <3> TAKE lo, from, to, hi \in Places(text)
    <3> TAKE before, own \in Seq(Nat)
    <3> QED BY <1>7
  <2>4. \A id \in Rules(p) : \A lo, hi \in Places(text) : \A calls \in Seq(Nat) :
           <<id, Len(p.productions[id].rhs), lo, hi, calls>> \in part
              => <<p.productions[id].lhs, lo, hi, Append(calls, id - 1)>> \in whole
    BY <1>8
  <2> QED BY <2>1, <2>2, <2>3, <2>4 DEF ClosedUnder
<1>10. PICK calls \in Seq(Nat) : <<"main", 0, Len(text), calls>> \in whole
  BY <1>9 DEF IsSentence, IsReading, Derived
<1>11. InWords("main", 0, Len(text))
  <2>1. 0 \in Places(text) /\ Len(text) \in Places(text)
    BY <1>4 DEF Places
  <2> DEFINE len == Len(text)
  <2>2. len \in Places(text) /\ <<"main", 0, len, calls>> \in whole
    BY <1>10, <2>1
  <2> HIDE DEF InWords, len
  <2>3. InWords("main", 0, len)
    <3>1. "main" \in Symbols
      OBVIOUS
    <3> QED BY <1>1, <2>1, <2>2, <3>1
  <2> QED BY <2>3 DEF len
<1>12. Piece(0, Len(text)) = text
  OBVIOUS
<1> QED BY <1>11, <1>12
-----------------------------------------------------------------------------
(* The lookahead at a position. *)

SolidAt(p, text, from, i) ==
    IF i >= Len(text) THEN <<>>
    ELSE IF LrIsSpace(p, text[i + 1]) THEN from[i + 1]
    ELSE <<text[i + 1]>> \o from[i + 1]

\* from gives what is solid from the last m positions on.
IsSolid(p, text, from, m) ==
    from = [i \in (Len(text) + 1 - m)..(Len(text) + 1) |-> SolidAt(p, text, from, i)]

LEMMA SolidExists ==
    ASSUME NEW p, NEW text, Len(text) \in Nat, NEW m \in Nat
    PROVE  \E from : IsSolid(p, text, from, m)
<1> DEFINE n == Len(text)
           Missing == {l \in Nat : ~\E from : IsSolid(p, text, from, l)}
<1>1. CASE Missing = {}
  BY <1>1
<1>2. CASE Missing # {}
  <2>1. Missing \subseteq Nat
    OBVIOUS
  <2>2. PICK l \in Missing : \A other \in Missing : l <= other
    <3> HIDE DEF Missing
    <3> QED BY <1>2, <2>1, HasFirst
  <2>3. l \in Nat /\ ~\E from : IsSolid(p, text, from, l)
    BY <2>2
  <2>4. CASE l = 0
    <3> DEFINE from == [i \in (n + 1 - l)..(n + 1) |-> <<>>]
    <3>1. \A i \in (n + 1 - l)..(n + 1) : SolidAt(p, text, from, i) = <<>>
      BY <2>4 DEF SolidAt
    <3>2. from = [i \in (n + 1 - l)..(n + 1) |-> SolidAt(p, text, from, i)]
      BY <3>1
    <3> HIDE DEF from
    <3> QED BY <2>3, <3>2 DEF IsSolid
  <2>5. CASE l > 0
    <3>1. l - 1 \in Nat /\ ~(l <= l - 1)
      BY <2>3, <2>5
    <3>2. PICK before : IsSolid(p, text, before, l - 1)
      <4>1. l - 1 \notin Missing
        BY <2>2, <3>1
      <4> QED BY <3>1, <4>1
    <3> DEFINE s == n + 1 - l
               from == [i \in s..(n + 1) |-> IF i > s THEN before[i] ELSE SolidAt(p, text, before, i)]
    <3>3. \A i \in (s + 1)..(n + 1) : before[i] = SolidAt(p, text, before, i)
      <4>1. n + 1 - (l - 1) = s + 1
        BY <2>3
      <4>2. before = [i \in (s + 1)..(n + 1) |-> SolidAt(p, text, before, i)]
        BY <3>2, <4>1 DEF IsSolid
      <4> HIDE DEF s, n
      <4> QED BY <4>2
    <3>4. s \in Int /\ s < n + 1 /\ n \in Nat
      BY <2>3, <2>5
    <3> HIDE DEF n, s
    <3>5. ASSUME NEW i \in s..(n + 1) PROVE from[i] = SolidAt(p, text, from, i)
      <4>1. from[i] = SolidAt(p, text, before, i)
        <5>1. CASE i > s
          <6>1. i \in (s + 1)..(n + 1)
            BY <5>1, <3>4
          <6> QED BY <5>1, <6>1, <3>3
        <5>2. CASE ~(i > s)
          BY <5>2
        <5> QED BY <5>1, <5>2
      <4>2. CASE i >= n
        BY <4>1, <4>2 DEF SolidAt, n
      <4>3. CASE ~(i >= n)
        <5>1. i + 1 \in s..(n + 1) /\ i + 1 > s
          BY <4>3, <3>4
        <5>2. from[i + 1] = before[i + 1]
          BY <5>1
        <5> HIDE DEF from
        <5> QED BY <4>1, <5>2 DEF SolidAt
      <4> QED BY <4>2, <4>3
    <3>6. from = [i \in s..(n + 1) |-> SolidAt(p, text, from, i)]
      <4>1. from = [i \in s..(n + 1) |-> from[i]]
        OBVIOUS
      <4> HIDE DEF from
      <4> QED BY <3>5, <4>1
    <3> HIDE DEF from
    <3>7. IsSolid(p, text, from, l)
      BY <3>6 DEF IsSolid, s, n
    <3> QED BY <2>3, <3>7
  <2> QED BY <2>3, <2>4, <2>5
<1> QED BY <1>1, <1>2

LEMMA SolidUnfolds ==
    ASSUME NEW p, NEW text, Len(text) \in Nat, NEW i \in 0..(Len(text) + 1)
    PROVE  SolidFrom(p, text)[i] = SolidAt(p, text, SolidFrom(p, text), i)
<1> DEFINE n == Len(text)
           Is(from) == from = [j \in 0..(n + 1) |-> SolidAt(p, text, from, j)]
<1>1. SolidFrom(p, text) = CHOOSE from : Is(from)
  BY Zenon DEF SolidFrom, SolidAt
<1>2. \E from : Is(from)
  <2>1. n + 1 \in Nat /\ n + 1 - (n + 1) = 0
    OBVIOUS
  <2>2. PICK from : IsSolid(p, text, from, n + 1)
    BY <2>1, SolidExists
  <2>3. Is(from)
    BY <2>1, <2>2 DEF IsSolid
  <2> QED BY <2>3
<1>3. Is(SolidFrom(p, text))
  <2> HIDE DEF Is
  <2> QED BY <1>1, <1>2, Zenon
<1> DEFINE from == SolidFrom(p, text)
<1>4. from = [j \in 0..(n + 1) |-> SolidAt(p, text, from, j)]
  BY <1>3
<1> HIDE DEF from
<1>5. from[i] = SolidAt(p, text, from, i)
  BY <1>4
<1> QED BY <1>5 DEF from

LEMMA SolidTyped ==
    ASSUME NEW p, NEW text \in Seq(STRING), NEW i \in 0..(Len(text) + 1)
    PROVE  SolidFrom(p, text)[i] \in Seq(STRING)
<1> DEFINE n == Len(text)
           from == SolidFrom(p, text)
           Bad == {l \in 0..(n + 1) : from[n + 1 - l] \notin Seq(STRING)}
<1>1. n \in Nat
  OBVIOUS
<1>2. CASE Bad # {}
  <2>1. Bad \subseteq Nat
    BY <1>1
  <2>2. PICK l \in Bad : \A other \in Bad : l <= other
    <3> HIDE DEF Bad
    <3> QED BY <1>2, <2>1, HasFirst
  <2>3. l \in 0..(n + 1) /\ from[n + 1 - l] \notin Seq(STRING)
    BY <2>2
  <2> DEFINE j == n + 1 - l
  <2>4. j \in 0..(n + 1)
    BY <1>1, <2>3
  <2>5. from[j] = SolidAt(p, text, from, j)
    <3> HIDE DEF j
    <3> QED BY <1>1, <2>4, SolidUnfolds
  <2>6. ~(j >= n)
    <3> SUFFICES ASSUME j >= n PROVE FALSE
      OBVIOUS
    <3>1. from[j] \notin Seq(STRING)
      BY <2>3
    <3>2. from[j] = <<>>
      BY <2>5 DEF SolidAt
    <3> HIDE DEF j, from
    <3> QED BY <3>1, <3>2
  <2>7. from[j + 1] \in Seq(STRING)
    <3>1. l - 1 \in 0..(n + 1) /\ ~(l <= l - 1) /\ n + 1 - (l - 1) = j + 1
      BY <1>1, <2>3, <2>4, <2>6
    <3>2. l - 1 \notin Bad
      BY <2>2, <3>1
    <3> QED BY <3>1, <3>2
  <2>8. j + 1 \in DOMAIN text
    BY <1>1, <2>4, <2>6
  <2>9. text[j + 1] \in STRING
    BY <2>8
  <2>10. from[j] \notin Seq(STRING)
    BY <2>3
  <2> HIDE DEF j, from
  <2>11. <<text[j + 1]>> \o from[j + 1] \in Seq(STRING)
    BY <2>7, <2>9
  <2>12. SolidAt(p, text, from, j) \in {<<>>, from[j + 1], <<text[j + 1]>> \o from[j + 1]}
    BY Zenon DEF SolidAt
  <2>13. <<>> \in Seq(STRING)
    OBVIOUS
  <2>14. FALSE
    BY <2>5, <2>7, <2>10, <2>11, <2>12, <2>13, Zenon
  <2> QED BY <2>14
<1>3. CASE Bad = {}
  <2>1. n + 1 - i \in 0..(n + 1) /\ n + 1 - (n + 1 - i) = i
    BY <1>1
  <2>2. n + 1 - i \notin Bad
    BY <1>3
  <2> QED BY <2>1, <2>2
<1> QED BY <1>2, <1>3

\* What windows are made of.
Terminals == STRING \cup {EndOfInput}

\* The window at a position, whatever whitespace comes there.
Win(p, text, i) == [j \in 1..p.k |-> Ahead(p, text, i, j)]

LEMMA WindowIsSequence ==
    ASSUME NEW p, p.k \in Nat \ {0}, NEW text \in Seq(STRING), NEW i \in 0..(Len(text) + 1)
    PROVE  Win(p, text, i) \in Seq(Terminals) /\ Len(Win(p, text, i)) = p.k
<1>1. SolidFrom(p, text)[i] \in Seq(STRING)
  BY SolidTyped
<1>2. \A j \in 1..p.k : Ahead(p, text, i, j) \in Terminals
  <2> TAKE j \in 1..p.k
  <2> DEFINE solid == SolidFrom(p, text)[i]
  <2>1. Ahead(p, text, i, j) = IF j <= Len(solid) THEN solid[j] ELSE EndOfInput
    BY DEF Ahead
  <2>2. solid \in Seq(STRING)
    BY <1>1
  <2> HIDE DEF solid
  <2>3. CASE j <= Len(solid)
    BY <2>1, <2>2, <2>3 DEF Terminals
  <2>4. CASE ~(j <= Len(solid))
    BY <2>1, <2>4 DEF Terminals
  <2> QED BY <2>3, <2>4
<1> QED BY <1>2 DEF Win

LEMMA WindowAtTheEnd ==
    ASSUME NEW p, p.k \in Nat \ {0}, NEW text \in Seq(STRING), NEW i \in {Len(text), Len(text) + 1}
    PROVE  Win(p, text, i) = AtTheEnd(p)
<1>1. SolidFrom(p, text)[i] = <<>>
  <2>1. Len(text) \in Nat /\ i \in 0..(Len(text) + 1) /\ i >= Len(text)
    OBVIOUS
  <2>2. SolidFrom(p, text)[i] = SolidAt(p, text, SolidFrom(p, text), i)
    BY <2>1, SolidUnfolds
  <2> QED BY <2>1, <2>2 DEF SolidAt
<1>2. \A j \in 1..p.k : Ahead(p, text, i, j) = EndOfInput
  BY <1>1 DEF Ahead
<1> QED BY <1>2 DEF Win, AtTheEnd

LEMMA WindowOverBlank ==
    ASSUME NEW p, NEW text \in Seq(STRING), NEW i \in Nat, i < Len(text), LrIsSpace(p, text[i + 1])
    PROVE  Win(p, text, i) = Win(p, text, i + 1)
<1>1. SolidFrom(p, text)[i] = SolidFrom(p, text)[i + 1]
  <2>1. Len(text) \in Nat /\ i \in 0..(Len(text) + 1) /\ ~(i >= Len(text))
    OBVIOUS
  <2>2. SolidFrom(p, text)[i] = SolidAt(p, text, SolidFrom(p, text), i)
    BY <2>1, SolidUnfolds
  <2> QED BY <2>1, <2>2 DEF SolidAt
<1> QED BY <1>1 DEF Win, Ahead

LEMMA WindowOfToken ==
    ASSUME NEW p, p.k \in Nat \ {0}, NEW text \in Seq(STRING), NEW i \in Nat, i < Len(text),
           ~LrIsSpace(p, text[i + 1])
    PROVE  /\ \A j \in 1..p.k : Win(p, text, i)[j] = IF j = 1 THEN text[i + 1] ELSE Win(p, text, i + 1)[j - 1]
           /\ Window(p, text, i) = Win(p, text, i)
<1> DEFINE t == text[i + 1]
           rest == SolidFrom(p, text)[i + 1]
           solid == SolidFrom(p, text)[i]
<1>1. i \in 0..(Len(text) + 1) /\ i + 1 \in 0..(Len(text) + 1) /\ ~(i >= Len(text)) /\ i + 1 \in DOMAIN text
      /\ Len(text) \in Nat /\ i # Len(text)
  OBVIOUS
<1>2. rest \in Seq(STRING) /\ t \in STRING
  BY <1>1, SolidTyped
<1>3. solid = <<t>> \o rest
  <2>1. solid = SolidAt(p, text, SolidFrom(p, text), i)
    BY <1>1, SolidUnfolds
  <2> QED BY <1>1, <2>1 DEF SolidAt
<1>4. \A j \in 1..p.k : Ahead(p, text, i, j) = IF j <= Len(solid) THEN solid[j] ELSE EndOfInput
  BY DEF Ahead
<1>5. \A j \in 1..p.k : Ahead(p, text, i + 1, j) = IF j <= Len(rest) THEN rest[j] ELSE EndOfInput
  BY DEF Ahead
<1>6. \A j \in 1..p.k : j > 1 => j - 1 \in 1..p.k
  OBVIOUS
<1>7. ASSUME NEW j \in 1..p.k
      PROVE  Ahead(p, text, i, j) = IF j = 1 THEN t ELSE Ahead(p, text, i + 1, j - 1)
  <2> HIDE DEF t, rest, solid
  <2>1. Len(solid) = Len(rest) + 1 /\ solid[1] = t /\ Len(rest) \in Nat
    BY <1>2, <1>3
  <2>2. \A l \in 1..Len(rest) : solid[l + 1] = rest[l]
    BY <1>2, <1>3
  <2>3. CASE j = 1
    BY <1>4, <2>1, <2>3
  <2>4. CASE j # 1
    <3>1. j - 1 \in 1..p.k /\ (j <= Len(solid) <=> j - 1 <= Len(rest))
      BY <2>1, <2>4
    <3>2. Ahead(p, text, i + 1, j - 1) = IF j - 1 <= Len(rest) THEN rest[j - 1] ELSE EndOfInput
      BY <1>5, <3>1
    <3>3. j - 1 <= Len(rest) => solid[j] = rest[j - 1]
      <4>1. j - 1 <= Len(rest) => j - 1 \in 1..Len(rest) /\ j - 1 + 1 = j
        BY <2>1, <3>1
      <4> QED BY <4>1, <2>2
    <3> QED BY <1>4, <2>4, <3>1, <3>2, <3>3
  <2> QED BY <2>3, <2>4
<1>8. KindAt(text, i) = t
  BY <1>1 DEF KindAt
<1>9. Window(p, text, i) = [j \in 1..p.k |-> IF j = 1 THEN t ELSE Ahead(p, text, i + 1, j - 1)]
  BY <1>8 DEF Window
<1> HIDE DEF t, rest, solid
<1> QED BY <1>6, <1>7, <1>9 DEF Win, t

\* At the end of the input or before a token the drivers look at this window.
LEMMA WindowThere ==
    ASSUME NEW p, p.k \in Nat \ {0}, NEW text \in Seq(STRING), NEW i \in Places(text),
           ~(i < Len(text) /\ LrIsSpace(p, text[i + 1]))
    PROVE  Window(p, text, i) = Win(p, text, i)
<1>1. Len(text) \in Nat /\ i \in Nat /\ i <= Len(text)
  BY DEF Places
<1>2. CASE i < Len(text)
  BY <1>1, <1>2, WindowOfToken
<1>3. CASE i = Len(text)
  <2>1. Win(p, text, i) = AtTheEnd(p) /\ Win(p, text, i + 1) = AtTheEnd(p)
    BY <1>3, WindowAtTheEnd
  <2>2. KindAt(text, i) = EndOfInput
    BY <1>3 DEF KindAt
  <2>3. \A j \in 1..p.k : j # 1 => Ahead(p, text, i + 1, j - 1) = EndOfInput
    <3> TAKE j \in 1..p.k
    <3> HAVE j # 1
    <3>1. j - 1 \in 1..p.k
      OBVIOUS
    <3>2. Win(p, text, i + 1)[j - 1] = Ahead(p, text, i + 1, j - 1)
      BY <3>1 DEF Win
    <3> QED BY <2>1, <3>1, <3>2 DEF AtTheEnd
  <2> QED BY <2>1, <2>2, <2>3 DEF Window, AtTheEnd
<1> QED BY <1>1, <1>2, <1>3

LEMMA WindowOverBlanks ==
    ASSUME NEW p, NEW text \in Seq(STRING), NEW lo \in Places(text), NEW hi \in Places(text),
           Blanks(p, text, lo, hi)
    PROVE  Win(p, text, lo) = Win(p, text, hi)
<1> DEFINE Bad == {d \in 0..(hi - lo) : Win(p, text, hi - d) # Win(p, text, hi)}
<1>1. lo \in Nat /\ hi \in Nat /\ lo <= hi /\ hi <= Len(text) /\ Len(text) \in Nat
  BY DEF Blanks, Places
<1>2. CASE Bad # {}
  <2>1. Bad \subseteq Nat
    BY <1>1
  <2>2. PICK d \in Bad : \A other \in Bad : d <= other
    <3> HIDE DEF Bad
    <3> QED BY <1>2, <2>1, HasFirst
  <2>3. d \in 0..(hi - lo) /\ Win(p, text, hi - d) # Win(p, text, hi)
    BY <2>2
  <2>4. d # 0
    <3> SUFFICES ASSUME d = 0 PROVE FALSE
      OBVIOUS
    <3>1. hi - d = hi
      BY <1>1
    <3> QED BY <2>3, <3>1
  <2>5. d - 1 \in 0..(hi - lo) /\ ~(d <= d - 1)
    BY <1>1, <2>3, <2>4
  <2>6. Win(p, text, hi - (d - 1)) = Win(p, text, hi)
    <3>1. d - 1 \notin Bad
      BY <2>2, <2>5
    <3> QED BY <2>5, <3>1
  <2>7. hi - d \in Nat /\ hi - d < Len(text) /\ hi - d + 1 = hi - (d - 1) /\ hi - d + 1 \in (lo + 1)..hi
    BY <1>1, <2>3, <2>4
  <2>8. LrIsSpace(p, text[hi - d + 1])
    BY <2>7 DEF Blanks
  <2>9. Win(p, text, hi - d) = Win(p, text, hi - d + 1)
    BY <2>7, <2>8, WindowOverBlank
  <2> QED BY <2>3, <2>6, <2>7, <2>9
<1>3. CASE Bad = {}
  <2>1. hi - lo \in 0..(hi - lo) /\ hi - (hi - lo) = lo
    BY <1>1
  <2>2. hi - lo \notin Bad
    BY <1>3
  <2> QED BY <2>1, <2>2
<1> QED BY <1>2, <1>3

-----------------------------------------------------------------------------
(* Cutting windows. *)

LEMMA CutHas ==
    ASSUME NEW p, p.k \in Nat, NEW S, NEW w \in Seq(S)
    PROVE  /\ Cut(p, w) \in Seq(S)
           /\ Len(Cut(p, w)) = IF Len(w) < p.k THEN Len(w) ELSE p.k
           /\ \A j \in 1..Len(Cut(p, w)) : Cut(p, w)[j] = w[j]
<1> DEFINE n == IF Len(w) < p.k THEN Len(w) ELSE p.k
<1>1. n \in 0..Len(w)
  OBVIOUS
<1> HIDE DEF n
<1>2. /\ SubSeq(w, 1, n) \in Seq(S) /\ Len(SubSeq(w, 1, n)) = n
      /\ \A j \in 1..n : SubSeq(w, 1, n)[j] = w[j]
  BY <1>1, Prefix
<1> QED BY <1>2 DEF Cut, n

LEMMA Catenated ==
    ASSUME NEW S, NEW a \in Seq(S), NEW b \in Seq(S)
    PROVE  /\ a \o b \in Seq(S) /\ Len(a \o b) = Len(a) + Len(b)
           /\ \A j \in 1..Len(a) : (a \o b)[j] = a[j]
           /\ \A j \in 1..Len(b) : (a \o b)[Len(a) + j] = b[j]
<1>1. a \o b \in Seq(S)
  OBVIOUS
<1>2. Len(a \o b) = Len(a) + Len(b)
  OBVIOUS
<1> QED BY <1>1, <1>2

LEMMA CutOfLeft ==
    ASSUME NEW p, p.k \in Nat, NEW S, NEW a \in Seq(S), NEW b \in Seq(S)
    PROVE  Cut(p, Cut(p, a) \o b) = Cut(p, a \o b)
<1> DEFINE c == Cut(p, a)
           x == Cut(p, c \o b)
           y == Cut(p, a \o b)
<1>1. c \in Seq(S) /\ Len(c) = (IF Len(a) < p.k THEN Len(a) ELSE p.k) /\ \A j \in 1..Len(c) : c[j] = a[j]
  BY CutHas
<1> HIDE DEF c
<1>2. c \o b \in Seq(S) /\ Len(c \o b) = Len(c) + Len(b) /\ a \o b \in Seq(S) /\ Len(a \o b) = Len(a) + Len(b)
  BY <1>1, Catenated
<1> DEFINE cb == c \o b
           ab == a \o b
<1>3. /\ x \in Seq(S) /\ Len(x) = (IF Len(c \o b) < p.k THEN Len(c \o b) ELSE p.k)
      /\ \A j \in 1..Len(x) : x[j] = (c \o b)[j]
  <2>1. cb \in Seq(S)
    BY <1>2
  <2> HIDE DEF cb
  <2>2. /\ Cut(p, cb) \in Seq(S) /\ Len(Cut(p, cb)) = (IF Len(cb) < p.k THEN Len(cb) ELSE p.k)
        /\ \A j \in 1..Len(Cut(p, cb)) : Cut(p, cb)[j] = cb[j]
    BY <2>1, CutHas
  <2> QED BY <2>2 DEF cb
<1>4. /\ y \in Seq(S) /\ Len(y) = (IF Len(a \o b) < p.k THEN Len(a \o b) ELSE p.k)
      /\ \A j \in 1..Len(y) : y[j] = (a \o b)[j]
  <2>1. ab \in Seq(S)
    BY <1>2
  <2> HIDE DEF ab
  <2>2. /\ Cut(p, ab) \in Seq(S) /\ Len(Cut(p, ab)) = (IF Len(ab) < p.k THEN Len(ab) ELSE p.k)
        /\ \A j \in 1..Len(Cut(p, ab)) : Cut(p, ab)[j] = ab[j]
    BY <2>1, CutHas
  <2> QED BY <2>2 DEF ab
<1> HIDE DEF x, y
<1>5. Len(x) = Len(y)
  BY <1>1, <1>2, <1>3, <1>4
<1>6. \A j \in 1..Len(x) : (c \o b)[j] = (a \o b)[j]
  <2> TAKE j \in 1..Len(x)
  <2>1. CASE Len(a) < p.k
    <3>1. c = a
      <4>1. Len(c) = Len(a)
        BY <1>1, <2>1
      <4> QED BY <4>1, <1>1, SameElements
    <3> QED BY <3>1
  <2>2. CASE ~(Len(a) < p.k)
    <3>1. j \in 1..Len(c) /\ j \in 1..Len(a)
      BY <1>1, <1>2, <1>3, <2>2
    <3>2. (c \o b)[j] = c[j] /\ (a \o b)[j] = a[j]
      BY <3>1, <1>1
    <3> QED BY <3>1, <3>2, <1>1
  <2> QED BY <2>1, <2>2
<1>7. x = y
  BY <1>3, <1>4, <1>5, <1>6, SameElements
<1> QED BY <1>7 DEF x, y, c

LEMMA CutOfRight ==
    ASSUME NEW p, p.k \in Nat, NEW S, NEW a \in Seq(S), NEW b \in Seq(S)
    PROVE  Cut(p, a \o Cut(p, b)) = Cut(p, a \o b)
<1> DEFINE c == Cut(p, b)
           x == Cut(p, a \o c)
           y == Cut(p, a \o b)
<1>1. c \in Seq(S) /\ Len(c) = (IF Len(b) < p.k THEN Len(b) ELSE p.k) /\ \A j \in 1..Len(c) : c[j] = b[j]
  BY CutHas
<1> HIDE DEF c
<1>2. a \o c \in Seq(S) /\ Len(a \o c) = Len(a) + Len(c) /\ a \o b \in Seq(S) /\ Len(a \o b) = Len(a) + Len(b)
  BY <1>1, Catenated
<1> DEFINE cb == a \o c
           ab == a \o b
<1>3. /\ x \in Seq(S) /\ Len(x) = (IF Len(a \o c) < p.k THEN Len(a \o c) ELSE p.k)
      /\ \A j \in 1..Len(x) : x[j] = (a \o c)[j]
  <2>1. cb \in Seq(S)
    BY <1>2
  <2> HIDE DEF cb
  <2>2. /\ Cut(p, cb) \in Seq(S) /\ Len(Cut(p, cb)) = (IF Len(cb) < p.k THEN Len(cb) ELSE p.k)
        /\ \A j \in 1..Len(Cut(p, cb)) : Cut(p, cb)[j] = cb[j]
    BY <2>1, CutHas
  <2> QED BY <2>2 DEF cb
<1>4. /\ y \in Seq(S) /\ Len(y) = (IF Len(a \o b) < p.k THEN Len(a \o b) ELSE p.k)
      /\ \A j \in 1..Len(y) : y[j] = (a \o b)[j]
  <2>1. ab \in Seq(S)
    BY <1>2
  <2> HIDE DEF ab
  <2>2. /\ Cut(p, ab) \in Seq(S) /\ Len(Cut(p, ab)) = (IF Len(ab) < p.k THEN Len(ab) ELSE p.k)
        /\ \A j \in 1..Len(Cut(p, ab)) : Cut(p, ab)[j] = ab[j]
    BY <2>1, CutHas
  <2> QED BY <2>2 DEF ab
<1> HIDE DEF x, y
<1>5. Len(x) = Len(y)
  BY <1>1, <1>2, <1>3, <1>4
<1>6. \A j \in 1..Len(x) : (a \o c)[j] = (a \o b)[j]
  <2> TAKE j \in 1..Len(x)
  <2>1. CASE j <= Len(a)
    <3>1. (a \o c)[j] = a[j] /\ (a \o b)[j] = a[j]
      BY <2>1, <1>1, <1>3
    <3> QED BY <3>1
  <2>2. CASE ~(j <= Len(a))
    <3>1. j - Len(a) \in 1..Len(c) /\ j - Len(a) \in 1..Len(b)
      BY <1>1, <1>2, <1>3, <2>2
    <3>2. (a \o c)[j] = c[j - Len(a)] /\ (a \o b)[j] = b[j - Len(a)]
      BY <3>1, <1>1, <1>3, <2>2
    <3> QED BY <3>1, <3>2, <1>1
  <2> QED BY <2>1, <2>2
<1>7. x = y
  BY <1>3, <1>4, <1>5, <1>6, SameElements
<1> QED BY <1>7 DEF x, y, c

LEMMA CutOfWindow ==
    ASSUME NEW p, p.k \in Nat, NEW S, NEW w \in Seq(S), Len(w) = p.k
    PROVE  Cut(p, w) = w
<1>1. Cut(p, w) \in Seq(S) /\ Len(Cut(p, w)) = Len(w) /\ \A j \in 1..Len(w) : Cut(p, w)[j] = w[j]
  BY CutHas
<1> QED BY <1>1, SameElements

\* The window before a token is the token, then the window behind it.
LEMMA WindowIsTokenFirst ==
    ASSUME NEW p, p.k \in Nat \ {0}, NEW text \in Seq(STRING), NEW i \in Nat, i < Len(text),
           ~LrIsSpace(p, text[i + 1])
    PROVE  Win(p, text, i) = Cut(p, <<text[i + 1]>> \o Win(p, text, i + 1))
<1> DEFINE v == Win(p, text, i)
           w == Win(p, text, i + 1)
           t == text[i + 1]
           x == Cut(p, <<t>> \o w)
<1>1. i \in 0..(Len(text) + 1) /\ i + 1 \in 0..(Len(text) + 1) /\ i + 1 \in DOMAIN text
  OBVIOUS
<1>2. v \in Seq(Terminals) /\ Len(v) = p.k /\ w \in Seq(Terminals) /\ Len(w) = p.k
  BY <1>1, WindowIsSequence
<1>3. \A j \in 1..p.k : v[j] = IF j = 1 THEN t ELSE w[j - 1]
  BY WindowOfToken
<1>4. t \in Terminals
  BY <1>1 DEF Terminals
<1> HIDE DEF v, w, t
<1>5. /\ <<t>> \o w \in Seq(Terminals) /\ Len(<<t>> \o w) = p.k + 1
      /\ \A j \in 1..p.k : (<<t>> \o w)[j] = IF j = 1 THEN t ELSE w[j - 1]
  BY <1>2, <1>4
<1>6. /\ x \in Seq(Terminals) /\ Len(x) = p.k /\ \A j \in 1..p.k : x[j] = (<<t>> \o w)[j]
  <2> DEFINE u == <<t>> \o w
  <2> HIDE DEF u
  <2>1. u \in Seq(Terminals) /\ Len(u) = p.k + 1
    BY <1>5 DEF u
  <2>2. Cut(p, u) \in Seq(Terminals) /\ Len(Cut(p, u)) = p.k /\ \A j \in 1..p.k : Cut(p, u)[j] = u[j]
    BY <2>1, CutHas
  <2> QED BY <2>2 DEF u
<1>7. \A j \in 1..p.k : v[j] = x[j]
  BY <1>3, <1>5, <1>6
<1> HIDE DEF x
<1>8. v = x
  BY <1>2, <1>6, <1>7, SameElements
<1> QED BY <1>8 DEF v, x, w, t

-----------------------------------------------------------------------------
(* Spans are exact enough: where a derivation has its whitespace in gaps,    *)
(* no span of its members, and none of the spans reductions make, is in the  *)
(* way.                                                                      *)

\* A span that lies between two positions, with the whitespace it allows.
Lies(p, text, span, lo, hi) ==
    /\ Fits(p, text, span, lo, hi) /\ Ordered(span)
    /\ span.empty => span.leading = span.trailing

\* The members before a dot, where they begin (behind a gap) and end.
Marks(p, text, id, kids, d, lo, m, t) ==
    /\ m \in [0..d -> Places(text)] /\ t \in [1..d -> Places(text)]
    /\ Gap(p, text, id, 0, lo, m[0])
    /\ \A i \in 1..d : Lies(p, text, kids[i], m[i - 1], t[i]) /\ Gap(p, text, id, i, t[i], m[i])

Laid(p, text, id, kids, d, lo, hi) ==
    \E m, t : Marks(p, text, id, kids, d, lo, m, t) /\ m[d] = hi

EndBefore(lo, t, i) == IF i = 0 THEN lo ELSE t[i]

LEMMA GapIsBlank ==
    ASSUME NEW p, NEW text, NEW id, NEW g, NEW lo \in Int, NEW hi \in Int, Gap(p, text, id, g, lo, hi)
    PROVE  Blanks(p, text, lo, hi)
<1>1. CASE lo = hi
  BY <1>1, BlankHere
<1>2. CASE lo # hi
  BY <1>2 DEF Gap
<1> QED BY <1>1, <1>2

LEMMA MarksAre ==
    ASSUME NEW p, NEW text \in Seq(STRING), NEW id, NEW d \in Nat, NEW kids \in Seq(SpansOver(Places(text))),
           Len(kids) = d, NEW lo \in Places(text), NEW m, NEW t, Marks(p, text, id, kids, d, lo, m, t)
    PROVE  /\ lo \in Nat /\ lo <= Len(text) /\ Len(text) \in Nat
           /\ \A i \in 0..d : m[i] \in Nat /\ m[i] <= Len(text)
           /\ \A i \in 1..d : t[i] \in Nat /\ t[i] <= Len(text)
           /\ \A i \in 1..d : /\ kids[i].begin \in Nat /\ kids[i].end \in Nat
                              /\ kids[i].begin <= Len(text) /\ kids[i].end <= Len(text)
                              /\ kids[i].empty \in BOOLEAN /\ kids[i].leading \in BOOLEAN /\ kids[i].trailing \in BOOLEAN
<1>1. \A x \in Places(text) : x \in Nat /\ x <= Len(text)
  BY DEF Places
<1>2. \A i \in 1..d : kids[i] \in SpansOver(Places(text))
  OBVIOUS
<1>3. \A i \in 1..d : /\ kids[i].begin \in Places(text) /\ kids[i].end \in Places(text)
                      /\ kids[i].empty \in BOOLEAN /\ kids[i].leading \in BOOLEAN /\ kids[i].trailing \in BOOLEAN
  BY <1>2 DEF SpansOver
<1>4. (\A i \in 0..d : m[i] \in Places(text)) /\ (\A i \in 1..d : t[i] \in Places(text))
  BY DEF Marks
<1> QED BY <1>1, <1>3, <1>4

\* One member with the gap behind it.
LEMMA OneMark ==
    ASSUME NEW p, NEW text \in Seq(STRING), NEW id, NEW d \in Nat, NEW kids \in Seq(SpansOver(Places(text))),
           Len(kids) = d, NEW lo \in Places(text), NEW m, NEW t, Marks(p, text, id, kids, d, lo, m, t),
           NEW i \in 1..d
    PROVE  /\ m[i - 1] <= t[i] /\ t[i] <= m[i]
           /\ Blanks(p, text, t[i], m[i])
           /\ kids[i].empty => Blanks(p, text, m[i - 1], t[i])
           /\ ~kids[i].empty => /\ m[i - 1] <= kids[i].begin /\ kids[i].begin <= kids[i].end /\ kids[i].end <= t[i]
                                /\ Blanks(p, text, m[i - 1], kids[i].begin) /\ Blanks(p, text, kids[i].end, t[i])
<1>1. /\ m[i - 1] \in Nat /\ m[i] \in Nat /\ t[i] \in Nat /\ kids[i].begin \in Nat /\ kids[i].end \in Nat
  <2>1. i - 1 \in 0..d /\ i \in 0..d
    OBVIOUS
  <2> QED BY <2>1, MarksAre
<1>2. Lies(p, text, kids[i], m[i - 1], t[i]) /\ Gap(p, text, id, i, t[i], m[i])
  BY DEF Marks
<1>3. Blanks(p, text, t[i], m[i])
  BY <1>1, <1>2, GapIsBlank
<1>4. t[i] <= m[i]
  BY <1>3 DEF Blanks
<1>5. CASE kids[i].empty
  <2>1. Blanks(p, text, m[i - 1], t[i])
    BY <1>2, <1>5 DEF Lies, Fits
  <2>2. m[i - 1] <= t[i]
    BY <2>1 DEF Blanks
  <2> QED BY <1>3, <1>4, <1>5, <2>1, <2>2
<1>6. CASE ~kids[i].empty
  <2>1. Blanks(p, text, m[i - 1], kids[i].begin) /\ Blanks(p, text, kids[i].end, t[i]) /\ kids[i].begin <= kids[i].end
    BY <1>2, <1>6 DEF Lies, Fits, Ordered
  <2>2. m[i - 1] <= kids[i].begin /\ kids[i].end <= t[i]
    BY <2>1 DEF Blanks
  <2>3. m[i - 1] <= t[i]
    BY <1>1, <2>1, <2>2
  <2> QED BY <1>3, <1>4, <1>6, <2>1, <2>2, <2>3
<1> QED BY <1>5, <1>6

\* Where a rule has room for no whitespace from one member to another...
NoRoom(p, id, kids, i, j) ==
    /\ \A g \in i..j : g \notin p.productions[id].gaps
    /\ \A l \in (i + 1)..j : kids[l].empty /\ ~kids[l].leading /\ ~kids[l].trailing

\* ...there is none.
LEMMA NothingBetween ==
    ASSUME NEW p, NEW text \in Seq(STRING), NEW id, NEW d \in Nat, NEW kids \in Seq(SpansOver(Places(text))),
           Len(kids) = d, NEW lo \in Places(text), NEW m, NEW t, Marks(p, text, id, kids, d, lo, m, t),
           NEW i \in 0..d, NEW j \in i..d, NoRoom(p, id, kids, i, j)
    PROVE  m[j] = EndBefore(lo, t, i)
<1> DEFINE Bad == {g \in i..j : m[g] # EndBefore(lo, t, i)}
<1>1. CASE Bad # {}
  <2>1. Bad \subseteq Nat
    OBVIOUS
  <2>2. PICK g \in Bad : \A other \in Bad : g <= other
    <3> HIDE DEF Bad
    <3> QED BY <1>1, <2>1, HasFirst
  <2>3. g \in i..j /\ m[g] # EndBefore(lo, t, i)
    BY <2>2
  <2>4. CASE g = 0
    <3>1. Gap(p, text, id, 0, lo, m[0])
      BY DEF Marks
    <3>2. lo = m[0]
      BY <2>3, <2>4, <3>1 DEF Gap, NoRoom
    <3>3. i = 0
      BY <2>3, <2>4
    <3> QED BY <2>3, <2>4, <3>2, <3>3 DEF EndBefore
  <2>5. CASE g # 0
    <3>1. g \in 1..d
      BY <2>3, <2>5
    <3>2. Gap(p, text, id, g, t[g], m[g])
      BY <3>1 DEF Marks
    <3>3. t[g] = m[g]
      BY <2>3, <3>2 DEF Gap, NoRoom
    <3>4. CASE g = i
      BY <2>3, <2>5, <3>3, <3>4 DEF EndBefore
    <3>5. CASE g # i
      <4>1. g - 1 \in i..j /\ g \in (i + 1)..j /\ ~(g <= g - 1)
        BY <2>3, <3>5
      <4>2. m[g - 1] = EndBefore(lo, t, i)
        <5>1. g - 1 \notin Bad
          BY <2>2, <4>1
        <5> QED BY <4>1, <5>1
      <4>3. Lies(p, text, kids[g], m[g - 1], t[g])
        BY <3>1 DEF Marks
      <4>4. m[g - 1] = t[g]
        BY <4>1, <4>3 DEF Lies, Fits, NoRoom
      <4> QED BY <2>3, <3>3, <4>2, <4>4
    <3> QED BY <3>4, <3>5
  <2> QED BY <2>4, <2>5
<1>2. CASE Bad = {}
  <2>1. j \in i..j
    OBVIOUS
  <2>2. j \notin Bad
    BY <1>2
  <2> QED BY <2>1, <2>2
<1> QED BY <1>1, <1>2

LEMMA BlankBetween ==
    ASSUME NEW p, NEW text \in Seq(STRING), NEW id, NEW d \in Nat, NEW kids \in Seq(SpansOver(Places(text))),
           Len(kids) = d, NEW lo \in Places(text), NEW m, NEW t, Marks(p, text, id, kids, d, lo, m, t),
           NEW i \in 0..d, NEW j \in i..d, \A l \in (i + 1)..j : kids[l].empty
    PROVE  Blanks(p, text, EndBefore(lo, t, i), m[j])
<1> DEFINE s == EndBefore(lo, t, i)
           Bad == {g \in i..j : ~Blanks(p, text, s, m[g])}
<1>0. s \in Int /\ \A g \in i..j : m[g] \in Int
  <2>1. lo \in Nat /\ (\A g \in 0..d : m[g] \in Nat) /\ (\A g \in 1..d : t[g] \in Nat)
    BY MarksAre
  <2>2. i # 0 => i \in 1..d
    OBVIOUS
  <2> QED BY <2>1, <2>2 DEF EndBefore
<1>1. CASE Bad # {}
  <2>1. Bad \subseteq Nat
    OBVIOUS
  <2>2. PICK g \in Bad : \A other \in Bad : g <= other
    <3> HIDE DEF Bad
    <3> QED BY <1>1, <2>1, HasFirst
  <2>3. g \in i..j /\ ~Blanks(p, text, s, m[g])
    BY <2>2
  <2>4. CASE g = 0
    <3>1. Gap(p, text, id, 0, lo, m[0]) /\ i = 0 /\ s = lo
      BY <2>3, <2>4 DEF Marks, EndBefore
    <3> HIDE DEF s
    <3>2. Blanks(p, text, s, m[0])
      BY <1>0, <2>3, <2>4, <3>1, GapIsBlank
    <3> QED BY <2>3, <2>4, <3>2
  <2>5. CASE g # 0
    <3>1. g \in 1..d
      BY <2>3, <2>5
    <3>2. Blanks(p, text, t[g], m[g])
      BY <3>1, OneMark
    <3>3. CASE g = i
      BY <2>3, <2>5, <3>2, <3>3 DEF EndBefore
    <3>4. CASE g # i
      <4>1. g - 1 \in i..j /\ g \in (i + 1)..j /\ ~(g <= g - 1)
        BY <2>3, <3>4
      <4>2. Blanks(p, text, s, m[g - 1])
        <5>1. g - 1 \notin Bad
          BY <2>2, <4>1
        <5> QED BY <4>1, <5>1
      <4>3. Blanks(p, text, m[g - 1], t[g])
        BY <3>1, <4>1, OneMark
      <4>4. t[g] \in Int
        <5>1. \A x \in 1..d : t[x] \in Nat
          BY MarksAre
        <5> QED BY <3>1, <5>1
      <4> HIDE DEF s
      <4>5. Blanks(p, text, s, t[g])
        BY <1>0, <4>1, <4>2, <4>3, <4>4, BlankJoins
      <4>6. Blanks(p, text, s, m[g])
        BY <1>0, <2>3, <3>2, <4>4, <4>5, BlankJoins
      <4> QED BY <2>3, <4>6
    <3> QED BY <3>3, <3>4
  <2> QED BY <2>4, <2>5
<1>2. CASE Bad = {}
  <2>1. j \in i..j
    OBVIOUS
  <2>2. j \notin Bad
    BY <1>2
  <2> QED BY <2>1, <2>2
<1> QED BY <1>1, <1>2

\* Positions grow with the members.
LEMMA MarksGrow ==
    ASSUME NEW p, NEW text \in Seq(STRING), NEW id, NEW d \in Nat, NEW kids \in Seq(SpansOver(Places(text))),
           Len(kids) = d, NEW lo \in Places(text), NEW m, NEW t, Marks(p, text, id, kids, d, lo, m, t),
           NEW i \in 0..d, NEW j \in i..d
    PROVE  m[i] <= m[j]
<1> DEFINE Bad == {g \in i..j : ~(m[i] <= m[g])}
<1>0. \A g \in i..j : m[g] \in Nat /\ m[i] \in Nat
  <2>1. \A x \in 0..d : m[x] \in Nat
    BY MarksAre
  <2> QED BY <2>1
<1>1. CASE Bad # {}
  <2>1. Bad \subseteq Nat
    OBVIOUS
  <2>2. PICK g \in Bad : \A other \in Bad : g <= other
    <3> HIDE DEF Bad
    <3> QED BY <1>1, <2>1, HasFirst
  <2>3. g \in i..j /\ ~(m[i] <= m[g])
    BY <2>2
  <2>4. CASE g = i
    BY <1>0, <2>3, <2>4
  <2>5. CASE g # i
    <3>1. g - 1 \in i..j /\ ~(g <= g - 1) /\ g \in 1..d
      BY <2>3, <2>5
    <3>2. m[i] <= m[g - 1]
      <4>1. g - 1 \notin Bad
        BY <2>2, <3>1
      <4> QED BY <3>1, <4>1
    <3>3. m[g - 1] <= t[g] /\ t[g] <= m[g]
      BY <3>1, OneMark
    <3>4. t[g] \in Nat
      <4>1. \A x \in 1..d : t[x] \in Nat
        BY MarksAre
      <4> QED BY <3>1, <4>1
    <3>5. m[i] \in Nat /\ m[g - 1] \in Nat /\ m[g] \in Nat
      BY <1>0, <2>3, <3>1
    <3> QED BY <2>3, <3>2, <3>3, <3>4, <3>5
  <2> QED BY <2>4, <2>5
<1>2. CASE Bad = {}
  <2>1. j \in i..j
    OBVIOUS
  <2>2. j \notin Bad
    BY <1>2
  <2> QED BY <2>1, <2>2
<1> QED BY <1>1, <1>2

\* Members laid out as their rule has them violate no spacing.
LEMMA NoViolation ==
    ASSUME NEW p, NEW text \in Seq(STRING), NEW rule \in Nat, NEW kids \in Seq(SpansOver(Places(text))),
           NEW lo \in Places(text), NEW hi, Laid(p, text, rule + 1, kids, Len(kids), lo, hi)
    PROVE  ~SpaceViolation(p, rule, kids)
<1> DEFINE d == Len(kids)
           id == rule + 1
<1>1. d \in Nat /\ DOMAIN kids = 1..d
  OBVIOUS
<1>2. PICK m, t : Marks(p, text, id, kids, d, lo, m, t)
  BY DEF Laid
<1> SUFFICES ASSUME NEW i \in Visible(kids), NEW j \in Visible(kids), i < j,
                    \A l \in (i + 1)..(j - 1) : kids[l].empty,
                    kids[j].begin > kids[i].end, ~Allowed(p, rule, kids, i, j), ~kids[j].leading
             PROVE  FALSE
  BY DEF SpaceViolation
<1> HIDE DEF d, id
<1>3. i \in 1..d /\ j \in 1..d /\ j - 1 \in i..d /\ i \in 0..d /\ i > 0 /\ ~kids[i].empty /\ ~kids[j].empty
  BY <1>1 DEF Visible
<1>4. /\ ~kids[i].trailing
      /\ \A g \in i..(j - 1) : g \notin p.productions[id].gaps
      /\ \A l \in (i + 1)..(j - 1) : ~kids[l].leading /\ ~kids[l].trailing
  BY <1>3 DEF Allowed, LrSpace, id
<1>5. d = Len(kids)
  BY DEF d
<1>6. m[j - 1] = EndBefore(lo, t, i)
  <2>1. NoRoom(p, id, kids, i, j - 1)
    BY <1>4 DEF NoRoom
  <2> QED BY <1>1, <1>2, <1>3, <1>5, <2>1, NothingBetween
<1>7. m[j - 1] = t[i]
  BY <1>3, <1>6 DEF EndBefore
<1>8. Lies(p, text, kids[i], m[i - 1], t[i]) /\ Lies(p, text, kids[j], m[j - 1], t[j])
  BY <1>2, <1>3 DEF Marks
<1>9. t[i] = kids[i].end /\ m[j - 1] = kids[j].begin
  BY <1>3, <1>4, <1>8 DEF Lies, Fits
<1>10. kids[i].end \in Nat /\ kids[j].begin \in Nat
  <2>1. \A x \in 1..d : kids[x].begin \in Nat /\ kids[x].end \in Nat
    BY <1>1, <1>2, <1>5, MarksAre
  <2> QED BY <1>3, <2>1
<1> QED BY <1>7, <1>9, <1>10

\* What a reduction makes of members that are laid out lies where they do.
LEMMA ReducedLies ==
    ASSUME NEW p, NEW text \in Seq(STRING), NEW rule \in Nat, NEW kids \in Seq(SpansOver(Places(text))),
           NEW lo \in Places(text), NEW hi, Laid(p, text, rule + 1, kids, Len(kids), lo, hi),
           NEW c \in Places(text)
    PROVE  Lies(p, text, ReducedSpan(p, rule, kids, c), lo, hi)
<1> DEFINE d == Len(kids)
           id == rule + 1
           span == ReducedSpan(p, rule, kids, c)
<1>1. d \in Nat /\ DOMAIN kids = 1..d /\ 0 \in 0..d /\ d \in 0..d /\ Visible(kids) \subseteq 1..d
  BY DEF Visible
<1>2. PICK m, t : Marks(p, text, id, kids, d, lo, m, t) /\ m[d] = hi
  BY DEF Laid
<1>3. d = Len(kids)
  BY DEF d
<1> HIDE DEF d
<1>4. /\ lo \in Nat /\ (\A x \in 0..d : m[x] \in Nat) /\ (\A x \in 1..d : t[x] \in Nat)
      /\ \A x \in 1..d : kids[x].begin \in Nat /\ kids[x].end \in Nat /\ kids[x].empty \in BOOLEAN
  <2> HIDE DEF id
  <2> QED BY <1>1, <1>2, <1>3, MarksAre
<1>5. CASE Visible(kids) = {}
  <2> DEFINE everywhere == Allowed(p, rule, kids, 0, d + 1)
  <2>1. span = [begin |-> c, end |-> c, leading |-> everywhere, trailing |-> everywhere, empty |-> TRUE]
    BY <1>3, <1>5 DEF ReducedSpan
  <2>2. \A l \in 1..d : kids[l].empty
    BY <1>1, <1>5 DEF Visible
  <2>3. Blanks(p, text, lo, m[d])
    <3>1. d \in 0..d /\ \A l \in (0 + 1)..d : kids[l].empty
      BY <1>1, <2>2
    <3>2. Blanks(p, text, EndBefore(lo, t, 0), m[d])
      <4> HIDE DEF id
      <4> QED BY <1>1, <1>2, <1>3, <3>1, BlankBetween
    <3> QED BY <3>2 DEF EndBefore
  <2>4. lo = m[d] \/ everywhere
    <3> SUFFICES ASSUME ~everywhere PROVE lo = m[d]
      OBVIOUS
    <3>1. NoRoom(p, id, kids, 0, d)
      BY <1>1, <2>2 DEF Allowed, LrSpace, NoRoom
    <3>2. m[d] = EndBefore(lo, t, 0)
      <4> HIDE DEF id, everywhere
      <4> QED BY <1>1, <1>2, <1>3, <3>1, NothingBetween
    <3> QED BY <3>2 DEF EndBefore
  <2>5. c \in Int
    BY DEF Places
  <2> HIDE DEF everywhere
  <2>6. span.empty /\ span.leading = everywhere /\ span.trailing = everywhere /\ span.begin = c /\ span.end = c
    BY <2>1
  <2> HIDE DEF span
  <2>7. Lies(p, text, span, lo, m[d])
    BY <2>3, <2>4, <2>5, <2>6 DEF Lies, Fits, Ordered
  <2> QED BY <1>2, <2>7 DEF span
<1>6. CASE Visible(kids) # {}
  <2> DEFINE first == CHOOSE i \in Visible(kids) : \A j \in Visible(kids) : i <= j
             last == CHOOSE i \in Visible(kids) : \A j \in Visible(kids) : j <= i
             leading == Allowed(p, rule, kids, 0, first) \/ kids[first].leading
             trailing == Allowed(p, rule, kids, last, d + 1)
  <2>1. first \in Visible(kids) /\ \A j \in Visible(kids) : first <= j
    <3>1. Visible(kids) \subseteq Nat
      BY <1>1
    <3>2. \E i \in Visible(kids) : \A j \in Visible(kids) : i <= j
      BY <1>6, <3>1, HasFirst
    <3> QED BY <3>2
  <2>2. last \in Visible(kids) /\ \A j \in Visible(kids) : j <= last
    <3>1. \E i \in Visible(kids) : \A j \in Visible(kids) : j <= i
      BY <1>1, <1>6, HasLast
    <3> QED BY <3>1
  <2>3. span = [begin |-> kids[first].begin, end |-> kids[last].end,
                leading |-> leading, trailing |-> trailing, empty |-> FALSE]
    BY <1>3, <1>6 DEF ReducedSpan
  <2> HIDE DEF first, last, leading, trailing
  <2>4. /\ span.begin = kids[first].begin /\ span.end = kids[last].end /\ ~span.empty
        /\ span.leading = leading /\ span.trailing = trailing
    BY <2>3
  <2> HIDE DEF span
  <2>5. /\ first \in 1..d /\ last \in 1..d /\ first <= last /\ ~kids[first].empty /\ ~kids[last].empty
        /\ first - 1 \in 0..d /\ last \in 0..d /\ d \in last..d /\ last - 1 \in 0..d
    BY <1>1, <2>1, <2>2 DEF Visible
  <2>6. \A l \in (0 + 1)..(first - 1) : kids[l].empty
    <3> TAKE l \in (0 + 1)..(first - 1)
    <3>1. l \in 1..d /\ ~(first <= l)
      BY <1>1, <2>5
    <3>2. l \notin Visible(kids)
      BY <2>1, <3>1
    <3> QED BY <1>1, <3>1, <3>2 DEF Visible
  <2>7. \A l \in (last + 1)..d : kids[l].empty
    <3> TAKE l \in (last + 1)..d
    <3>1. l \in 1..d /\ ~(l <= last)
      BY <1>1, <2>5
    <3>2. l \notin Visible(kids)
      BY <2>2, <3>1
    <3> QED BY <1>1, <3>1, <3>2 DEF Visible
  <2>8. /\ m[first - 1] <= kids[first].begin /\ kids[first].begin <= kids[first].end
        /\ kids[first].end <= t[first] /\ t[first] <= m[first]
        /\ Blanks(p, text, m[first - 1], kids[first].begin)
    <3> HIDE DEF id
    <3> QED BY <1>1, <1>2, <1>3, <2>5, OneMark
  <2>9. /\ m[last - 1] <= kids[last].begin /\ kids[last].begin <= kids[last].end
        /\ Blanks(p, text, kids[last].end, t[last])
    <3> HIDE DEF id
    <3> QED BY <1>1, <1>2, <1>3, <2>5, OneMark
  <2>10. Lies(p, text, kids[first], m[first - 1], t[first]) /\ Lies(p, text, kids[last], m[last - 1], t[last])
    BY <1>2, <2>5 DEF Marks
  <2>11. lo \in Int /\ m[first - 1] \in Int /\ kids[first].begin \in Int /\ kids[last].end \in Int
         /\ t[last] \in Int /\ m[d] \in Int
    BY <1>1, <1>4, <2>5
  <2>12. Blanks(p, text, lo, kids[first].begin)
    <3>1. Blanks(p, text, EndBefore(lo, t, 0), m[first - 1])
      <4> HIDE DEF id
      <4> QED BY <1>1, <1>2, <1>3, <2>5, <2>6, BlankBetween
    <3>2. Blanks(p, text, lo, m[first - 1])
      BY <3>1 DEF EndBefore
    <3> QED BY <2>8, <2>11, <3>2, BlankJoins
  <2>13. Blanks(p, text, kids[last].end, m[d])
    <3>1. Blanks(p, text, EndBefore(lo, t, last), m[d])
      <4> HIDE DEF id
      <4> QED BY <1>1, <1>2, <1>3, <2>5, <2>7, BlankBetween
    <3>2. Blanks(p, text, t[last], m[d])
      BY <2>5, <3>1 DEF EndBefore
    <3> QED BY <2>9, <2>11, <3>2, BlankJoins
  <2>14. lo = kids[first].begin \/ leading
    <3> SUFFICES ASSUME ~leading PROVE lo = kids[first].begin
      OBVIOUS
    <3>1. NoRoom(p, id, kids, 0, first - 1) /\ ~kids[first].leading
      BY <1>1, <2>5, <2>6 DEF Allowed, LrSpace, NoRoom, leading
    <3>2. m[first - 1] = EndBefore(lo, t, 0)
      <4>1. first - 1 \in 0..d
        BY <2>5
      <4> HIDE DEF id
      <4> QED BY <4>1, <1>1, <1>2, <1>3, <2>5, <3>1, NothingBetween
    <3>3. m[first - 1] = kids[first].begin
      BY <2>5, <2>10, <3>1 DEF Lies, Fits
    <3> QED BY <3>2, <3>3 DEF EndBefore
  <2>15. m[d] = kids[last].end \/ trailing
    <3> SUFFICES ASSUME ~trailing PROVE m[d] = kids[last].end
      OBVIOUS
    <3>1. NoRoom(p, id, kids, last, d) /\ ~kids[last].trailing
      BY <1>1, <2>5, <2>7 DEF Allowed, LrSpace, NoRoom, trailing
    <3>2. m[d] = EndBefore(lo, t, last)
      <4> HIDE DEF id
      <4> QED BY <1>1, <1>2, <1>3, <2>5, <3>1, NothingBetween
    <3>3. t[last] = kids[last].end
      BY <2>5, <2>10, <3>1 DEF Lies, Fits
    <3> QED BY <2>5, <3>2, <3>3 DEF EndBefore
  <2>16. span.begin <= span.end
    <3>1. CASE first = last
      BY <2>4, <2>8, <3>1
    <3>2. CASE first # last
      <4>1. last - 1 \in first..d /\ first \in 0..d
        BY <1>1, <2>5, <3>2
      <4>2. m[first] <= m[last - 1]
        <5> HIDE DEF id
        <5> QED BY <1>1, <1>2, <1>3, <4>1, MarksGrow
      <4>3. /\ m[first] \in Nat /\ m[last - 1] \in Nat /\ t[first] \in Nat
            /\ kids[first].begin \in Nat /\ kids[first].end \in Nat
            /\ kids[last].begin \in Nat /\ kids[last].end \in Nat
        BY <1>4, <2>5, <4>1
      <4>4. kids[first].begin <= m[last - 1]
        <5>1. kids[first].begin <= t[first]
          BY <2>8, <4>3
        <5>2. kids[first].begin <= m[first]
          BY <2>8, <4>3, <5>1
        <5> QED BY <4>2, <4>3, <5>2
      <4>5. kids[first].begin <= kids[last].end
        BY <2>9, <4>3, <4>4
      <4> QED BY <2>4, <4>5
    <3> QED BY <3>1, <3>2
  <2>17. Lies(p, text, span, lo, m[d])
    BY <2>4, <2>12, <2>13, <2>14, <2>15, <2>16 DEF Lies, Fits, Ordered
  <2> QED BY <1>2, <2>17 DEF span
<1> QED BY <1>5, <1>6

LEMMA TokenLies ==
    ASSUME NEW p, NEW text \in Seq(STRING), NEW i \in DOMAIN text
    PROVE  Lies(p, text, TokenSpan(i - 1), i - 1, i)
<1>1. i - 1 + 1 = i /\ i \in Int /\ i - 1 \in Int /\ i - 1 <= i
  OBVIOUS
<1> DEFINE span == TokenSpan(i - 1)
<1>2. span.begin = i - 1 /\ span.end = i /\ ~span.empty
  BY <1>1 DEF TokenSpan
<1>3. Blanks(p, text, i - 1, i - 1) /\ Blanks(p, text, i, i)
  BY <1>1, BlankHere
<1> HIDE DEF span
<1>4. Lies(p, text, span, i - 1, i)
  BY <1>1, <1>2, <1>3 DEF Lies, Fits, Ordered
<1> QED BY <1>4 DEF span

\* No member yet.
LEMMA LaidNone ==
    ASSUME NEW p, NEW text \in Seq(STRING), NEW id, NEW lo \in Places(text), NEW hi \in Places(text),
           Gap(p, text, id, 0, lo, hi)
    PROVE  Laid(p, text, id, <<>>, 0, lo, hi)
<1> DEFINE m == [i \in 0..0 |-> hi]
           t == [i \in 1..0 |-> hi]
<1>1. m[0] = hi /\ m \in [0..0 -> Places(text)] /\ t \in [1..0 -> Places(text)]
  OBVIOUS
<1> HIDE DEF m, t
<1>2. Marks(p, text, id, <<>>, 0, lo, m, t)
  BY <1>1 DEF Marks
<1> QED BY <1>1, <1>2 DEF Laid

\* One member more, with its gap.
LEMMA LaidNext ==
    ASSUME NEW p, NEW text \in Seq(STRING), NEW id, NEW S, NEW kids \in Seq(S), NEW span \in S,
           NEW lo \in Places(text), NEW from \in Places(text), NEW to \in Places(text), NEW hi \in Places(text),
           Laid(p, text, id, kids, Len(kids), lo, from),
           Lies(p, text, span, from, to), Gap(p, text, id, Len(kids) + 1, to, hi)
    PROVE  Laid(p, text, id, Append(kids, span), Len(kids) + 1, lo, hi)
<1> DEFINE d == Len(kids)
           more == Append(kids, span)
<1>1. PICK m, t : Marks(p, text, id, kids, d, lo, m, t) /\ m[d] = from
  BY DEF Laid
<1>2. d \in Nat
  OBVIOUS
<1>3. more[d + 1] = span /\ \A i \in 1..d : more[i] = kids[i]
  BY Appended
<1> DEFINE M == [i \in 0..(d + 1) |-> IF i = d + 1 THEN hi ELSE m[i]]
           T == [i \in 1..(d + 1) |-> IF i = d + 1 THEN to ELSE t[i]]
<1>4. m \in [0..d -> Places(text)] /\ t \in [1..d -> Places(text)] /\ Gap(p, text, id, 0, lo, m[0])
  BY <1>1 DEF Marks
<1>5. \A i \in 1..d : Lies(p, text, kids[i], m[i - 1], t[i]) /\ Gap(p, text, id, i, t[i], m[i])
  BY <1>1 DEF Marks
<1> HIDE DEF d, more
<1>6. /\ M \in [0..(d + 1) -> Places(text)] /\ T \in [1..(d + 1) -> Places(text)]
      /\ M[d + 1] = hi /\ T[d + 1] = to /\ M[0] = m[0]
      /\ \A i \in 0..d : M[i] = m[i]
      /\ \A i \in 1..d : T[i] = t[i]
  BY <1>2, <1>4
<1> HIDE DEF M, T
<1>7. ASSUME NEW i \in 1..(d + 1)
      PROVE  Lies(p, text, more[i], M[i - 1], T[i]) /\ Gap(p, text, id, i, T[i], M[i])
  <2>1. CASE i = d + 1
    <3>1. M[i - 1] = from /\ T[i] = to /\ M[i] = hi /\ more[i] = span
      <4>1. d \in 0..d /\ i - 1 = d
        BY <1>2, <2>1
      <4> QED BY <1>1, <1>3, <1>6, <2>1, <4>1
    <3> QED BY <2>1, <3>1 DEF d
  <2>2. CASE i # d + 1
    <3>1. i \in 1..d /\ i \in 0..d /\ i - 1 \in 0..d
      BY <1>2, <2>2
    <3>2. M[i - 1] = m[i - 1] /\ T[i] = t[i] /\ M[i] = m[i] /\ more[i] = kids[i]
      BY <1>3, <1>6, <3>1
    <3> QED BY <1>5, <3>1, <3>2
  <2> QED BY <2>1, <2>2
<1>8. Marks(p, text, id, more, d + 1, lo, M, T)
  BY <1>4, <1>6, <1>7 DEF Marks
<1> QED BY <1>6, <1>8 DEF Laid, d, more

-----------------------------------------------------------------------------
(* Runs of a driver on tables p over a text, from the stacks and the         *)
(* position alone.                                                           *)

Configs(p, text) ==
    {c \in [states : Seq(DOMAIN p.items), spans : Seq(SpansOver(Places(text))), at : Places(text)] :
        Len(c.states) = Len(c.spans) + 1}

Uppermost(c) == c.states[Len(c.states)]
BeforeBlank(p, text, c) == c.at < Len(text) /\ LrIsSpace(p, text[c.at + 1])

MayTake(p, text, c, type, state) ==
    /\ ~BeforeBlank(p, text, c)
    /\ [type |-> type, state |-> state] \in Offered(p, Uppermost(c), Win(p, text, c.at))

MovedTo(c, at) == [states |-> c.states, spans |-> c.spans, at |-> at]
PushedOn(c, state, span, at) ==
    [states |-> Append(c.states, state), spans |-> Append(c.spans, span), at |-> at]

ReducedBy(p, c, rule, base) ==
    [states |-> Append(SubSeq(c.states, 1, base + 1), p.goto[<<c.states[base + 1], LrLhs(p, rule)>>]),
     spans |-> Append(SubSeq(c.spans, 1, base),
                      ReducedSpan(p, rule, SubSeq(c.spans, base + 1, Len(c.spans)), c.at)),
     at |-> c.at]

CanReduce(p, c, rule, base) ==
    /\ base >= 0
    /\ ~SpaceViolation(p, rule, SubSeq(c.spans, base + 1, Len(c.spans)))
    /\ <<c.states[base + 1], LrLhs(p, rule)>> \in DOMAIN p.goto

BaseOf(p, c, rule) == Len(c.spans) - LrLength(p, rule)

PassesBlank(p, text, c, e) == BeforeBlank(p, text, c) /\ e = MovedTo(c, c.at + 1)
Shifts(p, text, c, e) ==
    \E state : /\ MayTake(p, text, c, "shift", state) /\ c.at < Len(text)
               /\ e = PushedOn(c, state, TokenSpan(c.at), c.at + 1)
Reduces(p, text, c, e) ==
    \E rule : /\ MayTake(p, text, c, "reduce", rule)
              /\ CanReduce(p, c, rule, BaseOf(p, c, rule))
              /\ e = ReducedBy(p, c, rule, BaseOf(p, c, rule))

Moves(p, text, c, e) == PassesBlank(p, text, c, e) \/ Shifts(p, text, c, e) \/ Reduces(p, text, c, e)

Final(p, text, c) ==
    /\ MayTake(p, text, c, "accept", 0)
    /\ Len(c.spans) = 1 /\ c.at = Len(text)
    /\ c.spans[1].begin # 0 => c.spans[1].leading
    /\ c.at > c.spans[1].end => c.spans[1].trailing

\* Final configurations can be reached.
Backed(p, text, set) ==
    \A c \in Configs(p, text) :
        Final(p, text, c) \/ (\E e \in set : Moves(p, text, c, e)) => c \in set

Accepting(p, text, c) == \A set \in SUBSET Configs(p, text) : Backed(p, text, set) => c \in set

LEMMA IsConfig ==
    ASSUME NEW p, NEW text,
           NEW c \in [states : Seq(DOMAIN p.items), spans : Seq(SpansOver(Places(text))), at : Places(text)],
           Len(c.states) = Len(c.spans) + 1
    PROVE  c \in Configs(p, text)
BY DEF Configs

LEMMA FinalAccepts ==
    ASSUME NEW p, NEW text, NEW c \in Configs(p, text), Final(p, text, c)
    PROVE  Accepting(p, text, c)
BY DEF Accepting, Backed

LEMMA AcceptsBefore ==
    ASSUME NEW p, NEW text, NEW c \in Configs(p, text), NEW e, Moves(p, text, c, e), Accepting(p, text, e)
    PROVE  Accepting(p, text, c)
<1> SUFFICES ASSUME NEW set \in SUBSET Configs(p, text), Backed(p, text, set)
             PROVE  c \in set
  BY DEF Accepting
<1>1. e \in set
  BY DEF Accepting
<1> QED BY <1>1 DEF Backed

LEMMA AcceptsOnwards ==
    ASSUME NEW p, NEW text, NEW c \in Configs(p, text), Accepting(p, text, c)
    PROVE  Final(p, text, c) \/ \E e \in Configs(p, text) : Moves(p, text, c, e) /\ Accepting(p, text, e)
<1> DEFINE onwards(d) == \E e \in Configs(p, text) : Moves(p, text, d, e) /\ Accepting(p, text, e)
           set == {d \in Configs(p, text) : Final(p, text, d) \/ onwards(d)}
<1>1. \A d \in set : d \in Configs(p, text) /\ Accepting(p, text, d)
  <2> TAKE d \in set
  <2>1. d \in Configs(p, text) /\ (Final(p, text, d) \/ onwards(d))
    OBVIOUS
  <2>2. CASE Final(p, text, d)
    BY <2>1, <2>2, FinalAccepts
  <2>3. CASE onwards(d)
    BY <2>1, <2>3, AcceptsBefore
  <2> QED BY <2>1, <2>2, <2>3
<1>2. Backed(p, text, set)
  <2> SUFFICES ASSUME NEW d \in Configs(p, text),
                      Final(p, text, d) \/ (\E e \in set : Moves(p, text, d, e))
               PROVE  d \in set
    BY DEF Backed
  <2>1. CASE Final(p, text, d)
    BY <2>1
  <2>2. CASE \E e \in set : Moves(p, text, d, e)
    <3>1. onwards(d)
      <4> HIDE DEF set
      <4> QED BY <1>1, <2>2
    <3> QED BY <3>1
  <2> QED BY <2>1, <2>2
<1>3. set \in SUBSET Configs(p, text)
  OBVIOUS
<1>4. c \in set
  <2> HIDE DEF set
  <2> QED BY <1>2, <1>3 DEF Accepting
<1> QED BY <1>4

LEMMA AcceptingIsThere ==
    ASSUME NEW p, NEW text, NEW c, Accepting(p, text, c)
    PROVE  c \in Configs(p, text)
<1>1. Configs(p, text) \in SUBSET Configs(p, text) /\ Backed(p, text, Configs(p, text))
  BY DEF Backed
<1> QED BY <1>1 DEF Accepting

LEMMA ConfigTyped ==
    ASSUME NEW p, NEW text \in Seq(STRING), NEW c \in Configs(p, text)
    PROVE  /\ c.states \in Seq(DOMAIN p.items) /\ c.spans \in Seq(SpansOver(Places(text)))
           /\ c.at \in Places(text) /\ c.at \in Nat /\ c.at <= Len(text) /\ Len(text) \in Nat
           /\ Len(c.states) = Len(c.spans) + 1 /\ Len(c.spans) \in Nat /\ Len(c.states) \in Nat
           /\ \A at \in Places(text) : MovedTo(c, at) \in Configs(p, text)
<1>1. c.states \in Seq(DOMAIN p.items) /\ c.spans \in Seq(SpansOver(Places(text))) /\ c.at \in Places(text)
  BY DEF Configs
<1>2. c.at \in Nat /\ c.at <= Len(text) /\ Len(text) \in Nat
  BY <1>1 DEF Places
<1>3. Len(c.states) = Len(c.spans) + 1 /\ Len(c.spans) \in Nat /\ Len(c.states) \in Nat
  BY <1>1 DEF Configs
<1>4. \A at \in Places(text) : MovedTo(c, at) \in Configs(p, text)
  BY <1>1, <1>3 DEF MovedTo, Configs
<1> QED BY <1>1, <1>2, <1>3, <1>4

\* A driver passes all the blanks before it.
LEMMA AcceptsOverBlanks ==
    ASSUME NEW p, NEW text \in Seq(STRING), NEW c \in Configs(p, text), NEW to \in Places(text),
           Blanks(p, text, c.at, to), Accepting(p, text, MovedTo(c, to))
    PROVE  Accepting(p, text, c)
<1> DEFINE from == c.at
           Bad == {d \in 0..(to - from) : ~Accepting(p, text, MovedTo(c, to - d))}
<1>1. from \in Nat /\ to \in Nat /\ from <= to /\ to <= Len(text) /\ Len(text) \in Nat
  BY ConfigTyped DEF Blanks, Places
<1>2. CASE Bad # {}
  <2>1. Bad \subseteq Nat
    BY <1>1
  <2>2. PICK d \in Bad : \A other \in Bad : d <= other
    <3> HIDE DEF Bad
    <3> QED BY <1>2, <2>1, HasFirst
  <2>3. d \in 0..(to - from) /\ ~Accepting(p, text, MovedTo(c, to - d))
    BY <2>2
  <2>4. d # 0
    <3> SUFFICES ASSUME d = 0 PROVE FALSE
      OBVIOUS
    <3>1. to - d = to
      BY <1>1
    <3> QED BY <2>3, <3>1
  <2>5. d - 1 \in 0..(to - from) /\ ~(d <= d - 1)
    BY <1>1, <2>3, <2>4
  <2>6. Accepting(p, text, MovedTo(c, to - (d - 1)))
    <3>1. d - 1 \notin Bad
      BY <2>2, <2>5
    <3> QED BY <2>5, <3>1
  <2> DEFINE i == to - d
  <2>7. i \in Nat /\ i < Len(text) /\ i + 1 = to - (d - 1) /\ i + 1 \in (from + 1)..to /\ i \in Places(text)
    BY <1>1, <2>3, <2>4 DEF Places
  <2>8. LrIsSpace(p, text[i + 1])
    BY <2>7 DEF Blanks
  <2> HIDE DEF i
  <2> DEFINE b == MovedTo(c, i)
  <2>9. b \in Configs(p, text) /\ b.at = i /\ MovedTo(b, i + 1) = MovedTo(c, i + 1)
    BY <2>7, ConfigTyped DEF MovedTo
  <2> HIDE DEF b
  <2>10. Moves(p, text, b, MovedTo(c, i + 1))
    BY <2>7, <2>8, <2>9 DEF Moves, PassesBlank, BeforeBlank
  <2>11. Accepting(p, text, b)
    BY <2>6, <2>7, <2>9, <2>10, AcceptsBefore
  <2> QED BY <2>3, <2>11 DEF b, i
<1>3. CASE Bad = {}
  <2>1. to - from \in 0..(to - from) /\ to - (to - from) = from
    BY <1>1
  <2>2. to - from \notin Bad
    BY <1>3
  <2>3. Accepting(p, text, MovedTo(c, from))
    BY <2>1, <2>2
  <2>4. MovedTo(c, from) = c
    BY DEF MovedTo, Configs
  <2> QED BY <2>3, <2>4
<1> QED BY <1>2, <1>3

\* From every position the blanks end somewhere.
LEMMA BlanksEnd ==
    ASSUME NEW p, NEW text \in Seq(STRING), NEW lo \in Places(text)
    PROVE  \E to \in Places(text) :
              Blanks(p, text, lo, to) /\ ~(to < Len(text) /\ LrIsSpace(p, text[to + 1]))
<1> DEFINE Stops == {to \in lo..Len(text) : to = Len(text) \/ ~LrIsSpace(p, text[to + 1])}
<1>1. lo \in Nat /\ Len(text) \in Nat /\ lo <= Len(text)
  BY DEF Places
<1>2. Stops \subseteq Nat /\ Stops # {}
  <2>1. Len(text) \in Stops
    BY <1>1
  <2> QED BY <1>1, <2>1
<1>3. PICK to \in Stops : \A other \in Stops : to <= other
  <2> HIDE DEF Stops
  <2> QED BY <1>2, HasFirst
<1>4. to \in lo..Len(text) /\ (to = Len(text) \/ ~LrIsSpace(p, text[to + 1]))
  BY <1>3
<1>5. \A m \in (lo + 1)..to : LrIsSpace(p, text[m])
  <2> TAKE m \in (lo + 1)..to
  <2>1. m - 1 \in lo..Len(text) /\ m - 1 # Len(text) /\ m - 1 + 1 = m /\ ~(to <= m - 1)
    BY <1>1, <1>4
  <2>2. m - 1 \notin Stops
    BY <1>3, <2>1
  <2> QED BY <2>1, <2>2
<1>6. to \in Places(text) /\ lo <= to
  BY <1>1, <1>4 DEF Places
<1> QED BY <1>1, <1>4, <1>5, <1>6 DEF Blanks

-----------------------------------------------------------------------------
(* What tables that leave nothing out offer, without the tuples.             *)

LEMMA TokenStarts ==
    ASSUME NEW p, NEW ahead, LeavesNothingOut(p, ahead),
           NEW id \in DOMAIN p.productions, NEW d \in DOMAIN Rhs(p, id), ~IsRule(p, Rhs(p, id)[d])
    PROVE  ~LrIsSpace(p, Rhs(p, id)[d]) /\ <<Rhs(p, id)[d], <<Rhs(p, id)[d]>>>> \in ahead.starts
BY DEF LeavesNothingOut, TokensStart

LEMMA RuleOpens ==
    ASSUME NEW p, NEW ahead, LeavesNothingOut(p, ahead), NEW id \in Rules(p)
    PROVE  <<id, 0, <<>>>> \in ahead.opens
BY DEF LeavesNothingOut, RulesStart, Rules

LEMMA MemberOpens ==
    ASSUME NEW p, NEW ahead, LeavesNothingOut(p, ahead), NEW id, Len(Rhs(p, id)) \in Nat,
           NEW d \in 1..Len(Rhs(p, id)), NEW v, <<id, d - 1, v>> \in ahead.opens,
           NEW f, <<Rhs(p, id)[d], f>> \in ahead.starts
    PROVE  <<id, d, Cut(p, v \o f)>> \in ahead.opens
<1> DEFINE open == <<id, d - 1, v>>
           start == <<Rhs(p, id)[d], f>>
<1>1. open[1] = id /\ open[2] = d - 1 /\ open[3] = v /\ start[1] = Rhs(p, id)[d] /\ start[2] = f
  OBVIOUS
<1>2. d - 1 # Len(Rhs(p, id)) /\ d - 1 + 1 = d
  OBVIOUS
<1>3. \A o \in ahead.opens :
         IF o[2] = Len(Rhs(p, o[1])) THEN <<p.productions[o[1]].lhs, o[3]>> \in ahead.starts
         ELSE \A s \in ahead.starts :
                 s[1] = Rhs(p, o[1])[o[2] + 1]
                    => <<o[1], o[2] + 1, Cut(p, o[3] \o s[2])>> \in ahead.opens
  BY DEF LeavesNothingOut, RulesStart
<1> HIDE DEF open, start
<1>4. open[2] # Len(Rhs(p, open[1]))
  BY <1>1, <1>2
<1>5. \A s \in ahead.starts :
                 s[1] = Rhs(p, open[1])[open[2] + 1]
                    => <<open[1], open[2] + 1, Cut(p, open[3] \o s[2])>> \in ahead.opens
  BY <1>3, <1>4 DEF open
<1>6. start \in ahead.starts /\ start[1] = Rhs(p, open[1])[open[2] + 1]
  BY <1>1, <1>2 DEF start
<1>7. <<open[1], open[2] + 1, Cut(p, open[3] \o start[2])>> \in ahead.opens
  BY <1>5, <1>6
<1> QED BY <1>1, <1>2, <1>7

LEMMA RuleStarts ==
    ASSUME NEW p, NEW ahead, LeavesNothingOut(p, ahead), NEW id, NEW v,
           <<id, Len(Rhs(p, id)), v>> \in ahead.opens
    PROVE  <<p.productions[id].lhs, v>> \in ahead.starts
<1> DEFINE open == <<id, Len(Rhs(p, id)), v>>
<1>1. open[1] = id /\ open[2] = Len(Rhs(p, id)) /\ open[3] = v
  OBVIOUS
<1>2. \A o \in ahead.opens :
         o[2] = Len(Rhs(p, o[1])) => <<p.productions[o[1]].lhs, o[3]>> \in ahead.starts
  BY DEF LeavesNothingOut, RulesStart
<1>3. open \in ahead.opens
  OBVIOUS
<1> HIDE DEF open
<1> QED BY <1>1, <1>2, <1>3

LEMMA EndGoes ==
    ASSUME NEW p, NEW ahead, LeavesNothingOut(p, ahead), NEW state, NEW id, NEW d, NEW w,
           <<state, <<id, d>>, w>> \in ahead.follows
    PROVE  <<id, Len(Rhs(p, id)), w, w>> \in ahead.goes
<1> DEFINE follow == <<state, <<id, d>>, w>>
<1>1. follow[2][1] = id /\ follow[3] = w /\ follow \in ahead.follows
  OBVIOUS
<1>2. \A f \in ahead.follows : <<f[2][1], Len(Rhs(p, f[2][1])), f[3], f[3]>> \in ahead.goes
  BY DEF LeavesNothingOut, MembersGo
<1> HIDE DEF follow
<1> QED BY <1>1, <1>2

LEMMA MemberGoes ==
    ASSUME NEW p, NEW ahead, LeavesNothingOut(p, ahead), NEW id, NEW d \in Nat \ {0}, NEW u, NEW w,
           <<id, d, u, w>> \in ahead.goes, NEW f, <<Rhs(p, id)[d], f>> \in ahead.starts
    PROVE  <<id, d - 1, Cut(p, f \o u), w>> \in ahead.goes
<1> DEFINE go == <<id, d, u, w>>
           start == <<Rhs(p, id)[d], f>>
<1>1. go[1] = id /\ go[2] = d /\ go[3] = u /\ go[4] = w /\ start[1] = Rhs(p, id)[d] /\ start[2] = f
      /\ go \in ahead.goes /\ start \in ahead.starts
  OBVIOUS
<1>2. \A g \in ahead.goes : \A s \in ahead.starts :
          g[2] > 0 /\ Rhs(p, g[1])[g[2]] = s[1]
             => <<g[1], g[2] - 1, Cut(p, s[2] \o g[3]), g[4]>> \in ahead.goes
  BY DEF LeavesNothingOut, MembersGo
<1> HIDE DEF go, start
<1>3. go[2] > 0 /\ Rhs(p, go[1])[go[2]] = start[1]
  BY <1>1
<1>4. <<go[1], go[2] - 1, Cut(p, start[2] \o go[3]), go[4]>> \in ahead.goes
  BY <1>1, <1>2, <1>3
<1> QED BY <1>1, <1>4

\* What a state does with an item it has, and with what it expects.
LEMMA FollowGives ==
    ASSUME NEW p, NEW ahead, LeavesNothingOut(p, ahead), NEW state, NEW id, NEW d, NEW w,
           <<state, <<id, d>>, w>> \in ahead.follows
    PROVE  /\ state \in DOMAIN p.items /\ <<id, d>> \in p.items[state]
           /\ d < Len(Rhs(p, id)) =>
                 /\ <<state, Rhs(p, id)[d + 1]>> \in DOMAIN p.goto
                 /\ <<p.goto[<<state, Rhs(p, id)[d + 1]>>], <<id, d + 1>>, w>> \in ahead.follows
<1> DEFINE follow == <<state, <<id, d>>, w>>
<1>1. /\ follow[1] = state /\ follow[2] = <<id, d>> /\ follow[2][1] = id /\ follow[2][2] = d
      /\ follow[3] = w /\ follow \in ahead.follows
  OBVIOUS
<1>2. \A f \in ahead.follows :
         /\ f[1] \in DOMAIN p.items /\ f[2] \in p.items[f[1]]
         /\ f[2][2] < Len(Rhs(p, f[2][1])) =>
               /\ <<f[1], Rhs(p, f[2][1])[f[2][2] + 1]>> \in DOMAIN p.goto
               /\ <<p.goto[<<f[1], Rhs(p, f[2][1])[f[2][2] + 1]>>], <<f[2][1], f[2][2] + 1>>, f[3]>>
                     \in ahead.follows
  BY DEF LeavesNothingOut, StatesFollow
<1> HIDE DEF follow
<1>3. /\ follow[1] \in DOMAIN p.items /\ follow[2] \in p.items[follow[1]]
      /\ follow[2][2] < Len(Rhs(p, follow[2][1])) =>
               /\ <<follow[1], Rhs(p, follow[2][1])[follow[2][2] + 1]>> \in DOMAIN p.goto
               /\ <<p.goto[<<follow[1], Rhs(p, follow[2][1])[follow[2][2] + 1]>>],
                    <<follow[2][1], follow[2][2] + 1>>, follow[3]>> \in ahead.follows
  BY <1>1, <1>2
<1> QED BY <1>1, <1>3

LEMMA RuleFollows ==
    ASSUME NEW p, NEW ahead, LeavesNothingOut(p, ahead), NEW state, NEW id, NEW d, NEW w,
           <<state, <<id, d>>, w>> \in ahead.follows, d < Len(Rhs(p, id)),
           NEW rule \in Rules(p), p.productions[rule].lhs = Rhs(p, id)[d + 1],
           NEW u, <<id, d + 1, u, w>> \in ahead.goes
    PROVE  <<state, <<rule, 0>>, u>> \in ahead.follows
<1> DEFINE follow == <<state, <<id, d>>, w>>
           go == <<id, d + 1, u, w>>
<1>1. /\ follow[1] = state /\ follow[2][1] = id /\ follow[2][2] = d
      /\ follow[3] = w /\ follow \in ahead.follows
      /\ go[1] = id /\ go[2] = d + 1 /\ go[3] = u /\ go[4] = w /\ go \in ahead.goes
  OBVIOUS
<1>2. \A f \in ahead.follows :
         f[2][2] < Len(Rhs(p, f[2][1])) =>
            \A r \in Rules(p) : \A g \in ahead.goes :
               /\ p.productions[r].lhs = Rhs(p, f[2][1])[f[2][2] + 1]
               /\ g[1] = f[2][1] /\ g[2] = f[2][2] + 1 /\ g[4] = f[3]
               => <<f[1], <<r, 0>>, g[3]>> \in ahead.follows
  BY DEF LeavesNothingOut, StatesFollow, Rules
<1> HIDE DEF follow, go
<1>3. \A r \in Rules(p) : \A g \in ahead.goes :
               /\ p.productions[r].lhs = Rhs(p, id)[d + 1]
               /\ g[1] = id /\ g[2] = d + 1 /\ g[4] = w
               => <<state, <<r, 0>>, g[3]>> \in ahead.follows
  BY <1>1, <1>2
<1>4. <<state, <<rule, 0>>, go[3]>> \in ahead.follows
  BY <1>1, <1>3
<1> QED BY <1>1, <1>4

LEMMA ReduceIsOffered ==
    ASSUME NEW p, NEW ahead, LeavesNothingOut(p, ahead), NEW state, NEW id, id # 0, NEW w,
           <<state, <<id, Len(Rhs(p, id))>>, w>> \in ahead.follows
    PROVE  [type |-> "reduce", state |-> id - 1] \in Offered(p, state, w)
<1> DEFINE follow == <<state, <<id, Len(Rhs(p, id))>>, w>>
<1>1. /\ follow[1] = state /\ follow[2][1] = id /\ follow[2][2] = Len(Rhs(p, id))
      /\ follow[3] = w /\ follow \in ahead.follows
  OBVIOUS
<1>2. \A f \in ahead.follows :
         f[2][2] = Len(Rhs(p, f[2][1])) /\ f[2][1] # 0
           => [type |-> "reduce", state |-> f[2][1] - 1] \in Offered(p, f[1], f[3])
  BY DEF LeavesNothingOut, ActionsAreOffered
<1> HIDE DEF follow
<1> QED BY <1>1, <1>2

LEMMA AcceptIsOffered ==
    ASSUME NEW p, NEW ahead, LeavesNothingOut(p, ahead), NEW state, NEW w,
           <<state, <<0, Len(Rhs(p, 0))>>, w>> \in ahead.follows
    PROVE  [type |-> "accept", state |-> 0] \in Offered(p, state, w)
<1> DEFINE follow == <<state, <<0, Len(Rhs(p, 0))>>, w>>
<1>1. /\ follow[1] = state /\ follow[2][1] = 0 /\ follow[2][2] = Len(Rhs(p, 0))
      /\ follow[3] = w /\ follow \in ahead.follows
  OBVIOUS
<1>2. \A f \in ahead.follows :
         f[2][2] = Len(Rhs(p, f[2][1])) /\ f[2][1] = 0
           => [type |-> "accept", state |-> 0] \in Offered(p, f[1], f[3])
  BY DEF LeavesNothingOut, ActionsAreOffered
<1> HIDE DEF follow
<1> QED BY <1>1, <1>2

LEMMA ShiftIsOffered ==
    ASSUME NEW p, NEW ahead, LeavesNothingOut(p, ahead), NEW state, NEW id, NEW d, NEW w,
           <<state, <<id, d>>, w>> \in ahead.follows, d # Len(Rhs(p, id)),
           ~IsRule(p, Rhs(p, id)[d + 1]), NEW u, <<id, d, u, w>> \in ahead.goes
    PROVE  [type |-> "shift", state |-> p.goto[<<state, Rhs(p, id)[d + 1]>>]] \in Offered(p, state, u)
<1> DEFINE follow == <<state, <<id, d>>, w>>
           go == <<id, d, u, w>>
<1>1. /\ follow[1] = state /\ follow[2][1] = id /\ follow[2][2] = d
      /\ follow[3] = w /\ follow \in ahead.follows
      /\ go[1] = id /\ go[2] = d /\ go[3] = u /\ go[4] = w /\ go \in ahead.goes
  OBVIOUS
<1>2. \A f \in ahead.follows :
         f[2][2] # Len(Rhs(p, f[2][1])) /\ ~IsRule(p, Rhs(p, f[2][1])[f[2][2] + 1])
           => \A g \in ahead.goes :
                 g[1] = f[2][1] /\ g[2] = f[2][2] /\ g[4] = f[3]
                   => [type |-> "shift", state |-> p.goto[<<f[1], Rhs(p, f[2][1])[f[2][2] + 1]>>]]
                         \in Offered(p, f[1], g[3])
  BY DEF LeavesNothingOut, ActionsAreOffered
<1> HIDE DEF follow, go
<1>3. \A g \in ahead.goes :
         g[1] = id /\ g[2] = d /\ g[4] = w
           => [type |-> "shift", state |-> p.goto[<<state, Rhs(p, id)[d + 1]>>]] \in Offered(p, state, g[3])
  BY <1>1, <1>2
<1> QED BY <1>1, <1>3

-----------------------------------------------------------------------------
(* A text that is derived is accepted: what can be derived is among what     *)
(* the driver reads, for both are closed alike.                              *)

\* What the lemmas below ask of tables, their text and where nothing is left out.
Complete(p, text, ahead) ==
    /\ Coherent(p) /\ LeavesNothingOut(p, ahead)
    /\ text \in Seq(STRING) /\ \A i \in DOMAIN text : ~IsRule(p, text[i])

Occurs(p, symbol) == \E id \in DOMAIN p.productions : \E d \in DOMAIN Rhs(p, id) : Rhs(p, id)[d] = symbol

\* The window at one position begins as f does and goes on with the one at another.
LooksLike(p, text, lo, f, hi) == Win(p, text, lo) = Cut(p, f \o Win(p, text, hi))

\* Where item <<id, d>> is expected in a state, before window w, and what comes
\* behind its next n members is the window at hi.
Expects(p, text, ahead, state, id, d, n, hi, w) ==
    /\ <<state, <<id, d>>, w>> \in ahead.follows
    /\ id \in DOMAIN p.productions /\ d \in Nat /\ d + n <= Len(Rhs(p, id))
    /\ <<id, d + n, Win(p, text, hi), w>> \in ahead.goes

\* A driver that has read a symbol from lo to hi.
HasRead(p, text, c, symbol, lo, hi, e) ==
    \E span \in SpansOver(Places(text)), at \in Places(text) :
        /\ Lies(p, text, span, lo, hi) /\ Blanks(p, text, hi, at)
        /\ e = PushedOn(c, p.goto[<<Uppermost(c), symbol>>], span, at)

ReadsWhole(p, text, ahead, symbol, lo, hi) ==
    /\ lo <= hi
    /\ Occurs(p, symbol) =>
          \E f \in Seq(Terminals) : <<symbol, f>> \in ahead.starts /\ LooksLike(p, text, lo, f, hi)
    /\ \A c \in Configs(p, text) : \A id, d, w :
          /\ Expects(p, text, ahead, Uppermost(c), id, d, 1, hi, w) /\ Rhs(p, id)[d + 1] = symbol
          /\ Blanks(p, text, lo, c.at)
          /\ \A e : HasRead(p, text, c, symbol, lo, hi, e) => Accepting(p, text, e)
          => Accepting(p, text, c)

\* A driver that has read the first d members of a production from lo to hi.
HasReadPart(p, text, ahead, c, id, d, lo, hi, w, e) ==
    /\ e \in Configs(p, text)
    /\ \E kids \in Seq(SpansOver(Places(text))) :
          /\ Len(kids) = d /\ e.spans = c.spans \o kids
          /\ Laid(p, text, id, kids, d, lo, hi)
    /\ Len(e.states) = Len(c.states) + d
    /\ SubSeq(e.states, 1, Len(c.states)) = c.states
    /\ <<Uppermost(e), <<id, d>>, w>> \in ahead.follows
    /\ Blanks(p, text, hi, e.at)

ReadsPart(p, text, ahead, id, d, lo, hi) ==
    /\ lo <= hi
    /\ \E f \in Seq(Terminals) : <<id, d, f>> \in ahead.opens /\ LooksLike(p, text, lo, f, hi)
    /\ \A c \in Configs(p, text) : \A w :
          /\ Expects(p, text, ahead, Uppermost(c), id, 0, d, hi, w)
          /\ Blanks(p, text, lo, c.at)
          /\ \A e : HasReadPart(p, text, ahead, c, id, d, lo, hi, w, e) => Accepting(p, text, e)
          => Accepting(p, text, c)

LEMMA CompleteGives ==
    ASSUME NEW p, NEW text, NEW ahead, Complete(p, text, ahead)
    PROVE  /\ WellFormed(p) /\ p.k \in Nat \ {0} /\ p.k \in Nat /\ text \in Seq(STRING) /\ Len(text) \in Nat
           /\ \A id \in DOMAIN p.productions : Rhs(p, id) \in Seq(STRING) /\ Len(Rhs(p, id)) \in Nat
           /\ DOMAIN p.productions \subseteq Nat /\ 0 \in DOMAIN p.productions
<1>1. WellFormed(p) /\ text \in Seq(STRING)
  BY DEF Complete, Coherent
<1> QED BY <1>1 DEF WellFormed, Rhs

LEMMA WinTyped ==
    ASSUME NEW p, NEW text, NEW ahead, Complete(p, text, ahead), NEW i \in Places(text)
    PROVE  Win(p, text, i) \in Seq(Terminals) /\ Len(Win(p, text, i)) = p.k
<1>1. i \in 0..(Len(text) + 1)
  BY CompleteGives DEF Places
<1> QED BY <1>1, CompleteGives, WindowIsSequence

\* A transition leads to a state, and pushing it on stacks leaves stacks.
LEMMA PushedTyped ==
    ASSUME NEW p, NEW text, NEW ahead, Complete(p, text, ahead), NEW c \in Configs(p, text),
           NEW symbol, <<Uppermost(c), symbol>> \in DOMAIN p.goto,
           NEW span \in SpansOver(Places(text)), NEW at \in Places(text)
    PROVE  LET e == PushedOn(c, p.goto[<<Uppermost(c), symbol>>], span, at)
           IN  /\ e \in Configs(p, text) /\ e.at = at
               /\ Uppermost(e) = p.goto[<<Uppermost(c), symbol>>]
               /\ \A to : MovedTo(e, to) = PushedOn(c, p.goto[<<Uppermost(c), symbol>>], span, to)
<1> DEFINE state == p.goto[<<Uppermost(c), symbol>>]
           e == PushedOn(c, state, span, at)
<1>1. state \in DOMAIN p.items
  <2>1. \A edge \in DOMAIN p.goto : p.goto[edge] \in DOMAIN p.items
    BY DEF Complete, Coherent, Transitions
  <2> QED BY <2>1
<1>2. c.states \in Seq(DOMAIN p.items) /\ c.spans \in Seq(SpansOver(Places(text)))
      /\ Len(c.states) = Len(c.spans) + 1
  BY CompleteGives, ConfigTyped
<1> HIDE DEF state
<1>3. e.states = Append(c.states, state) /\ e.spans = Append(c.spans, span) /\ e.at = at
      /\ e = [states |-> e.states, spans |-> e.spans, at |-> e.at]
  BY DEF PushedOn
<1>4. \A to : MovedTo(e, to) = PushedOn(c, state, span, to)
  BY DEF MovedTo, PushedOn
<1> HIDE DEF e
<1>5. e.states \in Seq(DOMAIN p.items) /\ e.spans \in Seq(SpansOver(Places(text)))
  <2>1. e.states \in Seq(DOMAIN p.items)
    <3>1. Append(c.states, state) \in Seq(DOMAIN p.items)
      BY <1>1, <1>2, Appended
    <3>2. e.states = Append(c.states, state)
      BY <1>3
    <3> QED BY <3>1, <3>2
  <2>2. e.spans \in Seq(SpansOver(Places(text)))
    BY <1>2, <1>3, Appended
  <2> QED BY <2>1, <2>2
<1>8. Len(e.states) = Len(e.spans) + 1
  <2>1. Len(Append(c.states, state)) = Len(c.states) + 1
    BY <1>1, <1>2, Appended
  <2>2. Len(Append(c.spans, span)) = Len(c.spans) + 1
    BY <1>2, Appended
  <2>3. e.states = Append(c.states, state) /\ e.spans = Append(c.spans, span)
    BY <1>3
  <2> QED BY <1>2, <2>1, <2>2, <2>3
<1>6. e \in Configs(p, text)
  BY <1>3, <1>5, <1>8 DEF Configs
<1>7. Uppermost(e) = state
  BY <1>1, <1>2, <1>3 DEF Uppermost
<1> QED BY <1>3, <1>4, <1>6, <1>7 DEF e, state

\* A token is read with a shift.
LEMMA TokenReadsWhole ==
    ASSUME NEW p, NEW text, NEW ahead, Complete(p, text, ahead), NEW i \in DOMAIN text
    PROVE  ReadsWhole(p, text, ahead, text[i], i - 1, i)
<1> DEFINE t == text[i]
           f == <<t>>
<1>1. /\ i \in Nat /\ i - 1 \in Nat /\ i - 1 < Len(text) /\ i - 1 + 1 = i /\ i <= Len(text)
      /\ i - 1 \in Places(text) /\ i \in Places(text) /\ i - 1 <= i /\ t \in STRING /\ text[i - 1 + 1] = t
  BY CompleteGives DEF Places
<1>2. f \in Seq(Terminals)
  BY <1>1 DEF Terminals
<1>3. Occurs(p, t) => ~LrIsSpace(p, t) /\ <<t, f>> \in ahead.starts
  <2> SUFFICES ASSUME NEW id \in DOMAIN p.productions, NEW d \in DOMAIN Rhs(p, id), Rhs(p, id)[d] = t
               PROVE  ~LrIsSpace(p, t) /\ <<t, f>> \in ahead.starts
    BY DEF Occurs
  <2>1. ~IsRule(p, Rhs(p, id)[d]) /\ LeavesNothingOut(p, ahead)
    BY DEF Complete
  <2> QED BY <2>1, TokenStarts
<1> HIDE DEF f
<1>4. ~LrIsSpace(p, t) => LooksLike(p, text, i - 1, f, i)
  BY <1>1, CompleteGives, WindowIsTokenFirst DEF LooksLike, f
<1>5. ASSUME NEW c \in Configs(p, text), NEW id, NEW d, NEW w,
             Expects(p, text, ahead, Uppermost(c), id, d, 1, i, w), Rhs(p, id)[d + 1] = t,
             Blanks(p, text, i - 1, c.at),
             \A e : HasRead(p, text, c, t, i - 1, i, e) => Accepting(p, text, e)
      PROVE  Accepting(p, text, c)
  <2> DEFINE state == p.goto[<<Uppermost(c), t>>]
             e == PushedOn(c, state, TokenSpan(i - 1), i)
  <2>1. /\ <<Uppermost(c), <<id, d>>, w>> \in ahead.follows
        /\ id \in DOMAIN p.productions /\ d \in Nat /\ d + 1 <= Len(Rhs(p, id))
        /\ <<id, d + 1, Win(p, text, i), w>> \in ahead.goes /\ LeavesNothingOut(p, ahead)
    BY <1>5 DEF Expects, Complete
  <2>2. Rhs(p, id) \in Seq(STRING) /\ Len(Rhs(p, id)) \in Nat
    BY <2>1, CompleteGives
  <2>3. d + 1 \in DOMAIN Rhs(p, id) /\ d < Len(Rhs(p, id)) /\ d # Len(Rhs(p, id)) /\ d + 1 \in Nat \ {0} /\ d + 1 - 1 = d
    BY <2>1, <2>2
  <2>4. Occurs(p, t) /\ ~LrIsSpace(p, t) /\ <<t, f>> \in ahead.starts /\ LooksLike(p, text, i - 1, f, i)
    BY <1>3, <1>4, <1>5, <2>1, <2>3 DEF Occurs
  <2>5. c.at = i - 1
    <3>1. c.at \in Nat
      BY CompleteGives, ConfigTyped
    <3>2. i - 1 <= c.at /\ \A m \in (i - 1 + 1)..c.at : LrIsSpace(p, text[m])
      BY <1>5 DEF Blanks
    <3>3. i \notin (i - 1 + 1)..c.at
      BY <2>4, <3>2
    <3> QED BY <1>1, <3>1, <3>2, <3>3
  <2>6. <<id, d, Win(p, text, i - 1), w>> \in ahead.goes
    <3>1. <<id, d + 1 - 1, Cut(p, f \o Win(p, text, i)), w>> \in ahead.goes
      BY <1>5, <2>1, <2>3, <2>4, MemberGoes
    <3> QED BY <2>3, <2>4, <3>1 DEF LooksLike
  <2>7. ~IsRule(p, t)
    BY DEF Complete
  <2>8. [type |-> "shift", state |-> state] \in Offered(p, Uppermost(c), Win(p, text, i - 1))
    BY <1>5, <2>1, <2>3, <2>6, <2>7, ShiftIsOffered
  <2>9. <<Uppermost(c), t>> \in DOMAIN p.goto
    BY <1>5, <2>1, <2>3, FollowGives
  <2>10. TokenSpan(i - 1) \in SpansOver(Places(text)) /\ Lies(p, text, TokenSpan(i - 1), i - 1, i)
    <3>1. TokenSpan(i - 1) \in SpansOver(Places(text))
      BY <1>1 DEF TokenSpan, SpansOver
    <3> QED BY <3>1, CompleteGives, TokenLies
  <2>11. ~BeforeBlank(p, text, c)
    BY <1>1, <2>4, <2>5 DEF BeforeBlank
  <2>12. MayTake(p, text, c, "shift", state)
    BY <2>5, <2>8, <2>11 DEF MayTake
  <2>13. Moves(p, text, c, e)
    BY <1>1, <2>5, <2>12 DEF Moves, Shifts
  <2>14. Blanks(p, text, i, i)
    BY <1>1, BlankHere
  <2>15. HasRead(p, text, c, t, i - 1, i, e)
    BY <1>1, <2>10, <2>14 DEF HasRead
  <2> HIDE DEF e
  <2>16. Accepting(p, text, e)
    BY <1>5, <2>15
  <2> QED BY <2>13, <2>16, AcceptsBefore
<1>6. Occurs(p, t) => \E g \in Seq(Terminals) : <<t, g>> \in ahead.starts /\ LooksLike(p, text, i - 1, g, i)
  BY <1>2, <1>3, <1>4
<1> HIDE DEF t
<1>7. ReadsWhole(p, text, ahead, t, i - 1, i)
  BY <1>1, <1>5, <1>6 DEF ReadsWhole
<1> QED BY <1>7 DEF t

LEMMA EmptyCat ==
    ASSUME NEW S, NEW s \in Seq(S)
    PROVE  <<>> \o s = s /\ s \o <<>> = s
OBVIOUS

\* Nothing is read of a production, but the gap it begins with.
LEMMA NothingReadsPart ==
    ASSUME NEW p, NEW text, NEW ahead, Complete(p, text, ahead), NEW id \in Rules(p),
           NEW lo \in Places(text), NEW hi \in Places(text), Gap(p, text, id, 0, lo, hi)
    PROVE  ReadsPart(p, text, ahead, id, 0, lo, hi)
<1>1. lo \in Int /\ hi \in Int /\ lo \in Nat /\ hi \in Nat
  BY CompleteGives DEF Places
<1>2. Blanks(p, text, lo, hi) /\ lo <= hi
  BY <1>1, GapIsBlank DEF Blanks
<1>3. \E f \in Seq(Terminals) : <<id, 0, f>> \in ahead.opens /\ LooksLike(p, text, lo, f, hi)
  <2>1. <<id, 0, <<>>>> \in ahead.opens
    BY RuleOpens DEF Complete
  <2>2. Win(p, text, lo) = Win(p, text, hi)
    BY <1>2, CompleteGives, WindowOverBlanks
  <2> DEFINE u == Win(p, text, hi)
  <2>3. u \in Seq(Terminals) /\ Len(u) = p.k
    BY WinTyped
  <2> HIDE DEF u
  <2>4. Cut(p, <<>> \o u) = u
    BY <2>3, CompleteGives, EmptyCat, CutOfWindow
  <2>5. LooksLike(p, text, lo, <<>>, hi)
    BY <2>2, <2>4 DEF LooksLike, u
  <2>6. <<>> \in Seq(Terminals)
    OBVIOUS
  <2> QED BY <2>1, <2>5, <2>6
<1>4. ASSUME NEW c \in Configs(p, text), NEW w,
             Expects(p, text, ahead, Uppermost(c), id, 0, 0, hi, w),
             Blanks(p, text, lo, c.at),
             \A e : HasReadPart(p, text, ahead, c, id, 0, lo, hi, w, e) => Accepting(p, text, e)
      PROVE  Accepting(p, text, c)
  <2>1. /\ c.states \in Seq(DOMAIN p.items) /\ c.spans \in Seq(SpansOver(Places(text)))
        /\ c.at \in Places(text) /\ c.at \in Nat
    BY CompleteGives, ConfigTyped
  <2>2. PICK to \in Places(text) : Blanks(p, text, c.at, to) /\ Blanks(p, text, hi, to)
    <3>1. CASE hi <= c.at
      <4>1. Blanks(p, text, c.at, c.at)
        BY <2>1, BlankHere
      <4>2. Blanks(p, text, hi, c.at)
        BY <1>1, <1>2, <1>4, <2>1, <3>1 DEF Blanks
      <4> QED BY <2>1, <4>1, <4>2
    <3>2. CASE ~(hi <= c.at)
      <4>1. Blanks(p, text, hi, hi)
        BY <1>1, BlankHere
      <4>2. Blanks(p, text, c.at, hi)
        <5>1. lo <= c.at
          BY <1>4 DEF Blanks
        <5> QED BY <1>1, <1>2, <2>1, <3>2, <5>1 DEF Blanks
      <4> QED BY <4>1, <4>2
    <3> QED BY <3>1, <3>2
  <2> DEFINE e == MovedTo(c, to)
  <2>3. e \in Configs(p, text) /\ e.states = c.states /\ e.spans = c.spans /\ e.at = to
    BY CompleteGives, ConfigTyped DEF MovedTo
  <2> HIDE DEF e
  <2>4. Laid(p, text, id, <<>>, 0, lo, hi)
    BY CompleteGives, LaidNone
  <2>5. <<>> \in Seq(SpansOver(Places(text))) /\ Len(<<>>) = 0 /\ c.spans \o <<>> = c.spans
    BY <2>1
  <2>6. Len(e.states) = Len(c.states) + 0 /\ SubSeq(e.states, 1, Len(c.states)) = c.states
    BY <2>1, <2>3
  <2>7. Uppermost(e) = Uppermost(c)
    BY <2>3 DEF Uppermost
  <2>8. <<Uppermost(e), <<id, 0>>, w>> \in ahead.follows
    BY <1>4, <2>7 DEF Expects
  <2>9. HasReadPart(p, text, ahead, c, id, 0, lo, hi, w, e)
    BY <2>2, <2>3, <2>4, <2>5, <2>6, <2>8 DEF HasReadPart
  <2>10. Accepting(p, text, e)
    BY <1>4, <2>9
  <2> QED BY <2>2, <2>10, CompleteGives, AcceptsOverBlanks DEF e
<1> QED BY <1>2, <1>3, <1>4 DEF ReadsPart

LEMMA CatAssociates ==
    ASSUME NEW S, NEW a \in Seq(S), NEW b \in Seq(S), NEW c \in Seq(S)
    PROVE  (a \o b) \o c = a \o (b \o c) /\ a \o b \in Seq(S)
<1> DEFINE u == a \o b
           v == b \o c
           x == u \o c
           y == a \o v
<1>1. u \in Seq(S) /\ Len(u) = Len(a) + Len(b) /\ (\A j \in 1..Len(a) : u[j] = a[j])
      /\ \A j \in 1..Len(b) : u[Len(a) + j] = b[j]
  BY Catenated
<1>2. v \in Seq(S) /\ Len(v) = Len(b) + Len(c) /\ (\A j \in 1..Len(b) : v[j] = b[j])
      /\ \A j \in 1..Len(c) : v[Len(b) + j] = c[j]
  BY Catenated
<1> HIDE DEF u, v
<1>0. u \in Seq(S) /\ v \in Seq(S)
  BY <1>1, <1>2
<1>3. x \in Seq(S) /\ Len(x) = Len(u) + Len(c) /\ (\A j \in 1..Len(u) : x[j] = u[j])
      /\ \A j \in 1..Len(c) : x[Len(u) + j] = c[j]
  BY <1>0, Catenated
<1>4. y \in Seq(S) /\ Len(y) = Len(a) + Len(v) /\ (\A j \in 1..Len(a) : y[j] = a[j])
      /\ \A j \in 1..Len(v) : y[Len(a) + j] = v[j]
  BY <1>0, Catenated
<1> HIDE DEF x, y
<1>5. Len(a) \in Nat /\ Len(b) \in Nat /\ Len(c) \in Nat
  OBVIOUS
<1>6. Len(x) = Len(y)
  BY <1>1, <1>2, <1>3, <1>4, <1>5
<1>9. /\ Len(u) = Len(a) + Len(b) /\ Len(v) = Len(b) + Len(c) /\ Len(y) = Len(a) + (Len(b) + Len(c))
      /\ Len(x) = Len(a) + (Len(b) + Len(c))
  BY <1>1, <1>2, <1>3, <1>4, <1>5
<1>7. ASSUME NEW j \in 1..Len(y) PROVE x[j] = y[j]
  <2>1. CASE j <= Len(a)
    <3>1. j \in 1..Len(a) /\ j \in 1..Len(u)
      BY <1>9, <1>5, <2>1
    <3> QED BY <1>1, <1>3, <1>4, <3>1
  <2>2. CASE Len(a) < j /\ j <= Len(a) + Len(b)
    <3> DEFINE l == j - Len(a)
    <3>1. l \in 1..Len(b) /\ j = Len(a) + l /\ l \in 1..Len(v) /\ j \in 1..Len(u)
      BY <1>9, <1>5, <2>2
    <3> HIDE DEF l
    <3>2. x[j] = u[j] /\ u[j] = b[l] /\ y[j] = v[l] /\ v[l] = b[l]
      BY <1>1, <1>2, <1>3, <1>4, <3>1
    <3> QED BY <3>2
  <2>3. CASE Len(a) + Len(b) < j
    <3> DEFINE l == j - Len(a) - Len(b)
    <3>1. l \in 1..Len(c) /\ j = Len(u) + l /\ j = Len(a) + (Len(b) + l) /\ Len(b) + l \in 1..Len(v)
      BY <1>9, <1>5, <2>3
    <3> HIDE DEF l
    <3>2. x[j] = c[l] /\ y[j] = v[Len(b) + l] /\ v[Len(b) + l] = c[l]
      BY <1>2, <1>3, <1>4, <3>1
    <3> QED BY <3>2
  <2> QED BY <1>5, <2>1, <2>2, <2>3
<1>8. x = y
  BY <1>3, <1>4, <1>6, <1>7, SameElements
<1> QED BY <1>1, <1>8 DEF x, y, u, v

\* Windows compose as what they are the beginnings of.
LEMMA LookOnwards ==
    ASSUME NEW p, NEW text, NEW ahead, Complete(p, text, ahead),
           NEW lo \in Places(text), NEW from \in Places(text), NEW to \in Places(text), NEW hi \in Places(text),
           NEW f \in Seq(Terminals), NEW g \in Seq(Terminals),
           LooksLike(p, text, lo, f, from), LooksLike(p, text, from, g, to),
           Win(p, text, to) = Win(p, text, hi)
    PROVE  Cut(p, f \o g) \in Seq(Terminals) /\ LooksLike(p, text, lo, Cut(p, f \o g), hi)
<1> DEFINE u == Win(p, text, hi)
           fg == f \o g
           gu == g \o u
<1>1. u \in Seq(Terminals) /\ p.k \in Nat
  BY WinTyped, CompleteGives
<1>2. Win(p, text, lo) = Cut(p, f \o Win(p, text, from)) /\ Win(p, text, from) = Cut(p, g \o u)
  BY DEF LooksLike
<1> HIDE DEF u
<1>3. fg \in Seq(Terminals) /\ gu \in Seq(Terminals) /\ fg \o u = f \o gu
  BY <1>1, CatAssociates
<1>4. Win(p, text, lo) = Cut(p, f \o Cut(p, gu))
  BY <1>2
<1> HIDE DEF gu, fg
<1>5. Cut(p, f \o Cut(p, gu)) = Cut(p, f \o gu)
  BY <1>1, <1>3, CutOfRight
<1>6. Cut(p, Cut(p, fg) \o u) = Cut(p, fg \o u)
  <2>1. fg \in Seq(Terminals) /\ u \in Seq(Terminals)
    BY <1>1, <1>3
  <2> QED BY <1>1, <2>1, CutOfLeft
<1>7. Cut(p, fg) \in Seq(Terminals)
  BY <1>1, <1>3, CutHas
<1>8. Win(p, text, lo) = Cut(p, Cut(p, fg) \o u)
  BY <1>3, <1>4, <1>5, <1>6
<1> QED BY <1>7, <1>8 DEF LooksLike, fg, u

\* A position behind two others, over blanks.
LEMMA BlanksMeet ==
    ASSUME NEW p, NEW text, Len(text) \in Nat, NEW lo \in Places(text), NEW a \in Places(text), NEW b \in Places(text),
           Blanks(p, text, lo, a), Blanks(p, text, lo, b)
    PROVE  \E to \in Places(text) : Blanks(p, text, a, to) /\ Blanks(p, text, b, to)
<1>1. a \in Nat /\ b \in Nat /\ lo \in Nat /\ lo <= a /\ lo <= b
  BY DEF Blanks, Places
<1>2. CASE a <= b
  <2>1. Blanks(p, text, a, b) /\ Blanks(p, text, b, b)
    BY <1>1, <1>2 DEF Blanks
  <2> QED BY <2>1
<1>3. CASE ~(a <= b)
  <2>1. Blanks(p, text, b, a) /\ Blanks(p, text, a, a)
    BY <1>1, <1>3 DEF Blanks
  <2> QED BY <2>1
<1> QED BY <1>2, <1>3

\* One member more is read after those before it.
LEMMA MemberReadsPart ==
    ASSUME NEW p, NEW text, NEW ahead, Complete(p, text, ahead), NEW id \in Rules(p),
           NEW d \in DOMAIN Rhs(p, id),
           NEW lo \in Places(text), NEW from \in Places(text), NEW to \in Places(text), NEW hi \in Places(text),
           ReadsPart(p, text, ahead, id, d - 1, lo, from),
           ReadsWhole(p, text, ahead, Rhs(p, id)[d], from, to),
           Gap(p, text, id, d, to, hi)
    PROVE  ReadsPart(p, text, ahead, id, d, lo, hi)
<1> DEFINE X == Rhs(p, id)[d]
<1>1. /\ id \in DOMAIN p.productions /\ id # 0 /\ Rhs(p, id) \in Seq(STRING) /\ Len(Rhs(p, id)) \in Nat
      /\ d \in 1..Len(Rhs(p, id)) /\ d \in Nat \ {0} /\ d - 1 \in Nat /\ d - 1 + 1 = d /\ d <= Len(Rhs(p, id))
      /\ d - 1 < Len(Rhs(p, id)) /\ d - 1 + 0 = d - 1
  <2>1. id \in DOMAIN p.productions /\ id # 0
    BY DEF Rules
  <2>2. Rhs(p, id) \in Seq(STRING)
    BY <2>1, CompleteGives
  <2> QED BY <2>1, <2>2
<1>2. lo \in Nat /\ from \in Nat /\ to \in Nat /\ hi \in Nat /\ text \in Seq(STRING) /\ Len(text) \in Nat
  BY CompleteGives DEF Places
<1>3. Blanks(p, text, to, hi) /\ to <= hi
  BY <1>2, GapIsBlank DEF Blanks
<1>4. Win(p, text, to) = Win(p, text, hi)
  BY <1>2, <1>3, WindowOverBlanks
<1>5. lo <= from /\ from <= to /\ lo <= hi
  <2>1. lo <= from /\ from <= to
    BY DEF ReadsPart, ReadsWhole
  <2> QED BY <1>2, <1>3, <2>1
<1>6. LeavesNothingOut(p, ahead) /\ Occurs(p, X)
  BY <1>1 DEF Complete, Occurs
<1>7. PICK f \in Seq(Terminals) : <<id, d - 1, f>> \in ahead.opens /\ LooksLike(p, text, lo, f, from)
  BY DEF ReadsPart
<1>8. PICK g \in Seq(Terminals) : <<X, g>> \in ahead.starts /\ LooksLike(p, text, from, g, to)
  BY <1>6 DEF ReadsWhole
<1>9. Cut(p, f \o g) \in Seq(Terminals) /\ LooksLike(p, text, lo, Cut(p, f \o g), hi)
  BY <1>4, <1>7, <1>8, LookOnwards
<1>10. <<id, d, Cut(p, f \o g)>> \in ahead.opens
  BY <1>1, <1>6, <1>7, <1>8, MemberOpens
<1>11. \E h \in Seq(Terminals) : <<id, d, h>> \in ahead.opens /\ LooksLike(p, text, lo, h, hi)
  BY <1>9, <1>10
<1>12. ASSUME NEW c \in Configs(p, text), NEW w,
              Expects(p, text, ahead, Uppermost(c), id, 0, d, hi, w),
              Blanks(p, text, lo, c.at),
              \A e : HasReadPart(p, text, ahead, c, id, d, lo, hi, w, e) => Accepting(p, text, e)
       PROVE  Accepting(p, text, c)
  <2>1. <<Uppermost(c), <<id, 0>>, w>> \in ahead.follows /\ <<id, d, Win(p, text, hi), w>> \in ahead.goes
    <3>1. 0 + d = d
      BY <1>1
    <3> QED BY <1>12, <3>1 DEF Expects
  <2>2. <<id, d - 1, Win(p, text, from), w>> \in ahead.goes
    <3>1. <<id, d - 1, Cut(p, g \o Win(p, text, hi)), w>> \in ahead.goes
      BY <1>1, <1>6, <1>8, <2>1, MemberGoes
    <3>2. Win(p, text, from) = Cut(p, g \o Win(p, text, hi))
      BY <1>4, <1>8 DEF LooksLike
    <3> QED BY <3>1, <3>2
  <2>3. Expects(p, text, ahead, Uppermost(c), id, 0, d - 1, from, w)
    <3>1. 0 + (d - 1) = d - 1 /\ d - 1 <= Len(Rhs(p, id)) /\ 0 \in Nat
      BY <1>1
    <3> QED BY <1>1, <2>1, <2>2, <3>1 DEF Expects
  <2>4. ASSUME NEW e, HasReadPart(p, text, ahead, c, id, d - 1, lo, from, w, e)
        PROVE  Accepting(p, text, e)
    <3>1. /\ e \in Configs(p, text) /\ Len(e.states) = Len(c.states) + (d - 1)
          /\ SubSeq(e.states, 1, Len(c.states)) = c.states
          /\ <<Uppermost(e), <<id, d - 1>>, w>> \in ahead.follows
          /\ Blanks(p, text, from, e.at)
      BY <2>4 DEF HasReadPart
    <3>2. PICK kids \in Seq(SpansOver(Places(text))) :
             /\ Len(kids) = d - 1 /\ e.spans = c.spans \o kids
             /\ Laid(p, text, id, kids, d - 1, lo, from)
      BY <2>4 DEF HasReadPart
    <3>3. Expects(p, text, ahead, Uppermost(e), id, d - 1, 1, to, w)
      BY <1>1, <1>4, <2>1, <3>1 DEF Expects
    <3>4. ASSUME NEW e2, HasRead(p, text, e, X, from, to, e2)
          PROVE  Accepting(p, text, e2)
      <4> DEFINE state == p.goto[<<Uppermost(e), X>>]
      <4>1. PICK span \in SpansOver(Places(text)), at \in Places(text) :
               Lies(p, text, span, from, to) /\ Blanks(p, text, to, at) /\ e2 = PushedOn(e, state, span, at)
        BY <3>4 DEF HasRead
      <4>2. PICK stop \in Places(text) : Blanks(p, text, at, stop) /\ Blanks(p, text, hi, stop)
        BY <1>2, <1>3, <4>1, BlanksMeet
      <4>3. <<Uppermost(e), X>> \in DOMAIN p.goto /\ <<state, <<id, d>>, w>> \in ahead.follows
        BY <1>1, <1>6, <3>1, FollowGives
      <4>4. /\ e2 \in Configs(p, text) /\ e2.at = at
            /\ MovedTo(e2, stop) = PushedOn(e, state, span, stop)
        <5> DEFINE pushed == PushedOn(e, state, span, at)
        <5>1. e \in Configs(p, text) /\ <<Uppermost(e), X>> \in DOMAIN p.goto
          BY <3>1, <4>3
        <5> HIDE DEF X
        <5>2. pushed \in Configs(p, text) /\ pushed.at = at
          BY <5>1, PushedTyped
        <5>4. MovedTo(pushed, stop) = PushedOn(e, state, span, stop)
          BY DEF MovedTo, PushedOn
        <5> HIDE DEF pushed
        <5>3. e2 = pushed
          BY <4>1 DEF pushed
        <5> QED BY <5>2, <5>3, <5>4
      <4> DEFINE e3 == MovedTo(e2, stop)
      <4>5. /\ e3 \in Configs(p, text) /\ e3.at = stop /\ Uppermost(e3) = state
            /\ e3 = PushedOn(e, state, span, stop)
        BY <3>1, <4>3, <4>4, PushedTyped
      <4> HIDE DEF e3
      <4>6. e3.states = Append(e.states, state) /\ e3.spans = Append(e.spans, span)
        BY <4>5 DEF PushedOn
      <4>7. Append(kids, span) \in Seq(SpansOver(Places(text))) /\ Len(Append(kids, span)) = d
        BY <1>1, <3>2, Appended
      <4>8. e3.spans = c.spans \o Append(kids, span)
        <5>1. c.spans \in Seq(SpansOver(Places(text)))
          BY <1>2, ConfigTyped
        <5>2. e.spans = c.spans \o kids
          BY <3>2
        <5> DEFINE T == SpansOver(Places(text))
                   u == c.spans
                   v == e.spans
        <5>3. u \in Seq(T) /\ kids \in Seq(T) /\ span \in T /\ v = u \o kids
          BY <5>1, <5>2
        <5> HIDE DEF T, u, v
        <5>4. Append(v, span) = u \o Append(kids, span)
          <6>1. Append(kids, span) = kids \o <<span>> /\ Append(v, span) = v \o <<span>>
            BY <5>3
          <6>2. <<span>> \in Seq(T)
            BY <5>3
          <6>3. (u \o kids) \o <<span>> = u \o (kids \o <<span>>)
            BY <5>3, <6>2, CatAssociates
          <6> QED BY <5>3, <6>1, <6>3
        <5>5. e3.spans = Append(v, span)
          BY <4>6 DEF v
        <5> QED BY <5>4, <5>5 DEF u
      <4>9. Laid(p, text, id, Append(kids, span), d, lo, hi)
        <5>1. Len(kids) + 1 = d
          BY <1>1, <3>2
        <5>2. Laid(p, text, id, Append(kids, span), Len(kids) + 1, lo, hi)
          BY <1>2, <3>2, <4>1, <5>1, LaidNext
        <5> QED BY <5>1, <5>2
      <4>10. Len(e3.states) = Len(c.states) + d /\ SubSeq(e3.states, 1, Len(c.states)) = c.states
        <5>1. e.states \in Seq(DOMAIN p.items) /\ e3.states \in Seq(DOMAIN p.items) /\ c.states \in Seq(DOMAIN p.items)
          BY <1>2, <3>1, <4>5, ConfigTyped
        <5>2. Len(e3.states) = Len(e.states) + 1 /\ \A j \in 1..Len(e.states) : e3.states[j] = e.states[j]
          BY <4>6, <5>1
        <5>3. Len(c.states) \in 0..Len(e.states) /\ Len(c.states) \in 0..Len(e3.states)
          BY <1>1, <3>1, <5>1, <5>2
        <5> DEFINE a == SubSeq(e3.states, 1, Len(c.states))
        <5>4. a \in Seq(DOMAIN p.items) /\ Len(a) = Len(c.states) /\ \A j \in 1..Len(c.states) : a[j] = e3.states[j]
          BY <5>1, <5>3, Prefix
        <5>5. \A j \in 1..Len(c.states) : c.states[j] = e.states[j]
          <6>1. \A j \in 1..Len(c.states) : SubSeq(e.states, 1, Len(c.states))[j] = e.states[j]
            BY <5>1, <5>3, Prefix
          <6> QED BY <3>1, <6>1
        <5> HIDE DEF a
        <5>6. \A j \in 1..Len(c.states) : a[j] = c.states[j]
          BY <5>2, <5>3, <5>4, <5>5
        <5>7. a = c.states
          BY <5>1, <5>4, <5>6, SameElements
        <5>8. Len(e3.states) = Len(c.states) + d
          BY <1>1, <3>1, <5>1, <5>2
        <5> QED BY <5>7, <5>8 DEF a
      <4>11. HasReadPart(p, text, ahead, c, id, d, lo, hi, w, e3)
        BY <4>2, <4>3, <4>5, <4>7, <4>8, <4>9, <4>10 DEF HasReadPart
      <4>12. Accepting(p, text, e3)
        BY <1>12, <4>11
      <4> QED BY <1>2, <4>2, <4>4, <4>12, AcceptsOverBlanks DEF e3
    <3>5. Rhs(p, id)[d - 1 + 1] = X
      BY <1>1
    <3> QED BY <3>1, <3>3, <3>4, <3>5 DEF ReadsWhole
  <2> QED BY <1>12, <2>3, <2>4 DEF ReadsPart
<1> QED BY <1>5, <1>11, <1>12 DEF ReadsPart

\* Configurations that have read all members of a rule reduce it.
LEMMA PartReduces ==
    ASSUME NEW p, NEW text, NEW ahead, Complete(p, text, ahead), NEW id \in Rules(p),
           NEW c \in Configs(p, text),
           NEW lo \in Places(text), NEW hi \in Places(text), NEW e,
           HasReadPart(p, text, ahead, c, id, Len(Rhs(p, id)), lo, hi, Win(p, text, hi), e),
           <<Uppermost(c), p.productions[id].lhs>> \in DOMAIN p.goto,
           \A r : HasRead(p, text, c, p.productions[id].lhs, lo, hi, r) => Accepting(p, text, r)
    PROVE  Accepting(p, text, e)
<1> DEFINE n == Len(Rhs(p, id))
           X == p.productions[id].lhs
           rule == id - 1
<1>1. /\ id \in Nat /\ id # 0 /\ rule \in Nat /\ rule + 1 = id /\ n \in Nat
      /\ LrRhs(p, rule) = Rhs(p, id) /\ LrLhs(p, rule) = X /\ LrLength(p, rule) = n
  <2>1. id \in Nat /\ id # 0 /\ n \in Nat
    BY CompleteGives DEF Rules
  <2>2. rule \in Nat /\ rule + 1 = id
    BY <2>1
  <2> HIDE DEF rule
  <2> QED BY <2>1, <2>2 DEF LrRhs, LrLhs, LrLength, Rhs
<1> HIDE DEF rule
<1>2. text \in Seq(STRING) /\ Len(text) \in Nat /\ LeavesNothingOut(p, ahead) /\ hi \in Nat
  BY CompleteGives DEF Complete, Places
<1>3. /\ e \in Configs(p, text) /\ Len(e.states) = Len(c.states) + n
      /\ SubSeq(e.states, 1, Len(c.states)) = c.states
      /\ <<Uppermost(e), <<id, n>>, Win(p, text, hi)>> \in ahead.follows
      /\ Blanks(p, text, hi, e.at)
  BY DEF HasReadPart
<1>4. PICK kids \in Seq(SpansOver(Places(text))) :
         Len(kids) = n /\ e.spans = c.spans \o kids /\ Laid(p, text, id, kids, n, lo, hi)
  BY DEF HasReadPart
<1>5. /\ e.at \in Places(text) /\ e.at \in Nat /\ e.states \in Seq(DOMAIN p.items)
      /\ c.states \in Seq(DOMAIN p.items) /\ c.spans \in Seq(SpansOver(Places(text)))
      /\ Len(c.states) = Len(c.spans) + 1
  BY <1>2, <1>3, ConfigTyped
<1>6. PICK stop \in Places(text) :
         Blanks(p, text, e.at, stop) /\ ~(stop < Len(text) /\ LrIsSpace(p, text[stop + 1]))
  BY <1>2, <1>5, BlanksEnd
<1>7. Blanks(p, text, hi, stop) /\ stop \in Int
  <2>1. stop \in Int
    BY <1>2 DEF Places
  <2> QED BY <1>2, <1>3, <1>5, <1>6, <2>1, BlankJoins
<1> DEFINE d == MovedTo(e, stop)
<1>8. d \in Configs(p, text) /\ d.states = e.states /\ d.spans = e.spans /\ d.at = stop
  BY <1>2, <1>3, ConfigTyped DEF MovedTo
<1> HIDE DEF d
<1> DEFINE base == Len(c.spans)
           span == ReducedSpan(p, rule, kids, stop)
           r == PushedOn(c, p.goto[<<Uppermost(c), X>>], span, stop)
<1>9. MayTake(p, text, d, "reduce", rule)
  <2>1. Uppermost(d) = Uppermost(e)
    BY <1>8 DEF Uppermost
  <2>2. Win(p, text, stop) = Win(p, text, hi)
    BY <1>2, <1>7, WindowOverBlanks
  <2>3. [type |-> "reduce", state |-> id - 1] \in Offered(p, Uppermost(e), Win(p, text, hi))
    BY <1>1, <1>2, <1>3, ReduceIsOffered
  <2>4. ~BeforeBlank(p, text, d)
    BY <1>6, <1>8 DEF BeforeBlank
  <2> QED BY <1>8, <2>1, <2>2, <2>3, <2>4 DEF MayTake, rule
<1>10. base \in Nat /\ Len(d.spans) = base + n /\ SubSeq(d.spans, 1, base) = c.spans
       /\ SubSeq(d.spans, base + 1, Len(d.spans)) = kids
  <2> DEFINE T == SpansOver(Places(text))
             u == c.spans
  <2>1. u \in Seq(T) /\ kids \in Seq(T) /\ d.spans = u \o kids
    BY <1>4, <1>5, <1>8
  <2> HIDE DEF T, u
  <2>2. u \o kids \in Seq(T) /\ Len(u \o kids) = Len(u) + Len(kids)
        /\ (\A j \in 1..Len(u) : (u \o kids)[j] = u[j])
        /\ \A j \in 1..Len(kids) : (u \o kids)[Len(u) + j] = kids[j]
    BY <2>1, Catenated
  <2> DEFINE v == u \o kids
             a == SubSeq(v, 1, Len(u))
             b == SubSeq(v, Len(u) + 1, Len(v))
  <2>3. v \in Seq(T) /\ Len(u) \in Nat /\ Len(u) \in 0..Len(v) /\ Len(v) - Len(u) = Len(kids)
    BY <2>1, <2>2
  <2>4. (\A j \in 1..Len(u) : v[j] = u[j]) /\ \A j \in 1..Len(kids) : v[Len(u) + j] = kids[j]
    BY <2>2
  <2>5. Len(v) = Len(u) + Len(kids)
    BY <2>2
  <2> HIDE DEF v
  <2>6. a \in Seq(T) /\ Len(a) = Len(u) /\ \A j \in 1..Len(u) : a[j] = v[j]
    BY <2>3, Prefix
  <2>7. b \in Seq(T) /\ Len(b) = Len(kids) /\ \A j \in 1..Len(kids) : b[j] = v[Len(u) + j]
    BY <2>3, Behind
  <2> HIDE DEF a, b
  <2>8. a = u
    BY <2>1, <2>4, <2>6, SameElements
  <2>9. b = kids
    BY <2>1, <2>4, <2>7, SameElements
  <2> QED BY <1>4, <2>1, <2>3, <2>5, <2>8, <2>9 DEF a, b, v, u
<1>11. BaseOf(p, d, rule) = base
  BY <1>1, <1>10 DEF BaseOf
<1>12. d.states[base + 1] = Uppermost(c) /\ SubSeq(d.states, 1, base + 1) = c.states
  <2>1. base + 1 = Len(c.states) /\ Len(c.states) \in Nat /\ Len(c.states) >= 1
    BY <1>5, <1>10
  <2>2. SubSeq(d.states, 1, base + 1) = c.states
    BY <1>3, <1>8, <2>1
  <2>3. Len(c.states) \in 0..Len(e.states)
    BY <1>1, <1>3, <1>5, <2>1
  <2>4. \A j \in 1..Len(c.states) : SubSeq(e.states, 1, Len(c.states))[j] = e.states[j]
    BY <1>5, <2>3, Prefix
  <2>5. c.states[Len(c.states)] = e.states[Len(c.states)]
    <3>1. Len(c.states) \in 1..Len(c.states)
      BY <2>1
    <3> QED BY <1>3, <2>4, <3>1
  <2> QED BY <1>8, <2>1, <2>2, <2>5 DEF Uppermost
<1>13. Laid(p, text, rule + 1, kids, Len(kids), lo, hi)
  BY <1>1, <1>4
<1>14. ~SpaceViolation(p, rule, kids)
  BY <1>1, <1>2, <1>13, NoViolation
<1>15. Lies(p, text, span, lo, hi) /\ span \in SpansOver(Places(text))
  BY <1>1, <1>2, <1>13, ReducedLies, ReducedSpanType
<1> HIDE DEF X
<1>16. <<Uppermost(c), X>> \in DOMAIN p.goto
  BY DEF X
<1>17. CanReduce(p, d, rule, base)
  <2>1. base >= 0
    BY <1>10
  <2>2. <<d.states[base + 1], LrLhs(p, rule)>> \in DOMAIN p.goto
    BY <1>1, <1>12, <1>16
  <2>3. ~SpaceViolation(p, rule, SubSeq(d.spans, base + 1, Len(d.spans)))
    BY <1>10, <1>14
  <2> QED BY <2>1, <2>2, <2>3 DEF CanReduce
<1>18. r = ReducedBy(p, d, rule, base)
  BY <1>1, <1>8, <1>10, <1>12 DEF ReducedBy, PushedOn
<1>19. Moves(p, text, d, r)
  BY <1>9, <1>11, <1>17, <1>18 DEF Moves, Reduces
<1>20. HasRead(p, text, c, X, lo, hi, r)
  BY <1>7, <1>15 DEF HasRead
<1> HIDE DEF r
<1>21. Accepting(p, text, r)
  BY <1>20 DEF X
<1>22. Accepting(p, text, d)
  BY <1>8, <1>19, <1>21, AcceptsBefore
<1> QED BY <1>2, <1>3, <1>6, <1>22, AcceptsOverBlanks DEF d

\* A rule is read when its members are.
LEMMA RuleReadsWhole ==
    ASSUME NEW p, NEW text, NEW ahead, Complete(p, text, ahead), NEW id \in Rules(p),
           NEW lo \in Places(text), NEW hi \in Places(text),
           ReadsPart(p, text, ahead, id, Len(Rhs(p, id)), lo, hi)
    PROVE  ReadsWhole(p, text, ahead, p.productions[id].lhs, lo, hi)
<1> DEFINE n == Len(Rhs(p, id))
           X == p.productions[id].lhs
<1>1. lo <= hi /\ LeavesNothingOut(p, ahead) /\ n \in Nat /\ id \in DOMAIN p.productions
      /\ text \in Seq(STRING)
  BY CompleteGives DEF ReadsPart, Complete, Rules
<1>2. \E f \in Seq(Terminals) : <<X, f>> \in ahead.starts /\ LooksLike(p, text, lo, f, hi)
  <2>1. PICK f \in Seq(Terminals) : <<id, n, f>> \in ahead.opens /\ LooksLike(p, text, lo, f, hi)
    BY DEF ReadsPart
  <2> QED BY <1>1, <2>1, RuleStarts
<1>3. ASSUME NEW c \in Configs(p, text), NEW it, NEW d, NEW w,
             Expects(p, text, ahead, Uppermost(c), it, d, 1, hi, w), Rhs(p, it)[d + 1] = X,
             Blanks(p, text, lo, c.at),
             \A r : HasRead(p, text, c, X, lo, hi, r) => Accepting(p, text, r)
      PROVE  Accepting(p, text, c)
  <2> DEFINE u == Win(p, text, hi)
  <2>1. /\ <<Uppermost(c), <<it, d>>, w>> \in ahead.follows
        /\ it \in DOMAIN p.productions /\ d \in Nat /\ d + 1 <= Len(Rhs(p, it))
        /\ <<it, d + 1, u, w>> \in ahead.goes
    BY <1>3 DEF Expects
  <2>2. d < Len(Rhs(p, it))
    <3>1. Len(Rhs(p, it)) \in Nat
      BY <2>1, CompleteGives
    <3> QED BY <2>1, <3>1
  <2> HIDE DEF u
  <2>3. <<Uppermost(c), <<id, 0>>, u>> \in ahead.follows
    BY <1>1, <1>3, <2>1, <2>2, RuleFollows
  <2>4. <<Uppermost(c), X>> \in DOMAIN p.goto
    BY <1>1, <1>3, <2>1, <2>2, FollowGives
  <2>5. <<id, n, u, u>> \in ahead.goes
    BY <1>1, <2>3, EndGoes
  <2>6. Expects(p, text, ahead, Uppermost(c), id, 0, n, hi, u)
    <3>1. 0 \in Nat /\ 0 + n = n /\ n <= Len(Rhs(p, id))
      BY <1>1
    <3> QED BY <1>1, <2>3, <2>5, <3>1 DEF Expects, u
  <2>7. ASSUME NEW e, HasReadPart(p, text, ahead, c, id, n, lo, hi, u, e)
        PROVE  Accepting(p, text, e)
    BY <1>3, <2>4, <2>7, PartReduces DEF u
  <2> QED BY <1>3, <2>6, <2>7 DEF ReadsPart
<1> QED BY <1>1, <1>2, <1>3 DEF ReadsWhole

\* The whole input, from its start: the driver accepts it.
LEMMA WholeAccepts ==
    ASSUME NEW p, NEW text, NEW ahead, Complete(p, text, ahead), p.productions[0].rhs = <<"main">>,
           ReadsWhole(p, text, ahead, "main", 0, Len(text))
    PROVE  Accepting(p, text, [states |-> <<0>>, spans |-> <<>>, at |-> 0])
<1> DEFINE c == [states |-> <<0>>, spans |-> <<>>, at |-> 0]
           n == Len(text)
           w == AtTheEnd(p)
<1>1. /\ text \in Seq(STRING) /\ n \in Nat /\ 0 \in Places(text) /\ n \in Places(text)
      /\ LeavesNothingOut(p, ahead) /\ Rhs(p, 0) = <<"main">> /\ Len(Rhs(p, 0)) = 1 /\ Rhs(p, 0)[0 + 1] = "main"
      /\ 0 \in DOMAIN p.productions /\ p.k \in Nat \ {0}
  BY CompleteGives DEF Complete, Places, Rhs
<1>2. <<0, <<0, 0>>, w>> \in ahead.follows
  BY <1>1 DEF LeavesNothingOut, StatesFollow
<1> HIDE DEF w
<1>3. 0 \in DOMAIN p.items
  BY <1>1, <1>2, FollowGives
<1>4. c \in Configs(p, text) /\ c.states = <<0>> /\ c.spans = <<>> /\ c.at = 0 /\ Uppermost(c) = 0
  <2>1. <<0>> \in Seq(DOMAIN p.items)
    <3> DEFINE D == DOMAIN p.items
    <3>1. 0 \in D
      BY <1>3
    <3> HIDE DEF D
    <3>2. <<0>> \in Seq(D)
      BY <3>1
    <3> QED BY <3>2 DEF D
  <2>2. <<>> \in Seq(SpansOver(Places(text)))
    OBVIOUS
  <2>3. Len(<<0>>) = 1 /\ Len(<<>>) = 0 /\ <<0>>[1] = 0
    OBVIOUS
  <2>4. c.states = <<0>> /\ c.spans = <<>> /\ c.at = 0
    OBVIOUS
  <2>5. c \in [states : Seq(DOMAIN p.items), spans : Seq(SpansOver(Places(text))), at : Places(text)]
    BY <1>1, <2>1, <2>2
  <2> HIDE DEF c
  <2>6. Len(c.states) = 1 /\ Len(c.spans) = 0 /\ c.states[1] = 0
    BY <2>3, <2>4
  <2>9. Len(c.states) = Len(c.spans) + 1
    BY <2>6
  <2>7. c \in Configs(p, text)
    BY <2>5, <2>9, IsConfig
  <2>8. Uppermost(c) = 0
    BY <2>6 DEF Uppermost
  <2> QED BY <2>4, <2>7, <2>8
<1> HIDE DEF c
<1>5. Win(p, text, n) = w
  BY <1>1, WindowAtTheEnd DEF w
<1>6. Expects(p, text, ahead, 0, 0, 0, 1, n, w)
  <2>1. <<0, 1, w, w>> \in ahead.goes
    BY <1>1, <1>2, EndGoes
  <2>2. 0 \in Nat /\ 0 + 1 = 1 /\ 1 <= 1
    OBVIOUS
  <2> QED BY <1>1, <1>2, <1>5, <2>1, <2>2 DEF Expects
<1>7. ASSUME NEW e, HasRead(p, text, c, "main", 0, n, e)
      PROVE  Accepting(p, text, e)
  <2> DEFINE state == p.goto[<<0, "main">>]
  <2>1. PICK span \in SpansOver(Places(text)), at \in Places(text) :
           Lies(p, text, span, 0, n) /\ Blanks(p, text, n, at) /\ e = PushedOn(c, state, span, at)
    BY <1>4, <1>7 DEF HasRead
  <2>2. at = n
    BY <1>1, <2>1 DEF Blanks, Places
  <2>3. <<0, "main">> \in DOMAIN p.goto /\ <<state, <<0, 1>>, w>> \in ahead.follows
    <3>1. 0 < Len(Rhs(p, 0)) /\ 0 + 1 = 1
      BY <1>1
    <3> QED BY <1>1, <1>2, <3>1, FollowGives
  <2>4. [type |-> "accept", state |-> 0] \in Offered(p, state, w)
    BY <1>1, <2>3, AcceptIsOffered
  <2>5. e \in Configs(p, text) /\ e.at = n /\ Uppermost(e) = state
    BY <1>4, <2>1, <2>2, <2>3, PushedTyped
  <2>6. e.spans = <<span>>
    BY <1>4, <2>1 DEF PushedOn
  <2>7. ~BeforeBlank(p, text, e)
    BY <1>1, <2>5 DEF BeforeBlank
  <2>8. MayTake(p, text, e, "accept", 0)
    BY <1>5, <2>4, <2>5, <2>7 DEF MayTake
  <2>9. Len(e.spans) = 1 /\ e.spans[1] = span
    BY <2>6
  <2>10. span.begin \in Nat /\ span.end \in Nat /\ span.end <= n
    BY <1>1 DEF SpansOver, Places
  <2>11. (span.begin # 0 => span.leading) /\ (n > span.end => span.trailing)
    <3>1. Fits(p, text, span, 0, n) /\ Ordered(span) /\ (span.empty => span.leading = span.trailing)
      BY <2>1 DEF Lies
    <3>2. CASE span.empty
      <4>1. 0 = n \/ (span.leading /\ span.trailing)
        <5>1. 0 = n \/ span.leading \/ span.trailing
          BY <3>1, <3>2 DEF Fits
        <5> QED BY <3>1, <3>2, <5>1
      <4>2. span.begin <= span.end
        BY <3>1 DEF Ordered
      <4>3. CASE 0 = n
        BY <2>10, <4>2, <4>3
      <4> QED BY <4>1, <4>3
    <3>3. CASE ~span.empty
      <4>1. (0 = span.begin \/ span.leading) /\ (n = span.end \/ span.trailing)
        BY <3>1, <3>3 DEF Fits
      <4> QED BY <1>1, <2>10, <4>1
    <3> QED BY <3>2, <3>3
  <2>12. Final(p, text, e)
    BY <2>5, <2>8, <2>9, <2>11 DEF Final
  <2> QED BY <2>5, <2>12, FinalAccepts
<1>8. Blanks(p, text, 0, c.at)
  BY <1>4, BlankHere
<1>9. Accepting(p, text, c)
  BY <1>1, <1>4, <1>6, <1>7, <1>8 DEF ReadsWhole
<1> QED BY <1>9 DEF c

\* Every sentence of the productions is accepted by the tables that leave
\* nothing out: no action, no span and no cell is in its way.
LEMMA SentencesAccept ==
    ASSUME NEW p, NEW text, NEW ahead, Complete(p, text, ahead), p.productions[0].rhs = <<"main">>,
           IsSentence(p, text)
    PROVE  Accepting(p, text, [states |-> <<0>>, spans |-> <<>>, at |-> 0])
<1> DEFINE Spots == Places(text)
           whole == {x \in STRING \X Spots \X Spots \X Seq(Nat) : ReadsWhole(p, text, ahead, x[1], x[2], x[3])}
           part == {x \in Nat \X Nat \X Spots \X Spots \X Seq(Nat) : ReadsPart(p, text, ahead, x[1], x[2], x[3], x[4])}
<1>1. PICK calls \in Seq(Nat) : Derived(p, text, "main", 0, Len(text), calls)
  BY DEF IsSentence, IsReading
<1>2. \A symbol, lo, hi, own :
         <<symbol, lo, hi, own>> \in whole <=>
            /\ symbol \in STRING /\ lo \in Spots /\ hi \in Spots /\ own \in Seq(Nat)
            /\ ReadsWhole(p, text, ahead, symbol, lo, hi)
  OBVIOUS
<1>3. \A id, d, lo, hi, own :
         <<id, d, lo, hi, own>> \in part <=>
            /\ id \in Nat /\ d \in Nat /\ lo \in Spots /\ hi \in Spots /\ own \in Seq(Nat)
            /\ ReadsPart(p, text, ahead, id, d, lo, hi)
  OBVIOUS
<1> HIDE DEF whole, part
<1>4. \A id \in Rules(p) :
         /\ id \in Nat /\ p.productions[id].lhs \in STRING /\ p.productions[id].rhs = Rhs(p, id)
         /\ Rhs(p, id) \in Seq(STRING) /\ Len(Rhs(p, id)) \in Nat
  BY CompleteGives DEF Rules, WellFormed, Rhs
<1>5. \A i \in DOMAIN text : <<text[i], i - 1, i, <<>>>> \in whole
  <2> TAKE i \in DOMAIN text
  <2>1. text[i] \in STRING /\ i - 1 \in Spots /\ i \in Spots /\ <<>> \in Seq(Nat)
    BY CompleteGives DEF Places
  <2>2. ReadsWhole(p, text, ahead, text[i], i - 1, i)
    BY TokenReadsWhole
  <2> QED BY <1>2, <2>1, <2>2
<1>6. \A id \in Rules(p) : \A lo, hi \in Spots : Gap(p, text, id, 0, lo, hi) => <<id, 0, lo, hi, <<>>>> \in part
  <2> TAKE id \in Rules(p)
  <2> TAKE lo, hi \in Spots
  <2> HAVE Gap(p, text, id, 0, lo, hi)
  <2>1. ReadsPart(p, text, ahead, id, 0, lo, hi)
    BY NothingReadsPart
  <2>2. id \in Nat /\ 0 \in Nat /\ <<>> \in Seq(Nat)
    BY <1>4
  <2> QED BY <1>3, <2>1, <2>2
<1>7. \A id \in Rules(p) : \A d \in DOMAIN p.productions[id].rhs :
         \A lo, from, to, hi \in Spots : \A before, own \in Seq(Nat) :
             /\ <<id, d - 1, lo, from, before>> \in part
             /\ <<p.productions[id].rhs[d], from, to, own>> \in whole
             /\ Gap(p, text, id, d, to, hi)
             => <<id, d, lo, hi, before \o own>> \in part
  <2> TAKE id \in Rules(p)
  <2> TAKE d \in DOMAIN p.productions[id].rhs
  <2> TAKE lo, from, to, hi \in Spots
  <2> TAKE before, own \in Seq(Nat)
  <2> HAVE /\ <<id, d - 1, lo, from, before>> \in part
           /\ <<p.productions[id].rhs[d], from, to, own>> \in whole
           /\ Gap(p, text, id, d, to, hi)
  <2>1. d \in DOMAIN Rhs(p, id) /\ d \in Nat /\ id \in Nat
    BY <1>4
  <2>2. ReadsPart(p, text, ahead, id, d - 1, lo, from)
    BY <1>3
  <2>3. ReadsWhole(p, text, ahead, Rhs(p, id)[d], from, to)
    BY <1>2, <1>4
  <2>4. ReadsPart(p, text, ahead, id, d, lo, hi)
    BY <2>1, <2>2, <2>3, MemberReadsPart
  <2>5. before \o own \in Seq(Nat)
    BY Concatenated
  <2> QED BY <1>3, <2>1, <2>4, <2>5
<1>8. \A id \in Rules(p) : \A lo, hi \in Spots : \A own \in Seq(Nat) :
         <<id, Len(p.productions[id].rhs), lo, hi, own>> \in part
             => <<p.productions[id].lhs, lo, hi, Append(own, id - 1)>> \in whole
  <2> SUFFICES ASSUME NEW id \in Rules(p), NEW lo \in Spots, NEW hi \in Spots, NEW own \in Seq(Nat),
                      <<id, Len(p.productions[id].rhs), lo, hi, own>> \in part
               PROVE  <<p.productions[id].lhs, lo, hi, Append(own, id - 1)>> \in whole
    OBVIOUS
  <2>1. ReadsPart(p, text, ahead, id, Len(Rhs(p, id)), lo, hi)
    BY <1>3, <1>4
  <2>2. ReadsWhole(p, text, ahead, p.productions[id].lhs, lo, hi)
    BY <2>1, RuleReadsWhole
  <2>3. Append(own, id - 1) \in Seq(Nat)
    <3>1. id \in Nat /\ id # 0
      BY <1>4 DEF Rules
    <3>2. id - 1 \in Nat
      BY <3>1
    <3> QED BY <3>2
  <2> QED BY <1>2, <1>4, <2>2, <2>3
<1>9. ClosedUnder(p, text, whole, part)
  BY <1>5, <1>6, <1>7, <1>8 DEF ClosedUnder
<1>10. <<"main", 0, Len(text), calls>> \in whole
  BY <1>1, <1>9 DEF Derived
<1>11. ReadsWhole(p, text, ahead, "main", 0, Len(text))
  BY <1>2, <1>10
<1> QED BY <1>11, WholeAccepts

-----------------------------------------------------------------------------
(* Texts made in stages are derived.                                         *)

\* What a piece of a text is made of, whatever whitespace is.
Letters == STRING \cup {Whitespace}

LEMMA Wider ==
    ASSUME NEW S, NEW T, S \subseteq T, NEW s \in Seq(S)
    PROVE  s \in Seq(T)
<1>1. \A i \in 1..Len(s) : s[i] \in T
  OBVIOUS
<1>2. s = [i \in 1..Len(s) |-> s[i]] /\ Len(s) \in Nat
  OBVIOUS
<1> QED BY <1>1, <1>2

LEMMA Singleton ==
    ASSUME NEW S, NEW e \in S
    PROVE  <<e>> \in Seq(S)
OBVIOUS

Piece(text, lo, hi) == SubSeq(text, lo + 1, hi)
IsCat(w, u, v) == w = u \o v

\* A piece of a text in two halves.
LEMMA PieceSplits ==
    ASSUME NEW text \in Seq(STRING), NEW lo \in Places(text), NEW hi \in Places(text), lo <= hi,
           NEW u \in Seq(Letters), NEW v \in Seq(Letters), IsCat(Piece(text, lo, hi), u, v)
    PROVE  \E mid \in Places(text) : /\ lo <= mid /\ mid <= hi
                                     /\ Piece(text, lo, mid) = u /\ Piece(text, mid, hi) = v
<1> DEFINE mid == lo + Len(u)
           piece == SubSeq(text, lo + 1, hi)
           one == SubSeq(text, lo + 1, mid)
           two == SubSeq(text, mid + 1, hi)
           both == u \o v
<1>1. lo \in Nat /\ hi \in Nat /\ hi <= Len(text) /\ Len(text) \in Nat /\ Len(u) \in Nat /\ Len(v) \in Nat
  BY DEF Places
<1>2. piece \in Seq(STRING) /\ Len(piece) = hi - lo /\ \A i \in 1..(hi - lo) : piece[i] = text[lo + i]
  BY PieceOf
<1>3. /\ Len(both) = Len(u) + Len(v) /\ (\A j \in 1..Len(u) : both[j] = u[j])
      /\ \A j \in 1..Len(v) : both[Len(u) + j] = v[j]
  <2>1. Len(both) = Len(u) + Len(v)
    OBVIOUS
  <2>2. \A j \in 1..Len(u) : both[j] = u[j]
    OBVIOUS
  <2>3. \A j \in 1..Len(v) : both[Len(u) + j] = v[j]
    OBVIOUS
  <2> QED BY <2>1, <2>2, <2>3
<1>4. piece = both
  BY DEF IsCat, Piece
<1> HIDE DEF piece, both
<1>5. mid \in Places(text) /\ mid \in Nat /\ lo <= mid /\ mid <= hi /\ mid - lo = Len(u) /\ hi - mid = Len(v)
  BY <1>1, <1>2, <1>3, <1>4 DEF Places
<1> HIDE DEF mid
<1>6. one \in Seq(STRING) /\ Len(one) = Len(u) /\ \A i \in 1..Len(u) : one[i] = text[lo + i]
  BY <1>5, PieceOf
<1>7. two \in Seq(STRING) /\ Len(two) = Len(v) /\ \A i \in 1..Len(v) : two[i] = text[mid + i]
  BY <1>5, PieceOf
<1> HIDE DEF one, two
<1>10. one \in Seq(Letters) /\ two \in Seq(Letters)
  <2>1. STRING \subseteq Letters
    BY DEF Letters
  <2> QED BY <1>6, <1>7, <2>1, Wider
<1>8. one = u
  <2>1. \A i \in 1..Len(u) : one[i] = u[i]
    <3> TAKE i \in 1..Len(u)
    <3>1. i \in 1..(hi - lo)
      BY <1>1, <1>5
    <3> QED BY <1>2, <1>3, <1>4, <1>6, <3>1
  <2> QED BY <1>6, <1>10, <2>1, SameElements
<1>9. two = v
  <2>1. \A i \in 1..Len(v) : two[i] = v[i]
    <3> TAKE i \in 1..Len(v)
    <3> DEFINE j == Len(u) + i
    <3>1. j \in 1..(hi - lo) /\ lo + j = mid + i
      BY <1>1, <1>5
    <3>2. both[j] = v[i]
      BY <1>3
    <3> HIDE DEF j
    <3> QED BY <1>2, <1>4, <1>7, <3>1, <3>2
  <2> QED BY <1>7, <1>10, <2>1, SameElements
<1> QED BY <1>5, <1>8, <1>9 DEF one, two, Piece

\* A piece that is a text of a gap is one.
LEMMA TextIsGap ==
    ASSUME NEW p, NEW text \in Seq(STRING), NEW id, NEW g, NEW lo \in Places(text), NEW hi \in Places(text), lo <= hi,
           NEW n, Piece(text, lo, hi) \in GapTexts(p, id, g, n)
    PROVE  Gap(p, text, id, g, lo, hi)
<1> DEFINE piece == SubSeq(text, lo + 1, hi)
<1>1. lo \in Nat /\ hi \in Nat
  BY DEF Places
<1>2. piece \in Seq(STRING) /\ Len(piece) = hi - lo /\ \A i \in 1..(hi - lo) : piece[i] = text[lo + i]
  BY PieceOf
<1>3. piece = <<>> \/ (g \in p.productions[id].gaps /\ p.skipsSpace
                       /\ \E m \in 1..n : piece = [i \in 1..m |-> Whitespace])
  <2> HIDE DEF piece
  <2>1. piece \in GapTexts(p, id, g, n)
    BY DEF piece, Piece
  <2> QED BY <2>1 DEF GapTexts
<1> HIDE DEF piece
<1>4. CASE piece = <<>>
  <2>1. Len(piece) = 0
    BY <1>4
  <2>2. lo = hi
    BY <1>1, <1>2, <2>1
  <2> QED BY <2>2 DEF Gap
<1>5. CASE piece # <<>>
  <2>1. g \in p.productions[id].gaps /\ p.skipsSpace /\ \A i \in DOMAIN piece : piece[i] = Whitespace
    BY <1>3, <1>5
  <2>2. \A l \in (lo + 1)..hi : text[l] = Whitespace
    <3> TAKE l \in (lo + 1)..hi
    <3> DEFINE i == l - lo
    <3>1. i \in 1..(hi - lo) /\ lo + i = l
      BY <1>1
    <3> HIDE DEF i
    <3>2. i \in DOMAIN piece
      BY <1>2, <3>1
    <3> QED BY <1>2, <2>1, <3>1, <3>2
  <2> QED BY <2>1, <2>2 DEF Gap, Blanks, LrIsSpace
<1> QED BY <1>4, <1>5

LEMMA GapTextsTyped ==
    ASSUME NEW p, NEW id, NEW g, NEW n, NEW w \in GapTexts(p, id, g, n)
    PROVE  w \in Seq(Letters)
<1>1. CASE w = <<>>
  BY <1>1
<1>2. CASE w # <<>>
  <2>1. PICK m \in 1..n : w = [i \in 1..m |-> Whitespace]
    BY <1>2 DEF GapTexts
  <2>2. m \in Nat
    BY <2>1
  <2>3. Whitespace \in Letters
    BY DEF Letters
  <2> QED BY <2>1, <2>2, <2>3
<1> QED BY <1>1, <1>2

LEMMA JoinedGives ==
    ASSUME NEW left, NEW right, NEW n, NEW w \in Joined(left, right, n)
    PROVE  \E u \in left, v \in right : IsCat(w, u, v)
BY DEF Joined, IsCat

LEMMA JoinedTyped ==
    ASSUME NEW S, NEW left, NEW right, left \subseteq Seq(S), right \subseteq Seq(S), NEW n
    PROVE  Joined(left, right, n) \subseteq Seq(S)
<1>1. ASSUME NEW w \in Joined(left, right, n) PROVE w \in Seq(S)
  <2>1. PICK u \in left, v \in right : w = u \o v
    BY JoinedGives DEF IsCat
  <2>2. u \in Seq(S) /\ v \in Seq(S)
    OBVIOUS
  <2> QED BY <2>1, <2>2
<1> QED BY <1>1

\* Every text of the symbols of some words is derived wherever it stands.
WordsDerived(p, text, words, symbols) ==
    \A symbol \in symbols :
        /\ words[symbol] \subseteq Seq(Letters)
        /\ \A lo, hi \in Places(text) :
              lo <= hi /\ Piece(text, lo, hi) \in words[symbol]
                 => \E calls \in Seq(Nat) : Derived(p, text, symbol, lo, hi, calls)

OpeningDerived(p, text, id, d, open) ==
    /\ open \subseteq Seq(Letters)
    /\ \A lo, hi \in Places(text) :
          lo <= hi /\ Piece(text, lo, hi) \in open
             => \E calls \in Seq(Nat) : PartDerived(p, text, id, d, lo, hi, calls)

LEMMA NoMemberDerived ==
    ASSUME NEW p, NEW text \in Seq(STRING), NEW id \in Rules(p), NEW n
    PROVE  OpeningDerived(p, text, id, 0, GapTexts(p, id, 0, n))
<1>1. GapTexts(p, id, 0, n) \subseteq Seq(Letters)
  BY GapTextsTyped
<1>2. ASSUME NEW lo \in Places(text), NEW hi \in Places(text),
             lo <= hi, Piece(text, lo, hi) \in GapTexts(p, id, 0, n)
      PROVE  \E calls \in Seq(Nat) : PartDerived(p, text, id, 0, lo, hi, calls)
  <2>1. Gap(p, text, id, 0, lo, hi)
    BY <1>2, TextIsGap
  <2>2. PartDerived(p, text, id, 0, lo, hi, <<>>)
    BY <2>1, StartDerived
  <2>3. <<>> \in Seq(Nat)
    OBVIOUS
  <2> QED BY <2>2, <2>3
<1> QED BY <1>1, <1>2 DEF OpeningDerived

LEMMA MemberMoreDerived ==
    ASSUME NEW p, NEW text \in Seq(STRING), NEW id \in Rules(p), NEW n, NEW words, NEW symbols,
           WordsDerived(p, text, words, symbols),
           NEW d \in DOMAIN p.productions[id].rhs, p.productions[id].rhs[d] \in symbols,
           NEW open, OpeningDerived(p, text, id, d - 1, open)
    PROVE  OpeningDerived(p, text, id, d,
               Joined(Joined(open, words[p.productions[id].rhs[d]], n), GapTexts(p, id, d, n), n))
<1> DEFINE symbol == p.productions[id].rhs[d]
           inner == Joined(open, words[symbol], n)
           outer == Joined(inner, GapTexts(p, id, d, n), n)
<1>1. open \subseteq Seq(Letters) /\ words[symbol] \subseteq Seq(Letters) /\ GapTexts(p, id, d, n) \subseteq Seq(Letters)
  BY GapTextsTyped DEF OpeningDerived, WordsDerived
<1>2. inner \subseteq Seq(Letters)
  <2> HIDE DEF symbol
  <2> QED BY <1>1, JoinedTyped
<1>3. outer \subseteq Seq(Letters)
  <2> HIDE DEF inner
  <2> QED BY <1>1, <1>2, JoinedTyped
<1>4. ASSUME NEW lo \in Places(text), NEW hi \in Places(text), lo <= hi, Piece(text, lo, hi) \in outer
      PROVE  \E calls \in Seq(Nat) : PartDerived(p, text, id, d, lo, hi, calls)
  <2>1. PICK uv \in inner, w \in GapTexts(p, id, d, n) : IsCat(Piece(text, lo, hi), uv, w)
    <3> HIDE DEF inner
    <3> QED BY <1>4, JoinedGives
  <2>2. uv \in Seq(Letters) /\ w \in Seq(Letters)
    BY <1>1, <1>2
  <2>3. PICK to \in Places(text) : /\ lo <= to /\ to <= hi
                                   /\ Piece(text, lo, to) = uv /\ Piece(text, to, hi) = w
    <3>1. lo <= hi /\ IsCat(Piece(text, lo, hi), uv, w)
      BY <1>4, <2>1
    <3> HIDE DEF inner
    <3> QED BY <2>2, <3>1, PieceSplits
  <2>4. PICK u \in open, v \in words[symbol] : IsCat(uv, u, v)
    <3> HIDE DEF symbol
    <3> QED BY JoinedGives
  <2>5. u \in Seq(Letters) /\ v \in Seq(Letters)
    BY <1>1
  <2>6. PICK from \in Places(text) : /\ lo <= from /\ from <= to
                                     /\ Piece(text, lo, from) = u /\ Piece(text, from, to) = v
    <3>1. lo <= to /\ IsCat(Piece(text, lo, to), u, v)
      BY <2>3, <2>4
    <3> HIDE DEF inner, symbol
    <3> QED BY <2>5, <3>1, PieceSplits
  <2>7. Gap(p, text, id, d, to, hi)
    BY <2>3, TextIsGap
  <2>8. PICK before \in Seq(Nat) : PartDerived(p, text, id, d - 1, lo, from, before)
    BY <2>6 DEF OpeningDerived
  <2>9. PICK own \in Seq(Nat) : Derived(p, text, symbol, from, to, own)
    BY <2>6 DEF WordsDerived
  <2>10. PartDerived(p, text, id, d, lo, hi, before \o own)
    BY <2>7, <2>8, <2>9, MemberDerived
  <2>11. before \o own \in Seq(Nat)
    BY Concatenated
  <2> QED BY <2>10, <2>11
<1> QED BY <1>3, <1>4 DEF OpeningDerived

\* All of the openings of a production, member by member.
LEMMA OpeningsDerived ==
    ASSUME NEW p, WellFormed(p), NEW text \in Seq(STRING), NEW id \in Rules(p), NEW n, NEW words, NEW symbols,
           WordsDerived(p, text, words, symbols),
           \A d \in DOMAIN p.productions[id].rhs : p.productions[id].rhs[d] \in symbols
    PROVE  LET len == Len(p.productions[id].rhs)
           IN  OpeningDerived(p, text, id, len, Openings(p, words, id, n)[len])
<1> DEFINE len == Len(p.productions[id].rhs)
           open == Openings(p, words, id, n)
           Bad == {d \in 0..len : ~OpeningDerived(p, text, id, d, open[d])}
<1>1. len \in Nat /\ DOMAIN p.productions[id].rhs = 1..len
  <2>1. p.productions[id].rhs \in Seq(STRING)
    BY DEF WellFormed, Rules
  <2> QED BY <2>1
<1>2. /\ open[0] = GapTexts(p, id, 0, n)
      /\ \A d \in 1..len : open[d] = Joined(Joined(open[d - 1], words[p.productions[id].rhs[d]], n),
                                            GapTexts(p, id, d, n), n)
  BY <1>1, OpeningsUnfold
<1> HIDE DEF open, len
<1>3. CASE Bad = {}
  <2>1. len \in 0..len
    BY <1>1
  <2>2. OpeningDerived(p, text, id, len, open[len])
    BY <1>3, <2>1
  <2> QED BY <2>2 DEF len, open
<1>4. CASE Bad # {}
  <2>1. Bad \subseteq Nat
    OBVIOUS
  <2>2. PICK d \in Bad : \A other \in Bad : d <= other
    <3> HIDE DEF Bad
    <3> QED BY <1>4, <2>1, HasFirst
  <2>3. d \in 0..len /\ ~OpeningDerived(p, text, id, d, open[d])
    BY <2>2
  <2>4. d # 0
    BY <1>2, <2>3, NoMemberDerived
  <2>5. d \in 1..len /\ d - 1 \in 0..len /\ ~(d <= d - 1)
    BY <1>1, <2>3, <2>4
  <2>6. OpeningDerived(p, text, id, d - 1, open[d - 1])
    <3>1. d - 1 \notin Bad
      BY <2>2, <2>5
    <3> QED BY <2>5, <3>1
  <2>7. d \in DOMAIN p.productions[id].rhs /\ p.productions[id].rhs[d] \in symbols
    BY <1>1, <2>5
  <2>8. OpeningDerived(p, text, id, d, open[d])
    BY <1>2, <2>5, <2>6, <2>7, MemberMoreDerived
  <2> QED BY <2>3, <2>8
<1> QED BY <1>3, <1>4

\* A stage more.
LEMMA StageDerived ==
    ASSUME NEW p, WellFormed(p), NEW text \in Seq(STRING), NEW n, NEW words, NEW more, NEW symbols,
           WordsDerived(p, text, words, symbols),
           \A id \in Rules(p) : \A d \in DOMAIN p.productions[id].rhs : p.productions[id].rhs[d] \in symbols,
           \A symbol \in symbols : more[symbol] \subseteq StageAfter(p, words, n, symbol)
    PROVE  WordsDerived(p, text, more, symbols)
<1> SUFFICES ASSUME NEW symbol \in symbols
             PROVE  /\ more[symbol] \subseteq Seq(Letters)
                    /\ \A lo, hi \in Places(text) :
                          lo <= hi /\ Piece(text, lo, hi) \in more[symbol]
                             => \E calls \in Seq(Nat) : Derived(p, text, symbol, lo, hi, calls)
  BY DEF WordsDerived
<1> DEFINE Of(id) == Openings(p, words, id, n)[Len(p.productions[id].rhs)]
<1>1. ASSUME NEW w \in more[symbol]
      PROVE  w \in words[symbol] \/ \E id \in Rules(p) : p.productions[id].lhs = symbol /\ w \in Of(id)
  <2>1. w \in StageAfter(p, words, n, symbol)
    OBVIOUS
  <2> QED BY <2>1 DEF StageAfter
<1>2. ASSUME NEW id \in Rules(p)
      PROVE  OpeningDerived(p, text, id, Len(p.productions[id].rhs), Of(id))
  BY OpeningsDerived
<1> HIDE DEF Of
<1>3. words[symbol] \subseteq Seq(Letters)
  BY DEF WordsDerived
<1>4. \A w \in more[symbol] : w \in Seq(Letters)
  BY <1>1, <1>2, <1>3 DEF OpeningDerived
<1>5. ASSUME NEW lo \in Places(text), NEW hi \in Places(text), lo <= hi, Piece(text, lo, hi) \in more[symbol]
      PROVE  \E calls \in Seq(Nat) : Derived(p, text, symbol, lo, hi, calls)
  <2>1. CASE Piece(text, lo, hi) \in words[symbol]
    BY <1>5, <2>1 DEF WordsDerived
  <2>2. ASSUME NEW id \in Rules(p), p.productions[id].lhs = symbol, Piece(text, lo, hi) \in Of(id)
        PROVE  \E calls \in Seq(Nat) : Derived(p, text, symbol, lo, hi, calls)
    <3>1. PICK calls \in Seq(Nat) : PartDerived(p, text, id, Len(p.productions[id].rhs), lo, hi, calls)
      BY <1>2, <1>5, <2>2 DEF OpeningDerived
    <3>2. Derived(p, text, symbol, lo, hi, Append(calls, id - 1))
      BY <2>2, <3>1, RuleDerived
    <3>3. id - 1 \in Nat
      BY DEF Rules, WellFormed
    <3>4. Append(calls, id - 1) \in Seq(Nat)
      BY <3>3
    <3> QED BY <3>2, <3>4
  <2> QED BY <1>1, <1>5, <2>1, <2>2
<1> QED BY <1>4, <1>5

\* Of the tokens alone.
LEMMA TokensDerived ==
    ASSUME NEW p, NEW text \in Seq(STRING), NEW words, NEW symbols \in SUBSET STRING,
           \A symbol \in symbols : words[symbol] \subseteq {<<symbol>>}
    PROVE  WordsDerived(p, text, words, symbols)
<1> SUFFICES ASSUME NEW symbol \in symbols
             PROVE  /\ words[symbol] \subseteq Seq(Letters)
                    /\ \A lo, hi \in Places(text) :
                          lo <= hi /\ Piece(text, lo, hi) \in words[symbol]
                             => \E calls \in Seq(Nat) : Derived(p, text, symbol, lo, hi, calls)
  BY DEF WordsDerived
<1>1. <<symbol>> \in Seq(Letters)
  <2>1. symbol \in Letters
    BY DEF Letters
  <2> QED BY <2>1, Singleton
<1>2. ASSUME NEW lo \in Places(text), NEW hi \in Places(text), lo <= hi, Piece(text, lo, hi) \in words[symbol]
      PROVE  \E calls \in Seq(Nat) : Derived(p, text, symbol, lo, hi, calls)
  <2> DEFINE piece == SubSeq(text, lo + 1, hi)
  <2>1. piece \in Seq(STRING) /\ Len(piece) = hi - lo /\ \A i \in 1..(hi - lo) : piece[i] = text[lo + i]
    BY <1>2, PieceOf
  <2>2. piece = <<symbol>>
    BY <1>2 DEF Piece
  <2> HIDE DEF piece
  <2>3. Len(piece) = 1 /\ piece[1] = symbol
    BY <2>2
  <2>4. lo \in Nat /\ hi \in Nat /\ hi <= Len(text) /\ Len(text) \in Nat
    BY DEF Places
  <2>5. hi = lo + 1 /\ hi - 1 = lo /\ hi \in DOMAIN text
    <3>1. hi = lo + 1 /\ hi - 1 = lo /\ hi \in 1..Len(text)
      <4>1. hi - lo = 1
        BY <2>1, <2>3
      <4> QED BY <2>4, <4>1
    <3>2. DOMAIN text = 1..Len(text)
      OBVIOUS
    <3> QED BY <3>1, <3>2
  <2>6. text[hi] = symbol
    <3>1. 1 \in 1..(hi - lo)
      BY <2>4, <2>5
    <3> QED BY <2>1, <2>3, <2>5, <3>1
  <2>7. Derived(p, text, text[hi], hi - 1, hi, <<>>)
    BY <2>5, LeafDerived
  <2>8. <<>> \in Seq(Nat)
    OBVIOUS
  <2> QED BY <2>5, <2>6, <2>7, <2>8
<1> QED BY <1>1, <1>2

\* The texts of the start symbol that some stage has are sentences.
LEMMA StagesAreDerived ==
    ASSUME NEW p, WellFormed(p), NEW text \in Seq(STRING), NEW n, NEW stages, Staged(p, stages, n),
           NEW i \in DOMAIN stages, "main" \in DOMAIN stages[1], text \in stages[i]["main"]
    PROVE  IsSentence(p, text)
<1> DEFINE symbols == DOMAIN stages[1]
           last == Len(stages)
           Bad == {j \in 1..last : ~WordsDerived(p, text, stages[j], symbols)}
<1>1. /\ last \in Nat /\ DOMAIN stages = 1..last /\ symbols \in SUBSET STRING
      /\ \A symbol \in symbols : stages[1][symbol] \subseteq {<<symbol>>}
  BY DEF Staged
<1>2. \A id \in Rules(p) : \A d \in DOMAIN p.productions[id].rhs : p.productions[id].rhs[d] \in symbols
  BY DEF Staged
<1>3. \A j \in 1..(last - 1) : \A symbol \in symbols : stages[j + 1][symbol] \subseteq StageAfter(p, stages[j], n, symbol)
  BY DEF Staged
<1> HIDE DEF symbols, last
<1>4. Bad = {}
  <2> SUFFICES ASSUME Bad # {} PROVE FALSE
    OBVIOUS
  <2>1. Bad \subseteq Nat
    OBVIOUS
  <2>2. PICK j \in Bad : \A other \in Bad : j <= other
    <3> HIDE DEF Bad
    <3> QED BY <2>1, HasFirst
  <2>3. j \in 1..last /\ ~WordsDerived(p, text, stages[j], symbols)
    BY <2>2
  <2>4. j # 1
    BY <1>1, <2>3, TokensDerived
  <2>5. j - 1 \in 1..last /\ j - 1 \in 1..(last - 1) /\ ~(j <= j - 1) /\ j - 1 + 1 = j
    BY <1>1, <2>3, <2>4
  <2>6. WordsDerived(p, text, stages[j - 1], symbols)
    <3>1. j - 1 \notin Bad
      BY <2>2, <2>5
    <3> QED BY <2>5, <3>1
  <2>7. \A symbol \in symbols : stages[j][symbol] \subseteq StageAfter(p, stages[j - 1], n, symbol)
    BY <1>3, <2>5
  <2>8. WordsDerived(p, text, stages[j], symbols)
    BY <1>2, <2>6, <2>7, StageDerived
  <2> QED BY <2>3, <2>8
<1>5. WordsDerived(p, text, stages[i], symbols) /\ "main" \in symbols
  BY <1>1, <1>4 DEF symbols
<1>6. Piece(text, 0, Len(text)) = text /\ 0 \in Places(text) /\ Len(text) \in Places(text) /\ 0 <= Len(text)
  BY DEF Places, Piece
<1>7. \E calls \in Seq(Nat) : Derived(p, text, "main", 0, Len(text), calls)
  BY <1>5, <1>6 DEF WordsDerived
<1> QED BY <1>7 DEF IsSentence, IsReading

-----------------------------------------------------------------------------
(* What is read begins a sentence, whitespace aside.                         *)

LEMMA SolidIsTyped ==
    ASSUME NEW p, NEW text \in Seq(STRING)
    PROVE  Solid(p, text) \in Seq(STRING)
<1>1. Len(text) \in Nat /\ 0 \in 0..(Len(text) + 1)
  OBVIOUS
<1> QED BY <1>1, SolidTyped DEF Solid

\* Behind the first of two texts there is what the second has there...
LEMMA SolidBehind ==
    ASSUME NEW p, NEW a \in Seq(STRING), NEW b \in Seq(STRING), NEW j \in 0..Len(b)
    PROVE  SolidFrom(p, a \o b)[Len(a) + j] = SolidFrom(p, b)[j]
<1> DEFINE all == a \o b
           n == Len(a)
           l == Len(b)
           Bad == {m \in Nat : m <= l /\ SolidFrom(p, all)[n + (l - m)] # SolidFrom(p, b)[l - m]}
<1>1. n \in Nat /\ l \in Nat /\ all \in Seq(STRING) /\ Len(all) = n + l /\ \A i \in 1..l : all[n + i] = b[i]
  <2>1. all \in Seq(STRING) /\ Len(all) = n + l /\ \A i \in 1..l : all[n + i] = b[i]
    BY Catenated
  <2> HIDE DEF all
  <2> QED BY <2>1
<1> HIDE DEF all, n, l
<1>2. CASE Bad = {}
  <2>1. l - j \in Nat /\ l - j <= l /\ l - (l - j) = j
    BY <1>1 DEF l
  <2>2. ~(SolidFrom(p, all)[n + (l - (l - j))] # SolidFrom(p, b)[l - (l - j)])
    BY <1>2, <2>1
  <2> QED BY <2>1, <2>2 DEF all, n
<1>3. CASE Bad # {}
  <2>1. PICK m \in Bad : \A other \in Bad : m <= other
    <3>1. Bad \subseteq Nat
      OBVIOUS
    <3> HIDE DEF Bad
    <3> QED BY <1>3, <3>1, HasFirst
  <2>2. m \in Nat /\ m <= l /\ SolidFrom(p, all)[n + (l - m)] # SolidFrom(p, b)[l - m]
    BY <2>1
  <2> DEFINE i == l - m
  <2>3. i \in 0..(l + 1) /\ n + i \in 0..(n + l + 1) /\ i \in Int /\ i >= 0 /\ i <= l
    BY <1>1, <2>2
  <2>4. /\ SolidFrom(p, all)[n + i] = SolidAt(p, all, SolidFrom(p, all), n + i)
        /\ SolidFrom(p, b)[i] = SolidAt(p, b, SolidFrom(p, b), i)
    <3>1. Len(all) \in Nat /\ Len(b) \in Nat /\ n + i \in 0..(Len(all) + 1) /\ i \in 0..(Len(b) + 1)
      BY <1>1, <2>3 DEF l
    <3> HIDE DEF i
    <3> QED BY <3>1, SolidUnfolds
  <2>5. CASE m = 0
    <3>1. i >= Len(b) /\ n + i >= Len(all)
      BY <1>1, <2>2, <2>5 DEF l
    <3> QED BY <2>2, <2>4, <3>1 DEF SolidAt
  <2>6. CASE m > 0
    <3>1. m - 1 \in Nat /\ m - 1 <= l /\ ~(m <= m - 1) /\ l - (m - 1) = i + 1
      BY <1>1, <2>2, <2>6
    <3>2. m - 1 \notin Bad
      BY <2>1, <3>1
    <3>3. SolidFrom(p, all)[n + (i + 1)] = SolidFrom(p, b)[i + 1]
      BY <3>1, <3>2
    <3>4. i + 1 \in 1..l /\ ~(i >= Len(b)) /\ ~(n + i >= Len(all)) /\ n + i + 1 = n + (i + 1)
      BY <1>1, <2>2, <2>6, <2>3 DEF l
    <3>5. all[n + i + 1] = b[i + 1]
      BY <1>1, <3>4
    <3> HIDE DEF i, Bad
    <3>6. SolidAt(p, all, SolidFrom(p, all), n + i) = SolidAt(p, b, SolidFrom(p, b), i)
      BY <3>3, <3>4, <3>5 DEF SolidAt
    <3> QED BY <2>2, <2>4, <3>6 DEF i
  <2> QED BY <2>2, <2>5, <2>6
<1> QED BY <1>2, <1>3

\* ...and in the first what it has, followed by all of the second.
LEMMA SolidJoins ==
    ASSUME NEW p, NEW a \in Seq(STRING), NEW b \in Seq(STRING)
    PROVE  Solid(p, a \o b) = Solid(p, a) \o Solid(p, b)
<1> DEFINE all == a \o b
           n == Len(a)
           rest == SolidFrom(p, b)[0]
           Bad == {m \in Nat : m <= n /\ SolidFrom(p, all)[n - m] # SolidFrom(p, a)[n - m] \o rest}
<1>1. /\ n \in Nat /\ Len(b) \in Nat /\ all \in Seq(STRING) /\ Len(all) = n + Len(b)
      /\ \A i \in 1..n : all[i] = a[i]
      /\ rest \in Seq(STRING)
  <2>1. all \in Seq(STRING) /\ Len(all) = n + Len(b) /\ \A i \in 1..n : all[i] = a[i]
    BY Catenated
  <2>2. 0 \in 0..(Len(b) + 1)
    OBVIOUS
  <2>3. rest \in Seq(STRING)
    BY <2>2, SolidTyped
  <2> HIDE DEF all, rest
  <2> QED BY <2>1, <2>3
<1>2. SolidFrom(p, all)[n + 0] = rest
  <2>1. 0 \in 0..Len(b)
    BY <1>1
  <2> QED BY <2>1, SolidBehind
<1> HIDE DEF all, n, rest
<1>3. CASE Bad = {}
  <2>1. n \in Nat /\ n <= n /\ n - n = 0
    BY <1>1
  <2>2. SolidFrom(p, all)[0] = SolidFrom(p, a)[0] \o rest
    BY <1>3, <2>1
  <2> QED BY <2>2 DEF Solid, all, rest
<1>4. CASE Bad # {}
  <2>1. PICK m \in Bad : \A other \in Bad : m <= other
    <3>1. Bad \subseteq Nat
      OBVIOUS
    <3> HIDE DEF Bad
    <3> QED BY <1>4, <3>1, HasFirst
  <2>2. m \in Nat /\ m <= n /\ SolidFrom(p, all)[n - m] # SolidFrom(p, a)[n - m] \o rest
    BY <2>1
  <2> DEFINE i == n - m
  <2>3. i \in 0..(n + 1) /\ i \in 0..(Len(all) + 1) /\ i \in Int /\ i >= 0 /\ i <= n
    BY <1>1, <2>2
  <2>4. /\ SolidFrom(p, all)[i] = SolidAt(p, all, SolidFrom(p, all), i)
        /\ SolidFrom(p, a)[i] = SolidAt(p, a, SolidFrom(p, a), i)
    <3>1. Len(all) \in Nat /\ Len(a) \in Nat /\ i \in 0..(Len(a) + 1)
      BY <1>1, <2>3 DEF n
    <3> HIDE DEF i
    <3> QED BY <2>3, <3>1, SolidUnfolds
  <2>5. CASE m = 0
    <3>1. i >= Len(a) /\ i = n + 0
      BY <1>1, <2>2, <2>5 DEF n
    <3>2. SolidFrom(p, a)[i] = <<>>
      BY <2>4, <3>1 DEF SolidAt
    <3>3. <<>> \o rest = rest
      BY <1>1
    <3> QED BY <1>2, <2>2, <3>1, <3>2, <3>3
  <2>6. CASE m > 0
    <3>1. m - 1 \in Nat /\ m - 1 <= n /\ ~(m <= m - 1) /\ n - (m - 1) = i + 1
      BY <1>1, <2>2, <2>6
    <3>2. m - 1 \notin Bad
      BY <2>1, <3>1
    <3>3. SolidFrom(p, all)[i + 1] = SolidFrom(p, a)[i + 1] \o rest
      BY <3>1, <3>2
    <3>4. i + 1 \in 1..n /\ ~(i >= Len(a)) /\ ~(i >= Len(all)) /\ i + 1 \in 0..(Len(a) + 1) /\ i + 1 \in 1..Len(a)
      BY <1>1, <2>2, <2>6, <2>3 DEF n
    <3>5. all[i + 1] = a[i + 1] /\ a[i + 1] \in STRING
      BY <1>1, <3>4
    <3>6. SolidFrom(p, a)[i + 1] \in Seq(STRING)
      BY <3>4, SolidTyped
    <3> HIDE DEF i, Bad
    <3>7. (<<a[i + 1]>> \o SolidFrom(p, a)[i + 1]) \o rest = <<a[i + 1]>> \o (SolidFrom(p, a)[i + 1] \o rest)
      <4> DEFINE x == <<a[i + 1]>>
                 y == SolidFrom(p, a)[i + 1]
      <4>1. x \in Seq(STRING)
        BY <3>5
      <4>2. y \in Seq(STRING) /\ rest \in Seq(STRING)
        BY <1>1, <3>6
      <4> HIDE DEF x, y
      <4>3. (x \o y) \o rest = x \o (y \o rest)
        BY <4>1, <4>2, CatAssociates
      <4> QED BY <4>3 DEF x, y
    <3>8. SolidAt(p, all, SolidFrom(p, all), i) = SolidAt(p, a, SolidFrom(p, a), i) \o rest
      BY <3>3, <3>4, <3>5, <3>7 DEF SolidAt
    <3> QED BY <2>2, <2>4, <3>8 DEF i
  <2> QED BY <2>2, <2>5, <2>6
<1> QED BY <1>3, <1>4

\* The tokens from one position of a text to another.
Tokens(p, text, lo, hi) == Solid(p, SubSeq(text, lo + 1, hi))

LEMMA TokensJoin ==
    ASSUME NEW p, NEW text \in Seq(STRING), NEW lo \in Places(text), NEW mid \in Places(text), NEW hi \in Places(text),
           lo <= mid, mid <= hi
    PROVE  /\ Tokens(p, text, lo, hi) = Tokens(p, text, lo, mid) \o Tokens(p, text, mid, hi)
           /\ Tokens(p, text, lo, hi) \in Seq(STRING)
           /\ Tokens(p, text, lo, mid) \in Seq(STRING) /\ Tokens(p, text, mid, hi) \in Seq(STRING)
<1> DEFINE one == SubSeq(text, lo + 1, mid)
           two == SubSeq(text, mid + 1, hi)
           both == SubSeq(text, lo + 1, hi)
<1>1. lo \in Nat /\ mid \in Nat /\ hi \in Nat /\ hi <= Len(text) /\ Len(text) \in Nat /\ lo <= hi
  BY DEF Places
<1>2. /\ one \in Seq(STRING) /\ Len(one) = mid - lo /\ \A i \in 1..(mid - lo) : one[i] = text[lo + i]
      /\ two \in Seq(STRING) /\ Len(two) = hi - mid /\ \A i \in 1..(hi - mid) : two[i] = text[mid + i]
      /\ both \in Seq(STRING) /\ Len(both) = hi - lo /\ \A i \in 1..(hi - lo) : both[i] = text[lo + i]
  BY <1>1, PieceOf
<1>3. one \o two = both
  <2> HIDE DEF one, two, both
  <2>a. one \in Seq(STRING) /\ two \in Seq(STRING) /\ both \in Seq(STRING)
    BY <1>2
  <2>1. /\ one \o two \in Seq(STRING) /\ Len(one \o two) = Len(one) + Len(two)
        /\ \A i \in 1..Len(one) : (one \o two)[i] = one[i]
        /\ \A i \in 1..Len(two) : (one \o two)[Len(one) + i] = two[i]
    BY <2>a, Catenated
  <2>2. Len(one \o two) = hi - lo
    BY <1>1, <1>2, <2>1
  <2>3. ASSUME NEW i \in 1..(hi - lo) PROVE (one \o two)[i] = both[i]
    <3>0. i \in Int /\ i >= 1 /\ i <= hi - lo /\ mid - lo \in Int
      BY <1>1
    <3>1. CASE i <= mid - lo
      <4>1. i \in 1..(mid - lo) /\ i \in 1..Len(one)
        BY <1>1, <1>2, <3>0, <3>1
      <4> QED BY <1>2, <2>1, <4>1
    <3>2. CASE i > mid - lo
      <4>1. i - (mid - lo) \in 1..(hi - mid) /\ (mid - lo) + (i - (mid - lo)) = i
            /\ mid + (i - (mid - lo)) = lo + i
        BY <1>1, <3>0, <3>2
      <4>2. i - (mid - lo) \in 1..Len(two) /\ Len(one) = mid - lo
        BY <1>2, <4>1
      <4>3. (one \o two)[(mid - lo) + (i - (mid - lo))] = two[i - (mid - lo)]
        BY <2>1, <4>2
      <4>4. two[i - (mid - lo)] = text[mid + (i - (mid - lo))] /\ both[i] = text[lo + i]
        BY <1>2, <4>1
      <4> QED BY <4>1, <4>3, <4>4
    <3>3. i <= mid - lo \/ i > mid - lo
      BY <3>0
    <3> QED BY <3>1, <3>2, <3>3
  <2>4. Len(both) = hi - lo
    BY <1>2
  <2> QED BY <2>a, <2>1, <2>2, <2>3, <2>4, SameElements
<1> HIDE DEF one, two, both
<1>4. Solid(p, one \o two) = Solid(p, one) \o Solid(p, two)
  BY <1>2, SolidJoins
<1>5. Solid(p, one) \in Seq(STRING) /\ Solid(p, two) \in Seq(STRING) /\ Solid(p, both) \in Seq(STRING)
  BY <1>2, SolidIsTyped
<1> QED BY <1>3, <1>4, <1>5 DEF Tokens, one, two, both

LEMMA TokensOfOne ==
    ASSUME NEW p, NEW text \in Seq(STRING), NEW i \in DOMAIN text
    PROVE  Tokens(p, text, i - 1, i) = IF LrIsSpace(p, text[i]) THEN <<>> ELSE <<text[i]>>
<1> DEFINE w == SubSeq(text, i, i)
<1>1. i \in 1..Len(text) /\ Len(text) \in Nat /\ i \in Nat /\ i - 1 \in Nat /\ (i - 1) + 1 = i
  OBVIOUS
<1>2. w \in Seq(STRING) /\ Len(w) = 1 /\ w[1] = text[i]
  <2>1. i - 1 \in Places(text) /\ i \in Places(text) /\ i - 1 <= i /\ 1 \in 1..(i - (i - 1)) /\ i - (i - 1) = 1
    <3> DEFINE l == Len(text)
    <3>1. l \in Nat /\ i \in 1..l
      BY <1>1
    <3> HIDE DEF l
    <3>2. i - 1 \in 0..l /\ i \in 0..l /\ i - 1 <= i /\ 1 \in 1..(i - (i - 1)) /\ i - (i - 1) = 1
      BY <3>1
    <3> QED BY <3>2 DEF Places, l
  <2>2. SubSeq(text, (i - 1) + 1, i) \in Seq(STRING) /\ Len(SubSeq(text, (i - 1) + 1, i)) = i - (i - 1)
        /\ \A j \in 1..(i - (i - 1)) : SubSeq(text, (i - 1) + 1, i)[j] = text[(i - 1) + j]
    BY <2>1, PieceOf
  <2> QED BY <1>1, <2>1, <2>2
<1>3. Tokens(p, text, i - 1, i) = SolidFrom(p, w)[0]
  BY <1>1 DEF Tokens, Solid
<1> HIDE DEF w
<1>4. Len(w) \in Nat /\ 0 \in 0..(Len(w) + 1) /\ 1 \in 0..(Len(w) + 1)
  BY <1>2
<1>5. SolidFrom(p, w)[0] = SolidAt(p, w, SolidFrom(p, w), 0) /\ SolidFrom(p, w)[1] = SolidAt(p, w, SolidFrom(p, w), 1)
  BY <1>4, SolidUnfolds
<1>6. SolidFrom(p, w)[1] = <<>>
  BY <1>2, <1>5 DEF SolidAt
<1>7. SolidFrom(p, w)[0] = IF LrIsSpace(p, w[1]) THEN <<>> ELSE <<w[1]>> \o <<>>
  <2>1. ~(0 >= Len(w)) /\ 0 + 1 = 1
    BY <1>2
  <2>2. SolidFrom(p, w)[0] = IF LrIsSpace(p, w[0 + 1]) THEN SolidFrom(p, w)[0 + 1]
                             ELSE <<w[0 + 1]>> \o SolidFrom(p, w)[0 + 1]
    BY <1>5, <2>1 DEF SolidAt
  <2> QED BY <1>6, <2>1, <2>2
<1>8. text[i] \in STRING
  BY <1>1
<1>9. <<text[i]>> \in Seq(STRING)
  BY <1>8, Singleton
<1>10. <<text[i]>> \o <<>> = <<text[i]>>
  BY <1>9, EmptyCat
<1> QED BY <1>2, <1>3, <1>7, <1>10

\* There is no token in whitespace.
LEMMA TokensOfBlanks ==
    ASSUME NEW p, NEW text \in Seq(STRING), NEW lo \in Places(text), NEW hi \in Places(text),
           Blanks(p, text, lo, hi)
    PROVE  Tokens(p, text, lo, hi) = <<>>
<1> DEFINE Bad == {n \in Nat : lo + n <= hi /\ Tokens(p, text, lo, lo + n) # <<>>}
<1>1. lo \in Nat /\ hi \in Nat /\ lo <= hi /\ hi <= Len(text) /\ Len(text) \in Nat /\ DOMAIN text = 1..Len(text)
  BY DEF Places, Blanks
<1>2. CASE Bad = {}
  <2>1. hi - lo \in Nat /\ lo + (hi - lo) <= hi /\ lo + (hi - lo) = hi
    BY <1>1
  <2> QED BY <1>2, <2>1
<1>3. CASE Bad # {}
  <2>1. PICK n \in Bad : \A m \in Bad : n <= m
    <3>1. Bad \subseteq Nat
      OBVIOUS
    <3> HIDE DEF Bad
    <3> QED BY <1>3, <3>1, HasFirst
  <2>2. n \in Nat /\ lo + n <= hi /\ Tokens(p, text, lo, lo + n) # <<>>
    BY <2>1
  <2>3. CASE n = 0
    <3>1. lo + n = lo /\ lo \in Int /\ SubSeq(text, lo + 1, lo) \in Seq(STRING) /\ Len(SubSeq(text, lo + 1, lo)) = lo - lo
      BY <1>1, <2>2, <2>3, PieceOf
    <3> DEFINE w == SubSeq(text, lo + 1, lo)
    <3>2. Len(w) = 0
      BY <1>1, <3>1
    <3>3. Tokens(p, text, lo, lo) = SolidFrom(p, w)[0]
      BY DEF Tokens, Solid
    <3> HIDE DEF w
    <3>4. SolidFrom(p, w)[0] = SolidAt(p, w, SolidFrom(p, w), 0)
      <4>1. Len(w) \in Nat /\ 0 \in 0..(Len(w) + 1)
        BY <3>2
      <4> QED BY <4>1, SolidUnfolds
    <3>5. SolidFrom(p, w)[0] = <<>>
      BY <3>2, <3>4 DEF SolidAt
    <3> QED BY <2>2, <3>1, <3>3, <3>5
  <2>4. CASE n > 0
    <3>1. n - 1 \in Nat /\ lo + (n - 1) <= hi /\ ~(n <= n - 1)
      BY <1>1, <2>2, <2>4
    <3>2. Tokens(p, text, lo, lo + (n - 1)) = <<>>
      <4>1. n - 1 \notin Bad
        BY <2>1, <3>1
      <4> QED BY <3>1, <4>1
    <3> DEFINE i == lo + n
    <3>3. i \in DOMAIN text /\ i - 1 = lo + (n - 1) /\ i \in (lo + 1)..hi
      BY <1>1, <2>2, <2>4
    <3>4. lo + (n - 1) \in Places(text) /\ i \in Places(text) /\ lo <= lo + (n - 1) /\ lo + (n - 1) <= i
      BY <1>1, <2>2, <3>1 DEF Places
    <3>5. LrIsSpace(p, text[i])
      BY <3>3 DEF Blanks
    <3> HIDE DEF i, Bad
    <3>6. Tokens(p, text, lo + (n - 1), i) = <<>>
      BY <3>3, <3>5, TokensOfOne
    <3>7. Tokens(p, text, lo, i) = Tokens(p, text, lo, lo + (n - 1)) \o Tokens(p, text, lo + (n - 1), i)
      BY <3>4, TokensJoin
    <3>8. Tokens(p, text, lo, i) = <<>> \o <<>>
      BY <3>2, <3>6, <3>7
    <3>9. <<>> \in Seq(STRING)
      OBVIOUS
    <3>10. <<>> \o <<>> = <<>>
      BY <3>9, EmptyCat
    <3> QED BY <2>2, <3>8, <3>10 DEF i
  <2> QED BY <2>2, <2>3, <2>4
<1> QED BY <1>2, <1>3

\* Whitespace in between adds no token.
LEMMA TokensOnward ==
    ASSUME NEW p, NEW text \in Seq(STRING), NEW lo \in Places(text), NEW mid \in Places(text), NEW hi \in Places(text),
           lo <= mid, Blanks(p, text, mid, hi)
    PROVE  Tokens(p, text, lo, hi) = Tokens(p, text, lo, mid) /\ lo <= hi
<1>1. mid <= hi /\ lo <= hi
  BY DEF Blanks, Places
<1>2. /\ Tokens(p, text, lo, hi) = Tokens(p, text, lo, mid) \o Tokens(p, text, mid, hi)
      /\ Tokens(p, text, lo, mid) \in Seq(STRING)
  BY <1>1, TokensJoin
<1>3. Tokens(p, text, mid, hi) = <<>>
  BY TokensOfBlanks
<1> QED BY <1>1, <1>2, <1>3, EmptyCat

\* What is derived says its tokens, if texts have no names of rules.
LEMMA DerivedIsSaid ==
    ASSUME NEW p, WellFormed(p), NEW text \in Seq(STRING), Plain(p, {text}),
           NEW whole, NEW part, SaidUnder(p, whole, part),
           NEW symbol \in STRING, NEW lo \in Places(text), NEW hi \in Places(text), NEW calls,
           Derived(p, text, symbol, lo, hi, calls)
    PROVE  lo <= hi /\ (LrIsSpace(p, symbol) \/ <<symbol, Tokens(p, text, lo, hi)>> \in whole)
<1> DEFINE W == {x \in STRING \X Places(text) \X Places(text) \X Seq(Nat) :
                    x[2] <= x[3] /\ (LrIsSpace(p, x[1]) \/ <<x[1], Tokens(p, text, x[2], x[3])>> \in whole)}
           Q == {x \in Rules(p) \X Nat \X Places(text) \X Places(text) \X Seq(Nat) :
                    x[3] <= x[4] /\ <<x[1], x[2], Tokens(p, text, x[3], x[4])>> \in part}
<1>1. Len(text) \in Nat /\ DOMAIN text = 1..Len(text) /\ Places(text) = 0..Len(text)
  BY DEF Places
<1>a. \A x, from, to, own :
         <<x, from, to, own>> \in W <=>
            /\ x \in STRING /\ from \in Places(text) /\ to \in Places(text) /\ own \in Seq(Nat)
            /\ from <= to /\ (LrIsSpace(p, x) \/ <<x, Tokens(p, text, from, to)>> \in whole)
  OBVIOUS
<1>b. \A id, d, from, to, own :
         <<id, d, from, to, own>> \in Q <=>
            /\ id \in Rules(p) /\ d \in Nat /\ from \in Places(text) /\ to \in Places(text) /\ own \in Seq(Nat)
            /\ from <= to /\ <<id, d, Tokens(p, text, from, to)>> \in part
  OBVIOUS
<1> HIDE DEF W, Q
<1>2. \A i \in DOMAIN text : <<text[i], i - 1, i, <<>>>> \in W
  <2> SUFFICES ASSUME NEW i \in DOMAIN text PROVE <<text[i], i - 1, i, <<>>>> \in W
    OBVIOUS
  <2>1. text[i] \in STRING /\ i - 1 \in Places(text) /\ i \in Places(text) /\ i - 1 <= i /\ <<>> \in Seq(Nat)
    BY <1>1
  <2>2. LrIsSpace(p, text[i]) \/ <<text[i], Tokens(p, text, i - 1, i)>> \in whole
    <3>1. ~IsRule(p, text[i])
      BY DEF Plain
    <3>2. ~LrIsSpace(p, text[i]) => <<text[i], <<text[i]>>>> \in whole
      BY <2>1, <3>1 DEF SaidUnder
    <3> QED BY <3>2, TokensOfOne
  <2> QED BY <1>a, <2>1, <2>2
<1>3. \A id \in Rules(p) : \A from, to \in Places(text) :
         Gap(p, text, id, 0, from, to) => <<id, 0, from, to, <<>>>> \in Q
  <2> SUFFICES ASSUME NEW id \in Rules(p), NEW from \in Places(text), NEW to \in Places(text),
                      Gap(p, text, id, 0, from, to)
               PROVE  <<id, 0, from, to, <<>>>> \in Q
    OBVIOUS
  <2>1. from \in Int /\ to \in Int
    BY <1>1
  <2>2. Blanks(p, text, from, to)
    BY <2>1, GapIsBlank
  <2>3. Tokens(p, text, from, to) = <<>> /\ from <= to
    BY <2>2, TokensOfBlanks DEF Blanks
  <2>4. <<id, 0, <<>>>> \in part
    BY DEF SaidUnder
  <2>5. <<>> \in Seq(Nat) /\ 0 \in Nat
    OBVIOUS
  <2> QED BY <1>b, <2>3, <2>4, <2>5
<1>4. \A id \in Rules(p) : \A d \in DOMAIN p.productions[id].rhs :
         \A beg, from, to, end \in Places(text) : \A before, own \in Seq(Nat) :
            /\ <<id, d - 1, beg, from, before>> \in Q
            /\ <<p.productions[id].rhs[d], from, to, own>> \in W
            /\ Gap(p, text, id, d, to, end)
            => <<id, d, beg, end, before \o own>> \in Q
  <2> TAKE id \in Rules(p)
  <2> TAKE d \in DOMAIN p.productions[id].rhs
  <2> TAKE beg, from, to, end \in Places(text)
  <2> TAKE before, own \in Seq(Nat)
  <2> HAVE /\ <<id, d - 1, beg, from, before>> \in Q
           /\ <<p.productions[id].rhs[d], from, to, own>> \in W
           /\ Gap(p, text, id, d, to, end)
  <2>1. beg <= from /\ <<id, d - 1, Tokens(p, text, beg, from)>> \in part
    BY <1>b
  <2>2. from <= to /\ (LrIsSpace(p, Rhs(p, id)[d]) \/ <<Rhs(p, id)[d], Tokens(p, text, from, to)>> \in whole)
    BY <1>a DEF Rhs
  <2>3. ~LrIsSpace(p, Rhs(p, id)[d]) /\ d \in DOMAIN Rhs(p, id)
    BY DEF Plain, Rhs, Rules
  <2>4. beg \in Int /\ from \in Int /\ to \in Int /\ end \in Int
    BY <1>1
  <2>5. Blanks(p, text, to, end)
    BY <2>4, GapIsBlank
  <2>6. /\ Tokens(p, text, beg, to) = Tokens(p, text, beg, from) \o Tokens(p, text, from, to)
        /\ Tokens(p, text, beg, from) \in Seq(STRING) /\ Tokens(p, text, from, to) \in Seq(STRING)
    BY <2>1, <2>2, TokensJoin
  <2>7. beg <= to
    BY <2>1, <2>2, <2>4
  <2>8. Tokens(p, text, beg, end) = Tokens(p, text, beg, to) /\ beg <= end
    BY <2>5, <2>7, TokensOnward
  <2>9. <<id, d, Tokens(p, text, beg, from) \o Tokens(p, text, from, to)>> \in part
    BY <2>1, <2>2, <2>3, <2>6 DEF SaidUnder
  <2>10. d \in Nat /\ before \o own \in Seq(Nat)
    <3>1. p.productions[id].rhs \in Seq(STRING)
      BY DEF WellFormed, Rules
    <3>2. before \o own \in Seq(Nat)
      BY Concatenated
    <3> QED BY <3>1, <3>2
  <2> QED BY <1>b, <2>6, <2>8, <2>9, <2>10
<1>5. \A id \in Rules(p) : \A from, to \in Places(text) : \A own \in Seq(Nat) :
         <<id, Len(p.productions[id].rhs), from, to, own>> \in Q
            => <<p.productions[id].lhs, from, to, Append(own, id - 1)>> \in W
  <2> SUFFICES ASSUME NEW id \in Rules(p), NEW from \in Places(text), NEW to \in Places(text), NEW own \in Seq(Nat),
                      <<id, Len(p.productions[id].rhs), from, to, own>> \in Q
               PROVE  <<p.productions[id].lhs, from, to, Append(own, id - 1)>> \in W
    OBVIOUS
  <2>1. from <= to /\ <<id, Len(Rhs(p, id)), Tokens(p, text, from, to)>> \in part
    BY <1>b DEF Rhs
  <2>2. Tokens(p, text, from, to) \in Seq(STRING)
    <3>1. SubSeq(text, from + 1, to) \in Seq(STRING)
      BY <2>1, PieceOf
    <3> QED BY <3>1, SolidIsTyped DEF Tokens
  <2>3. <<p.productions[id].lhs, Tokens(p, text, from, to)>> \in whole
    BY <2>1, <2>2 DEF SaidUnder
  <2>4. p.productions[id].lhs \in STRING /\ Append(own, id - 1) \in Seq(Nat)
    <3>1. id \in Nat /\ id # 0 /\ id \in DOMAIN p.productions
      BY DEF WellFormed, Rules
    <3>2. id - 1 \in Nat
      BY <3>1
    <3> QED BY <3>1, <3>2 DEF WellFormed
  <2> QED BY <1>a, <2>1, <2>3, <2>4
<1>6. ClosedUnder(p, text, W, Q)
  <2> QED BY <1>2, <1>3, <1>4, <1>5 DEF ClosedUnder
<1>7. <<symbol, lo, hi, calls>> \in W
  <2> QED BY <1>6 DEF Derived
<1> QED BY <1>a, <1>7

-----------------------------------------------------------------------------
(* Items along a path of states, and the sentences they begin.               *)

\* n states, each but the first behind another one, the symbols on which they
\* are entered and the tokens read when they are.
Chained(p, whole, n, state, prev, symbol, reach) ==
    /\ n \in Nat \ {0} /\ state[1] = 0 /\ reach[1] = <<>>
    /\ \A i \in 1..n : state[i] \in DOMAIN p.items /\ reach[i] \in Seq(STRING)
    /\ \A i \in 2..n :
          /\ prev[i] \in 1..(i - 1) /\ state[i] # 0
          /\ \A item \in p.items[state[i]] : item[2] > 0 =>
                /\ Rhs(p, item[1])[item[2]] = symbol[i]
                /\ <<item[1], item[2] - 1>> \in p.items[state[prev[i]]]
          /\ \E own \in Seq(STRING) :
                /\ reach[i] = reach[prev[i]] \o own
                /\ LrIsSpace(p, symbol[i]) \/ <<symbol[i], own>> \in whole

\* What has been read where an item stands is the beginning of a sentence up to
\* its rule, then what its members before the dot say.
OnPath(p, part, begun, reach, id, dot) ==
    IF id = 0 THEN IF dot = 0 THEN reach = <<>> ELSE <<"main", reach>> \in begun
    ELSE \E before, own \in Seq(STRING) :
            /\ reach = before \o own /\ <<id, dot, own>> \in part
            /\ \A text \in Seq(STRING) :
                  <<p.productions[id].lhs, text>> \in begun => <<"main", before \o text>> \in begun

\* What the lemmas below ask of tables and of what productions say.
Begun(p, whole, part, begun) ==
    /\ Coherent(p) /\ p.productions[0].rhs = <<"main">> /\ Plain(p, {}) /\ Rooted(p)
    /\ SaidUnder(p, whole, part) /\ BegunUnder(p, whole, part, begun)

LEMMA BegunGives ==
    ASSUME NEW p, NEW whole, NEW part, NEW begun, Begun(p, whole, part, begun)
    PROVE  /\ \A id \in Rules(p) : /\ Rhs(p, id) \in Seq(STRING) /\ Len(Rhs(p, id)) \in Nat
                                   /\ DOMAIN Rhs(p, id) = 1..Len(Rhs(p, id))
                                   /\ p.productions[id].lhs \in STRING
           /\ Rhs(p, 0) = <<"main">> /\ Len(Rhs(p, 0)) = 1 /\ DOMAIN Rhs(p, 0) = {1} /\ "main" \in STRING
           /\ \A s \in DOMAIN p.items : \A item \in p.items[s] :
                 /\ item = <<item[1], item[2]>> /\ item[1] \in DOMAIN p.productions /\ item[2] \in Nat
                 /\ item[2] <= Len(Rhs(p, item[1]))
                 /\ item[1] = 0 \/ item[1] \in Rules(p)
           /\ \A item \in p.items[0] : item[2] = 0
           /\ \A s \in DOMAIN p.items : <<0, 0>> \in p.items[s] => s = 0
<1>1. WellFormed(p) /\ Transitions(p)
  BY DEF Begun, Coherent
<1>2. \A id \in DOMAIN p.productions : Rhs(p, id) \in Seq(STRING) /\ p.productions[id].lhs \in STRING
  BY <1>1 DEF WellFormed, Rhs
<1>3. \A id \in Rules(p) : /\ Rhs(p, id) \in Seq(STRING) /\ Len(Rhs(p, id)) \in Nat
                           /\ DOMAIN Rhs(p, id) = 1..Len(Rhs(p, id))
                           /\ p.productions[id].lhs \in STRING
  BY <1>2 DEF Rules
<1>4. Rhs(p, 0) = <<"main">> /\ Len(Rhs(p, 0)) = 1 /\ DOMAIN Rhs(p, 0) = {1} /\ "main" \in STRING
  <2>1. Rhs(p, 0) = <<"main">> /\ Len(Rhs(p, 0)) = 1 /\ DOMAIN Rhs(p, 0) = {1}
    BY DEF Begun, Rhs
  <2>2. Rhs(p, 0) \in Seq(STRING)
    BY <1>1, <1>2 DEF WellFormed
  <2>3. Rhs(p, 0)[1] \in STRING
    BY <2>1, <2>2
  <2> QED BY <2>1, <2>3
<1>5. \A s \in DOMAIN p.items : \A item \in p.items[s] :
         /\ item = <<item[1], item[2]>> /\ item[1] \in DOMAIN p.productions /\ item[2] \in Nat
         /\ item[2] <= Len(Rhs(p, item[1]))
         /\ item[1] = 0 \/ item[1] \in Rules(p)
  BY <1>1 DEF WellFormed, Rhs, Rules
<1>6. (\A item \in p.items[0] : item[2] = 0) /\ \A s \in DOMAIN p.items : <<0, 0>> \in p.items[s] => s = 0
  BY <1>1 DEF Transitions
<1> QED BY <1>3, <1>4, <1>5, <1>6

\* The dot moves over a member that is read.
LEMMA DotMovesOn ==
    ASSUME NEW p, NEW whole, NEW part, NEW begun, Begun(p, whole, part, begun),
           NEW id, id = 0 \/ id \in Rules(p), NEW dot \in 1..Len(Rhs(p, id)),
           NEW reach \in Seq(STRING), OnPath(p, part, begun, reach, id, dot - 1),
           NEW own \in Seq(STRING), <<Rhs(p, id)[dot], own>> \in whole
    PROVE  OnPath(p, part, begun, reach \o own, id, dot)
<1>1. CASE id = 0
  <2>1. dot = 1 /\ Rhs(p, id)[dot] = "main"
    BY <1>1, BegunGives
  <2>2. reach = <<>>
    BY <1>1, <2>1 DEF OnPath
  <2>3. reach \o own = own
    BY <2>2, EmptyCat
  <2>4. <<"main", own>> \in begun
    <3>1. <<"main", own>> \in whole /\ "main" \in STRING
      BY <2>1, BegunGives
    <3> QED BY <3>1 DEF Begun, BegunUnder
  <2> QED BY <1>1, <2>1, <2>3, <2>4 DEF OnPath
<1>2. CASE id # 0
  <2>1. id \in Rules(p) /\ dot \in DOMAIN Rhs(p, id)
    BY <1>2, BegunGives
  <2>2. PICK before, said \in Seq(STRING) :
           /\ reach = before \o said /\ <<id, dot - 1, said>> \in part
           /\ \A text \in Seq(STRING) :
                 <<p.productions[id].lhs, text>> \in begun => <<"main", before \o text>> \in begun
    BY <1>2 DEF OnPath
  <2>3. <<id, dot, said \o own>> \in part
    BY <2>1, <2>2 DEF Begun, SaidUnder
  <2>4. reach \o own = before \o (said \o own) /\ said \o own \in Seq(STRING)
    BY <2>2, CatAssociates, Concatenated
  <2> QED BY <1>2, <2>2, <2>3, <2>4 DEF OnPath
<1> QED BY <1>1, <1>2

\* A rule another item expects begins where that one stands.
LEMMA RuleOpensThere ==
    ASSUME NEW p, NEW whole, NEW part, NEW begun, Begun(p, whole, part, begun),
           NEW id, id = 0 \/ id \in Rules(p), NEW dot \in Nat, dot < Len(Rhs(p, id)),
           NEW reach \in Seq(STRING), OnPath(p, part, begun, reach, id, dot),
           NEW rule \in Rules(p), p.productions[rule].lhs = Rhs(p, id)[dot + 1]
    PROVE  OnPath(p, part, begun, reach, rule, 0)
<1>1. rule # 0 /\ <<rule, 0, <<>>>> \in part /\ <<>> \in Seq(STRING) /\ reach = reach \o <<>>
  <2>1. reach = reach \o <<>>
    BY EmptyCat
  <2>2. <<rule, 0, <<>>>> \in part
    BY DEF Begun, SaidUnder
  <2> QED BY <2>1, <2>2 DEF Rules
<1>2. ASSUME NEW text \in Seq(STRING), <<p.productions[rule].lhs, text>> \in begun
      PROVE  <<"main", reach \o text>> \in begun
  <2>1. CASE id = 0
    <3>1. dot = 0 /\ Rhs(p, id)[dot + 1] = "main"
      BY <2>1, BegunGives
    <3>2. reach = <<>>
      BY <2>1, <3>1 DEF OnPath
    <3>3. reach \o text = text
      BY <3>2, EmptyCat
    <3> QED BY <1>2, <3>1, <3>3
  <2>2. CASE id # 0
    <3>1. id \in Rules(p) /\ dot + 1 \in DOMAIN Rhs(p, id) /\ (dot + 1) - 1 = dot
      BY <2>2, BegunGives
    <3>2. PICK before, said \in Seq(STRING) :
             /\ reach = before \o said /\ <<id, dot, said>> \in part
             /\ \A other \in Seq(STRING) :
                   <<p.productions[id].lhs, other>> \in begun => <<"main", before \o other>> \in begun
      BY <2>2 DEF OnPath
    <3>3. <<id, (dot + 1) - 1, said>> \in part /\ <<Rhs(p, id)[dot + 1], text>> \in begun
      BY <1>2, <3>1, <3>2
    <3>4. <<p.productions[id].lhs, said \o text>> \in begun
      BY <3>1, <3>3 DEF Begun, BegunUnder
    <3>5. reach \o text = before \o (said \o text) /\ said \o text \in Seq(STRING)
      BY <3>2, CatAssociates, Concatenated
    <3> QED BY <3>2, <3>4, <3>5
  <2> QED BY <2>1, <2>2
<1> QED BY <1>1, <1>2 DEF OnPath

\* Where an item stands a sentence has begun.
LEMMA ItemHasBegun ==
    ASSUME NEW p, NEW whole, NEW part, NEW begun, Begun(p, whole, part, begun),
           NEW id, id = 0 \/ id \in Rules(p), NEW dot \in 0..Len(Rhs(p, id)),
           NEW reach \in Seq(STRING), OnPath(p, part, begun, reach, id, dot)
    PROVE  <<"main", reach>> \in begun
<1>1. CASE id = 0
  <2>1. <<"main", <<>>>> \in begun
    <3>1. "main" \in STRING
      BY BegunGives
    <3> QED BY <3>1 DEF Begun, BegunUnder
  <2> QED BY <1>1, <2>1 DEF OnPath
<1>2. CASE id # 0
  <2>1. id \in Rules(p)
    BY <1>2
  <2>2. PICK before, said \in Seq(STRING) :
           /\ reach = before \o said /\ <<id, dot, said>> \in part
           /\ \A text \in Seq(STRING) :
                 <<p.productions[id].lhs, text>> \in begun => <<"main", before \o text>> \in begun
    BY <1>2 DEF OnPath
  <2>3. Len(Rhs(p, id)) \in Nat /\ DOMAIN Rhs(p, id) = 1..Len(Rhs(p, id)) /\ p.productions[id].lhs \in STRING
        /\ Rhs(p, id) \in Seq(STRING)
    BY <2>1, BegunGives
  <2>4. CASE dot = Len(Rhs(p, id))
    <3>1. <<p.productions[id].lhs, said>> \in whole
      BY <2>1, <2>2, <2>4 DEF Begun, SaidUnder
    <3>2. <<p.productions[id].lhs, said>> \in begun
      BY <2>2, <2>3, <3>1 DEF Begun, BegunUnder
    <3> QED BY <2>2, <3>2
  <2>5. CASE dot # Len(Rhs(p, id))
    <3>1. dot + 1 \in DOMAIN Rhs(p, id) /\ (dot + 1) - 1 = dot
      <4> DEFINE l == Len(Rhs(p, id))
      <4>1. l \in Nat /\ DOMAIN Rhs(p, id) = 1..l /\ dot \in 0..l /\ dot # l
        BY <2>3, <2>5
      <4> HIDE DEF l
      <4> QED BY <4>1
    <3>2. Rhs(p, id)[dot + 1] \in STRING /\ <<>> \in Seq(STRING)
      BY <2>3, <3>1
    <3>3. <<Rhs(p, id)[dot + 1], <<>>>> \in begun
      BY <3>2 DEF Begun, BegunUnder
    <3>4. <<id, (dot + 1) - 1, said>> \in part
      BY <2>2, <3>1
    <3>5. <<p.productions[id].lhs, said \o <<>>>> \in begun
      BY <2>1, <3>1, <3>2, <3>3, <3>4 DEF Begun, BegunUnder
    <3>6. said \o <<>> = said
      BY EmptyCat
    <3> QED BY <2>2, <3>5, <3>6
  <2> QED BY <2>4, <2>5
<1> QED BY <1>1, <1>2

\* All items of a state stand on the path when those that have read something do.
LEMMA RootsAreEnough ==
    ASSUME NEW p, NEW whole, NEW part, NEW begun, Begun(p, whole, part, begun),
           NEW s \in DOMAIN p.items, NEW reach \in Seq(STRING), s = 0 => reach = <<>>,
           \A item \in p.items[s] : item[2] > 0 => OnPath(p, part, begun, reach, item[1], item[2])
    PROVE  \A item \in p.items[s] : OnPath(p, part, begun, reach, item[1], item[2])
<1> DEFINE opening == {item \in p.items[s] : item[2] = 0 /\ item # <<0, 0>>}
           kept == {item \in opening : OnPath(p, part, begun, reach, item[1], item[2])}
           expected == UNION {Expected(p, item) : item \in (p.items[s] \ opening) \cup kept}
<1>1. \A item \in p.items[s] :
         /\ item = <<item[1], item[2]>> /\ item[2] \in Nat /\ item[2] <= Len(Rhs(p, item[1]))
         /\ item[1] = 0 \/ item[1] \in Rules(p)
  BY BegunGives
<1>2. ASSUME NEW item \in p.items[s], item \notin opening
      PROVE  OnPath(p, part, begun, reach, item[1], item[2])
  <2>1. CASE item[2] > 0
    BY <2>1
  <2>2. CASE ~(item[2] > 0)
    <3>1. item[2] = 0
      BY <1>1, <2>2
    <3>2. item = <<0, 0>>
      BY <1>2, <3>1
    <3>3. s = 0
      BY <3>2, BegunGives
    <3> QED BY <3>2, <3>3 DEF OnPath
  <2> QED BY <2>1, <2>2
<1>3. ASSUME NEW item \in opening, p.productions[item[1]].lhs \in expected
      PROVE  item \in kept
  <2>1. PICK other \in (p.items[s] \ opening) \cup kept : p.productions[item[1]].lhs \in Expected(p, other)
    BY <1>3
  <2>2. other \in p.items[s] /\ OnPath(p, part, begun, reach, other[1], other[2])
    BY <1>2, <2>1
  <2>3. other[2] < Len(Rhs(p, other[1])) /\ p.productions[item[1]].lhs = Rhs(p, other[1])[other[2] + 1]
    BY <2>1 DEF Expected
  <2>4. item \in p.items[s] /\ item[2] = 0 /\ item # <<0, 0>> /\ item[1] \in Rules(p)
    BY <1>1
  <2>5. other[2] \in Nat /\ (other[1] = 0 \/ other[1] \in Rules(p))
    BY <1>1, <2>2
  <2>6. OnPath(p, part, begun, reach, item[1], 0)
    <3> HIDE DEF kept, opening
    <3> QED BY <2>2, <2>3, <2>4, <2>5, RuleOpensThere
  <2> QED BY <2>4, <2>6
<1>4. kept = opening
  <2>1. kept \in SUBSET opening
    OBVIOUS
  <2>2. \A item \in opening : p.productions[item[1]].lhs \in expected => item \in kept
    BY <1>3
  <2>3. Rooted(p)
    BY DEF Begun
  <2> HIDE DEF kept
  <2> QED BY <2>1, <2>2, <2>3 DEF Rooted
<1> QED BY <1>2, <1>4

\* Along the path all items stand on it.
LEMMA ItemsAreOnPath ==
    ASSUME NEW p, NEW whole, NEW part, NEW begun, Begun(p, whole, part, begun),
           NEW n, NEW state, NEW prev, NEW symbol, NEW reach,
           Chained(p, whole, n, state, prev, symbol, reach), NEW i \in 1..n
    PROVE  \A item \in p.items[state[i]] : OnPath(p, part, begun, reach[i], item[1], item[2])
<1> DEFINE Good(k) == \A item \in p.items[state[k]] : OnPath(p, part, begun, reach[k], item[1], item[2])
           Bad == {k \in 1..n : ~Good(k)}
<1>1. n \in Nat /\ state[1] = 0 /\ reach[1] = <<>>
      /\ \A k \in 1..n : state[k] \in DOMAIN p.items /\ reach[k] \in Seq(STRING)
  BY DEF Chained
<1>2. CASE Bad = {}
  <2>1. Good(i)
    BY <1>2
  <2> QED BY <2>1
<1>3. CASE Bad # {}
  <2>1. PICK k \in Bad : \A j \in Bad : k <= j
    <3>1. Bad \subseteq Nat
      BY <1>1
    <3> HIDE DEF Bad
    <3> QED BY <1>3, <3>1, HasFirst
  <2>2. k \in 1..n /\ ~Good(k)
    BY <2>1
  <2>3. state[k] \in DOMAIN p.items /\ reach[k] \in Seq(STRING)
    BY <1>1, <2>2
  <2>4. CASE k = 1
    <3>1. \A item \in p.items[state[k]] : ~(item[2] > 0)
      BY <1>1, <2>4, BegunGives
    <3>2. \A item \in p.items[state[k]] : OnPath(p, part, begun, reach[k], item[1], item[2])
      BY <1>1, <2>3, <2>4, <3>1, RootsAreEnough
    <3> QED BY <2>2, <3>2
  <2>5. CASE k # 1
    <3>1. k \in 2..n
      BY <1>1, <2>2, <2>5
    <3>2. /\ prev[k] \in 1..(k - 1) /\ state[k] # 0
          /\ \A item \in p.items[state[k]] : item[2] > 0 =>
                /\ Rhs(p, item[1])[item[2]] = symbol[k]
                /\ <<item[1], item[2] - 1>> \in p.items[state[prev[k]]]
      BY <3>1 DEF Chained
    <3>3. PICK own \in Seq(STRING) :
             /\ reach[k] = reach[prev[k]] \o own
             /\ LrIsSpace(p, symbol[k]) \/ <<symbol[k], own>> \in whole
      BY <3>1 DEF Chained
    <3>4. prev[k] \in 1..n /\ ~(k <= prev[k])
      BY <1>1, <2>2, <3>2
    <3>5. Good(prev[k])
      BY <2>1, <3>4
    <3>6. reach[prev[k]] \in Seq(STRING) /\ state[prev[k]] \in DOMAIN p.items
      BY <1>1, <3>4
    <3>7. ASSUME NEW item \in p.items[state[k]], item[2] > 0
          PROVE  OnPath(p, part, begun, reach[k], item[1], item[2])
      <4>1. /\ item[2] \in Nat /\ item[2] <= Len(Rhs(p, item[1]))
            /\ item[1] = 0 \/ item[1] \in Rules(p)
        BY <2>3, BegunGives
      <4>2. Len(Rhs(p, item[1])) \in Nat
        BY <4>1, BegunGives
      <4>3. item[2] \in 1..Len(Rhs(p, item[1]))
        BY <3>7, <4>1, <4>2
      <4>4. <<item[1], item[2] - 1>> \in p.items[state[prev[k]]] /\ Rhs(p, item[1])[item[2]] = symbol[k]
        BY <3>2, <3>7
      <4>5. OnPath(p, part, begun, reach[prev[k]], item[1], item[2] - 1)
        BY <3>5, <4>4
      <4>6. item[1] \in DOMAIN p.productions /\ item[2] \in DOMAIN Rhs(p, item[1])
        <5>1. item[1] \in DOMAIN p.productions
          BY <2>3, BegunGives
        <5>2. DOMAIN Rhs(p, item[1]) = 1..Len(Rhs(p, item[1]))
          BY <4>1, BegunGives
        <5> QED BY <4>3, <5>1, <5>2
      <4>7. ~LrIsSpace(p, Rhs(p, item[1])[item[2]])
        BY <4>6 DEF Begun, Plain
      <4>8. <<Rhs(p, item[1])[item[2]], own>> \in whole
        BY <3>3, <4>4, <4>7
      <4>9. OnPath(p, part, begun, reach[prev[k]] \o own, item[1], item[2])
        BY <3>6, <4>1, <4>3, <4>5, <4>8, DotMovesOn
      <4> QED BY <3>3, <4>9
    <3>8. \A item \in p.items[state[k]] : OnPath(p, part, begun, reach[k], item[1], item[2])
      BY <2>3, <3>2, <3>7, RootsAreEnough
    <3> QED BY <2>2, <3>8
  <2> QED BY <2>4, <2>5
<1> QED BY <1>2, <1>3

\* What has been read along a path begins a sentence.
LEMMA PathBegins ==
    ASSUME NEW p, NEW whole, NEW part, NEW begun, Begun(p, whole, part, begun),
           NEW n, NEW state, NEW prev, NEW symbol, NEW reach,
           Chained(p, whole, n, state, prev, symbol, reach), NEW i \in 1..n
    PROVE  <<"main", reach[i]>> \in begun
<1>1. state[i] \in DOMAIN p.items /\ reach[i] \in Seq(STRING)
  BY DEF Chained
<1>2. PICK item \in p.items[state[i]] : TRUE
  BY <1>1 DEF Begun, Rooted
<1>3. /\ item[2] \in Nat /\ item[2] <= Len(Rhs(p, item[1])) /\ (item[1] = 0 \/ item[1] \in Rules(p))
  BY <1>1, BegunGives
<1>4. item[2] \in 0..Len(Rhs(p, item[1]))
  <2>1. Len(Rhs(p, item[1])) \in Nat
    BY <1>3, BegunGives
  <2> QED BY <1>3, <2>1
<1>5. OnPath(p, part, begun, reach[i], item[1], item[2])
  BY ItemsAreOnPath
<1> QED BY <1>1, <1>3, <1>4, <1>5, ItemHasBegun

\* What a stack entry adds to the tokens read.
LEMMA EntryAdds ==
    ASSUME NEW p, WellFormed(p), NEW text \in Seq(STRING), Plain(p, {text}),
           NEW whole, NEW part, SaidUnder(p, whole, part),
           NEW symbol \in STRING, NEW span \in SpansOver(Places(text)), Ordered(span),
           NEW calls, Reads(p, text, symbol, span, calls),
           NEW edge \in Places(text), Blanks(p, text, edge, span.begin)
    PROVE  \E own \in Seq(STRING) :
              /\ Tokens(p, text, 0, span.end) = Tokens(p, text, 0, edge) \o own
              /\ LrIsSpace(p, symbol) \/ <<symbol, own>> \in whole
<1>1. span.begin \in Places(text) /\ span.end \in Places(text) /\ 0 \in Places(text) /\ Len(text) \in Nat
  BY DEF SpansOver, Places
<1>2. span.begin <= span.end /\ (span.empty => span.begin = span.end)
  BY DEF Ordered
<1>3. span.begin \in Int /\ span.end \in Int /\ 0 <= edge /\ edge \in Int /\ 0 <= span.begin /\ 0 <= span.end
  BY <1>1 DEF Places
<1>4. Blanks(p, text, span.begin, span.begin) /\ Blanks(p, text, span.end, span.end)
  BY <1>3, BlankHere
<1>5. Fits(p, text, span, span.begin, span.end)
  BY <1>2, <1>4 DEF Fits
<1>6. Derived(p, text, symbol, span.begin, span.end, calls)
  BY <1>1, <1>5 DEF Reads
<1> DEFINE own == Tokens(p, text, span.begin, span.end)
<1>7. LrIsSpace(p, symbol) \/ <<symbol, own>> \in whole
  BY <1>1, <1>6, DerivedIsSaid
<1>8. Tokens(p, text, 0, span.begin) = Tokens(p, text, 0, edge)
  BY <1>1, <1>3, TokensOnward
<1>9. Tokens(p, text, 0, span.end) = Tokens(p, text, 0, span.begin) \o own /\ own \in Seq(STRING)
  BY <1>1, <1>2, <1>3, TokensJoin
<1> QED BY <1>7, <1>8, <1>9

\* What a run of a driver on tables p has to go by: tables in which nothing is
\* without a reason and a text of tokens.
Reasoned(p, text) ==
    /\ Coherent(p) /\ p.productions[0].rhs = <<"main">>
    /\ text \in Seq(STRING) /\ Plain(p, {text}) /\ Rooted(p)

\* What n states in a row have read of a text up to the ends given, each behind
\* an earlier one.
ReadAlong(p, text, n, state, prev, symbol, end) ==
    /\ n \in Nat \ {0} /\ state[1] = 0 /\ end[1] = 0
    /\ \A i \in 1..n : state[i] \in DOMAIN p.items /\ end[i] \in Places(text)
    /\ \A i \in 2..n :
          /\ prev[i] \in 1..(i - 1) /\ state[i] # 0
          /\ \A item \in p.items[state[i]] : item[2] > 0 =>
                /\ Rhs(p, item[1])[item[2]] = symbol[i]
                /\ <<item[1], item[2] - 1>> \in p.items[state[prev[i]]]
          /\ symbol[i] \in STRING
          /\ \E span \in SpansOver(Places(text)) : \E calls :
                /\ Ordered(span) /\ Reads(p, text, symbol[i], span, calls)
                /\ Blanks(p, text, end[prev[i]], span.begin) /\ end[i] = span.end

LEMMA ReadAlongBegins ==
    ASSUME NEW p, NEW text, Reasoned(p, text),
           NEW n, NEW state, NEW prev, NEW symbol, NEW end,
           ReadAlong(p, text, n, state, prev, symbol, end),
           NEW i \in 1..n, NEW at \in Places(text), Blanks(p, text, end[i], at)
    PROVE  BeginsSentence(p, Tokens(p, text, 0, at))
<1> SUFFICES ASSUME NEW whole, NEW part, NEW begun,
                    SaidUnder(p, whole, part), BegunUnder(p, whole, part, begun)
             PROVE  <<"main", Tokens(p, text, 0, at)>> \in begun
  BY DEF BeginsSentence
<1> DEFINE reach == [j \in 1..n |-> Tokens(p, text, 0, end[j])]
<1>1. Begun(p, whole, part, begun)
  BY DEF Begun, Reasoned, Plain
<1>2. /\ n \in Nat \ {0} /\ state[1] = 0 /\ end[1] = 0
      /\ \A j \in 1..n : state[j] \in DOMAIN p.items /\ end[j] \in Places(text)
  BY DEF ReadAlong
<1>3. text \in Seq(STRING) /\ Len(text) \in Nat /\ 0 \in Places(text) /\ WellFormed(p) /\ Plain(p, {text})
  BY DEF Reasoned, Places, Coherent
<1>4. ASSUME NEW j \in 1..n
      PROVE  reach[j] = Tokens(p, text, 0, end[j]) /\ reach[j] \in Seq(STRING)
  <2>1. end[j] \in Places(text) /\ 0 <= end[j]
    BY <1>2 DEF Places
  <2>2. SubSeq(text, 0 + 1, end[j]) \in Seq(STRING)
    BY <1>3, <2>1, PieceOf
  <2> QED BY <1>3, <2>2, SolidIsTyped DEF Tokens
<1>5. reach[1] = <<>>
  <2>1. 1 \in 1..n /\ 0 \in Int
    BY <1>2
  <2>2. Tokens(p, text, 0, 0) = <<>>
    BY <1>3, <2>1, BlankHere, TokensOfBlanks
  <2> QED BY <1>2, <1>4, <2>1, <2>2
<1> HIDE DEF reach
<1>6. ASSUME NEW j \in 2..n
      PROVE  \E own \in Seq(STRING) :
                /\ reach[j] = reach[prev[j]] \o own
                /\ LrIsSpace(p, symbol[j]) \/ <<symbol[j], own>> \in whole
  <2>1. /\ prev[j] \in 1..(j - 1) /\ symbol[j] \in STRING
        /\ \E span \in SpansOver(Places(text)) : \E calls :
              /\ Ordered(span) /\ Reads(p, text, symbol[j], span, calls)
              /\ Blanks(p, text, end[prev[j]], span.begin) /\ end[j] = span.end
    BY DEF ReadAlong
  <2>2. PICK span \in SpansOver(Places(text)) : \E calls :
           /\ Ordered(span) /\ Reads(p, text, symbol[j], span, calls)
           /\ Blanks(p, text, end[prev[j]], span.begin) /\ end[j] = span.end
    BY <2>1
  <2>3. PICK calls :
           /\ Ordered(span) /\ Reads(p, text, symbol[j], span, calls)
           /\ Blanks(p, text, end[prev[j]], span.begin) /\ end[j] = span.end
    BY <2>2
  <2>4. prev[j] \in 1..n /\ j \in 1..n
    BY <1>2, <2>1
  <2>5. end[prev[j]] \in Places(text)
    BY <1>2, <2>4
  <2>6. PICK own \in Seq(STRING) :
           /\ Tokens(p, text, 0, span.end) = Tokens(p, text, 0, end[prev[j]]) \o own
           /\ LrIsSpace(p, symbol[j]) \/ <<symbol[j], own>> \in whole
    <3> DEFINE s == symbol[j]
               edge == end[prev[j]]
    <3>1. s \in STRING /\ edge \in Places(text) /\ Ordered(span) /\ Reads(p, text, s, span, calls)
          /\ Blanks(p, text, edge, span.begin)
      BY <2>1, <2>3, <2>5
    <3> HIDE DEF s, edge
    <3>2. \E own \in Seq(STRING) :
             /\ Tokens(p, text, 0, span.end) = Tokens(p, text, 0, edge) \o own
             /\ LrIsSpace(p, s) \/ <<s, own>> \in whole
      BY <1>3, <3>1, EntryAdds
    <3> QED BY <3>2 DEF s, edge
  <2> QED BY <1>4, <2>3, <2>4, <2>6
<1>7. Chained(p, whole, n, state, prev, symbol, reach)
  BY <1>2, <1>4, <1>5, <1>6 DEF ReadAlong, Chained
<1>8. <<"main", reach[i]>> \in begun
  BY <1>1, <1>7, PathBegins
<1>9. Tokens(p, text, 0, at) = Tokens(p, text, 0, end[i])
  <2>1. end[i] \in Places(text) /\ 0 <= end[i]
    BY <1>2 DEF Places
  <2> QED BY <1>3, <2>1, TokensOnward
<1> QED BY <1>4, <1>8, <1>9

\* The same of the stacks of a region.
LEMMA StackBegins ==
    ASSUME NEW p, NEW text, Reasoned(p, text),
           NEW symbols, NEW spans, NEW at \in Places(text), ReadTo(p, text, symbols, spans, at),
           NEW states, Len(states) = Len(spans) + 1, states[1] = 0,
           \A i \in 1..Len(states) : states[i] \in DOMAIN p.items,
           \A i \in 2..Len(states) :
               /\ states[i] # 0
               /\ \A item \in p.items[states[i]] : item[2] > 0 =>
                     /\ Rhs(p, item[1])[item[2]] = symbols[i - 1]
                     /\ <<item[1], item[2] - 1>> \in p.items[states[i - 1]]
    PROVE  BeginsSentence(p, Tokens(p, text, 0, at))
<1> DEFINE n == Len(spans) + 1
           prev == [i \in 1..n |-> i - 1]
           symbol == [i \in 1..n |-> symbols[i - 1]]
           end == [i \in 1..n |-> Edge(spans, i - 1)]
<1>1. /\ text \in Seq(STRING) /\ Len(text) \in Nat
      /\ spans \in Seq(SpansOver(Places(text))) /\ Len(spans) \in Nat /\ DOMAIN spans = 1..Len(spans)
      /\ symbols \in Seq(STRING) /\ Len(symbols) = Len(spans)
  BY DEF Reasoned, ReadTo, Covered
<1>2. n \in Nat \ {0} /\ n = Len(spans) + 1 /\ Len(states) = n
  BY <1>1
<1>3. \A i \in 1..n : prev[i] = i - 1 /\ symbol[i] = symbols[i - 1] /\ end[i] = Edge(spans, i - 1)
  OBVIOUS
<1> HIDE DEF n, prev, symbol, end
<1>4. \A i \in 1..n : end[i] \in Places(text)
  <2> TAKE i \in 1..n
  <2>1. i - 1 \in 0..Len(spans)
    BY <1>1, <1>2
  <2> QED BY <1>1, <1>3, <2>1, EdgeLies
<1>5. 1 \in 1..n /\ end[1] = 0
  BY <1>2, <1>3 DEF Edge
<1>6. ASSUME NEW i \in 2..n
      PROVE  /\ prev[i] \in 1..(i - 1) /\ states[i] # 0
             /\ \A item \in p.items[states[i]] : item[2] > 0 =>
                   /\ Rhs(p, item[1])[item[2]] = symbol[i]
                   /\ <<item[1], item[2] - 1>> \in p.items[states[prev[i]]]
             /\ symbol[i] \in STRING
             /\ \E span \in SpansOver(Places(text)) : \E calls :
                   /\ Ordered(span) /\ Reads(p, text, symbol[i], span, calls)
                   /\ Blanks(p, text, end[prev[i]], span.begin) /\ end[i] = span.end
  <2> DEFINE j == i - 1
  <2>1. j \in 1..Len(spans) /\ j \in DOMAIN spans /\ j \in 1..(i - 1) /\ i \in 1..n /\ j \in 1..n /\ j # 0
        /\ i \in 2..Len(states)
    BY <1>1, <1>2
  <2>2. prev[i] = j /\ symbol[i] = symbols[j] /\ end[i] = Edge(spans, j) /\ end[j] = Edge(spans, j - 1)
    BY <1>3, <2>1
  <2> HIDE DEF j
  <2>3. symbols[j] \in STRING /\ spans[j] \in SpansOver(Places(text))
    BY <1>1, <2>1
  <2>4. PICK own \in Seq(Nat) : Reads(p, text, symbols[j], spans[j], own)
    BY <2>1 DEF ReadTo
  <2>5. Ordered(spans[j]) /\ Blanks(p, text, Edge(spans, j - 1), spans[j].begin)
    BY <2>1 DEF ReadTo, Covered
  <2>6. end[i] = spans[j].end
    BY <2>1, <2>2 DEF Edge
  <2>7. \E span \in SpansOver(Places(text)) : \E calls :
           /\ Ordered(span) /\ Reads(p, text, symbol[i], span, calls)
           /\ Blanks(p, text, end[prev[i]], span.begin) /\ end[i] = span.end
    BY <2>2, <2>3, <2>4, <2>5, <2>6
  <2>8. /\ states[i] # 0
        /\ \A item \in p.items[states[i]] : item[2] > 0 =>
              /\ Rhs(p, item[1])[item[2]] = symbol[i]
              /\ <<item[1], item[2] - 1>> \in p.items[states[prev[i]]]
    BY <2>1, <2>2 DEF j
  <2> QED BY <2>1, <2>2, <2>3, <2>7, <2>8
<1>7. ReadAlong(p, text, n, states, prev, symbol, end)
  BY <1>2, <1>4, <1>5, <1>6 DEF ReadAlong
<1>8. n \in 1..n /\ Blanks(p, text, end[n], at)
  <2>1. n \in 1..n /\ n - 1 = Len(spans)
    BY <1>1, <1>2
  <2> QED BY <1>3, <2>1 DEF ReadTo, Covered
<1> QED BY <1>7, <1>8, ReadAlongBegins

-----------------------------------------------------------------------------
\* A beginning that is short enough is in every closed set of them.
LEMMA BeginningsHold ==
    ASSUME NEW p, WellFormed(p), NEW words, NEW begins, NEW n \in Nat, BeginningsClosed(p, words, begins, n),
           NEW text \in Seq(STRING), Len(text) <= n, BeginsSentence(p, text)
    PROVE  text \in begins["main"]
<1> DEFINE open(id) == Openings(Bare(p), words, id, n)
           W == {x \in STRING \X Seq(STRING) :
                    Len(x[2]) <= n /\ x[1] \in DOMAIN words => x[2] \in words[x[1]]}
           Q == {x \in Rules(p) \X Nat \X Seq(STRING) : Len(x[3]) <= n => x[3] \in open(x[1])[x[2]]}
           B == {x \in STRING \X Seq(STRING) :
                    Len(x[2]) <= n /\ x[1] \in DOMAIN words => x[2] \in begins[x[1]]}
<1>a. \A x, u : <<x, u>> \in W <=>
         x \in STRING /\ u \in Seq(STRING) /\ (Len(u) <= n /\ x \in DOMAIN words => u \in words[x])
  OBVIOUS
<1>b. \A id, d, u : <<id, d, u>> \in Q <=>
         id \in Rules(p) /\ d \in Nat /\ u \in Seq(STRING) /\ (Len(u) <= n => u \in open(id)[d])
  OBVIOUS
<1>c. \A x, u : <<x, u>> \in B <=>
         x \in STRING /\ u \in Seq(STRING) /\ (Len(u) <= n /\ x \in DOMAIN words => u \in begins[x])
  OBVIOUS
<1> HIDE DEF W, Q, B
<1>1. Rules(Bare(p)) = Rules(p) /\ Bare(p).productions = p.productions
  BY DEF Bare, Rules
<1>2. \A id \in Rules(p) : /\ Rhs(p, id) \in Seq(STRING) /\ Len(Rhs(p, id)) \in Nat
                           /\ DOMAIN Rhs(p, id) = 1..Len(Rhs(p, id))
                           /\ p.productions[id].rhs = Rhs(p, id) /\ p.productions[id].lhs \in STRING
                           /\ p.productions[id].lhs \in DOMAIN words
                           /\ \A d \in DOMAIN Rhs(p, id) : Rhs(p, id)[d] \in DOMAIN words
  BY DEF WellFormed, Rules, Rhs, BeginningsClosed
<1>3. ASSUME NEW id \in Rules(p), NEW g PROVE <<>> \in GapTexts(Bare(p), id, g, n)
  BY DEF GapTexts
<1>4. ASSUME NEW id \in Rules(p)
      PROVE  /\ open(id)[0] = GapTexts(Bare(p), id, 0, n)
             /\ \A d \in DOMAIN Rhs(p, id) :
                   open(id)[d] = Joined(Joined(open(id)[d - 1], words[Rhs(p, id)[d]], n), GapTexts(Bare(p), id, d, n), n)
  <2>1. Len(Bare(p).productions[id].rhs) \in Nat
    BY <1>1, <1>2
  <2>2. /\ open(id)[0] = GapTexts(Bare(p), id, 0, n)
        /\ \A d \in 1..Len(Bare(p).productions[id].rhs) :
              open(id)[d] = Joined(Joined(open(id)[d - 1], words[Bare(p).productions[id].rhs[d]], n),
                                   GapTexts(Bare(p), id, d, n), n)
    BY <2>1, OpeningsUnfold
  <2> QED BY <1>1, <1>2, <2>2
<1>5. ASSUME NEW u \in Seq(STRING), NEW v \in Seq(STRING), Len(u \o v) <= n,
             NEW left, NEW right, u \in left, v \in right
      PROVE  u \o v \in Joined(left, right, n)
  <2>1. Len(u \o v) = Len(u) + Len(v)
    BY Catenated
  <2> DEFINE x == <<u, v>>
  <2>2. x \in left \X right /\ x[1] = u /\ x[2] = v /\ Len(x[1]) + Len(x[2]) <= n
    BY <1>5, <2>1
  <2> HIDE DEF x
  <2>3. x \in {y \in left \X right : Len(y[1]) + Len(y[2]) <= n}
    BY <2>2
  <2>4. x[1] \o x[2] \in Joined(left, right, n)
    BY <2>3 DEF Joined
  <2> QED BY <2>2, <2>4
<1>6. ASSUME NEW u \in Seq(STRING), NEW v \in Seq(STRING), Len(u \o v) <= n
      PROVE  Len(u) <= n /\ Len(v) <= n
  <2>1. Len(u \o v) = Len(u) + Len(v) /\ Len(u) \in Nat /\ Len(v) \in Nat
    BY Catenated
  <2> DEFINE a == Len(u)
             b == Len(v)
             c == Len(u \o v)
  <2>2. c = a + b /\ a \in Nat /\ b \in Nat /\ c <= n
    BY <1>6, <2>1
  <2> HIDE DEF a, b, c
  <2>3. a <= n /\ b <= n
    BY <2>2
  <2> QED BY <2>3 DEF a, b
<1>7. SaidUnder(p, W, Q)
  <2>1. ASSUME NEW token \in STRING, ~IsRule(p, token), ~LrIsSpace(p, token) PROVE <<token, <<token>>>> \in W
    <3>1. <<token>> \in Seq(STRING)
      BY Singleton
    <3>2. token \in DOMAIN words => <<token>> \in words[token]
      BY <2>1 DEF BeginningsClosed
    <3> QED BY <1>a, <3>1, <3>2
  <2>2. ASSUME NEW id \in Rules(p) PROVE <<id, 0, <<>>>> \in Q
    <3>1. <<>> \in Seq(STRING) /\ 0 \in Nat
      OBVIOUS
    <3> QED BY <1>3, <1>4, <1>b, <3>1
  <2>3. ASSUME NEW id \in Rules(p), NEW d \in DOMAIN Rhs(p, id), NEW before \in Seq(STRING), NEW own \in Seq(STRING),
               <<id, d - 1, before>> \in Q, <<Rhs(p, id)[d], own>> \in W
        PROVE  <<id, d, before \o own>> \in Q
    <3>1. before \o own \in Seq(STRING) /\ <<>> \in Seq(STRING) /\ d \in Nat
      BY <1>2, Concatenated
    <3>2. ASSUME Len(before \o own) <= n PROVE before \o own \in open(id)[d]
      <4>1. Len(before) <= n /\ Len(own) <= n
        BY <1>6, <3>2
      <4>2. before \in open(id)[d - 1]
        BY <1>b, <2>3, <4>1
      <4>3. own \in words[Rhs(p, id)[d]]
        BY <1>2, <1>a, <2>3, <4>1
      <4>4. before \o own \in Joined(open(id)[d - 1], words[Rhs(p, id)[d]], n)
        BY <1>5, <3>2, <4>2, <4>3
      <4> DEFINE both == before \o own
                 inner == Joined(open(id)[d - 1], words[Rhs(p, id)[d]], n)
      <4>5. both \o <<>> = both /\ both \in Seq(STRING) /\ both \in inner /\ Len(both) <= n
        BY <3>1, <3>2, <4>4, EmptyCat
      <4> HIDE DEF both, inner
      <4>6. <<>> \in GapTexts(Bare(p), id, d, n)
        BY <1>3
      <4>7. both \o <<>> \in Joined(inner, GapTexts(Bare(p), id, d, n), n)
        BY <1>5, <3>1, <4>5, <4>6
      <4>8. open(id)[d] = Joined(inner, GapTexts(Bare(p), id, d, n), n)
        BY <1>4 DEF inner
      <4> QED BY <4>5, <4>7, <4>8 DEF both
    <3> QED BY <1>b, <3>1, <3>2
  <2>4. ASSUME NEW id \in Rules(p), NEW u \in Seq(STRING), <<id, Len(Rhs(p, id)), u>> \in Q
        PROVE  <<p.productions[id].lhs, u>> \in W
    <3>1. open(id)[Len(Rhs(p, id))] \subseteq words[p.productions[id].lhs]
      BY <1>1, <1>2 DEF BeginningsClosed, WordsClosed
    <3> QED BY <1>2, <1>a, <1>b, <2>4, <3>1
  <2> QED BY <2>1, <2>2, <2>3, <2>4 DEF SaidUnder
<1>8. BegunUnder(p, W, Q, B)
  <2>1. ASSUME NEW symbol \in STRING PROVE <<symbol, <<>>>> \in B
    <3>1. <<>> \in Seq(STRING)
      OBVIOUS
    <3>2. symbol \in DOMAIN words => <<>> \in begins[symbol]
      BY DEF BeginningsClosed
    <3> QED BY <1>c, <3>1, <3>2
  <2>2. ASSUME NEW symbol \in STRING, NEW u \in Seq(STRING), <<symbol, u>> \in W PROVE <<symbol, u>> \in B
    <3>1. symbol \in DOMAIN words => words[symbol] \subseteq begins[symbol]
      BY DEF BeginningsClosed
    <3> QED BY <1>a, <1>c, <2>2, <3>1
  <2>3. ASSUME NEW id \in Rules(p), NEW d \in DOMAIN Rhs(p, id), NEW before \in Seq(STRING), NEW own \in Seq(STRING),
               <<id, d - 1, before>> \in Q, <<Rhs(p, id)[d], own>> \in B
        PROVE  <<p.productions[id].lhs, before \o own>> \in B
    <3>1. before \o own \in Seq(STRING)
      BY Concatenated
    <3>2. ASSUME Len(before \o own) <= n PROVE before \o own \in begins[p.productions[id].lhs]
      <4>1. Len(before) <= n /\ Len(own) <= n
        BY <1>6, <3>2
      <4>2. before \in open(id)[d - 1]
        BY <1>b, <2>3, <4>1
      <4>3. own \in begins[Rhs(p, id)[d]]
        BY <1>2, <1>c, <2>3, <4>1
      <4>4. before \o own \in Joined(open(id)[d - 1], begins[Rhs(p, id)[d]], n)
        BY <1>5, <3>2, <4>2, <4>3
      <4>5. Joined(open(id)[d - 1], begins[Rhs(p, id)[d]], n) \subseteq begins[p.productions[id].lhs]
        BY DEF BeginningsClosed
      <4> QED BY <4>4, <4>5
    <3> QED BY <1>2, <1>c, <3>1, <3>2
  <2> QED BY <2>1, <2>2, <2>3 DEF BegunUnder
<1>9. <<"main", text>> \in B
  BY <1>7, <1>8 DEF BeginsSentence
<1> QED BY <1>9, <1>c DEF BeginningsClosed

-----------------------------------------------------------------------------
(* Where every rule derives a text, a beginning of a sentence goes on to one. *)

Says(p, symbol, text) ==
    \A whole, part : SaidUnder(p, whole, part) => <<symbol, text>> \in whole

SaysPart(p, id, d, text) ==
    \A whole, part : SaidUnder(p, whole, part) => <<id, d, text>> \in part

LEMMA TokenSays ==
    ASSUME NEW p, NEW token \in STRING, ~IsRule(p, token), ~LrIsSpace(p, token)
    PROVE  Says(p, token, <<token>>)
BY DEF Says, SaidUnder

LEMMA NothingSays ==
    ASSUME NEW p, NEW id \in Rules(p)
    PROVE  SaysPart(p, id, 0, <<>>)
BY DEF SaysPart, SaidUnder

LEMMA MemberSays ==
    ASSUME NEW p, NEW id \in Rules(p), NEW d \in DOMAIN Rhs(p, id),
           NEW before \in Seq(STRING), NEW own \in Seq(STRING),
           SaysPart(p, id, d - 1, before), Says(p, Rhs(p, id)[d], own)
    PROVE  SaysPart(p, id, d, before \o own)
<1> SUFFICES ASSUME NEW whole, NEW part, SaidUnder(p, whole, part)
             PROVE  <<id, d, before \o own>> \in part
  BY DEF SaysPart
<1>1. <<id, d - 1, before>> \in part /\ <<Rhs(p, id)[d], own>> \in whole
  BY DEF Says, SaysPart
<1> QED BY <1>1 DEF SaidUnder

LEMMA RuleSays ==
    ASSUME NEW p, NEW id \in Rules(p), NEW text \in Seq(STRING), SaysPart(p, id, Len(Rhs(p, id)), text)
    PROVE  Says(p, p.productions[id].lhs, text)
<1> SUFFICES ASSUME NEW whole, NEW part, SaidUnder(p, whole, part)
             PROVE  <<p.productions[id].lhs, text>> \in whole
  BY DEF Says
<1>1. <<id, Len(Rhs(p, id)), text>> \in part
  BY DEF SaysPart
<1> QED BY <1>1 DEF SaidUnder

\* What is said is derived, wherever it stands in a text.
LEMMA SaidIsDerived ==
    ASSUME NEW p, WellFormed(p), NEW text \in Seq(STRING), Says(p, "main", text)
    PROVE  IsSentence(p, text)
<1> DEFINE W == {x \in STRING \X Seq(STRING) :
                    \A lo, hi \in Places(text) : lo <= hi /\ Piece(text, lo, hi) = x[2]
                       => \E calls \in Seq(Nat) : Derived(p, text, x[1], lo, hi, calls)}
           Q == {x \in Rules(p) \X Nat \X Seq(STRING) :
                    \A lo, hi \in Places(text) : lo <= hi /\ Piece(text, lo, hi) = x[3]
                       => \E calls \in Seq(Nat) : PartDerived(p, text, x[1], x[2], lo, hi, calls)}
<1>a. \A x, u : <<x, u>> \in W <=>
         /\ x \in STRING /\ u \in Seq(STRING)
         /\ \A lo, hi \in Places(text) : lo <= hi /\ Piece(text, lo, hi) = u
               => \E calls \in Seq(Nat) : Derived(p, text, x, lo, hi, calls)
  OBVIOUS
<1>b. \A id, d, u : <<id, d, u>> \in Q <=>
         /\ id \in Rules(p) /\ d \in Nat /\ u \in Seq(STRING)
         /\ \A lo, hi \in Places(text) : lo <= hi /\ Piece(text, lo, hi) = u
               => \E calls \in Seq(Nat) : PartDerived(p, text, id, d, lo, hi, calls)
  OBVIOUS
<1> HIDE DEF W, Q
<1>1. ASSUME NEW u \in Seq(STRING) PROVE u \in Seq(Letters)
  <2>1. STRING \subseteq Letters
    BY DEF Letters
  <2> QED BY <2>1, Wider
<1>2. \A id \in Rules(p) : Rhs(p, id) \in Seq(STRING) /\ p.productions[id].lhs \in STRING /\ id \in Nat \ {0}
                           /\ Rhs(p, id) = p.productions[id].rhs
  BY DEF WellFormed, Rules, Rhs
<1>3. ASSUME NEW token \in STRING, ~IsRule(p, token), ~LrIsSpace(p, token) PROVE <<token, <<token>>>> \in W
  <2>1. <<token>> \in Seq(STRING)
    BY Singleton
  <2>2. ASSUME NEW lo \in Places(text), NEW hi \in Places(text), lo <= hi, Piece(text, lo, hi) = <<token>>
        PROVE  \E calls \in Seq(Nat) : Derived(p, text, token, lo, hi, calls)
    <3> DEFINE words == [symbol \in {token} |-> {<<symbol>>}]
    <3>1. {token} \in SUBSET STRING /\ \A symbol \in {token} : words[symbol] \subseteq {<<symbol>>}
      OBVIOUS
    <3>2. Piece(text, lo, hi) \in words[token]
      BY <2>2
    <3> HIDE DEF words
    <3>3. WordsDerived(p, text, words, {token})
      BY <3>1, TokensDerived
    <3> QED BY <2>2, <3>2, <3>3 DEF WordsDerived
  <2> QED BY <1>a, <2>1, <2>2
<1>4. ASSUME NEW id \in Rules(p) PROVE <<id, 0, <<>>>> \in Q
  <2>1. <<>> \in Seq(STRING) /\ 0 \in Nat
    OBVIOUS
  <2>2. ASSUME NEW lo \in Places(text), NEW hi \in Places(text), lo <= hi, Piece(text, lo, hi) = <<>>
        PROVE  \E calls \in Seq(Nat) : PartDerived(p, text, id, 0, lo, hi, calls)
    <3>1. Piece(text, lo, hi) \in GapTexts(p, id, 0, 0)
      BY <2>2 DEF GapTexts
    <3>2. OpeningDerived(p, text, id, 0, GapTexts(p, id, 0, 0))
      BY NoMemberDerived
    <3> QED BY <2>2, <3>1, <3>2 DEF OpeningDerived
  <2> QED BY <1>b, <2>1, <2>2
<1>5. ASSUME NEW id \in Rules(p), NEW d \in DOMAIN Rhs(p, id), NEW before \in Seq(STRING), NEW own \in Seq(STRING),
             <<id, d - 1, before>> \in Q, <<Rhs(p, id)[d], own>> \in W
      PROVE  <<id, d, before \o own>> \in Q
  <2>1. before \o own \in Seq(STRING) /\ d \in Nat /\ d \in DOMAIN p.productions[id].rhs
    BY <1>2, Concatenated
  <2>2. ASSUME NEW lo \in Places(text), NEW hi \in Places(text), lo <= hi, Piece(text, lo, hi) = before \o own
        PROVE  \E calls \in Seq(Nat) : PartDerived(p, text, id, d, lo, hi, calls)
    <3>1. IsCat(Piece(text, lo, hi), before, own) /\ before \in Seq(Letters) /\ own \in Seq(Letters)
      BY <1>1, <2>2 DEF IsCat
    <3>2. PICK mid \in Places(text) : lo <= mid /\ mid <= hi /\ Piece(text, lo, mid) = before /\ Piece(text, mid, hi) = own
      <4>1. lo <= hi
        BY <2>2
      <4> QED BY <3>1, <4>1, PieceSplits
    <3>3. PICK some \in Seq(Nat) : PartDerived(p, text, id, d - 1, lo, mid, some)
      BY <1>b, <1>5, <3>2
    <3>4. PICK more \in Seq(Nat) : Derived(p, text, p.productions[id].rhs[d], mid, hi, more)
      BY <1>2, <1>a, <1>5, <3>2
    <3>5. Gap(p, text, id, d, hi, hi)
      BY DEF Gap
    <3>6. PartDerived(p, text, id, d, lo, hi, some \o more)
      BY <2>1, <3>3, <3>4, <3>5, MemberDerived
    <3>7. some \o more \in Seq(Nat)
      BY Concatenated
    <3> QED BY <3>6, <3>7
  <2> QED BY <1>b, <2>1, <2>2
<1>6. ASSUME NEW id \in Rules(p), NEW u \in Seq(STRING), <<id, Len(Rhs(p, id)), u>> \in Q
      PROVE  <<p.productions[id].lhs, u>> \in W
  <2>1. ASSUME NEW lo \in Places(text), NEW hi \in Places(text), lo <= hi, Piece(text, lo, hi) = u
        PROVE  \E calls \in Seq(Nat) : Derived(p, text, p.productions[id].lhs, lo, hi, calls)
    <3>1. PICK some \in Seq(Nat) : PartDerived(p, text, id, Len(p.productions[id].rhs), lo, hi, some)
      BY <1>2, <1>b, <1>6, <2>1
    <3>2. Derived(p, text, p.productions[id].lhs, lo, hi, Append(some, id - 1))
      BY <3>1, RuleDerived
    <3>3. Append(some, id - 1) \in Seq(Nat)
      <4>1. id - 1 \in Nat
        BY <1>2
      <4> QED BY <4>1
    <3> QED BY <3>2, <3>3
  <2> QED BY <1>2, <1>a, <2>1
<1>7. SaidUnder(p, W, Q)
  BY <1>3, <1>4, <1>5, <1>6 DEF SaidUnder
<1>8. <<"main", text>> \in W
  BY <1>7 DEF Says
<1>9. 0 \in Places(text) /\ Len(text) \in Places(text) /\ 0 <= Len(text) /\ Piece(text, 0, Len(text)) = text
  <2>1. Len(text) \in Nat /\ 0 \in Places(text) /\ Len(text) \in Places(text) /\ 0 <= Len(text)
    BY DEF Places
  <2> DEFINE piece == SubSeq(text, 0 + 1, Len(text))
  <2>2. piece \in Seq(STRING) /\ Len(piece) = Len(text) - 0 /\ \A i \in 1..(Len(text) - 0) : piece[i] = text[0 + i]
    BY <2>1, PieceOf
  <2> HIDE DEF piece
  <2>3. Len(piece) = Len(text) /\ \A i \in 1..Len(text) : piece[i] = text[i]
    BY <2>1, <2>2
  <2>4. piece = text
    BY <2>2, <2>3, SameElements
  <2> QED BY <2>1, <2>4 DEF piece, Piece
<1>10. \E calls \in Seq(Nat) : Derived(p, text, "main", 0, Len(text), calls)
  BY <1>8, <1>9, <1>a
<1> QED BY <1>10 DEF IsSentence, IsReading

\* Members that say something complete their rule.
LEMMA PartCompletes ==
    ASSUME NEW p, NEW id \in Rules(p), Rhs(p, id) \in Seq(STRING),
           \A d \in DOMAIN Rhs(p, id) : \E own \in Seq(STRING) : Says(p, Rhs(p, id)[d], own),
           NEW dot \in 0..Len(Rhs(p, id)), NEW text \in Seq(STRING), SaysPart(p, id, dot, text)
    PROVE  \E rest \in Seq(STRING) : Says(p, p.productions[id].lhs, text \o rest)
<1> DEFINE l == Len(Rhs(p, id))
           lhs == p.productions[id].lhs
           Bad == {m \in Nat : m <= l /\ \E u \in Seq(STRING) :
                      SaysPart(p, id, l - m, u) /\ ~\E rest \in Seq(STRING) : Says(p, lhs, u \o rest)}
<1>1. l \in Nat /\ DOMAIN Rhs(p, id) = 1..l /\ dot \in 0..l
  OBVIOUS
<1> HIDE DEF l, lhs
<1>2. CASE Bad = {}
  <2>1. l - dot \in Nat /\ l - dot <= l /\ l - (l - dot) = dot
    BY <1>1
  <2> QED BY <1>2, <2>1 DEF lhs
<1>3. CASE Bad # {}
  <2>1. PICK m \in Bad : \A n \in Bad : m <= n
    <3>1. Bad \subseteq Nat
      OBVIOUS
    <3> HIDE DEF Bad
    <3> QED BY <1>3, <3>1, HasFirst
  <2>2. PICK u \in Seq(STRING) : SaysPart(p, id, l - m, u) /\ ~\E rest \in Seq(STRING) : Says(p, lhs, u \o rest)
    BY <2>1
  <2>3. m \in Nat /\ m <= l
    BY <2>1
  <2>4. CASE m = 0
    <3>1. l - m = l
      BY <1>1, <2>4
    <3>2. Says(p, lhs, u)
      BY <2>2, <3>1, RuleSays DEF l, lhs
    <3>3. u \o <<>> = u /\ <<>> \in Seq(STRING)
      BY EmptyCat
    <3> QED BY <2>2, <3>2, <3>3
  <2>5. CASE m # 0
    <3> DEFINE d == l - (m - 1)
    <3>1. m - 1 \in Nat /\ m - 1 <= l /\ ~(m <= m - 1) /\ d \in DOMAIN Rhs(p, id) /\ d - 1 = l - m
      BY <1>1, <2>3, <2>5
    <3>2. m - 1 \notin Bad
      BY <2>1, <3>1
    <3>3. \A v \in Seq(STRING) : SaysPart(p, id, d, v) => \E rest \in Seq(STRING) : Says(p, lhs, v \o rest)
      BY <3>1, <3>2
    <3> HIDE DEF d, Bad
    <3>4. PICK own \in Seq(STRING) : Says(p, Rhs(p, id)[d], own)
      BY <3>1
    <3>5. SaysPart(p, id, d, u \o own)
      BY <2>2, <3>1, <3>4, MemberSays
    <3>6. u \o own \in Seq(STRING)
      BY Concatenated
    <3>7. PICK rest \in Seq(STRING) : Says(p, lhs, (u \o own) \o rest)
      BY <3>3, <3>5, <3>6
    <3>8. (u \o own) \o rest = u \o (own \o rest) /\ own \o rest \in Seq(STRING)
      BY CatAssociates, Concatenated
    <3> QED BY <2>2, <3>7, <3>8
  <2> QED BY <2>4, <2>5
<1> QED BY <1>2, <1>3

\* A member of a rule says something if it is a token or its rule does.
LEMMA MemberIsFertile ==
    ASSUME NEW p, WellFormed(p), Plain(p, {}), NEW id \in DOMAIN p.productions, NEW d \in DOMAIN Rhs(p, id),
           IsRule(p, Rhs(p, id)[d]) => \E own \in Seq(STRING) : Says(p, Rhs(p, id)[d], own)
    PROVE  \E own \in Seq(STRING) : Says(p, Rhs(p, id)[d], own)
<1>1. Rhs(p, id)[d] \in STRING /\ ~LrIsSpace(p, Rhs(p, id)[d])
  <2>1. Rhs(p, id) \in Seq(STRING)
    BY DEF WellFormed, Rhs
  <2> QED BY <2>1 DEF Plain
<1>2. CASE ~IsRule(p, Rhs(p, id)[d])
  <2>1. Says(p, Rhs(p, id)[d], <<Rhs(p, id)[d]>>) /\ <<Rhs(p, id)[d]>> \in Seq(STRING)
    BY <1>1, <1>2, TokenSays, Singleton
  <2> QED BY <2>1
<1> QED BY <1>2

LEMMA RulesAreFertile ==
    ASSUME NEW p, WellFormed(p), Plain(p, {}), NEW order \in Seq(STRING), Fertile(p, order), NEW rule \in Rules(p)
    PROVE  \E text \in Seq(STRING) : Says(p, p.productions[rule].lhs, text)
<1> DEFINE Bad == {i \in DOMAIN order : ~\E text \in Seq(STRING) : Says(p, order[i], text)}
<1>1. DOMAIN order = 1..Len(order) /\ Len(order) \in Nat
  OBVIOUS
<1>2. PICK here \in DOMAIN order : order[here] = p.productions[rule].lhs
  BY DEF Fertile
<1>3. CASE Bad = {}
  BY <1>2, <1>3
<1>4. CASE Bad # {}
  <2>1. PICK i \in Bad : \A j \in Bad : i <= j
    <3>1. Bad \subseteq Nat
      BY <1>1
    <3> HIDE DEF Bad
    <3> QED BY <1>4, <3>1, HasFirst
  <2>2. i \in DOMAIN order /\ ~\E text \in Seq(STRING) : Says(p, order[i], text)
    BY <2>1
  <2>3. PICK id \in Rules(p) :
           /\ p.productions[id].lhs = order[i]
           /\ \A d \in DOMAIN Rhs(p, id) :
                 IsRule(p, Rhs(p, id)[d]) => \E j \in 1..(i - 1) : order[j] = Rhs(p, id)[d]
    BY <2>2 DEF Fertile
  <2>4. ASSUME NEW d \in DOMAIN Rhs(p, id) PROVE \E own \in Seq(STRING) : Says(p, Rhs(p, id)[d], own)
    <3>1. ASSUME IsRule(p, Rhs(p, id)[d]) PROVE \E own \in Seq(STRING) : Says(p, Rhs(p, id)[d], own)
      <4>1. PICK j \in 1..(i - 1) : order[j] = Rhs(p, id)[d]
        BY <2>3, <3>1
      <4>2. j \in DOMAIN order /\ ~(i <= j)
        BY <1>1, <2>2
      <4>3. j \notin Bad
        BY <2>1, <4>2
      <4> QED BY <4>1, <4>2, <4>3
    <3>2. id \in DOMAIN p.productions
      BY DEF Rules
    <3> HIDE DEF Bad
    <3> QED BY <3>1, <3>2, MemberIsFertile
  <2>5. Rhs(p, id) \in Seq(STRING) /\ 0 \in 0..Len(Rhs(p, id)) /\ <<>> \in Seq(STRING)
    <3>1. Rhs(p, id) \in Seq(STRING)
      BY DEF WellFormed, Rhs, Rules
    <3> QED BY <3>1
  <2>6. SaysPart(p, id, 0, <<>>)
    BY NothingSays
  <2>7. PICK rest \in Seq(STRING) : Says(p, p.productions[id].lhs, <<>> \o rest)
    BY <2>4, <2>5, <2>6, PartCompletes
  <2>8. <<>> \o rest = rest
    BY EmptyCat
  <2> QED BY <2>2, <2>3, <2>7, <2>8
<1> QED BY <1>3, <1>4

LEMMA TwoCats ==
    ASSUME NEW S, NEW a \in Seq(S), NEW b \in Seq(S), NEW c \in Seq(S), NEW d \in Seq(S)
    PROVE  (a \o (b \o c)) \o d = (a \o b) \o (c \o d) /\ c \o d \in Seq(S) /\ (a \o b) \o c \in Seq(S)
<1> DEFINE u == a \o b
           v == b \o c
<1>1. u \in Seq(S) /\ u \o c = a \o v
  BY Concatenated, CatAssociates
<1>4. u \in Seq(S)
  BY <1>1
<1>2. c \o d \in Seq(S)
  BY Concatenated
<1> HIDE DEF u, v
<1>3. (u \o c) \o d = u \o (c \o d) /\ u \o c \in Seq(S)
  BY <1>4, CatAssociates
<1>5. (a \o v) \o d = u \o (c \o d) /\ a \o v \in Seq(S)
  BY <1>1, <1>3
<1> QED BY <1>1, <1>2, <1>3, <1>5 DEF u, v


\* What a beginning of the start symbol can go on with.
LEMMA BeginningGoesOn ==
    ASSUME NEW p, WellFormed(p), p.productions[0].rhs = <<"main">>, Plain(p, {}),
           NEW order \in Seq(STRING), Fertile(p, order),
           NEW text \in Seq(STRING), BeginsSentence(p, text)
    PROVE  \E rest \in Seq(STRING) : IsSentence(p, text \o rest)
<1> DEFINE W == {x \in STRING \X Seq(STRING) : Says(p, x[1], x[2])}
           Q == {x \in Rules(p) \X Nat \X Seq(STRING) : SaysPart(p, x[1], x[2], x[3])}
           B == {x \in STRING \X Seq(STRING) :
                    LrIsSpace(p, x[1]) \/ \E rest \in Seq(STRING) : Says(p, x[1], x[2] \o rest)}
<1>a. \A x, u : <<x, u>> \in W <=> x \in STRING /\ u \in Seq(STRING) /\ Says(p, x, u)
  OBVIOUS
<1>b. \A id, d, u : <<id, d, u>> \in Q <=> id \in Rules(p) /\ d \in Nat /\ u \in Seq(STRING) /\ SaysPart(p, id, d, u)
  OBVIOUS
<1>c. \A x, u : <<x, u>> \in B <=>
         x \in STRING /\ u \in Seq(STRING) /\ (LrIsSpace(p, x) \/ \E rest \in Seq(STRING) : Says(p, x, u \o rest))
  OBVIOUS
<1> HIDE DEF W, Q, B
<1>1. \A id \in Rules(p) : /\ Rhs(p, id) \in Seq(STRING) /\ DOMAIN Rhs(p, id) = 1..Len(Rhs(p, id))
                           /\ Len(Rhs(p, id)) \in Nat /\ p.productions[id].lhs \in STRING /\ id \in DOMAIN p.productions
  BY DEF WellFormed, Rules, Rhs
<1>2. SaidUnder(p, W, Q)
  <2>1. ASSUME NEW token \in STRING, ~IsRule(p, token), ~LrIsSpace(p, token) PROVE <<token, <<token>>>> \in W
    BY <1>a, <2>1, TokenSays, Singleton
  <2>2. ASSUME NEW id \in Rules(p) PROVE <<id, 0, <<>>>> \in Q
    <3>1. <<>> \in Seq(STRING) /\ 0 \in Nat
      OBVIOUS
    <3> QED BY <1>b, <3>1, NothingSays
  <2>3. ASSUME NEW id \in Rules(p), NEW d \in DOMAIN Rhs(p, id), NEW before \in Seq(STRING), NEW own \in Seq(STRING),
               <<id, d - 1, before>> \in Q, <<Rhs(p, id)[d], own>> \in W
        PROVE  <<id, d, before \o own>> \in Q
    <3>1. SaysPart(p, id, d - 1, before) /\ Says(p, Rhs(p, id)[d], own)
      BY <1>a, <1>b, <2>3
    <3>2. SaysPart(p, id, d, before \o own) /\ before \o own \in Seq(STRING) /\ d \in Nat
      BY <1>1, <3>1, MemberSays, Concatenated
    <3> QED BY <1>b, <3>2
  <2>4. ASSUME NEW id \in Rules(p), NEW u \in Seq(STRING), <<id, Len(Rhs(p, id)), u>> \in Q
        PROVE  <<p.productions[id].lhs, u>> \in W
    <3>1. SaysPart(p, id, Len(Rhs(p, id)), u)
      BY <1>b, <2>4
    <3>2. Says(p, p.productions[id].lhs, u)
      BY <3>1, RuleSays
    <3> QED BY <1>1, <1>a, <3>2
  <2> QED BY <2>1, <2>2, <2>3, <2>4 DEF SaidUnder
<1>3. \A id \in DOMAIN p.productions : \A d \in DOMAIN Rhs(p, id) : \E own \in Seq(STRING) : Says(p, Rhs(p, id)[d], own)
  <2> TAKE id \in DOMAIN p.productions
  <2> TAKE d \in DOMAIN Rhs(p, id)
  <2>1. ASSUME IsRule(p, Rhs(p, id)[d]) PROVE \E own \in Seq(STRING) : Says(p, Rhs(p, id)[d], own)
    <3>1. PICK rule \in Rules(p) : p.productions[rule].lhs = Rhs(p, id)[d]
      BY <2>1 DEF IsRule, Rules
    <3> QED BY <3>1, RulesAreFertile
  <2> QED BY <2>1, MemberIsFertile
<1>4. BegunUnder(p, W, Q, B)
  <2>1. ASSUME NEW symbol \in STRING PROVE <<symbol, <<>>>> \in B
    <3>1. <<>> \in Seq(STRING) /\ \A u \in Seq(STRING) : <<>> \o u = u
      BY EmptyCat
    <3>2. CASE IsRule(p, symbol)
      <4>1. PICK rule \in Rules(p) : p.productions[rule].lhs = symbol
        BY <3>2 DEF IsRule, Rules
      <4>2. PICK u \in Seq(STRING) : Says(p, symbol, u)
        BY <4>1, RulesAreFertile
      <4>3. Says(p, symbol, <<>> \o u)
        BY <3>1, <4>2
      <4> QED BY <1>c, <3>1, <4>3
    <3>3. CASE ~IsRule(p, symbol) /\ ~LrIsSpace(p, symbol)
      <4>1. Says(p, symbol, <<symbol>>) /\ <<symbol>> \in Seq(STRING)
        BY <3>3, TokenSays, Singleton
      <4>2. Says(p, symbol, <<>> \o <<symbol>>)
        BY <3>1, <4>1
      <4> QED BY <1>c, <3>1, <4>1, <4>2
    <3>4. CASE LrIsSpace(p, symbol)
      BY <1>c, <3>1, <3>4
    <3> QED BY <3>2, <3>3, <3>4
  <2>2. ASSUME NEW symbol \in STRING, NEW u \in Seq(STRING), <<symbol, u>> \in W PROVE <<symbol, u>> \in B
    <3>1. Says(p, symbol, u)
      BY <1>a, <2>2
    <3>2. u \o <<>> = u /\ <<>> \in Seq(STRING)
      BY EmptyCat
    <3>3. Says(p, symbol, u \o <<>>)
      BY <3>1, <3>2
    <3> QED BY <1>c, <3>2, <3>3
  <2>3. ASSUME NEW id \in Rules(p), NEW d \in DOMAIN Rhs(p, id), NEW before \in Seq(STRING), NEW own \in Seq(STRING),
               <<id, d - 1, before>> \in Q, <<Rhs(p, id)[d], own>> \in B
        PROVE  <<p.productions[id].lhs, before \o own>> \in B
    <3>1. SaysPart(p, id, d - 1, before)
      BY <1>b, <2>3
    <3>2. ~LrIsSpace(p, Rhs(p, id)[d])
      BY <1>1 DEF Plain
    <3>3. PICK more \in Seq(STRING) : Says(p, Rhs(p, id)[d], own \o more)
      BY <1>c, <2>3, <3>2
    <3>4. own \o more \in Seq(STRING) /\ before \o own \in Seq(STRING) /\ before \o (own \o more) \in Seq(STRING)
          /\ (before \o own) \o more = before \o (own \o more)
      <4>1. own \o more \in Seq(STRING) /\ before \o own \in Seq(STRING)
        BY Concatenated
      <4> QED BY <4>1, Concatenated, CatAssociates
    <3>5. SaysPart(p, id, d, before \o (own \o more))
      BY <3>1, <3>3, <3>4, MemberSays
    <3>6. d \in 0..Len(Rhs(p, id))
      BY <1>1
    <3>7. PICK rest \in Seq(STRING) : Says(p, p.productions[id].lhs, (before \o (own \o more)) \o rest)
      <4> DEFINE u == before \o (own \o more)
      <4>1. u \in Seq(STRING) /\ SaysPart(p, id, d, u) /\ Rhs(p, id) \in Seq(STRING)
        BY <1>1, <3>4, <3>5
      <4>2. \A e \in DOMAIN Rhs(p, id) : \E x \in Seq(STRING) : Says(p, Rhs(p, id)[e], x)
        BY <1>1, <1>3
      <4> HIDE DEF u
      <4>3. \E rest \in Seq(STRING) : Says(p, p.productions[id].lhs, u \o rest)
        BY <3>6, <4>1, <4>2, PartCompletes
      <4> QED BY <4>3 DEF u
    <3>8. (before \o (own \o more)) \o rest = (before \o own) \o (more \o rest) /\ more \o rest \in Seq(STRING)
      <4>1. /\ (before \o (own \o more)) \o rest = (before \o own) \o (more \o rest) /\ more \o rest \in Seq(STRING)
            /\ (before \o own) \o more \in Seq(STRING)
        BY TwoCats
      <4> QED BY <4>1
    <3> QED BY <1>1, <1>c, <3>4, <3>7, <3>8
  <2> QED BY <2>1, <2>2, <2>3 DEF BegunUnder
<1>5. <<"main", text>> \in B
  BY <1>2, <1>4 DEF BeginsSentence
<1>6. ~LrIsSpace(p, "main")
  <2>1. 0 \in DOMAIN p.productions /\ 1 \in DOMAIN Rhs(p, 0) /\ Rhs(p, 0)[1] = "main"
    BY DEF WellFormed, Rhs
  <2> QED BY <2>1 DEF Plain
<1>7. PICK rest \in Seq(STRING) : Says(p, "main", text \o rest)
  BY <1>5, <1>6, <1>c
<1>8. text \o rest \in Seq(STRING)
  BY Concatenated
<1>9. IsSentence(p, text \o rest)
  BY <1>7, <1>8, SaidIsDerived
<1> QED BY <1>9

\* There are no more tokens than there is text.
LEMMA SolidIsShort ==
    ASSUME NEW p, NEW text \in Seq(STRING)
    PROVE  Len(Solid(p, text)) <= Len(text)
<1> DEFINE n == Len(text)
           from == SolidFrom(p, text)
           Bad == {l \in Nat : l <= n /\ ~(Len(from[n - l]) <= l)}
<1>1. n \in Nat /\ n - n = 0
  OBVIOUS
<1>2. CASE Bad = {}
  <2>1. Len(from[n - n]) <= n
    BY <1>1, <1>2
  <2> QED BY <1>1, <2>1 DEF Solid
<1>3. CASE Bad # {}
  <2>1. Bad \subseteq Nat
    OBVIOUS
  <2>2. PICK l \in Bad : \A other \in Bad : l <= other
    <3> HIDE DEF Bad
    <3> QED BY <1>3, <2>1, HasFirst
  <2> DEFINE j == n - l
  <2>3. l \in Nat /\ l <= n /\ ~(Len(from[j]) <= l) /\ j \in 0..(n + 1) /\ j <= n
    BY <1>1, <2>2
  <2>4. from[j] = SolidAt(p, text, from, j)
    <3> HIDE DEF j
    <3> QED BY <1>1, <2>3, SolidUnfolds
  <2>5. CASE j >= n
    <3>1. from[j] = <<>>
      BY <2>4, <2>5 DEF SolidAt
    <3> QED BY <2>3, <3>1
  <2>6. CASE ~(j >= n)
    <3>1. l - 1 \in Nat /\ l - 1 <= n /\ ~(l <= l - 1) /\ n - (l - 1) = j + 1 /\ j + 1 \in 0..(n + 1) /\ j + 1 \in 1..n
      BY <1>1, <2>3, <2>6
    <3>2. Len(from[j + 1]) <= l - 1
      <4>1. l - 1 \notin Bad
        BY <2>2, <3>1
      <4> QED BY <3>1, <4>1
    <3> DEFINE rest == from[j + 1]
               token == text[j + 1]
    <3>3. rest \in Seq(STRING)
      <4> HIDE DEF j
      <4> QED BY <3>1, SolidTyped
    <3>4. token \in STRING
      <4> HIDE DEF j
      <4> QED BY <3>1
    <3>5. from[j] \in {<<>>, rest, <<token>> \o rest}
      <4> HIDE DEF from, j
      <4>1. SolidAt(p, text, from, j) \in {<<>>, from[j + 1], <<text[j + 1]>> \o from[j + 1]}
        BY Zenon DEF SolidAt
      <4> QED BY <2>4, <4>1
    <3> HIDE DEF rest, token, from, j
    <3>6. Len(<<token>> \o rest) = Len(rest) + 1 /\ Len(rest) \in Nat
      BY <3>3, <3>4
    <3>7. Len(rest) <= l - 1
      BY <3>2 DEF rest
    <3>8. Len(from[j]) <= l
      BY <2>3, <3>1, <3>5, <3>6, <3>7
    <3> QED BY <2>3, <3>8
  <2> QED BY <2>5, <2>6
<1> QED BY <1>2, <1>3

\* What has been read of a text of at most n tokens is a beginning by name.
LEMMA ReadIsNamed ==
    ASSUME NEW p, WellFormed(p), NEW text \in Seq(STRING), NEW at \in Places(text),
           NEW words, NEW begins, NEW n \in Nat, BeginningsClosed(p, words, begins, n), Len(text) <= n,
           BeginsSentence(p, Tokens(p, text, 0, at))
    PROVE  Solid(p, SubSeq(text, 1, at)) \in begins["main"]
<1> DEFINE read == SubSeq(text, 1, at)
           tokens == Solid(p, read)
<1>1. read \in Seq(STRING) /\ Len(read) = at /\ at \in Nat /\ at <= Len(text) /\ Len(text) \in Nat
  <2>1. at \in 0..Len(text)
    BY DEF Places
  <2> QED BY <2>1, Prefix
<1>2. tokens = Tokens(p, text, 0, at)
  BY DEF Tokens
<1> HIDE DEF read
<1>3. tokens \in Seq(STRING) /\ Len(tokens) <= at /\ Len(tokens) \in Nat
  BY <1>1, SolidIsTyped, SolidIsShort
<1>4. Len(tokens) <= n /\ BeginsSentence(p, tokens)
  BY <1>1, <1>2, <1>3
<1> HIDE DEF tokens
<1>5. tokens \in begins["main"]
  BY <1>3, <1>4, BeginningsHold
<1> QED BY <1>5 DEF tokens, read
=============================================================================
