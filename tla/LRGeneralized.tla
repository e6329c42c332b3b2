--------------------------- MODULE LRGeneralized ---------------------------
(***************************************************************************)
(* The generalized LR driver lr_parse_generalized, used by parsers with    *)
(* conflict cells that no lookahead decides.  It follows every candidate   *)
(* action on stacks that share their prefixes, packs the reductions into a *)
(* forest, and runs the semantic callbacks only when the whole input turns *)
(* out to have one reading.  Stacks and forest nodes are named by their    *)
(* position, from 1; stack 1 is the empty one.                             *)
(***************************************************************************)
EXTENDS LRGenerated, LRCompleteness, FiniteSets, SequencesExt

CONSTANTS
    Parsers,      \* the parsers, a function from their names to tables
    Inputs,       \* the token sequences each of them is run on
    NodeLimit,    \* how many stacks and forest nodes a run of each may make
    Readings,     \* of every input, the reductions of each of its readings
    Viable        \* the beginnings of sentences of each, whitespace aside

ASSUME NodeLimitAssumption == NodeLimit \in [DOMAIN Parsers -> Nat]

ASSUME TablesAssumption ==
    \A id \in DOMAIN Parsers : Coherent(Parsers[id]) /\ OpenCellsSound(Parsers[id])

\* The augmented production is that of the rule main (prepareProductions).
ASSUME StartAssumption == \A id \in DOMAIN Parsers : Parsers[id].productions[0].rhs = <<"main">>

ASSUME InputsAssumption ==
    \A id \in DOMAIN Parsers : \A text \in Inputs[id] :
        text \in Seq(STRING) /\ \A i \in DOMAIN text : text[i] # EndOfInput

VARIABLES
    parser, tables, input,
    at,           \* the position, which is also the cursor
    stacks,       \* a sequence of [previous, state, node]
    forest,       \* a sequence of [key, span, alternatives]
    active,       \* the stacks the round starts from
    pending,      \* the stacks the round still has to look at, in order
    closure,      \* the stacks the round has met
    shifted,      \* the stacks of the next round
    top, todo,    \* the stack under work and its actions not yet followed
    roots,        \* the forest nodes of complete readings
    frames,       \* the walk over the chosen tree: [node, child]
    calls,        \* the lr_reduce callbacks made, by rule
    phase,        \* "skip", "round", "evaluate", "accepted", "failed"
    failure

branches == <<stacks, forest, active, pending, closure, shifted, top, todo, roots>>
verdict == <<phase, failure>>
source == <<parser, tables, input>>
vars == <<source, at, branches, frames, calls, verdict>>

P == tables
Root == 1
None == 0
Bottom == [previous |-> None, state |-> 0, node |-> None]

Init ==
    /\ parser \in DOMAIN Parsers /\ tables = Parsers[parser]
    /\ input \in Inputs[parser]
    /\ at = 0
    /\ stacks = <<Bottom>> /\ forest = <<>>
    /\ active = {Root} /\ pending = <<>> /\ closure = {} /\ shifted = {}
    /\ top = None /\ todo = {} /\ roots = {}
    /\ frames = <<>> /\ calls = <<>>
    /\ phase = "skip" /\ failure = "none"

Fail(reason) == phase' = "failed" /\ failure' = reason

\* The budget of _tick that grows with the data.
OverLimit == Len(forest) + Len(stacks) > NodeLimit[parser]

-----------------------------------------------------------------------------
(* Interning: the position of an equal entry, or of a new one at the end. *)

Key(terminal, symbol, span) == <<terminal, symbol, span>>

Node(terminal, symbol, span) ==
    LET i == SelectInSeq(forest, LAMBDA n : n.key = Key(terminal, symbol, span))
    IN  IF i = 0 THEN Len(forest) + 1 ELSE i

WithNode(terminal, symbol, span) ==
    IF Node(terminal, symbol, span) <= Len(forest) THEN forest
    ELSE Append(forest, [key |-> Key(terminal, symbol, span), span |-> span, alternatives |-> {}])

Stack(previous, state, node) ==
    LET i == SelectInSeq(stacks, LAMBDA s : s = [previous |-> previous, state |-> state, node |-> node])
    IN  IF i = 0 THEN Len(stacks) + 1 ELSE i

\* A fault: the new entry gets a position but is not stored.
WithStackUnstored(previous, state, node) == stacks

WithStack(previous, state, node) ==
    IF Stack(previous, state, node) <= Len(stacks) THEN stacks
    ELSE Append(stacks, [previous |-> previous, state |-> state, node |-> node])

-----------------------------------------------------------------------------
(* One round: every stack meets every action for the next window. *)

AtSpace == at < Len(input) /\ LrIsSpace(P, input[at + 1])

SkipSpace ==
    /\ phase = "skip" /\ AtSpace
    /\ at' = at + 1
    /\ UNCHANGED <<source, branches, frames, calls, verdict>>

\* A set of numbers in ascending order, as std::set keeps it.
Ascending(S) ==
    [i \in 1..Cardinality(S) |-> CHOOSE n \in S : Cardinality({m \in S : m < n}) = i - 1]

OpenRound ==
    /\ phase = "skip" /\ ~AtSpace
    /\ phase' = "round"
    /\ pending' = Ascending(active) /\ closure' = active /\ shifted' = {}
    /\ UNCHANGED <<source, at, stacks, forest, active, top, todo, roots, frames, calls, failure>>

\* A fault: the first action of a conflict cell wins.
ActionsOfFirst(stack) ==
    LET window == Window(P, input, at)
        selected == LrAction(P, stacks[stack].state, window)
    IN  IF selected = Conflict THEN {CHOOSE a \in LrConflict(P, stacks[stack].state, window) : TRUE}
        ELSE IF selected = Invalid THEN {} ELSE {selected}

ActionsOf(stack) ==
    LET window == Window(P, input, at)
        selected == LrAction(P, stacks[stack].state, window)
    IN  IF selected = Conflict THEN LrConflict(P, stacks[stack].state, window)
        ELSE IF selected = Invalid THEN {} ELSE {selected}

TakeTop ==
    /\ phase = "round" /\ todo = {} /\ pending # <<>>
    /\ IF OverLimit THEN Fail("resource limit") /\ UNCHANGED branches
       ELSE /\ top' = Head(pending) /\ todo' = ActionsOf(Head(pending))
            /\ pending' = Tail(pending)
            /\ UNCHANGED <<stacks, forest, active, closure, shifted, roots, verdict>>
    /\ UNCHANGED <<source, at, frames, calls>>

\* One action of the top stack, in any order of its candidates.
Following(action) ==
    /\ phase = "round" /\ action \in todo
    /\ todo' = todo \ {action}
    /\ UNCHANGED <<source, at, active, top, frames, calls>>

GiveUp ==
    /\ phase = "round" /\ todo # {} /\ OverLimit
    /\ Fail("resource limit")
    /\ UNCHANGED <<source, at, branches, frames, calls>>

BoundaryViolation(span) ==
    \/ span.begin # 0 /\ ~span.leading
    \/ at > span.end /\ ~span.trailing

AcceptBranch ==
    \E action \in todo :
        /\ action.type = "accept" /\ ~OverLimit /\ Following(action)
        /\ roots' = IF /\ at = Len(input) /\ top # Root
                       /\ stacks[top].previous = Root
                       /\ ~BoundaryViolation(forest[stacks[top].node].span)
                    THEN roots \cup {stacks[top].node} ELSE roots
        /\ UNCHANGED <<stacks, forest, pending, closure, shifted, verdict>>

ShiftBranch ==
    \E action \in todo :
        /\ action.type = "shift" /\ ~OverLimit /\ Following(action)
        /\ IF at = Len(input) THEN UNCHANGED <<stacks, forest, shifted>>
           ELSE LET token == input[at + 1]
                    leaf == Node(TRUE, token, TokenSpan(at))
                IN  /\ forest' = WithNode(TRUE, token, TokenSpan(at))
                    /\ stacks' = WithStack(top, action.state, leaf)
                    /\ shifted' = shifted \cup {Stack(top, action.state, leaf)}
        /\ UNCHANGED <<pending, closure, roots, verdict>>

\* The members popped for a right-hand side: at most those above the root.
Popped(stack, count) ==
    LET walk[i \in 0..count] ==
            IF i = 0 THEN [base |-> stack, children |-> <<>>]
            ELSE LET w == walk[i - 1]
                 IN  IF w.base = Root THEN w
                     ELSE [base |-> stacks[w.base].previous,
                           children |-> <<stacks[w.base].node>> \o w.children]
    IN  walk[count]

SpansOf(children) == [i \in DOMAIN children |-> forest[children[i]].span]

WithReading(nodes, node, rule, children) ==
    [nodes EXCEPT ![node].alternatives = @ \cup {[rule |-> rule, children |-> children]}]

\* A fault: whitespace between the members is not looked at.
ReductionsAnywhere(rule, children) ==
    IF Len(children) # LrLength(P, rule) THEN {}
    ELSE {ReducedSpan(P, rule, SpansOf(children), at)}

\* The span of a reduction, none when it touches whitespace where its rule has
\* none: that branch is dropped without a word.
Reductions(rule, children) ==
    IF Len(children) # LrLength(P, rule) \/ SpaceViolation(P, rule, SpansOf(children))
    THEN {} ELSE {ReducedSpan(P, rule, SpansOf(children), at)}

\* A fault: a stack the round has met is looked at again.
ReduceOntoAgain(base, rule, children, span) ==
    LET lhs == LrLhs(P, rule)
        node == Node(FALSE, lhs, span)
        target == P.goto[<<stacks[base].state, lhs>>]
        dest == Stack(base, target, node)
    IN  /\ forest' = WithReading(WithNode(FALSE, lhs, span), node, rule, children)
        /\ stacks' = WithStack(base, target, node)
        /\ closure' = closure \cup {dest}
        /\ pending' = Append(pending, dest)

ReduceOnto(base, rule, children, span) ==
    LET lhs == LrLhs(P, rule)
        node == Node(FALSE, lhs, span)
        target == P.goto[<<stacks[base].state, lhs>>]
        dest == Stack(base, target, node)
    IN  /\ forest' = WithReading(WithNode(FALSE, lhs, span), node, rule, children)
        /\ stacks' = WithStack(base, target, node)
        /\ closure' = closure \cup {dest}
        /\ pending' = IF dest \in closure THEN pending ELSE Append(pending, dest)

ReduceBranch ==
    \E action \in todo :
        /\ action.type = "reduce" /\ ~OverLimit /\ Following(action)
        /\ \E popped \in {Popped(top, LrLength(P, action.state))} :
              \/ /\ Reductions(action.state, popped.children) = {}
                 /\ UNCHANGED <<stacks, forest, pending, closure>>
              \/ \E span \in Reductions(action.state, popped.children) :
                    ReduceOnto(popped.base, action.state, popped.children, span)
        /\ UNCHANGED <<shifted, roots, verdict>>

RoundOver == phase = "round" /\ todo = {} /\ pending = <<>>

NextToken ==
    /\ RoundOver /\ at < Len(input)
    /\ IF shifted = {} THEN Fail("unexpected token") /\ UNCHANGED <<at, active>>
       ELSE /\ active' = shifted /\ at' = at + 1
            /\ phase' = "skip" /\ UNCHANGED failure
    /\ UNCHANGED <<source, stacks, forest, pending, closure, shifted, top, todo, roots, frames, calls>>

-----------------------------------------------------------------------------
(* The verdict. *)

ChildrenOf(nodes, node) == UNION {ToSet(a.children) : a \in nodes[node].alternatives}

\* The nodes of the complete readings.
Below(nodes, tops) ==
    LET grow[known \in SUBSET DOMAIN nodes] ==
            LET next == known \cup UNION {ChildrenOf(nodes, n) : n \in known}
            IN  IF next = known THEN known ELSE grow[next]
    IN  grow[tops]

CyclicReading(nodes, tops) ==
    \E n \in Below(nodes, tops) : n \in Below(nodes, ChildrenOf(nodes, n))

\* A fault: the count of readings saturates at one.
CapAtOne(n) == IF n > 1 THEN 1 ELSE n

Cap(n) == IF n > 2 THEN 2 ELSE n

\* How many trees a node stands for, 2 for more than one.
Ways(nodes, tops) ==
    LET ways[n \in Below(nodes, tops)] ==
            LET product(a) == FoldLeft(LAMBDA acc, c : Cap(acc * ways[c]), 1, a.children)
                trees == FoldLeft(LAMBDA acc, a : Cap(acc + product(a)), 0,
                                  SetToSeq(nodes[n].alternatives))
            IN  IF nodes[n].key[1] THEN 1 ELSE trees
    IN  ways

Total(nodes, tops) ==
    LET ways == Ways(nodes, tops)
    IN  FoldLeft(LAMBDA acc, n : Cap(acc + ways[n]), 0, SetToSeq(tops))

Judge ==
    /\ RoundOver /\ at = Len(input)
    /\ IF roots = {} THEN Fail("unexpected end") /\ UNCHANGED frames
       ELSE IF CyclicReading(forest, roots) \/ Total(forest, roots) # 1 THEN Fail("ambiguous") /\ UNCHANGED frames
       ELSE /\ phase' = "evaluate" /\ UNCHANGED failure
            /\ frames' = <<[node |-> CHOOSE n \in roots : TRUE, child |-> 0]>>
    /\ UNCHANGED <<source, at, branches, calls>>

\* The first alternative of a node: there is only one in a single reading.
Chosen(node) == CHOOSE a \in forest[node].alternatives : TRUE
Frame == Last(frames)
MoreChildren == ~forest[Frame.node].key[1] /\ Frame.child < Len(Chosen(Frame.node).children)

\* A fault: the children are evaluated from the last to the first.
DescendBackwards ==
    /\ phase = "evaluate" /\ MoreChildren
    /\ LET children == Chosen(Frame.node).children
       IN  frames' = Append([frames EXCEPT ![Len(frames)].child = @ + 1],
                            [node |-> children[Len(children) - Frame.child], child |-> 0])
    /\ UNCHANGED <<source, at, branches, calls, verdict>>

Descend ==
    /\ phase = "evaluate" /\ MoreChildren
    /\ frames' = Append([frames EXCEPT ![Len(frames)].child = @ + 1],
                        [node |-> Chosen(Frame.node).children[Frame.child + 1], child |-> 0])
    /\ UNCHANGED <<source, at, branches, calls, verdict>>

Callback ==
    /\ phase = "evaluate" /\ ~MoreChildren
    /\ calls' = IF forest[Frame.node].key[1] THEN calls ELSE Append(calls, Chosen(Frame.node).rule)
    /\ frames' = Front(frames)
    /\ phase' = IF Len(frames) = 1 THEN "accepted" ELSE phase
    /\ UNCHANGED <<source, at, branches, failure>>

-----------------------------------------------------------------------------
Driver ==
    \/ SkipSpace \/ OpenRound \/ TakeTop \/ GiveUp \/ AcceptBranch \/ ShiftBranch \/ ReduceBranch
    \/ NextToken \/ Judge \/ Descend \/ Callback

Done == phase \in {"accepted", "failed"} /\ UNCHANGED vars

Next == Driver \/ Done

Spec == Init /\ [][Next]_vars

\* The driver is one loop that nothing suspends.
FairSpec == Spec /\ WF_vars(Driver)

-----------------------------------------------------------------------------
SpanType == [begin : 0..Len(input), end : 0..Len(input),
             leading : BOOLEAN, trailing : BOOLEAN, empty : BOOLEAN]

\* Stacks and nodes refer to earlier stacks and to existing nodes, and the
\* sets of a round to existing stacks.
TypeOK ==
    /\ at \in 0..Len(input)
    /\ \A i \in DOMAIN stacks :
          /\ stacks[i].previous \in 0..(i - 1)
          /\ stacks[i].state \in DOMAIN P.items
          /\ stacks[i].node \in 0..Len(forest)
    /\ \A i \in DOMAIN forest : forest[i].span \in SpanType
    /\ active \cup closure \cup shifted \cup ToSet(pending) \subseteq DOMAIN stacks
    /\ roots \subseteq DOMAIN forest
    /\ phase \in {"skip", "round", "evaluate", "accepted", "failed"}
    /\ failure \in {"none", "unexpected token", "unexpected end", "ambiguous", "resource limit"}

\* What is accepted has exactly one reading, and the callbacks made for it are
\* the reductions of that reading, each once and children first.
AcceptsTheOnlyReading == phase = "accepted" => Readings[parser][input] = {calls}

\* An input with one reading is never refused, however long the wrong branches
\* live: only the resource limit may stop it.
OneReadingIsEnough ==
    phase = "failed" /\ Cardinality(Readings[parser][input]) = 1 => failure = "resource limit"

\* Ambiguity is reported for inputs with several readings, and for no other:
\* whitespace that decides between readings does decide.
AmbiguityIsReal ==
    phase = "failed" /\ failure # "resource limit" =>
        (failure = "ambiguous" <=> Cardinality(Readings[parser][input]) > 1)

\* No semantic callback runs before the input is known to have one reading.
NoCallbackOnDoubt == calls # <<>> => Cardinality(Readings[parser][input]) = 1

\* A branch dies at the first token no sentence can have there: what the
\* branches have consumed begins some sentence.
BranchesAreViable == Solid(P, SubSeq(input, 1, at)) \in Viable[parser]

\* Every parse ends: on nullable and cyclic rules because a round meets each
\* stack once, and where there is no end of new stacks by the limit.
Terminates == <>(phase \in {"accepted", "failed"})

-----------------------------------------------------------------------------
(* When the tables refuse no sentence.                                       *)

\* The tables leave nothing out of what aheads names for each of them, and no
\* rule has the name of a token; conflict cells may be left open.
Thorough(aheads) ==
    \A id \in DOMAIN Parsers :
        /\ LeavesNothingOut(Parsers[id], aheads[id])
        /\ \A text \in Inputs[id] : \A i \in DOMAIN text : ~IsRule(Parsers[id], text[i])
=============================================================================
