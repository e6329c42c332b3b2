----------------------------- MODULE LRMachine -----------------------------
(***************************************************************************)
(* The deterministic LR driver lr_parse, run on the tables of any of a set *)
(* of parsers and on any of their inputs, together with the two recovery   *)
(* hooks a parser can have: generated fail blocks, whose body may make any *)
(* sequence of ctx calls, and a hand-written hook that deletes a token.    *)
(* One turn of the driver's loop is one step, and so is every turn of the  *)
(* inner whitespace loop and every ctx call of a fail block.               *)
(***************************************************************************)
EXTENDS LRDerivations, LRCompleteness, FiniteSets

CONSTANTS
    Parsers,          \* the parsers, a function from their names to tables
    Inputs,           \* the token sequences each of them is run on
    Hook,             \* the recovery of each: "none", "fail block", "delete"
    Blocks,           \* the ctx calls the fail blocks of each may make
    ReportFirst,      \* the parsers whose fail blocks start with ctx.error
    MaxErrors,        \* State::max_errors
    MaxTotalSkipped,  \* State::max_total_skipped
    Longest,          \* the length of the longest input
    Language,         \* what every symbol of each parser stands for, up to there
    Viable            \* the beginnings of sentences of each, whitespace aside

Calls == {"error", "skip", "take", "insert", "retry", "abort"}

ASSUME HooksAssumption ==
    \A id \in DOMAIN Parsers :
        Hook[id] \in {"none", "fail block", "delete"} /\ Blocks[id] \subseteq Calls

ASSUME TablesAssumption == \A id \in DOMAIN Parsers : Coherent(Parsers[id])

\* The augmented production is that of the rule main (prepareProductions).
ASSUME StartAssumption == \A id \in DOMAIN Parsers : Parsers[id].productions[0].rhs = <<"main">>

ASSUME InputsAssumption ==
    \A id \in DOMAIN Parsers : \A text \in Inputs[id] :
        text \in Seq(STRING) /\ \A i \in DOMAIN text : text[i] # EndOfInput

\* Language leaves out nothing the productions derive.
ASSUME LanguageAssumption ==
    /\ Longest \in Nat
    /\ \A id \in DOMAIN Parsers :
          /\ \A text \in Inputs[id] :
                Len(text) <= Longest /\ \A i \in DOMAIN text : <<text[i]>> \in Language[id][text[i]]
          /\ WordsClosed(Parsers[id], Language[id], Longest)

ASSUME BudgetsAssumption == MaxErrors \in Nat /\ MaxTotalSkipped \in Nat

VARIABLES
    parser, tables,   \* which parser runs, and its tables
    input,            \* its tokens
    at, cursor,       \* region.pos and region.cursor
    states, values, spans,
    recoveredPrefix,
    diagnostics,      \* the size of errors_
    phase,            \* "decide", "fail block", "accepted", "failed"
    failure,          \* why it failed
    host,             \* recovery_state_: [reported, skipped]
    ctx               \* FailContext: [before, begin, skipped, requested]

stack == <<states, values, spans>>
source == <<parser, tables, input>>
vars == <<source, at, cursor, stack, recoveredPrefix, diagnostics, phase,
          failure, host, ctx>>

P == tables
Top == states[Len(states)]
AtSpace == at < Len(input) /\ LrIsSpace(P, input[at + 1])
Decision == LrAction(P, Top, Window(P, input, at))

Unspent == [reported |-> 0, skipped |-> 0]
NoContext == [before |-> 0, begin |-> 0, skipped |-> 0, requested |-> "none"]

Init ==
    /\ parser \in DOMAIN Parsers /\ tables = Parsers[parser]
    /\ input \in Inputs[parser]
    /\ at = 0 /\ cursor = 0
    /\ states = <<0>> /\ values = <<>> /\ spans = <<>>
    /\ recoveredPrefix = FALSE
    /\ diagnostics = 0
    /\ phase = "decide" /\ failure = "none"
    /\ host = Unspent
    /\ ctx = NoContext

Fail(reason) == phase' = "failed" /\ failure' = reason

-----------------------------------------------------------------------------
(* The turns of the driver. *)

\* A fault: the whitespace loop does not move.
SkipSpaceInPlace ==
    /\ phase = "decide" /\ AtSpace
    /\ UNCHANGED vars

SkipSpace ==
    /\ phase = "decide" /\ AtSpace
    /\ at' = at + 1 /\ cursor' = cursor + 1
    /\ UNCHANGED <<source, stack, recoveredPrefix, diagnostics, phase, failure, host, ctx>>

Deciding(type) == phase = "decide" /\ ~AtSpace /\ Decision.type = type

\* A fault: no span is pushed with the value.
PushWithoutSpan(state, value, span) ==
    /\ states' = Append(states, state)
    /\ values' = Append(values, value)
    /\ UNCHANGED spans

Push(state, value, span) ==
    /\ states' = Append(states, state)
    /\ values' = Append(values, value)
    /\ spans' = Append(spans, span)

ShiftToken ==
    /\ Deciding("shift")
    /\ IF at = Len(input)
       THEN Fail("shift past end of input") /\ UNCHANGED <<at, cursor, stack>>
       ELSE /\ Push(Decision.state, input[at + 1], TokenSpan(cursor))
            /\ at' = at + 1 /\ cursor' = cursor + 1
            /\ UNCHANGED <<phase, failure>>
    /\ UNCHANGED <<source, recoveredPrefix, diagnostics, host, ctx>>

\* The reduction proper, once its members are known to be on the stack.
ReduceTo(rule, base) ==
    LET children == SubSeq(spans, base + 1, Len(spans))
        target == <<states[base + 1], LrLhs(P, rule)>>
    IN  IF SpaceViolation(P, rule, children)
        THEN Fail("whitespace not allowed") /\ UNCHANGED stack
        ELSE IF target \notin DOMAIN P.goto
        THEN Fail("no goto") /\ UNCHANGED stack
        ELSE /\ states' = Append(SubSeq(states, 1, base + 1), P.goto[target])
             /\ values' = Append(SubSeq(values, 1, base), LrLhs(P, rule))
             /\ spans' = Append(SubSeq(spans, 1, base), ReducedSpan(P, rule, children, cursor))
             /\ UNCHANGED <<phase, failure>>

ReduceRule ==
    /\ Deciding("reduce")
    /\ LET rule == Decision.state
           base == Len(values) - LrLength(P, rule)
       IN  IF base < 0 THEN Fail("stack underflow") /\ UNCHANGED stack
                       ELSE ReduceTo(rule, base)
    /\ UNCHANGED <<source, at, cursor, recoveredPrefix, diagnostics, host, ctx>>

BoundaryViolation(span) ==
    \/ span.begin # 0 /\ ~span.leading /\ ~recoveredPrefix
    \/ cursor > span.end /\ ~span.trailing

AcceptInput ==
    /\ Deciding("accept")
    /\ IF Len(values) # 1 \/ at # Len(input) THEN Fail("invalid accept stack")
       ELSE IF BoundaryViolation(spans[1]) THEN Fail("whitespace not allowed")
       ELSE phase' = "accepted" /\ UNCHANGED failure
    /\ UNCHANGED <<source, at, cursor, stack, recoveredPrefix, diagnostics, host, ctx>>

-----------------------------------------------------------------------------
(* A missing cell: report it, then ask the recovery hook. *)

FailSite == Hook[parser] = "fail block" /\ Top \in DOMAIN P.failSites

Unexpected ==
    /\ Deciding("invalid")
    /\ ~FailSite /\ ~(Hook[parser] = "delete" /\ at < Len(input))
    /\ diagnostics' = diagnostics + 1
    /\ Fail("unexpected token")
    /\ UNCHANGED <<source, at, cursor, stack, recoveredPrefix, host, ctx>>

\* A fault: the token is dropped and the diagnostic with it.
DeleteSilently ==
    /\ Deciding("invalid")
    /\ Hook[parser] = "delete" /\ at < Len(input)
    /\ at' = at + 1 /\ cursor' = cursor + 1
    /\ UNCHANGED <<source, stack, recoveredPrefix, diagnostics, phase, failure, host, ctx>>

\* A hook that skips one token, region cursor included, and asks to go on.
DeleteToken ==
    /\ Deciding("invalid")
    /\ Hook[parser] = "delete" /\ at < Len(input)
    /\ diagnostics' = diagnostics + 1
    /\ at' = at + 1 /\ cursor' = cursor + 1
    /\ IF spans = <<>>
       THEN recoveredPrefix' = TRUE /\ UNCHANGED spans
       ELSE spans' = [spans EXCEPT ![Len(spans)].trailing = TRUE] /\ UNCHANGED recoveredPrefix
    /\ UNCHANGED <<source, states, values, phase, failure, host, ctx>>

\* A fault: the fail block runs before anything is reported.
EnterUnreported ==
    /\ Deciding("invalid") /\ FailSite
    /\ phase' = "fail block"
    /\ ctx' = [before |-> at, begin |-> host.reported, skipped |-> 0, requested |-> "none"]
    /\ UNCHANGED <<source, at, cursor, stack, recoveredPrefix, diagnostics, failure, host>>

EnterFailBlock ==
    /\ Deciding("invalid") /\ FailSite
    /\ diagnostics' = diagnostics + 1
    /\ phase' = "fail block"
    /\ ctx' = [before |-> at, begin |-> host.reported, skipped |-> 0, requested |-> "none"]
    /\ UNCHANGED <<source, at, cursor, stack, recoveredPrefix, failure, host>>

-----------------------------------------------------------------------------
(* The calls a fail block makes. *)

ExhaustedBy(h) == h.reported >= MaxErrors \/ h.skipped >= MaxTotalSkipped

\* A block that must report first has nothing else to do before it did.
Opened ==
    parser \in ReportFirst => host.reported > ctx.begin \/ ctx.requested = "abort"

InBlock(call) ==
    phase = "fail block" /\ call \in Blocks[parser] /\ (call = "error" \/ Opened)

Request(mode) ==
    ctx' = IF ctx.requested = "abort" THEN ctx ELSE [ctx EXCEPT !.requested = mode]

BlockUnchanged ==
    UNCHANGED <<source, cursor, stack, recoveredPrefix, diagnostics, phase, failure>>

CtxError ==
    /\ InBlock("error")
    /\ IF ExhaustedBy(host) THEN Request("abort") /\ UNCHANGED host
                            ELSE host' = [host EXCEPT !.reported = @ + 1] /\ UNCHANGED ctx
    /\ UNCHANGED at /\ BlockUnchanged

CtxSkip ==
    /\ InBlock("skip")
    /\ IF ExhaustedBy(host) THEN Request("abort") /\ UNCHANGED <<at, host>>
       ELSE /\ at < Len(input)
            /\ at' = at + 1
            /\ ctx' = [ctx EXCEPT !.skipped = @ + 1]
            /\ host' = [host EXCEPT !.skipped = @ + 1]
    /\ BlockUnchanged

\* take() moves without counting: finish() accounts for it.
CtxTake ==
    /\ InBlock("take") /\ at < Len(input)
    /\ at' = at + 1
    /\ UNCHANGED <<host, ctx>> /\ BlockUnchanged

CtxRequest(mode) ==
    /\ InBlock(mode)
    /\ Request(mode)
    /\ UNCHANGED <<at, host>> /\ BlockUnchanged

CtxCall == CtxError \/ CtxSkip \/ CtxTake \/ \E mode \in {"insert", "retry", "abort"} : CtxRequest(mode)

\* The recovery state and the mode FailContext::finish leaves.
Moved == at - ctx.before
Charged == [host EXCEPT !.skipped = @ + (IF Moved > ctx.skipped THEN Moved - ctx.skipped ELSE 0)]
\* A fault: the budget is looked at before what take() moved is charged.
FinishModeUncharged ==
    IF ExhaustedBy(host) THEN "abort"
    ELSE IF ctx.requested # "none" THEN ctx.requested
    ELSE IF Moved = 0 THEN "insert" ELSE "retry"

FinishMode ==
    IF ExhaustedBy(Charged) THEN "abort"
    ELSE IF ctx.requested # "none" THEN ctx.requested
    ELSE IF Moved = 0 THEN "insert" ELSE "retry"

\* A fault: the generic diagnostic is dropped even when the block made none.
AlwaysSuperseded == diagnostics - 1

\* The generic diagnostic gives way to one the block reported.
Superseded == IF host.reported > ctx.begin THEN diagnostics - 1 ELSE diagnostics

\* The rest of lr_recover: the action for the missing token must be a shift.
InsertMissing ==
    LET expected == P.failSites[Top]
        action == LrAction(P, Top, InsertWindow(P, input, at, expected.symbol))
    IN  IF expected.isToken /\ action.type = "shift"
        THEN /\ Push(action.state, expected.symbol, SyntheticSpan(cursor))
             /\ phase' = "decide" /\ UNCHANGED failure
             /\ diagnostics' = Superseded
        ELSE /\ Fail("unexpected token")
             /\ UNCHANGED <<stack, diagnostics>>

FinishFailBlock ==
    /\ phase = "fail block" /\ Opened
    /\ host' = Charged
    /\ ctx' = NoContext
    /\ CASE FinishMode = "abort" ->
                Fail("unexpected token") /\ UNCHANGED <<stack, diagnostics>>
         [] FinishMode = "retry" ->
                \* neither region.cursor nor the stack has changed
                /\ Fail("recovery made no progress")
                /\ diagnostics' = Superseded
                /\ UNCHANGED stack
         [] OTHER -> InsertMissing
    /\ UNCHANGED <<source, at, cursor, recoveredPrefix>>

-----------------------------------------------------------------------------
Driver ==
    \/ SkipSpace \/ ShiftToken \/ ReduceRule \/ AcceptInput
    \/ Unexpected \/ DeleteToken \/ EnterFailBlock \/ FinishFailBlock

\* The parse is over.
Done == phase \in {"accepted", "failed"} /\ UNCHANGED vars

Next == Driver \/ CtxCall \/ Done

Spec == Init /\ [][Next]_vars

\* The driver is a loop that nothing suspends, and the body of a fail block is
\* finite code: it ends whatever calls it makes, the report it opens with included.
Fairness == WF_vars(Driver) /\ WF_vars(CtxError /\ ~Opened)

FairSpec == Spec /\ Fairness

-----------------------------------------------------------------------------
Reasons == {"none", "unexpected token", "whitespace not allowed", "recovery made no progress",
            "shift past end of input", "no goto", "stack underflow", "invalid accept stack"}

SpanType == [begin : Nat, end : Nat, leading : BOOLEAN, trailing : BOOLEAN, empty : BOOLEAN]

\* The variables have the types the driver gives them, and the three stacks of
\* a region stay in step.
TypeOK ==
    /\ parser \in DOMAIN Parsers /\ tables = Parsers[parser] /\ input \in Inputs[parser]
    /\ at \in 0..Len(input) /\ cursor \in 0..Len(input)
    /\ states \in Seq(DOMAIN P.items) /\ values \in Seq(STRING) /\ spans \in Seq(SpanType)
    /\ Len(states) = Len(values) + 1 /\ Len(spans) = Len(values)
    /\ recoveredPrefix \in BOOLEAN
    /\ diagnostics \in Nat
    /\ phase \in {"decide", "fail block", "accepted", "failed"}
    /\ failure \in Reasons
    /\ host \in [reported : Nat, skipped : Nat]
    /\ ctx \in [before : Nat, begin : Nat, skipped : Nat,
                requested : {"none", "insert", "retry", "abort"}]

\* Whatever state is on the stack, every item of it spells the values below
\* it, and the state under each of those values holds the item with its dot
\* there: this is what the drivers rely on when they pop a right-hand side
\* without looking at it.
ItemSpelt(i, item) ==
    /\ item[2] < i
    /\ \A j \in 1..item[2] :
          /\ values[i - 1 - item[2] + j] = P.productions[item[1]].rhs[j]
          /\ <<item[1], item[2] - j>> \in P.items[states[i - j]]

ItemsSpellStack ==
    \A i \in DOMAIN states : \A item \in P.items[states[i]] : ItemSpelt(i, item)

\* The checks of the driver that only a wrong table could trip never do,
\* recoveries included: no underflow, no missing goto, no shift at the end of
\* the input, no accept with a stack that is not the start symbol.
NoTableFault ==
    failure \in {"none", "unexpected token", "whitespace not allowed", "recovery made no progress"}

Reported == diagnostics + host.reported

\* A parse that reported nothing accepted a sentence, its whitespace only where
\* the grammar has it: the spans lr_parse keeps are exact enough.
UnreportedIsASentence ==
    phase = "accepted" /\ Reported = 0 => input \in Language[parser]["main"]

\* A sentence is never refused and never reaches a recovery hook.
SentencesGoThrough ==
    input \in Language[parser]["main"] =>
        phase \in {"decide", "accepted"} /\ Reported = 0

\* An error is found at the first token no sentence can have there: the
\* tokens consumed before any report begin some sentence.
ErrorsAreFoundAtOnce ==
    Reported = 0 => Solid(P, SubSeq(input, 1, at)) \in Viable[parser]

\* Budgets end a parse: one that drew on them and was accepted never used them
\* up, however many blocks ran and whether they moved with skip() or take().
AcceptedWithinBudget == phase = "accepted" /\ host # Unspent => ~ExhaustedBy(host)

\* A repaired parse does not lose its report: the generic diagnostic is only
\* dropped for one a fail block made.
RepairsStayReported ==
    [][phase = "fail block" /\ phase' # "fail block" => Reported' > 0]_vars

\* A block that moved past the offending tokens and asks for a retry goes on:
\* retry is meant for a handler that has changed something.
RetryAfterMovingGoesOn ==
    [][phase = "fail block" /\ FinishMode = "retry" /\ Moved > 0 /\ phase' # "fail block"
        => phase' = "decide"]_vars

\* The parse ends, whatever the fail blocks do, for the grammars and blocks of
\* the instance.
Terminates == <>(phase \in {"accepted", "failed"})

\* The driver implements bottom-up recognition.
Recogniser == INSTANCE BottomUp WITH
    Grammars <- [id \in DOMAIN Parsers |-> Parsers[id].productions],
    Texts <- Inputs, Blank <- Whitespace, Start <- "main",
    grammar <- parser, tokens <- input, next <- at, form <- values,
    reported <- Reported > 0,
    status <- IF phase = "fail block" \/ phase = "decide" THEN "running" ELSE phase

\* Every run of the driver, recoveries included, is a derivation read
\* backwards: tokens are dropped or supplied only after a report.
RefinesBottomUp == Recogniser!BSpec

-----------------------------------------------------------------------------
(* When the tables refuse no sentence.                                       *)

\* The builder left no conflict, the tables leave nothing out of what aheads
\* names for each of them, and no rule has the name of a token.
Thorough(aheads) ==
    \A id \in DOMAIN Parsers :
        /\ Parsers[id].open = {}
        /\ LeavesNothingOut(Parsers[id], aheads[id])
        /\ \A text \in Inputs[id] : \A i \in DOMAIN text : ~IsRule(Parsers[id], text[i])

\* Language has nothing but what the productions derive, in these stages.
Grounded(stages) ==
    \A id \in DOMAIN Parsers :
        /\ Staged(Parsers[id], stages[id], Longest) /\ "main" \in DOMAIN stages[id][1]
        /\ Language[id]["main"] \subseteq stages[id][Len(stages[id])]["main"]
=============================================================================
