----------------------------- MODULE LLRecovery -----------------------------
(***************************************************************************)
(* A generated LL parser at run time: its rule functions and the           *)
(* combinators of parser_ll.hpp they call, with the two kinds of recovery. *)
(* A failed required match asks the handler of ispa_recovery.hpp for a     *)
(* local repair; when that gives up, context recovery looks for the first  *)
(* token some active rule can still use, skips to it and abandons the      *)
(* rules in between.                                                       *)
(*                                                                         *)
(* The call stack of rule functions is also the stack of recovery frames   *)
(* and of probes.  Token positions count from 1; Lost is the iterator of   *)
(* a default-constructed result.                                           *)
(***************************************************************************)
EXTENDS Integers, FiniteSets, Sequences, SequencesExt, LLDerivations

CONSTANTS
    Parsers,            \* generated parsers: LLGrammar!Generate and a name
    Inputs,             \* the token sequences each of them is given
    Language,           \* what each rule of each grammar derives, up to
    Longest,            \* this length
    MaxErrors,          \* max_errors
    MaxTotalSkipped,    \* max_total_skipped
    MaxSkip,            \* max_skip of the generated handlers
    ContextMaxSkip      \* context_max_skip_

ASSUME BudgetsAssumption ==
    /\ MaxErrors \in Nat \ {0}
    /\ MaxTotalSkipped \in Nat \ {0}
    /\ MaxSkip \in Nat \ {0}
    /\ ContextMaxSkip \in Nat

Main == "main"
End == "$"

Quantifiers == {"", "?", "*", "+"}
Atoms == [syms : Seq(STRING) \ {<<>>}, q : Quantifiers]
Members == [body : Seq(Atoms), q : Quantifiers]

\* What member m of a rule has in it, and the members behind it.
LeftFrom(rules, r, m) ==
    UNION {UNION {Range(rules[r][n].body[i].syms) : i \in DOMAIN rules[r][n].body} : n \in m..Len(rules[r])}

\* The rules are sequences of members, and a frame claims at a member all that
\* is left of its rule from there on.
ParsersAssumption ==
    \A p \in Parsers :
        /\ Main \in DOMAIN p.rules
        /\ p.rules \in [DOMAIN p.rules -> Seq(Members)]
        /\ \A r \in DOMAIN p.rules : \A m \in DOMAIN p.rules[r] :
              \A symbol \in LeftFrom(p.rules, r, m) : p.reach[symbol] \subseteq p.sites[r][m].claims

\* An optional rule is the first thing in its member, and the member no loop.
\* (Not assumed of every parser: see UnwindingKeepsItsTarget.)
SoloOptions ==
    \A p \in Parsers : \A r \in DOMAIN p.rules : \A m \in DOMAIN p.rules[r] :
        \A i \in DOMAIN p.rules[r][m].body :
            LET atom == p.rules[r][m].body[i]
            IN  atom.q = "?" /\ Range(atom.syms) \cap DOMAIN p.rules # {} =>
                    i = 1 /\ p.rules[r][m].q \notin {"*", "+"}

InputsAssumption == \A p \in Parsers : Inputs[p.name] \subseteq Seq(STRING)

ASSUME GeneratedAssumption == ParsersAssumption /\ InputsAssumption

\* Language leaves out nothing the rules derive.
ASSUME LanguageAssumption ==
    \A p \in Parsers :
        /\ Longest[p.name] \in Nat /\ \A text \in Inputs[p.name] : Len(text) <= Longest[p.name]
        /\ TextsClosed(p.rules, Language[p.name], Longest[p.name])

Lost == 0
Never == -1       \* npos_

VARIABLES
    parser,         \* the parser that runs
    input,          \* its tokens
    calls,          \* the active rule functions, outermost first
    recovery,       \* recovery_state_, unwind_, last_resume_pos_, recovering_,
                    \* whether context_errors_ holds anything
    answer,         \* how the rule function that ended last ended
    outcome         \* how the parse ended

vars == <<parser, input, calls, recovery, answer, outcome>>

-----------------------------------------------------------------------------
(* Reading the state. *)

Top == Last(calls)
RuleOf(c) == parser.rules[c.rule]
MemberOf(c) == RuleOf(c)[c.m]
AtomOf(c) == MemberOf(c).body[c.i]
SiteOf(c) == parser.sites[c.rule][c.m]
GuardOf(c) == parser.guards[c.rule][c.m]

AtEnd(p) == p = Lost \/ p > Len(input)
Kind(p) == IF AtEnd(p) THEN End ELSE input[p]
Remaining(p) == IF p = Lost THEN 0 ELSE Len(input) + 1 - p
Cursor(p) == IF p = Lost THEN 1 ELSE p         \* cursor_position

\* A name, or the alternative chosen of a choice.
SymbolOf(c) == AtomOf(c).syms[IF Len(AtomOf(c).syms) = 1 THEN 1 ELSE c.alt]
IsRule(symbol) == symbol \in DOMAIN parser.rules

InBody(c) == c.m <= Len(RuleOf(c)) /\ c.i \in DOMAIN MemberOf(c).body
Choosing(c) == Len(AtomOf(c).syms) > 1 /\ c.alt = 0
Required(c) == AtomOf(c).q = "" \/ (AtomOf(c).q = "+" /\ ~c.started)
Looping(c) == AtomOf(c).q \in {"*", "+"} /\ ~Required(c)

\* A rule function about to do atom i of member m; i = 0 before the member.
At(c, m, i) ==
    [c EXCEPT !.m = m, !.i = i, !.alt = 0, !.started = FALSE, !.retries = 0, !.from = c.pos]
Forward(c) == At(c, c.m, c.i + 1)
PutTop(cs, c) == [cs EXCEPT ![Len(cs)] = c]

\* A required match made: a "+" goes on to its further turns.
Done(c) == IF AtomOf(c).q = "+" THEN [c EXCEPT !.started = TRUE, !.retries = 0] ELSE Forward(c)

Enter(rule, p, took, probe) ==
    [rule |-> rule, m |-> 1, i |-> 0, alt |-> 0, started |-> FALSE, retries |-> 0,
     pos |-> p, from |-> p, took |-> took, start |-> p, probe |-> probe, committed |-> FALSE]

\* Input behind the start of a probe settles that its rule is there.
CommitRule(cs, p) ==
    [f \in DOMAIN cs |-> IF cs[f].probe /\ Cursor(p) # Cursor(cs[f].start)
                         THEN [cs[f] EXCEPT !.committed = TRUE] ELSE cs[f]]

\* The innermost probe has seen nothing yet: its rule is absent.
AbsentRule(cs) ==
    LET probes == {f \in DOMAIN cs : cs[f].probe}
    IN  probes # {} /\ ~cs[Max(probes)].committed

Exhausted(r) == r.diagnostics >= MaxErrors \/ r.skipped >= MaxTotalSkipped

Claimants(cs, token) == {f \in DOMAIN cs : token \in SiteOf(cs[f]).claims}

-----------------------------------------------------------------------------
(* Local repair: recover of ispa_recovery.hpp. *)

\* How many tokens panic mode drops, with this much room.
PanicLength(cs, site, p, room) ==
    Min({k \in 0..Remaining(p) :
              \/ k = room
              \/ k = Remaining(p)
              \/ Kind(p + k) \in site.expected \cup site.continuation \cup site.follow
              \/ Claimants(cs, Kind(p + k)) # {}})

Repair(mode, dropped) == [mode |-> mode, dropped |-> dropped]

Panic(cs, site, p, r) ==
    LET k == PanicLength(cs, site, p, Min({MaxSkip, MaxTotalSkipped - r.skipped}))
        at == Kind(p + k)
    IN  IF at \in site.expected THEN Repair("Retry", k)
        ELSE IF at # End /\ k > 0 /\ (at \in site.continuation \cup site.follow \/ Claimants(cs, at) # {})
        THEN Repair("PanicUntil", k)
        ELSE Repair("Propagate", k)

\* A fault: enclosing rules are not asked whether they need the token.
FollowIsProtected(cs, site, token) == token \in site.follow

Protected(cs, site, token) == token \in site.follow \/ Claimants(cs, token) # {}

ChooseRepair(cs, site, p, r) ==
    LET at == Kind(p)
        next == IF AtEnd(p) THEN End ELSE Kind(p + 1)
        spare == at # End /\ ~Protected(cs, site, at)
        one == site.synthesizes /\ Cardinality(site.expected) = 1
    IN  IF Exhausted(r) THEN Repair("Abort", 0)
        ELSE IF at \in site.expected THEN Repair("Retry", 0)
        ELSE IF spare /\ next \in site.expected THEN Repair("Delete", 1)
        ELSE IF one /\ at \in site.continuation \cup site.follow THEN Repair("Insert", 0)
        ELSE IF one /\ spare /\ next \in site.continuation THEN Repair("Replace", 1)
        ELSE IF at = End \/ at \in site.follow THEN Repair("Propagate", 0)
        ELSE IF at \in site.continuation \/ Claimants(cs, at) # {} THEN Repair("Synchronize", 0)
        ELSE Panic(cs, site, p, r)

\* A fault: dropped tokens are not counted.
CountedOnce(repair, r) == [r EXCEPT !.diagnostics = @ + 1]

\* The repair is made and counted even when it uses up the budget; then the
\* caller is told to abort.
Counted(repair, r) == [r EXCEPT !.diagnostics = @ + 1, !.skipped = @ + repair.dropped]
ModeAfter(repair, r) == IF Exhausted(Counted(repair, r)) THEN "Abort" ELSE repair.mode

-----------------------------------------------------------------------------
(* Context recovery. *)

\* The frames that may resume k tokens on: the innermost one not where the
\* last resumption was.
Owners(cs, p, k, r) ==
    Claimants(cs, Kind(p + k)) \ (IF k = 0 /\ Cursor(p) = r.lastResume THEN {Len(cs)} ELSE {})

\* A fault: the budget does not bound the search.
SearchFar(r) == ContextMaxSkip

SearchLimit(r) == Min({ContextMaxSkip, MaxTotalSkipped - r.skipped})

\* The first token some frame claims, for the innermost of those that do; or
\* the end of the input.  The loop gives up only after limit + 1 tokens.
ResolveContext(cs, p, r) ==
    LET limit == SearchLimit(r)
        spots == {k \in 0..limit : k < Remaining(p) /\ Owners(cs, p, k, r) # {}}
    IN  IF spots # {}
        THEN {[skip |-> Min(spots), frame |-> Max(Owners(cs, p, Min(spots), r)), claimed |-> TRUE]}
        ELSE IF Remaining(p) <= limit + 1
        THEN {[skip |-> Remaining(p), frame |-> 1, claimed |-> FALSE]}
        ELSE {}

\* Where the innermost rule goes on and the recovery state after it.
RecoverAtContext(cs, p, r) ==
    LET found == IF Exhausted(r) THEN {} ELSE ResolveContext(cs, p, r)
        resume == CHOOSE x \in found : TRUE
        misplaced == resume.frame # Len(cs) /\ resume.skip = 0 /\ resume.claimed
    IN  IF found = {} THEN [pos |-> p, r |-> r]
        ELSE [pos |-> p + resume.skip,
              r |-> [r EXCEPT !.skipped = @ + resume.skip,
                              !.lastResume = Cursor(p + resume.skip),
                              !.unwind = Len(cs) - resume.frame,
                              !.reported = @ \/ ~r.recovering \/ misplaced,
                              !.recovering = TRUE]]

\* A fault: only the innermost rule is asked whether it claims the token.
SyncOwn(cs, p, r) ==
    IF AtEnd(p) \/ r.unwind # 0 \/ Len(cs) \in Claimants(cs, Kind(p)) THEN [pos |-> p, r |-> r]
    ELSE RecoverAtContext(cs, p, r)

\* A loop ended on a token no frame claims.
SyncLoop(cs, p, r) ==
    IF AtEnd(p) \/ r.unwind # 0 \/ Claimants(cs, Kind(p)) # {} THEN [pos |-> p, r |-> r]
    ELSE RecoverAtContext(cs, p, r)

-----------------------------------------------------------------------------
(* The steps a rule function is made of. *)

Running == outcome = "running"
Working == Running /\ calls # <<>> /\ answer.kind = "none"
Answered == Running /\ calls # <<>> /\ answer.kind # "none"

NoAnswer == [kind |-> "none", pos |-> Lost, took |-> 0, probe |-> FALSE, committed |-> FALSE]

\* A fault: the count goes below zero.
FrameCounted(r) == [r EXCEPT !.unwind = @ - 1]

\* The destructor of the recovery frame.
FrameGone(r) == [r EXCEPT !.unwind = IF @ > 0 THEN @ - 1 ELSE 0]

Continue(cs, r) ==
    /\ calls' = cs
    /\ recovery' = r
    /\ answer' = NoAnswer
    /\ UNCHANGED <<parser, input, outcome>>

Leave(kind, p, r) ==
    /\ calls' = Front(calls)
    /\ recovery' = FrameGone(r)
    /\ answer' = [kind |-> kind, pos |-> p, took |-> Top.took,
                  probe |-> Top.probe, committed |-> Top.committed]
    /\ UNCHANGED <<parser, input, outcome>>

Stop(how, r) ==
    /\ outcome' = how
    /\ recovery' = r
    /\ UNCHANGED <<parser, input, calls, answer>>

Matching(p) == [Top EXCEPT !.pos = p, !.took = @ + 1]
Matched(r) == [r EXCEPT !.recovering = FALSE]

RetryLimit(mode) ==
    CASE mode = "Delete" -> 2
      [] mode = "Retry" -> IF IsRule(SymbolOf(Top)) THEN 2 ELSE 1
      [] OTHER -> 0

\* required(): whether what came of the repair ends the parse.
Throws(mode, p, r) ==
    /\ AtomOf(Top).q = ""
    /\ \/ mode = "Abort"
       \/ mode \notin {"Insert", "Replace"} /\ r.unwind = 0 /\ (AtEnd(p) \/ mode = "Propagate")

\* A required match failed: repair, then try again, go on without it or throw.
AskHandler ==
    \E repair \in {ChooseRepair(calls, SiteOf(Top), Top.pos, recovery)} :
    \E mode \in {ModeAfter(repair, recovery)} :
    \E local \in {[pos |-> Top.pos + repair.dropped, r |-> Counted(repair, recovery)]} :
    \E after \in {IF mode = "Propagate" THEN RecoverAtContext(calls, local.pos, local.r) ELSE local} :
        IF Top.retries < RetryLimit(mode)
        THEN Continue(PutTop(calls, [Top EXCEPT !.pos = local.pos, !.retries = @ + 1]), local.r)
        ELSE IF Throws(mode, after.pos, after.r) THEN Stop("thrown", after.r)
        ELSE Continue(PutTop(calls, Forward([Top EXCEPT !.pos = after.pos])), after.r)

EndLoop(cs, r) ==
    \E synced \in {SyncLoop(cs, Last(cs).pos, r)} :
        Continue(PutTop(cs, Forward([Last(cs) EXCEPT !.pos = synced.pos])), synced.r)

-----------------------------------------------------------------------------
(* Members. *)

BetweenMembers == Working /\ Top.i = 0

\* A fault: a rule that is given up goes on to its last member.
RuleDone == Top.m > Len(RuleOf(Top))

RuleOver == Top.m > Len(RuleOf(Top)) \/ recovery.unwind > 0
Guarded == Kind(Top.pos) \in GuardOf(Top)

EndRule ==
    /\ BetweenMembers
    /\ RuleOver
    /\ Leave("matched", Top.pos, recovery)

StartMember ==
    /\ BetweenMembers
    /\ ~RuleOver
    /\ IF MemberOf(Top).q \in {"?", "*"} /\ ~Guarded
       THEN Continue(PutTop(calls, At(Top, Top.m + 1, 0)), recovery)
       ELSE Continue(PutTop(calls, At(Top, Top.m, 1)), recovery)

\* The end of a group's body; its loop does not ask whether it unwinds.
EndBody ==
    /\ Working
    /\ Top.i > 0
    /\ ~InBody(Top)
    /\ IF MemberOf(Top).q \in {"*", "+"} /\ Guarded
       THEN Continue(PutTop(calls, At(Top, Top.m, 1)), recovery)
       ELSE Continue(PutTop(calls, At(Top, Top.m + 1, 0)), recovery)

-----------------------------------------------------------------------------
(* Tokens. *)

AtSymbol == Working /\ InBody(Top) /\ ~Choosing(Top)
AtToken == AtSymbol /\ ~IsRule(SymbolOf(Top))
TokenIsThere == ~AtEnd(Top.pos) /\ Kind(Top.pos) = SymbolOf(Top)

RequiredToken ==
    /\ AtToken
    /\ Required(Top)
    /\ \/ /\ recovery.unwind > 0
          /\ Continue(PutTop(calls, Forward(Top)), recovery)
       \/ /\ recovery.unwind = 0
          /\ Top.pos = Lost
          /\ Stop("crashed", recovery)
       \/ /\ recovery.unwind = 0
          /\ TokenIsThere
          /\ Continue(CommitRule(PutTop(calls, Done(Matching(Top.pos + 1))), Top.pos + 1),
                      Matched(recovery))
       \/ /\ recovery.unwind = 0
          /\ Top.pos # Lost
          /\ ~TokenIsThere
          /\ IF AbsentRule(calls) THEN Leave("absent", Lost, recovery) ELSE AskHandler

OptionalToken ==
    /\ AtToken
    /\ AtomOf(Top).q = "?"
    /\ IF Top.pos = Lost THEN Stop("crashed", recovery)
       ELSE IF TokenIsThere
       THEN Continue(CommitRule(PutTop(calls, Forward(Matching(Top.pos + 1))), Top.pos + 1), recovery)
       ELSE Continue(PutTop(calls, Forward(Top)), recovery)

RepeatedToken ==
    /\ AtToken
    /\ Looping(Top)
    /\ IF recovery.unwind = 0 /\ TokenIsThere
       THEN Continue(CommitRule(PutTop(calls, Matching(Top.pos + 1)), Top.pos + 1), recovery)
       ELSE EndLoop(calls, recovery)

-----------------------------------------------------------------------------
(* Rules and what they answer. *)

AtRule == AtSymbol /\ IsRule(SymbolOf(Top))
Call(probe) == Continue(Append(calls, Enter(SymbolOf(Top), Top.pos, Top.took, probe)), recovery)

\* An optional rule is called even while rules are being abandoned.
CallRule ==
    /\ AtRule
    /\ \/ Required(Top) /\ recovery.unwind = 0 /\ Call(FALSE)
       \/ Required(Top) /\ recovery.unwind > 0 /\ Continue(PutTop(calls, Forward(Top)), recovery)
       \/ AtomOf(Top).q = "?" /\ Call(TRUE)
       \/ /\ Looping(Top)
          /\ IF recovery.unwind = 0 /\ ~AtEnd(Top.pos) THEN Call(TRUE) ELSE EndLoop(calls, recovery)

\* A fault: a turn of a loop that consumed nothing counts as one.
AnyProgress(from, p) == TRUE

Progress(from, p) == Cursor(p) # Cursor(from)

\* The rule matched, or gave itself up for an enclosing rule.
RuleMatched ==
    /\ Answered
    /\ answer.kind = "matched"
    /\ LET c == [Top EXCEPT !.pos = answer.pos, !.took = answer.took]
           moved == Progress(IF Looping(Top) THEN Top.pos ELSE Top.from, answer.pos)
           Committed(top) == CommitRule(PutTop(calls, top), answer.pos)
       IN  IF Required(Top)
           THEN Continue(Committed(IF moved /\ recovery.unwind = 0 THEN Done(c) ELSE Forward(c)),
                         Matched(recovery))
           ELSE IF AtomOf(Top).q = "?" THEN Continue(Committed(Forward(c)), recovery)
           ELSE IF moved THEN Continue(Committed(c), recovery)
           ELSE EndLoop(Committed(Top), recovery)

NotThere == IF AtomOf(Top).q = "?" THEN Continue(PutTop(calls, Forward(Top)), recovery)
            ELSE EndLoop(calls, recovery)

\* The rule returned a default result: its choice could not be settled.
RuleFailed ==
    /\ Answered
    /\ answer.kind = "failed"
    /\ IF ~Required(Top) THEN IF answer.committed THEN Stop("thrown", recovery) ELSE NotThere
       ELSE IF recovery.unwind > 0
       THEN Continue(PutTop(calls, Forward([Top EXCEPT !.pos = Lost])), recovery)
       ELSE IF AbsentRule(calls) THEN Leave("absent", Lost, recovery)
       ELSE AskHandler

\* NoMatch travels up to the call that probes.
RuleAbsent ==
    /\ Answered
    /\ answer.kind = "absent"
    /\ IF answer.probe THEN NotThere ELSE Leave("absent", Lost, recovery)

-----------------------------------------------------------------------------
(* Choices. *)

FirstOf(k) == parser.first[AtomOf(Top).syms[k]]
Alternatives == DOMAIN AtomOf(Top).syms

\* An alternative only one of which begins with the token; failing that, only
\* one of which has it inside.
Pick(token) ==
    LET starts == {k \in Alternatives : token \in FirstOf(k)}
        inside == {k \in Alternatives : token \in parser.reach[AtomOf(Top).syms[k]]}
        candidates == IF starts # {} THEN starts ELSE inside
    IN  IF Cardinality(candidates) = 1 THEN candidates ELSE {}

\* How many tokens recover_choice passes over.
ChoiceSkip(p, r) ==
    Min({k \in 0..Remaining(p) :
              \/ Exhausted(r)
              \/ k = Remaining(p)
              \/ Pick(Kind(p + k)) # {}
              \/ Claimants(calls, Kind(p + k)) # {}
              \/ k >= ContextMaxSkip
              \/ r.skipped + k >= MaxTotalSkipped})

RecoverChoice ==
    \E k \in {ChoiceSkip(Top.pos, recovery)} :
    \E picked \in {IF Exhausted(recovery) \/ k = Remaining(Top.pos) THEN {} ELSE Pick(Kind(Top.pos + k))} :
    \E counted \in {[recovery EXCEPT !.diagnostics = @ + 1, !.skipped = @ + k]} :
        IF picked = {} \/ Exhausted(counted) THEN Leave("failed", Lost, counted)
        ELSE \E alt \in picked :
                Continue(PutTop(calls, [Top EXCEPT !.alt = alt, !.pos = @ + k]), counted)

ChooseAlternative ==
    /\ Working
    /\ InBody(Top)
    /\ Choosing(Top)
    /\ LET fitting == {k \in Alternatives : Kind(Top.pos) \in FirstOf(k)}
       IN  IF fitting # {}
           THEN \E k \in fitting : Continue(PutTop(calls, [Top EXCEPT !.alt = k]), recovery)
           ELSE IF AbsentRule(calls) THEN Leave("absent", Lost, recovery)
           ELSE RecoverChoice

-----------------------------------------------------------------------------

\* A fault: input behind the main rule is not reported.
FinishAnywhere ==
    /\ Running
    /\ calls = <<>>
    /\ outcome' = IF answer.kind = "matched" THEN "matched" ELSE "failed"
    /\ UNCHANGED <<parser, input, calls, recovery, answer>>

\* The end of parseLazy.
Finish ==
    /\ Running
    /\ calls = <<>>
    /\ LET good == answer.kind = "matched"
       IN  /\ outcome' = IF good THEN "matched" ELSE "failed"
           /\ recovery' = [recovery EXCEPT !.diagnostics = IF good /\ AtEnd(answer.pos) THEN @ ELSE @ + 1]
    /\ UNCHANGED <<parser, input, calls, answer>>

Init ==
    /\ parser \in Parsers
    /\ input \in Inputs[parser.name]
    /\ calls = <<Enter(Main, 1, 0, FALSE)>>
    /\ recovery = [diagnostics |-> 0, skipped |-> 0, lastResume |-> Never, unwind |-> 0,
                   recovering |-> FALSE, reported |-> FALSE]
    /\ answer = NoAnswer
    /\ outcome = "running"

Next ==
    \/ EndRule \/ StartMember \/ EndBody
    \/ RequiredToken \/ OptionalToken \/ RepeatedToken
    \/ CallRule \/ RuleMatched \/ RuleFailed \/ RuleAbsent
    \/ ChooseAlternative
    \/ Finish

Spec == Init /\ [][Next]_vars

\* The parser is one thread that does nothing else: it always takes its next step.
LiveSpec == Spec /\ WF_vars(Next)

-----------------------------------------------------------------------------
(* Properties. *)

Positions == 0..Len(input) + 1

Frames == [rule : DOMAIN parser.rules, m : Nat \ {0}, i : Nat, alt : Nat, started : BOOLEAN,
           retries : 0..2, pos : Positions, from : Positions, took : Nat,
           start : Positions, probe : BOOLEAN, committed : BOOLEAN]

\* While n rules are active.
RecoveryStates(n) == [diagnostics : Nat, skipped : Nat, lastResume : Positions \cup {Never},
                      unwind : 0..n, recovering : BOOLEAN, reported : BOOLEAN]

Answers == [kind : {"none", "matched", "failed", "absent"}, pos : Positions, took : Nat,
            probe : BOOLEAN, committed : BOOLEAN]

\* The types of the variables.
TypeOK ==
    /\ parser \in Parsers
    /\ input \in Inputs[parser.name]
    /\ calls \in Seq(Frames)
    /\ recovery \in RecoveryStates(Len(calls))
    /\ answer \in Answers
    /\ outcome \in {"running", "matched", "failed", "thrown", "crashed"}

\* Input that is not a sentence never passes without a report: not when
\* recovering_ mutes one, nor when a rule that gave itself up answers that it
\* matched.
UnreportedIsASentence ==
    outcome = "matched" /\ recovery.diagnostics = 0 /\ ~recovery.reported => input \in Language[parser.name][Main]

\* A sentence is parsed without a repair, a report or an exception: no loop
\* takes the token behind it for a stray one, no probe that finds nothing
\* leaves anything behind.
SentencesGoThrough ==
    input \in Language[parser.name][Main] =>
        /\ outcome \in {"running", "matched"}
        /\ recovery.diagnostics = 0 /\ recovery.skipped = 0 /\ ~recovery.reported

\* What a finished parse did not match it has counted as skipped, whichever
\* of the ways to drop a token it took, also in a rule tried twice.
NothingDroppedUncharged ==
    calls = <<>> /\ answer.kind = "matched" =>
        Cursor(answer.pos) - 1 - answer.took <= recovery.skipped

\* What rule f of the stack can still use, said of the grammar.
CanUse(f, token) ==
    LET c == calls[f]
    IN  \E m \in c.m..Len(RuleOf(c)) : \E i \in DOMAIN RuleOf(c)[m].body :
            \E s \in 1..Len(RuleOf(c)[m].body[i].syms) : token \in parser.reach[RuleOf(c)[m].body[i].syms[s]]

\* No token that an enclosing rule can still use is dropped, by a local
\* repair, a choice, a loop or context recovery.
EnclosingRulesKeepTheirTokens ==
    [][recovery'.skipped > recovery.skipped /\ Len(calls') = Len(calls) /\ Last(calls').pos # Lost =>
          \A p \in Top.pos..Last(calls').pos - 1 : \A f \in 1..Len(calls) - 1 : ~CanUse(f, input[p])]_vars

\* While rules are abandoned the one the parser unwinds to stays the same, in a
\* parser that calls no optional rule meanwhile: SoloOptions.
UnwindingKeepsItsTarget ==
    [][recovery.unwind > 0 => Len(calls') - recovery'.unwind = Len(calls) - recovery.unwind]_vars

\* A context recovery that found a token some rule claims lets that rule go on.
ClaimedGoesOn ==
    recovery'.lastResume # recovery.lastResume /\ Claimants(calls, Kind(recovery'.lastResume)) # {} =>
        outcome' # "thrown"

\* A rule that gives itself up still answers that it matched.
AbandonedMatches == recovery.unwind > 0 /\ Len(calls') < Len(calls) => answer'.kind = "matched"

\* What context recovery decides to resume does go on, in the rule it has
\* found a token for and in the rules it gives up on the way there.
ResumptionsGoOn == [][ClaimedGoesOn /\ AbandonedMatches]_vars

\* What is skipped exceeds the budget by one token at most.
SkippingIsBounded == recovery.skipped <= MaxTotalSkipped + 1

\* Every parse ends: repairs that consume nothing are not repeated for ever.
Terminates == <>(outcome # "running")
=============================================================================
