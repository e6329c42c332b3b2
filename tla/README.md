# Verification of the ISPA parser generator

ISPA reads a grammar and writes a lexer and a parser for it, by LL, LALR(1) or
LR(1), in C++, Python, Rust or C. These modules specify
its LR half from end to end (how tables are built, rebuilt after an edit and
emitted, and how the drivers of a generated parser run on them, recover from
errors and branch on conflicts), the generated LL parsers with their automatic
recovery, the lexer from the members of a token to the loop that runs its
tables, and what a run of the generator leaves on disk when it is interrupted.
`PROJECT.json` lists components, runs, seeded faults, hazards,
findings and theorems, and maps each definition to the lines it stands for.

## The system

| Part | State it keeps | Operations | What is hard about it | What makes it correct |
|---|---|---|---|---|
| LR table builder (`lib/algorithm/LR`, `LALR`, `LRAdapter`) | productions, FIRST sets, states, transitions, proposals, conflicts, a snapshot for the next build | buildLR: load, FIRST, closure and goto, merge, rows, resolution, save | reuse of stale records, numbering, order of insertion into a map under iteration, budgets | a warm build is a cold build; the automaton is that of the grammar; the snapshot is exact |
| LR emission (`ConstructLRParser.cpp`) | none | the static functions of the generated parser | rules are productions less one, windows of several lengths, gaps | the drivers may trust what it emits |
| LR driver (`ispa_std/lr.py`, `ispa_core/lr_machine.hpp`) | cursor, stacks of states, values and spans, diagnostics | shift, reduce, accept, error, lr_recover | whitespace judged from spans; a stack repaired by a hook; progress of recoveries | accepts the sentences; every repair is reported; it ends |
| Fail-block context (`parser_ll.hpp`, `ispa_recovery.hpp`) | budgets of errors and skipped tokens, requested mode | error, skip, take, insert, retry, abort, finish | budget charged late, modes overriding each other | a budget used up ends the parse |
| Generalized LR driver (`ispa_std/lr_conflicts.py`) | stacks sharing prefixes, packed forest | a round per token, judgement, evaluation | branches over shared nodes, cycles, saturating counts, evaluation after the fact | accepts exactly the inputs with one reading, and runs its callbacks once |
| LL recovery (`parser_ll.hpp`, `ispa_recovery.hpp`) | call stack with frames and probes, budgets, the rule to unwind to, muted reports | required, optional and repeated matches, choices, recover, context recovery | two recoveries at work on one cursor; rules abandoned half way; a report muted until the next match | a sentence is left alone, anything else is reported, no enclosing rule loses a token, every parse ends |
| LL algorithm (`AST/Tree.cpp`, `ParserBase.cpp`, `RuleLower.cpp`, `MemLower.cpp`) | FIRST and FOLLOW, recovery sites | analysis of the grammar, lowering of rules | what a site may skip to depends on everything around it | its sets make the recovery above right |
| Lexer construction (`src/NFA`, `src/DFA`) | tagged automaton, sets of configurations with registers | expand, wire, determinize, allocate registers, minimize | wiring in the order of a hash map, copies that happen at once, registers shared | the tables find the tokens their members spell, with the captures those mark |
| Lexer runtime (`dfa_run.hpp`, `lexer.hpp`) | cursor, registers, tokens | run, makeTokens | positions before and behind the character; a walk that dies after it has moved | tokens in order, captures inside them, the whole input read or refused |
| Incremental generation (`main.cpp`, `AlgorithmCache.cppm`, `c_binding.cpp`) | generated files, manifest of hashes, cache directory, rule hashes | generate | five things written one after another and a crash between any two | cached productions are those of a grammar with the same text, and a grammar with actions takes none; running again repairs |
| Debug protocol (`ispa_debug.hpp`, `ispadbg`) | stepping state, two pipes | emit, command, pause | two processes waiting on each other | not modelled, see below |
| Front end, modules, code generation, tools | trees | parse, normalize, print | little state | out of scope, see below |

The normalized grammar goes from the front end to the builder. `buildLR` takes
the snapshot that incremental generation stored and returns one to store. The
emission reads the tables; the generated parser is their only user, and the
driver calls it back (`lr_action`, `lr_reduce`, `lr_recover`...). A fail block
runs inside `lr_recover` with a context that moves the same token cursor and
draws on the recovery state of its host parser. An LL parser is a set of rule
functions that call each other and the combinators of `parser_ll.hpp`; a failed
match asks a handler with the sets `ParserBase.cpp` made for its site, and then
the frames of all active rules. The lexer's tables come from the same grammar by
another road and its tokens are what both kinds of parser read. Everything runs
in one thread: the interleavings are those of callbacks, of the branches of a
generalized round, of edits with builds, and of a run of the generator with the
user and with whatever kills it.

## Modules

| Module | Models |
|---|---|
| `LRTables` | the construction as operators: productions, FIRST, closures, LR(1) states, LALR merge, rows, conflict resolution, emission. `Compile` is a whole build without a snapshot |
| `LRLanguage` | reference definitions, from derivations alone: the sentences of a grammar, their beginnings, their trees |
| `LRGenerated` | the static functions of a generated parser and the span arithmetic both drivers use; `Coherent`, what drivers take for granted of tables |
| `LRMachine` | `lr_parse` with fail blocks and hand-written hooks |
| `BottomUp` | what a driver promises: bottom-up recognition in which nothing is dropped or supplied without a report |
| `LRGeneralized` | `lr_parse_generalized` |
| `LRBuilder` | builds in steps with the snapshot of `Cache.cpp`, grammars edited in between |
| `LRTablesProofs` | lemmas about the constructions of `LRTables`, up to the tables emitted of a finished automaton |
| `LRBuilderProofs` | theorems about `LRBuilder` |
| `LRDerivations` | reference: what productions derive, as the least sets closed under them, and the same for finite sets of texts, from above and in stages |
| `LRCompleteness` | what it takes for tables to leave no action out that a derivation needs |
| `LRBeginnings` | reference: how what the productions derive begins, and what keeps a state out of the tables in which no sentence can go on |
| `LRGeneratedProofs` | lemmas about spans, paths of the automaton and derivations that both drivers' proofs use; that complete tables lead a run through every derivation, and that every path of rooted tables begins a sentence |
| `LRMachineProofs` | theorems about `LRMachine`, and the proof that it implements `BottomUp` |
| `LRGeneralizedProofs` | theorems about `LRGeneralized` |
| `LLGrammar` | FIRST and FOLLOW of one token, the recovery sets of every member, the rule functions `Generate` makes of a grammar |
| `LLLanguage` | reference definitions: sentences of a grammar and the inputs some edits away from them |
| `LLDerivations` | reference: what the rules of a grammar derive, in the same two ways |
| `LLRecovery` | a generated LL parser: rule functions, combinators, the handler of `recover` and context recovery |
| `LLRecoveryProofs` | theorems about `LLRecovery` |
| `TokenWiring` | members of a token to leaves (`NFA.IR.cpp`), leaves to a tagged automaton (`NFA.TNFA.cpp`) |
| `TaggedDFA` | closures, determinization with registers, acceptance |
| `LexerTables` | liveness and sharing of registers, minimization; `Compile` is all of it |
| `TokenLanguage` | reference definitions, from the members alone: what a token spells, with captures, and which token is to be preferred |
| `Lexer` | `DFA::run` and `makeTokens` |
| `LexerProofs` | theorems about `Lexer` |
| `Generation` | runs of the generator, the disk, crashes, the user |
| `GenerationProofs` | theorems about `Generation` |
| `MCGrammars`, `MCAheads`, `MCLRMachine`, `MCLRGeneralized`, `MCLRBuilder`, `MCLLRecovery`, `MCLexer`, `MCGeneration` | grammars, windows and instances for TLC |

`LRBuilder` extends `LRTables`; the other instances compile their grammars with
`LRTables!Compile`, so drivers run on tables of the modelled builder and
no table is written by hand. `LRBuilder` checks every table it emits against
`LRGenerated!Coherent`, the assumption of the proofs about the drivers, and
`LRBuilderProofs` proves it of all of them. In the
same way `MCLLRecovery` generates its parsers with `LLGrammar!Generate` and
`MCLexer` its tables with `LexerTables!Compile`.

### How they correspond to the code

*Grammar.* A grammar is the normalized one: rules in name order, members with
the two flags the builder looks at (inserted whitespace, fail marker). A set of
items keeps cores and lookaheads apart because the code's map can hold a core
with no lookahead. `ClosureSweep` visits items in the order of the map, as the
insertion under iteration in `closureUncached` makes the order matter.

*Builds.* `Load` is `loadCache` and `prepareProductions`, `FirstRound` one turn
of the fixed point, `FirstState`, `NextState` and `GoTo` the traversal with
`closure` looking first in this traversal, then in the snapshot;
`MergeStates`, `BuildRow`, `RowsDone`, `Restore`, `ResolveDepth` and `Save` the
rest, in that order. `Rebuild` is the user: another version, family or
setting. A failed build saves nothing. Serialized records are modelled by what
they name (structural keys) and the errors decoding can throw.

*Driver.* One turn of the loop is one action and `SkipSpace` one turn of the
inner loop. `at` is `region.pos` and `cursor` is `region.cursor`: fail blocks
move only the first. Values are the symbols they were made for. `EnterFailBlock`,
the ctx calls and `FinishFailBlock` are `lr_recover`; the body of the block may
call anything in any order. `ReportFirst` marks parsers whose blocks open with
`ctx.error`.

*Generalized driver.* `OpenRound`, `TakeTop`, one action for each candidate
(`AcceptBranch`, `ShiftBranch`, `ReduceBranch`), `NextToken`, `Judge` with the
cycle search and the count of readings, then `Descend` and `Callback`. Stacks
and nodes are interned by the keys of `_push` and `_intern`, and `GiveUp` is
the limit `_tick` sets on them.

*LL parser.* `calls` is the call stack of rule functions; each entry is also the
`FrameGuard` and the `RuleProbe` of that call and says how far the function is:
member, atom, alternative chosen, whether a repetition has started. A step is
one combinator (`RequiredToken`, `OptionalToken`, `RepeatedToken`) with all the
recovery it does, or one call, return or choice. `answer` is what the function
that ended last returned. `recovery` is `recovery_state_`, `unwind_`,
`last_resume_pos_` and `recovering_`. `Repair` is `recover()` with the automatic
handler, `RecoverAtContext` is `recover_at_context`, `SyncLoop` and
`RecoverChoice` the two combinators that skip on their own.

*Lexer construction.* Members are words, groups and choices with captures and
repetitions. Where the code walks a hash map the model takes every order
(`RootOrders`, `WireUnvisited`), so `NFAs` is a set of automata and every one is
compiled and run. A set of configurations keeps the order of the map it was
made in; registers are numbered as the code numbers them.

*Lexer runtime.* `Step` is a transition without operations, `StartActions`,
`Act` and `Arrive` one with a chain of them, `Recognize` and `Emit` the accepting
transition, `Die` a dead end and the judgement of `makeTokens` on it. Positions
count from the start of the token, as in `regs`.

*Generation.* A file is opened (and thereby emptied) in one step and written in
another, and so is the manifest; `Stage`, `SetAside` and `Publish` are the three
parts of `saveMetadata`. `Crash` stops a run anywhere, and a manifest that was
being written is left with any of its lines, the last one possibly short
(`Torn`). The stamp of the cached productions is what the code compares, the dump
of the rules (`Text`), and not the grammar: the dump leaves out fail blocks,
Python declarations, features of rules and, but for counters, those of members, so
grammars may share it. `Restored` is the whole test of `c_binding.cpp:26-41`: a
grammar with declarations, fail blocks or rules with features (`Acting`) takes
nothing over. `Entry` is line 46, which saves the productions of every grammar,
such a one too. `Output[g][h]` are the files made from the tree of `g` (types,
lexer) and the productions of `h`. `cut`, `lost`, `settled` and `crashes` are
history variables of the properties; `cut` holds what runs were generating that
were cut short before their manifest was saved.

## Runs

| Run | Instance | What it shows |
|---|---|---|
| `lr_driver` | eight grammars (left recursion, LR(1) that is not LALR, a decision with two tokens, repetitions with nullable payload, whitespace gaps, two with fail blocks, one with a deleting hook), every input of up to five tokens, whitespace included, budgets of two errors and two skipped tokens | the driver accepts exactly the sentences when nothing is reported, stops at the first wrong token, keeps its stack spelt, respects budgets, never loses a report, ends, and refines `BottomUp` |
| `lr_generalized` | eight grammars (dangling else, all binary trees, a cycle, hidden left recursion, palindromes, a partly decided conflict, one that is not LALR, whitespace that decides), inputs of up to five tokens | accepted means one reading, whose reductions ran once each and children first; ambiguity is reported for inputs with several; branches die as soon as they can |
| `lr_builds` | twenty requests over fourteen grammars (the edits of `tests/LRCache.cpp` and settings around them), any three builds in a row | tables equal those of a cold build, are coherent, have one state for each LR(0) state; a repeated build reuses everything; a snapshot holds nothing old |
| `ll_recovery` | six grammars (statements in a block, lists in lists, optional header and repeated clauses, a rule in itself, a choice behind a token, empty rules and repeated groups), their sentences of up to five tokens and all inputs one or two edits away | sentences pass untouched; nothing else passes unreported; what is dropped is counted and within the budget; enclosing rules keep their tokens; unwinding ends where it was meant to; every parse ends |
| `generation` | four grammars over two files, three of them with one text and two of these with actions, edited at any time, two runs cut short at any step, files deleted | a run takes over only productions of a grammar with its own text, and none if it has actions; a run after a crash that generates the same repairs the files; files that stay as they are keep their time |
| `lexer` | seven sets of tokens (captured parts of a number, keyword and word, escapes in a quoted text, captures whose bounds are known late, captures told apart late, a comment, a fraction told from an integer late), every text of up to seven of their characters | tokens and captures are readings; scans stop exactly where no token goes on, with the right token; every input is read or refused |
| `lr_repeated_kernels`, `lr_merge`, `lr_retry`, `ll_resume`, `generation_stale`, `lexer_found` | small instances | the findings below |

**Bounds.** Five tokens are enough to close a parenthesis, to put whitespace in
front of, inside and behind every member, to run two fail blocks and to use up
budgets of two by each road; the sentences are computed to the same bound and
beginnings to twice that plus one, so that a beginning is never missed for lack
of room. `Longest` is the length to which a `Language` is worked out and closed; no
input is longer. Three builds are the fewest in which a record can outlive the build
that replaced it. `EntryLimit` stands for the budgets of 2,000,000 ticks, 100,000
windows and 200,000 entries and is small enough for two grammars to meet it; the
model compares it at the end of a depth, where the code may also stop in the
middle of one. `NodeLimit` stands for `NODE_LIMIT` and is met only by hidden
left recursion, as the README of the repository reports. `WORK_LIMIT` counts
the same loop and is not modelled apart.

LL inputs have one edit, or two (`EditsOf`) where the grammar is small: one edit
starts a recovery, and the second meets the state the first one left. In the
passing run the budgets are 3 errors, 2 skipped tokens in all, 1 for a repair and
4 for a context recovery, instead of 32, 2048, 32 and 64, so that each runs out;
the violation run has the code's own. Two crashes are the fewest with which a
run that repairs can itself be cut short. Texts of seven characters hold a token
of five with one before it or behind it, and each of the seven sets takes at most
four characters to tell its tokens and captures apart. `Slack` is how many more
characters the reference may need to finish a token it has begun: three is more
than the longest rest in these sets.

**Fairness.** A driver is a loop nothing suspends: weak fairness of its steps.
The body of a fail block is finite code, so it finishes, and a block that opens
with `ctx.error` gets there. Nothing else is assumed: a block may call
`ctx.take` or ask for an insertion every time. The LL parser and the lexer are one
thread that does nothing but the next step: weak fairness of `Next`. The builder
and the generator have no liveness property: each of their phases is bounded by
data the step before fixed, and the user may always edit again.

A silent block that inserts a token whose rule asks for it again is never
stopped: nothing is reported, nothing skipped, and both budgets stand still.
`Terminates` therefore runs that grammar with a block that reports first.

Every property of a passing run has a seeded fault, an operator next to the
definition it replaces ("A fault: ..."), under which the run fails.

## Findings

1. **`lr_repeated_kernels`.** `closure` reads closures of the same traversal
   back with `decodeItems`, which refuses items without lookaheads. In
   `main -> A main | y x; x -> x B; y -> Z` nothing is in the FIRST set of `x`, so
   `y -> . Z` in front of it has no lookaheads. It is in the closure of the kernel
   after `A`, which is met from state 0 and again from the state after `A`: the
   second time the build throws. Without the alternative that begins with `A` the
   grammar builds.
2. **`lr_merge`.** In such a grammar a closure adds items without lookaheads and
   is not swept again for them, so two LR(1) states with one core may lead to
   states with different cores, and `mergeLR0Cores` throws its logic_error.
3. **`lr_retry`.** A fail block that has skipped something and retries is told
   it made no progress: progress is measured by a cursor the block cannot move.

4. **`ll_resume`**, two halves, each shown by one grammar alone. *nested*:
   context recovery may settle on the rule that asked for it; nothing is unwound
   then, and `required()` cannot tell this from having found nothing: it throws
   after it reported where it resumes. *settings*: a rule that is given up looks at
   `unwinding()` only between its members; inside a group it goes on to a choice,
   which fails, and answers with a default result whose iterator its caller takes
   over.
5. **`generation_stale`**, two halves. TLC's trace has a crash: files are listed in
   the manifest after they are written, so a run that is killed leaves files no
   later run knows of, and a run of another grammar finishes with them still there.
   With `MaxCrashes = 0` the trace has none: a grammar with a bound fail block, or
   with an expression in a data block, is generated and its productions saved with
   the dump of its rules; the block is removed, which changes nothing in the dump;
   the next run has no actions to make it build afresh, restores the productions
   made with the block, and finishes. `RecordsAreOfTheText` is what remains true.
6. **`lexer_found`**, two halves, each shown by one set of tokens alone. *signed*:
   a leaf behind an optional first member counts as reached and is not wired from
   the initial state, so `'-'? [0-9]+` refuses `5`. *dotted*: a walk that dies after
   it has moved leaves the cursor where it is; the empty token is dropped and so
   are the characters, where the Python lexer rewinds.

Also met while modelling, with no run of their own because `lexer_found` would
show the same property broken: a word of several characters that is repeated
gets no way back (`wireSelfLoop` copies only edges that lead from its entry to its
end); an epsilon edge that joins a leaf also lets in whatever repeats in its entry
state (`(D+ | 'x') ';'` takes `x5;`); a repeated group whose last part may be
left out loses the way from its first part to itself; and where every leaf of a
token follows another (`('a' 'b')+`), the hash map decides whether it begins with
its first. The sets of the passing run have none of these.

`GoodGrammarsBuild` is the other side of the first two: grammars in which every
rule derives some string never meet them.

## Proofs

Theorems hold for every value of the constants that satisfies the assumptions
named with them; TLC evaluates these assumptions on the instances of the runs.

### The LR driver

`LRMachineProofs` proves five properties of `LRMachine` for all tables, inputs,
hooks, fail blocks and budgets:

- `TypeCorrect`: `Spec => []TypeOK`;
- `StackIsSpelt`: `Spec => []ItemsSpellStack`;
- `TableFaultsNeverHappen`: `Spec => []NoTableFault`;
- `BudgetsHold`: `Spec => []AcceptedWithinBudget`;
- `ReportsStay`: `Spec => RepairsStayReported`.

The assumptions are those of `LRMachine`: tables are coherent
(`TablesAssumption`, the conclusion `lr_builds` checks of every build), inputs
are sequences of tokens other than `$`, hooks are of the kinds modelled, budgets
are natural numbers. TLC evaluates them in every run of `MCLRMachine`.

`TypeOK` is not inductive. `TypeInv` adds what connects the fail block with the
rest (where the block began, what it has skipped, how much had been reported),
and `SiteInv` that a block runs only in a state with a fail site. The
invariant behind the driver is `StackInv`: the stacks are in step, and each
item of a state spells the values under it, with the earlier states holding the
item with its dot further left. `SpeltPopped` shows that it survives a pop and
`SpeltPushed` a push along a transition of the tables; an insertion by a fail
block is such a push, as only a shift is accepted for it. `ReducePossible`
draws the consequence for a reduce cell: enough values to pop, and a goto in
the state uncovered. `AcceptKeeps` does the same for accept. So the four
checks of `lr_parse` that guard against bad tables cannot fire. `BudgetInv`
ties a drawn budget to the mode with which a block finished.

### Refinement, and what is accepted

`LRMachineProofs` also proves `ImplementsBottomUp`, `Spec => RefinesBottomUp`, under
the same assumptions and `StartAssumption`, that the augmented production is that
of `main`. Each action is shown to be a step of the recogniser or to leave it where
it is. A reduction rewrites a right-hand side because `StackInv` says that one is on
top (`RightSideIsThere`); accepting needs `main` alone on the stack
(`AcceptedForm`); a block may drop tokens, and its end supply one, because
the report that opened it is still there (`LeavingReports`).

The same module proves that an input accepted without a report is a sentence.
`LRDerivations` says what that means without following the driver: a text is
derived if every family of sets closed under the productions holds it, with
whitespace only in the gaps a production has. `UnreportedParsesAreReadings` is
`Spec => [](phase = "accepted" /\ Reported = 0 => IsSentence(P, input))`. Its
invariant `ReadInv` says that as long as nothing is reported the values on the
stack, with their spans, stand for the text read so far one after the other.
The spans keep only whether whitespace was seen in front and behind, and the
lemmas of `LRGeneratedProofs` show that this loses nothing the gaps depend on.
`UnreportedParsesAreSentences` is the form the run checks, for any `Language` that
is closed under the productions (`LanguageAssumption`). Sentences are the least
closed sets, so the proof needs no induction over derivations: the closed family
it picks is the one the language itself makes.

The converse needs something of the tables. `Thorough(aheads)` says that the
builder left no conflict open, that tokens are not called like rules, and that the
tables are complete: `LRCompleteness!LeavesNothingOut`, a closure condition on
productions, states and cells over four sets of windows (how symbols begin, how the
members in front of a dot begin, what may come at a dot, what may come behind an item
of a state). Where one of these windows comes, the action it needs is in the table.
For such tables `DerivedInputsGoThrough` proves
`Spec => [](IsSentence(P, input) => phase \in {"decide", "accepted"} /\ Reported = 0)`:
a sentence is never refused and never reaches a hook or a fail block.
`SentencesAreAccepted` is the form the run checks, `SentencesGoThrough`, for a
`Language` that has nothing but derived texts: `Grounded(stages)` gives it as the last
of stages each of which the productions make of the one before. `MCLRMachine` works
out `aheads` (`AheadOf`) and `stages` for the compiled tables, and TLC evaluates
both conditions there (`NothingIsLeftOut`, `LanguageIsGrounded`), so they hold of
every table of `lr_driver`. That the builder's tables are complete for every
grammar is not proved.

A driver with a sentence to read must take exactly the turns its derivation asks
for, and a derivation is no object here. `Accepting` says that a configuration
is in every set that holds the final one and whatever reaches it in a turn that the
tables offer. Two families of sets are then shown to be closed under the productions:
the texts that a driver, wherever the symbol is expected and one of the windows
behind it comes, can read whole (`ReadsWhole`), and those whose members it can read one
after the other (`ReadsPart`). Every derived text is in them, so the start of a
sentence is `Accepting` (`SentencesAccept`). `SentenceInv`, that nothing is reported
and the driver accepted or is still on its way, is inductive because a table without
a conflict offers one action, and the driver takes it.

That errors are found at once needs no complete tables: wrong lookaheads delay
reductions or forbid them, they let nothing be shifted. `ConsumedTokensGoOn` is
`Spec => [](Reported = 0 => \E rest : IsSentence(P, consumed \o rest))`, whitespace
aside, for tables that are `Rooted` (no state is empty, and an item that has read
nothing is there because another one expects its rule, which is there for a reason
itself), `Plain` (no rule has whitespace as a member or the name of a token) and
`Fertile` (every rule derives a text). `LRBeginnings` says how symbols begin
with closed sets again: `BeginsSentence`. An item of a state on the stack is explained
from the first state up: where the text in front of its right-hand side begins a
sentence if a text of its rule follows, so does that text with what its members
have read (`ItemHasBegun`). `Rooted` passes this from the items that expect a rule to those
that open it (`RootsAreEnough`), the path of the automaton from a state to the next
(`PathBegins`), and `ReadInv` supplies the texts of the values on it
(`StackBegins`). No invariant is added to `DriverInv /\ ReadInv`. A beginning is
completed to a sentence with one text for each rule after the dot
(`BeginningGoesOn`). `ErrorsAreMet` is the form the run checks, `ErrorsAreFoundAtOnce`, for a
`Viable` that names every beginning as short as the inputs (`NamesBeginnings`). TLC
evaluates `Founded` and `NamesBeginnings` in `MCLRMachine` and `MCLRGeneralized`
for all the tables compiled there; that the builder's tables are rooted for every
grammar is `EmittedTablesAreRooted`, below.

### The generalized LR driver

`LRGeneralizedProofs` proves of `LRGeneralized`, for all tables that are
`Coherent` and whose open cells are sound (`TablesAssumption`), under
`StartAssumption` and `InputsAssumption`:

- `DriverInvariantHolds`: `Spec => []DriverInvariant`;
- `TypeCorrect`: `Spec => []TypeOK`;
- `StacksStand`, `PopsFindTheirMembers`: branches are paths of the automaton, and a
  reduction finds its members and a goto;
- `ForestIsSound`, `RootsAreReadings`, `CallbacksAreLate`;
- `SharingIsComplete`: no two stacks and no two nodes are equal;
- `NodesAreDerived`, `JudgedAreSentences`, `AcceptedCallbacksAreAReading`;
- `BranchesGoOn`, `BranchesStayViable`: `Spec => []BranchesAreViable`, under
  `Founded` and `NamesBeginnings` as for the LR driver;
- `SentencesAreNotRefused`: no sentence is reported as a syntax error, under
  `Thorough`: the tables are complete as for the LR driver, but may have conflicts.

`DriverInvariant` has one part for each structure. `Sourced` and `Placed` keep the
tables and the position. `StacksFollowTheAutomaton` says that every stack, walked
down its shared prefixes, is a path whose states spell the nodes on it: a branch
may be reduced only because of it. `ForestIsOfTheGrammar` says that each
reading packed into a node is a rule applied to nodes of the forest that meet end to
end, apart only where the rule has whitespace. `RoundIsSound` connects what a round still has to do with the stack it
works on, which is what makes the actions in `todo` possible. The last two tie
the roots and the walk to the verdict. None of them is inductive alone.

`ForestIsDerived` says that each node stands for text its symbol derives, by some
reductions. It cannot be read off the finished forest, which may have cycles; it
holds because a node is derived when it is made, of nodes that already are, and
stays so whatever is packed into it later. `WalkIsSound` is the invariant of the evaluation: the frames on the
walk, together with the callbacks already made, are a derivation read in
postorder up to the place it has reached. Hence the callbacks of an accepted input
are a reading of it (`AcceptedCallbacksAreAReading`), which is one half of
`AcceptsTheOnlyReading`; that there is no other reading stays with TLC, because
it asks for every derivation to be found in the forest, and counted.

`HasBegun`, that the tokens consumed begin a sentence, is a property of the round and
not of a branch. Every stack is a path whose nodes are derived (`StackHasBegun`),
and one that was shifted in a round ends where the next begins; a round that shifts
none moves nothing.

That no sentence is refused needs the other direction: whatever a reading does, some
branch does it too. `Follows` says that a stack, walked down to the root, spells what a
configuration of the LR driver has on its stack, states and spans, and `Accepting` is
the set of configurations that reach the final one, as above. `NothingRefused` says
that one of the stacks a round starts from follows a configuration that is
`Accepting`. A round keeps this without choosing: `RoundFollows` says that each stack
the round has met waits in `pending`, or each of its actions is still in `todo`, or
has led every run of that stack to where the action leads (`Gone`), in `closure`, in
`shifted` or in `roots`. It is not enough to follow the one run that accepts, because a
stack that a reduction finds in `closure` again may have been worked through
earlier. Suppose that at the end of a round `roots` is empty and no stack in `shifted`
follows an `Accepting` configuration. Then the `Accepting` configurations that no
stack in `closure` follows are a set that holds the final ones and whatever reaches
it in a turn, so they are all there are, although the round started from one that is
followed (`RoundGoesOn`). `MCLRGeneralized` evaluates `Thorough` for all its tables
(`NothingIsLeftOut`), most of which have open conflicts; `MCAheads` works out the
windows.

### The incremental builder

`LRBuilderProofs` proves of `LRBuilder`, for all grammars, requests and numbers of
builds that fit `RequestsAssumption`, `BuildsAssumption`, `NamesAssumption` and
`OrderAssumption` (names are kept in ordered sets, and one order serves all versions
of the grammar):

- `BuilderTypeOK`: `Spec => []TypeOK`;
- `ReuseIsExact`: an entry of the snapshot under the key of a kernel is the closure
  of the kernel in the grammar as it is now, whichever version it was computed in;
- `SnapshotsDoNotGrow`: `Spec => []SnapshotIsOfThisBuild`;
- `StatesAreFresh`: the states and transitions of a build, once merged, are those
  `BuildStates` computes of its grammar alone;
- `RowsAreFresh`: its rows, when the last is done, are those of `RowsOf`;
- `WarmBuildsAreCold`: `Spec => []WarmIsCold`;
- `EmittedTablesAreCoherent`: `Spec => []TablesAreCoherent`, the assumption under
  which the two drivers are proved to stop on no table fault;
- `EmittedTablesAreRooted`: so are the tables of every build `Rooted`, on which the
  early discovery of errors rests;
- under `FirstTokensAreThose`, `FirstSetsAreExact`: `Spec => []FirstIsExact`,
  `StatesOfProductiveGrammars`, `ProductiveGrammarsBuild`: `Spec => []GoodGrammarsBuild`,
  and `UnchangedBuildsReuse`: `Spec => []UnchangedBuildsNothing`.

The constructions are folds and recursive functions, and `LRTablesProofs` says what
they give. What a fold gives is proved
from its path, the sequence of its partial results (`FoldPath`); that a fixpoint
loop ends, and is defined at all, from a measure its sweeps lower (`LoopSolution`):
FIRST and lookahead sets grow within a finite set of windows. So `Closure` is the
least set of items that holds its kernel and is closed (`ClosureIs`,
`ClosureIsReached`).

Reuse is exact because a closure can be characterised in terms of its key alone.
`KeyLeast(key, entry)` says that `entry` is the least set of encoded items which
has the items of the key and is closed under the alternatives and FIRST sets the
stamp of the key lists; no production number and no grammar occur in it. A closure
just computed is least under its key, and what is least under a key is the closure
of any kernel with that key, in any version of the grammar. `Sound`, the inductive
invariant, has this of the entries of this build, of those loaded and of those
saved, and besides that what the traversal remembers are the states it has found,
that no two states are the same, and that no two rows have the same key.

`WarmBuildsAreCold` follows the build from there with `Incremental`, which adds one
condition for each later stage.

- The states found so far, and those still to expand, give what the loop of
  `Canonical` gives when it goes on from them (`CanonicalOK`, `MovesOK`), so at its
  end they are what it gives from the start.
- The key of a row has the items of the state and of the states it goes to, with
  productions by structure. A row just computed, encoded and decoded in another
  version of the grammar is the row that version computes for the state that has
  that key (`RowsFresh`).
- Depths are tried one at a time, and what is open and decided after each is
  what `ResolveConflicts` has there (`VerdictOK`); it stops at the first depth over
  the limit, which is where `Reached` says.
- The resolution key lists the productions, the transitions and the conflicts. Two
  builds with the same key have the same states and the same cells under different
  names at most (`SameBuilds`), the ids of the cells tell them apart
  (`CellsDiffer`), and decisions decode to what was encoded (`VerdictIsBack`). So
  `DecisionsFresh`, which is about the snapshot, carries a verdict from the build
  that reached it to the build that finds it.

`Fresh`, the tables without a snapshot, is defined in the module by `Compile`; it is
no constant. Failures are part of the theorem: a warm build fails when and how a
cold one does.

`EmittedTablesAreCoherent` adds `MachineOK`, which says why every item of a state is
there: one that has read something was moved over the symbol of every transition
that leads to the state (`LeadsBy`), one that has read nothing stands for a rule
another item of the state expects (`Grounded`), and the first item of the reserved
rule is in the first state alone. The last needs that no right-hand side names the
reserved rule: `IsGrammar` says that no member does, because such a member would
name a rule that `prepareProductions` forbids to define. A cell of the table is then
sound because its proposals are (`ProposalsAreSound`), and a decision because it
repeats the action of an origin of its cell in a window that begins with the token
of the cell (`DecisionFits`), which takes typing FIRST and FOLLOW at every depth
(`Windowed`, `LoopsEndTyped`). `Grounded` says besides that a state is not empty and
that a set of its items which has those a transition put there, and what the set
expects, has them all (`Explained`): a visit of the closure adds an item only
for one that is there. `EmittedIsRooted` reads `Rooted` off it.

The last four compare the build with the grammar. `FirstTokens` is a constant of
`LRBuilder`, what a reader of the grammar would say the strings of a rule begin
with; `FirstTokensAreThose` says that it is what its name says: the first tokens of
the derived texts, those in every family of sets that the productions close. No
induction over derivations is needed: `FirstIsThoseOfTexts` (in `LRTablesProofs`,
for every k) has the loop of `computeFirstK` end with sets that are closed, and
each round add beginnings of derived texts only.

`StatesOfProductiveGrammars` is `Spec => [](Productive => StatesAreTheLR0States)`. The
invariant without `Productive` is false of the code: a rule without strings leaves a
closure with items that have no lookahead, and the loop may stop before it expands
them (finding 2); on the instance TLC checks it of all builds. In a productive
grammar every item of a closure has a lookahead (`Filled`, `AllFull`), so the loop
does not stop before the closure is that of LR(0), states are found along the LR(0)
transitions (`InLR0`) and lead to them (`CoresLead`): `LR0OK`. From the same
invariant nothing a build of such a grammar does can throw: its own entries decode
(`Usable`) and merged states lead to one target (`BuildsOK`).

`UnchangedBuildsReuse` needs what no earlier invariant says, that nothing is missing
from a snapshot. `CoversWith` has a set of states that holds the first, whatever its
states lead to, and the keys of all their kernels; `Serves` that a snapshot of a
productive grammar covers the traversal and all rows; `KeptOK` that the traversal
and the rows remember what they ask for; `ReusedOK` that a build of the snapshot's
own grammar stays in the covered states and has computed nothing.

### The LL parser

`LLRecoveryProofs` proves of `LLRecovery`, for all parsers that fit
`GeneratedAssumption`, all inputs and all budgets:

- `StackStands`: `Spec => []Standing`, the inductive invariant;
- `TypeCorrect`, `StackIsAPath`, `NoMatchNeverEscapes`;
- `DroppedIsCharged`: `Spec => []NothingDroppedUncharged`;
- `BudgetHolds`: `Spec => []SkippingIsBounded`;
- `EnclosingTokensAreKept`: `Spec => EnclosingRulesKeepTheirTokens`;
- `UnwindingReachesItsTarget`: `Spec => UnwindingKeepsItsTarget`, where optional
  rules stand alone in their members (`SoloOptions`);
- `UnreportedParsesAreDerived` and `UnreportedParsesAreSentences`;
- `GeneratedParsersFit`: `LLGrammar!Generate` makes parsers that fit
  `GeneratedAssumption`, of every grammar in the shape the normalizer leaves.

Every combinator, whatever it matches, repairs, skips or gives up, changes the
stack in one of five ways, and `NextKinds` says so: it moves the innermost
function on (`Turns`), calls (`Calls`), returns (`Leaves`), stops the parse (`Stops`)
or ends it (`Finish`). `Standing` is proved once for each kind. It needs the
place of every function (`Placed`), that all but the innermost wait at a rule of
their own for the one above (`CallsFollowTheGrammar`), and that no function has
left more tokens unmatched than were counted (`Owed`): `NothingDroppedUncharged`
says this of the finished parse alone and is not inductive.

Soundness asks the same of `LLDerivations` as of `LRDerivations`. Reports may be
muted by `recovering_`, and a rule that gave itself up may answer that it
matched, so the first half shows that nothing dubious stays silent. `Told` says
that reports are muted, and rules given up, only after a report; every repair makes
the record `Loud`, and it stays so (`CountedIsLoud`, `ContextIsLoud`, `SyncIsLoud`).
`NextTells` then says of each step that it leaves the record loud or reads what the
grammar has there. The second half is the invariant
`Traced`: as long as nothing is loud, `IsRead` holds of every function on the
stack, for every closed set: some turns of what it repeats, the atoms before
the one it is at, the members before that, all in a row from where it began to
where it stands. What a probe that finds nothing answers is read as no turn at
all, which is sound because a function probes only what its caller may do without.

### The lexer

`LexerProofs` proves of `Lexer`, for all tables and inputs that satisfy
`TablesAssumption` (edges and operations name states and registers there are) and
`InputsAssumption`, which TLC evaluates on the compiled tables:

- `TypeCorrect`: `Spec => []TypeOK`, so `register out of range` is never thrown;
- `TokensStayInOrder`: `Spec => []TokensAreInOrder`;
- `CapturesStayInTokens`: `Spec => []CapturesLieInTokens`.

The last two are not listed in a run: the proof covers them. The invariant has
`RegistersReach`, that no register is ahead of the cursor except, while
operations run, by the character about to be read, and `TokensBehind`, that all
tokens emitted end where the current one begins, at the latest. `Walk` says that
operations of an accepting transition never set the position behind a character,
without which a capture could end behind its token.

### The generator

`GenerationProofs` proves of `Generation`, for all grammars, texts they share or do
not, sets of grammars with actions, files, contents and numbers of crashes, under
`OutputAssumption`, `TextAssumption` and `CrashAssumption`:

- `TypeCorrect`: `Spec => []TypeOK`;
- `RecordsOfTheText`: `Spec => []RecordsAreOfTheText`;
- `RunningAgainRepairs`: `Spec => []RetryRepairs`, where a run repairs what runs
  spoiled that were generating the same;
- `ExactWhereToldApart`: a finished run leaves the files of the grammar it has read,
  if that grammar has actions or shares its text with no other and only runs that
  were generating the same were cut short; files in `lost` excepted. Neither
  condition can be left out (`generation_stale`);
- `TimesKept`: `Spec => []UnchangedFilesKeepTheirTime`.

`SnapshotsAreWhole` says of the published snapshot, the staged one and the one
set aside that the stamp of each is the text of the grammar its records are of, and
that what a run generates from has the text of the grammar it has read.
`FilesAreAccountedFor` is the heart: a file the manifest lists holds what is listed,
or is missing, or a run that was generating another content of it was cut short, or it was itself cut short as it was
restored; and each phase of a
run says which files it has already dealt with. `TimesAreKept` ties the files
opened to what the last finished run left.

### Only model-checked

- That the LL parser finds every derivation, `SentencesGoThrough` of `LLRecovery`, and
  that the generalized driver counts readings right: `OneReadingIsEnough`,
  `AmbiguityIsReal`, `NoCallbackOnDoubt`, the uniqueness in `AcceptsTheOnlyReading`.
  The number of readings of a node is a fold over the forest. That no
  sentence is refused is proved of both LR drivers for complete tables, and that the
  tables of `lr_driver` and `lr_generalized` are complete is evaluated by TLC.
- `TokensAreReadings` and what else compares the lexer with `TokenLanguage`: the
  constructions are RECURSIVE operators.
- `Terminates`, `Finishes`: liveness under fairness and ENABLED are beyond the
  prover.

## Not modelled

- `lr_reduce`, captures and semantic actions: the value stack holds symbols. A
  mid-rule `lr_semantic_reduce` that moves the cursor is not modelled.
- Wording, codes and offsets of diagnostics: they are counted.
- `ctx.sync` and `ctx.sync_tokens` (sequences of skips for the budgets),
  `ctx.note`, `ctx.prev` and the tests `ctx.at`: no effect on the properties.
- The bytes, version and checksum of the snapshot.
- The C++ and Rust copies of the drivers: one program in several languages.
- The work limit of the generalized driver while it judges, descends and calls back
  (`lr_conflicts.py:247, 317`, and the node limit looked at there): `GiveUp` ends
  rounds only. What these phases do does not depend on it, except that a forest or
  a reading too long for the limit would be refused in the code.
- LL: lookahead of more than one token, whitespace between tokens, counted
  repetitions, fail blocks and `recover` handlers bound to rules, external
  rules, and the entry points other than `parseLazy`.
- Lexer: tokens inside tokens, dynamic and negative matchers, list captures and
  captures in repetitions, actions that delete or emit, the lazy iterator, debug
  provenance, deduplication of rows and classes of characters. `WireTokens` takes the
  tokens of a set in the order in which they are written, the code in that of a
  hash map; in the sets of the run nothing but the numbers of states depends on it.
  A cycle of copies
  in `sequentialize` is modelled and does not arise in the tokens of the run.
- Generation: two contents with one hash; output lost when a stream is closed
  without an error; the `.pending-` and `.previous-` directories a crash leaves
  for ever. A manifest line cut before its number makes `std::stoull` throw in
  every later run; the model refuses to start from it, as the program does.
- Debug protocol. `line()` waits for a command even when the event that says so
  was too large to send (`ispa_debug.hpp:235`), and threads share one pipe of
  commands with a stepping state each (`ispa_debug.hpp:204`). Both are worth a
  model; what the debugger may do between the two depends on its user, and
  nothing in the repository fixes an order of commands to check against.
- Front end, code generation, package tool, editors: no state of the kind
  checked here. LR(*) is refused by `buildLR`. Nine tenths of the source lines
  are generated parsers, printed runtimes and printers of four languages.

## Plan

Done: tables, generated functions, driver, abstract recogniser, generalized
driver, incremental builds, LL recovery, incremental generation, lexer
construction and runtime, proofs about the LR driver and its refinement, the
generalized driver, the LL parser, the generator, the lexer and the incremental
builds.
What is left, in this order:

1. `LRSemantic`: mid-rule reductions that move the cursor, composed with
   `LRMachine`.
2. `DebugSession`: program and debugger over two bounded pipes.
3. The lazy iterator of the lexer between an LL parser and the input, with
   external rules.
