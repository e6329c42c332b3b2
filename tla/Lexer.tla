------------------------------- MODULE Lexer -------------------------------
(***************************************************************************)
(* The lexer at run time: DFA::run walks the tables over the input for one *)
(* token, and makeTokens calls it until the input is at its end            *)
(* (ispastdlib/dfa_run.hpp, ispastdlib/lexer.hpp).                         *)
(*                                                                         *)
(* A lexer has                                                             *)
(*   name       the tokens it was made of                                  *)
(*   states     a function from states to [edges, token, acceptOps]: edges *)
(*              a set of [char, to, ops], token the one accepted, or None  *)
(*   registers  how many registers it has                                  *)
(*   captures   how many captures: c is in registers 2c and 2c + 1         *)
(* An operation sets register a to the position before the character, or   *)
(* behind it (next), or copies register b to it.                           *)
(*                                                                         *)
(* What the tables should do is said of the tokens:                        *)
(*   spellings  what they spell, [token, text, spans]                      *)
(*   viable     what some token begins with                                *)
(*   preferred  for each text of a token, the token to choose              *)
(***************************************************************************)
EXTENDS Integers, Sequences

CONSTANTS
    Lexers,
    Chars,
    Inputs,     \* the texts of each name
    Reference   \* [spellings, viable, preferred] of each name

None == -1
Unset == -1
Start == 1
Recognized == 0 \* the goal of a transition that accepts

Operations(registers) ==
    {op \in [kind : {"set", "copy"}, next : BOOLEAN, a : 0 .. registers - 1, b : {None} \cup (0 .. registers - 1)] :
        op.kind = "copy" => op.b # None}

\* What the tables owe to the walk.
ASSUME TablesAssumption ==
    \A l \in Lexers :
        /\ l.registers \in Nat /\ l.captures \in Nat /\ 2 * l.captures <= l.registers
        /\ Start \in DOMAIN l.states /\ Recognized \notin DOMAIN l.states
        /\ \A s \in DOMAIN l.states :
               /\ \A e \in l.states[s].edges : e.to \in DOMAIN l.states /\ e.ops \in Seq(Operations(l.registers))
               /\ l.states[s].token \in Nat \cup {None}
               /\ l.states[s].acceptOps \in Seq({op \in Operations(l.registers) : ~op.next})

ASSUME InputsAssumption == \A l \in Lexers : Inputs[l.name] \subseteq Seq(Chars)

VARIABLES
    lexer,
    input,
    place,      \* how much of the input is behind the cursor
    begun,      \* where the token began
    node,       \* the state of the tables
    regs,       \* positions from the start of the token, or Unset
    todo,       \* the operations of the transition that is taken
    goal,       \* and where it leads
    emitted,
    phase       \* "next" token, "scan", "act", "done" or "thrown"

vars == <<lexer, input, place, begun, node, regs, todo, goal, emitted, phase>>
source == <<lexer, input>>


Text(from, to) == SubSeq(input, from + 1, to)
Row == lexer.states[node]
Cleared == [r \in 0 .. lexer.registers - 1 |-> Unset]

Init ==
    /\ lexer \in Lexers
    /\ input \in Inputs[lexer.name]
    /\ place = 0 /\ begun = 0 /\ node = Start
    /\ regs = Cleared
    /\ todo = <<>> /\ goal = Recognized
    /\ emitted = <<>> /\ phase = "next"

(***************************************************************************)
(* One token.                                                              *)
(***************************************************************************)
MakeToken ==
    /\ phase = "next" /\ place < Len(input)
    /\ begun' = place /\ node' = Start /\ regs' = Cleared
    /\ phase' = "scan"
    /\ UNCHANGED <<source, place, todo, goal, emitted>>

Edges == IF place < Len(input) THEN {e \in Row.edges : e.char = input[place + 1]} ELSE {}

\* A transition without operations reads its character at once.
Step(edge) ==
    /\ phase = "scan" /\ edge.ops = <<>>
    /\ node' = edge.to /\ place' = place + 1
    /\ UNCHANGED <<source, begun, regs, todo, goal, emitted, phase>>

StartActions(edge) ==
    /\ phase = "scan" /\ edge.ops # <<>>
    /\ todo' = edge.ops /\ goal' = edge.to /\ phase' = "act"
    /\ UNCHANGED <<source, place, begun, node, regs, emitted>>

\* On every other character an accepting state goes on to its token.
Recognize ==
    /\ phase = "scan" /\ Edges = {} /\ Row.token # None
    /\ todo' = Row.acceptOps /\ goal' = Recognized /\ phase' = "act"
    /\ UNCHANGED <<source, place, begun, node, regs, emitted>>

Value(op) == IF op.kind = "copy" THEN regs[op.b]
             ELSE place - begun + (IF op.next THEN 1 ELSE 0)

Act ==
    /\ phase = "act" /\ todo # <<>>
    /\ regs' = [regs EXCEPT ![Head(todo).a] = Value(Head(todo))]
    /\ todo' = Tail(todo)
    /\ UNCHANGED <<source, place, begun, node, goal, emitted, phase>>

\* The character is read after the operations.
Arrive ==
    /\ phase = "act" /\ todo = <<>> /\ goal # Recognized
    /\ node' = goal /\ place' = place + 1 /\ phase' = "scan"
    /\ UNCHANGED <<source, begun, regs, todo, goal, emitted>>

\* Captures that hold nothing cannot be told from captures that are not set.
Spans == [c \in {k \in 0 .. lexer.captures - 1 : regs[2 * k] # Unset /\ regs[2 * k + 1] > regs[2 * k]} |->
             [from |-> regs[2 * c], to |-> regs[2 * c + 1]]]

\* No token may be empty.
Emit ==
    /\ phase = "act" /\ todo = <<>> /\ goal = Recognized
    /\ IF place = begun
       THEN phase' = "thrown" /\ emitted' = emitted
       ELSE /\ emitted' = Append(emitted, [token |-> Row.token, from |-> begun, to |-> place, spans |-> Spans])
            /\ phase' = "next"
    /\ UNCHANGED <<source, place, begun, node, regs, todo, goal>>

\* A fault: the lexer does not look whether the cursor has moved.
DieUnnoticed ==
    /\ phase = "scan" /\ Edges = {} /\ Row.token = None
    /\ phase' = "next"
    /\ UNCHANGED <<source, place, begun, node, regs, todo, goal, emitted>>

\* The cursor stays where the walk died: an empty token is left out, and the
\* lexer only complains if the cursor has not moved.
Die ==
    /\ phase = "scan" /\ Edges = {} /\ Row.token = None
    /\ phase' = IF place = begun THEN "thrown" ELSE "next"
    /\ UNCHANGED <<source, place, begun, node, regs, todo, goal, emitted>>

Finish ==
    /\ phase = "next" /\ place = Len(input)
    /\ phase' = "done"
    /\ UNCHANGED <<source, place, begun, node, regs, todo, goal, emitted>>

Next ==
    \/ MakeToken
    \/ \E edge \in Edges : Step(edge) \/ StartActions(edge)
    \/ Recognize \/ Act \/ Arrive \/ Emit \/ Die \/ Finish

Spec == Init /\ [][Next]_vars
\* makeTokens is one thread that nothing else holds up.
LiveSpec == Spec /\ WF_vars(Next)

(***************************************************************************)
(* Properties.                                                             *)
(***************************************************************************)
\* Every state, register and position is one the tables and the input have:
\* DFA::run never looks beside them ("register out of range").
TypeOK ==
    /\ lexer \in Lexers /\ input \in Seq(Chars)
    /\ place \in 0 .. Len(input) /\ begun \in 0 .. place
    /\ node \in DOMAIN lexer.states
    /\ regs \in [0 .. lexer.registers - 1 -> Unset .. Len(input)]
    /\ todo \in Seq(Operations(lexer.registers))
    /\ goal \in DOMAIN lexer.states \cup {Recognized}
    /\ phase \in {"next", "scan", "act", "done", "thrown"}

\* Tokens have at least a character, follow each other without overlapping,
\* and lie in the input that is behind the cursor (makeTokens).
TokensAreInOrder ==
    /\ \A i \in DOMAIN emitted : 0 <= emitted[i].from /\ emitted[i].from < emitted[i].to /\ emitted[i].to <= place
    /\ \A i, j \in DOMAIN emitted : i < j => emitted[i].to <= emitted[j].from

\* A capture lies in its token, however its registers were copied
\* (Captures::view).
CapturesLieInTokens ==
    \A i \in DOMAIN emitted : \A c \in DOMAIN emitted[i].spans :
        LET span == emitted[i].spans[c]
        IN  0 <= span.from /\ span.from < span.to /\ span.to <= emitted[i].to - emitted[i].from

\* Every token that is emitted spells a text of its kind, and its captures
\* hold what the members they mark spell there, however registers were shared
\* and copied (DFA.TDFA.cppm).
TokensAreReadings ==
    \A i \in DOMAIN emitted :
        [token |-> emitted[i].token, text |-> Text(emitted[i].from, emitted[i].to), spans |-> emitted[i].spans]
            \in Reference[lexer.name].spellings

Found == emitted' # emitted
ScanEnds == phase \in {"scan", "act"} /\ phase' \in {"next", "thrown"}

EndsWell(text, reference) ==
    /\ place < Len(input) => Append(text, input[place + 1]) \notin reference.viable
    /\ Found <=> text \in DOMAIN reference.preferred
    /\ Found => emitted'[Len(emitted')].token = reference.preferred[text]

\* A scan ends only where no token goes on with the next character; it finds a
\* token exactly if what it read is one, and the one to be preferred (DFA::run
\* over the tables of the lexer).
ScansGoAsFarAsTheyCan == [][ScanEnds => EndsWell(Text(begun, place), Reference[lexer.name])]_vars

\* In a text that is made of tokens every scan finds a token: no character is
\* passed over and none is refused (makeTokens).
TokensAreFound == [][ScanEnds => Found]_vars

\* Every input is read to its end or complained about: a scan that does not
\* move is not repeated for ever (makeTokens).
Finishes == <>(phase \in {"done", "thrown"})
=============================================================================
