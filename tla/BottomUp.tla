------------------------------ MODULE BottomUp ------------------------------
(***************************************************************************)
(* What an LR driver promises, without states or tables: bottom-up         *)
(* recognition.  The sentential form is rewritten from right-hand sides to *)
(* left-hand sides, so a run that ends with the start symbol alone is a    *)
(* derivation of the input read backwards.  Departing from the input, by   *)
(* dropping a token or supplying one, takes an error report first.         *)
(***************************************************************************)
EXTENDS Integers, Sequences

CONSTANTS
    Grammars,   \* the productions of each grammar, a function from their names
    Texts,      \* the inputs of each
    Blank,      \* the whitespace token
    Start       \* the start symbol

VARIABLES
    grammar, tokens,
    next,       \* how many tokens have been consumed
    form,       \* the symbols recognised so far
    reported,   \* whether an error has been reported
    status      \* "running", "accepted", "failed"

bvars == <<grammar, tokens, next, form, reported, status>>

BInit ==
    /\ grammar \in DOMAIN Grammars /\ tokens \in Texts[grammar]
    /\ next = 0 /\ form = <<>> /\ reported = FALSE /\ status = "running"

Running == status = "running" /\ UNCHANGED <<grammar, tokens>>

PassBlank ==
    /\ Running
    /\ next < Len(tokens) /\ tokens[next + 1] = Blank
    /\ next' = next + 1
    /\ UNCHANGED <<form, reported, status>>

Take ==
    /\ Running
    /\ next < Len(tokens)
    /\ next' = next + 1 /\ form' = Append(form, tokens[next + 1])
    /\ UNCHANGED <<reported, status>>

\* The last symbols of the form are the right-hand side of a production.
Rewrite ==
    /\ Running
    /\ \E id \in DOMAIN Grammars[grammar] \ {0} :
          LET production == Grammars[grammar][id]
              base == Len(form) - Len(production.rhs)
          IN  /\ base >= 0
              /\ SubSeq(form, base + 1, Len(form)) = production.rhs
              /\ form' = Append(SubSeq(form, 1, base), production.lhs)
    /\ UNCHANGED <<next, reported, status>>

Report ==
    /\ Running
    /\ reported' = TRUE
    /\ next' \in {next, next + 1} /\ next' <= Len(tokens)
    /\ status' \in {"running", "failed"}
    /\ UNCHANGED form

Drop ==
    /\ Running /\ reported
    /\ next < Len(tokens)
    /\ next' = next + 1
    /\ UNCHANGED <<form, reported, status>>

Supply ==
    /\ Running /\ reported
    /\ Len(form') = Len(form) + 1 /\ SubSeq(form', 1, Len(form)) = form
    /\ UNCHANGED <<next, reported, status>>

GiveUp == Running /\ status' = "failed" /\ UNCHANGED <<next, form, reported>>

Accept ==
    /\ Running
    /\ form = <<Start>> /\ next = Len(tokens)
    /\ status' = "accepted"
    /\ UNCHANGED <<next, form, reported>>

BNext ==
    \/ PassBlank \/ Take \/ Rewrite \/ Report \/ Drop \/ Supply \/ GiveUp \/ Accept

BSpec == BInit /\ [][BNext]_bvars
=============================================================================
