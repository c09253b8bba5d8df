----------------------------- MODULE MCWorkflow -----------------------------
(* Workflow with small specifications. *)
EXTENDS Workflow, TLC

CONSTANTS c1, r1, r2

Stage(key) == [key |-> key, initial |-> FALSE, terminal |-> FALSE, sla |-> FALSE,
               escalates |-> FALSE, fields |-> {}, documents |-> 0, approvals |-> 0]

First(key) == [Stage(key) EXCEPT !.initial = TRUE]

Last(key) == [Stage(key) EXCEPT !.terminal = TRUE]

Move(key, from, to) == [key |-> key, from |-> from, to |-> to]

Parsed(stages, transitions) ==
    [parses |-> TRUE, knownRefs |-> TRUE, stages |-> stages, transitions |-> transitions]

(* Draft, review under a deadline with evidence, sent back or approved.    *)
Review ==
    Parsed(<<[First("draft") EXCEPT !.fields = {"title"}],
             [Stage("review") EXCEPT !.sla = TRUE, !.escalates = TRUE,
                                     !.documents = 1, !.approvals = 1],
             Last("done")>>,
           <<Move("submit", "draft", "review"), Move("approve", "review", "done"),
             Move("revise", "review", "draft")>>)

(* One step, by a wildcard. *)
Quick ==
    Parsed(<<[First("draft") EXCEPT !.sla = TRUE], Last("done")>>,
           <<Move("finish", "*", "done")>>)

(* A dead end, an unknown target, and text that does not parse. *)
DeadEnd ==
    Parsed(<<First("draft"), Stage("stuck"), Last("done")>>,
           <<Move("submit", "draft", "stuck"), Move("finish", "draft", "done")>>)

Corrupt == [Quick EXCEPT !.parses = FALSE]

SerialSpecs == {Review, Quick, DeadEnd, Corrupt}

TitleOrNot == {{}, {"title"}}

=============================================================================
