---------------------------- MODULE WorkflowSpec ----------------------------
(***************************************************************************)
(* The declarative workflow model and its validation (lib/workflow/spec.ts)*)
(*                                                                         *)
(* A specification is a record of                                          *)
(*   parses      does the stored text have the shape of a specification    *)
(*   knownRefs   do the permissions and roles it names exist               *)
(*   stages      a sequence of [key, initial, terminal, sla, escalates,    *)
(*               fields, documents, approvals]                             *)
(*   transitions a sequence of [key, from, to]; from may be "*"            *)
(***************************************************************************)
EXTENDS Naturals, Sequences, FiniteSets, Functions

WorkflowStage ==
    [key : STRING, initial : BOOLEAN, terminal : BOOLEAN, sla : BOOLEAN,
     escalates : BOOLEAN, fields : SUBSET STRING, documents : Nat, approvals : Nat]

WorkflowTransition == [key : STRING, from : STRING, to : STRING]

WorkflowSpecification ==
    [parses : BOOLEAN, knownRefs : BOOLEAN, stages : Seq(WorkflowStage),
     transitions : Seq(WorkflowTransition)]

StageKeys(spec) == {s.key : s \in Range(spec.stages)}

InitialStages(spec) == {i \in DOMAIN spec.stages : spec.stages[i].initial}

HasStage(spec, key) == key \in StageKeys(spec)

(* The first element of a sequence that a search with find returns. *)
FirstIn(indices) == CHOOSE i \in indices : \A j \in indices : i <= j

(* stageByKey *)
StageByKey(spec, key) ==
    spec.stages[FirstIn({i \in DOMAIN spec.stages : spec.stages[i].key = key})]

(* initialStage *)
InitialStage(spec) == spec.stages[FirstIn(InitialStages(spec))]

(* transitionsFrom: nothing leaves a terminal stage. *)
TransitionsFrom(spec, key) ==
    {t \in Range(spec.transitions) :
        /\ HasStage(spec, key)
        /\ ~StageByKey(spec, key).terminal
        /\ t.from \in {key, "*"}}

(* Whatever is closed under transitions and holds from has a terminal      *)
(* stage: a search from there finds one.                                   *)
CanReachTerminal(spec, from) ==
    \A S \in SUBSET StageKeys(spec) :
        /\ from \in S
        /\ \A s \in S : \A t \in TransitionsFrom(spec, s) : t.to \in S
        => \E s \in S : StageByKey(spec, s).terminal

UniqueKeys(seq) == \A i, j \in DOMAIN seq : seq[i].key = seq[j].key => i = j

(* Every transition joins stages, and none is declared to leave a terminal *)
(* one.                                                                    *)
TransitionsJoin(spec) ==
    \A t \in Range(spec.transitions) :
        /\ t.to \in StageKeys(spec)
        /\ t.from # "*" => /\ t.from \in StageKeys(spec)
                           /\ ~StageByKey(spec, t.from).terminal

NoDeadEnd(spec) ==
    \A s \in Range(spec.stages) : s.terminal \/ TransitionsFrom(spec, s.key) # {}

(* validateSpec, and the parsing before it: no errors. *)
Valid(spec) ==
    /\ spec.parses
    /\ spec.knownRefs
    /\ UniqueKeys(spec.stages)
    /\ Cardinality(InitialStages(spec)) = 1
    /\ \E s \in Range(spec.stages) : s.terminal
    /\ UniqueKeys(spec.transitions)
    /\ TransitionsJoin(spec)
    /\ NoDeadEnd(spec)
    /\ CanReachTerminal(spec, InitialStage(spec).key)

=============================================================================
