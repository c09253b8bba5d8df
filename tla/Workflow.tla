------------------------------ MODULE Workflow ------------------------------
(***************************************************************************)
(* The workflow engine (domain/workflows.ts): versions of one workflow are *)
(* drafted, activated and retired, records run as instances bound to the   *)
(* version they started under, and a job escalates overdue ones.           *)
(*                                                                         *)
(* Handlers interleave at each await; a transaction commits in one step.   *)
(* The documents and approvals on file for a record come and go elsewhere. *)
(* Permissions and the audit log are left out.                             *)
(***************************************************************************)
EXTENDS WorkflowSpec

CONSTANTS
    Clients,      \* handlers that may be running at the same time
    Records,      \* the records that workflows govern
    Specs,        \* the specifications that authors save
    Starter,      \* the specification a new workflow begins with
    Fields,       \* the field values a transition may come with, as sets
    MaxVersions,  \* bound on the versions of the workflow
    MaxLog,       \* bound on the transitions of a record
    MaxEvidence,  \* bound on the documents and approvals of a record
    MaxCrashes,   \* bound on the deaths of the escalation job
    None          \* null

ASSUME StarterAssumption == Starter \in Specs

ASSUME SpecsAssumption == Specs \subseteq WorkflowSpecification

ASSUME BoundsAssumption == {MaxVersions, MaxLog, MaxEvidence, MaxCrashes} \subseteq Nat

VARIABLES
    definition,  \* the WorkflowDefinition, or None
    version,     \* its versions, numbered from 1
    instance,    \* the WorkflowInstance of each record, or None
    log,         \* its WorkflowTransitionLog
    attached,    \* how many documents are attached to a record
    approved,    \* how many approval requests for it were approved
    escalations, \* notices sent, by record and position in the log
    crashes,     \* how often the job died between a notice and its mark
    pc,          \* where each client's handler is
    req          \* what it works on and what it has read

vars == <<definition, version, instance, log, attached, approved,
          escalations, crashes, pc, req>>

authoring == <<definition, version>>

runtime == <<instance, log, attached, approved, escalations, crashes>>

Definition == [status : {"draft", "active", "archived"}, archived : BOOLEAN,
               current : Nat]

Version == [status : {"draft", "active", "retired"}, spec : Specs]

Instance == [version : Nat \ {0}, stage : STRING, status : {"active", "completed"},
             due : {"none", "running", "passed"}, escalated : BOOLEAN,
             fields : SUBSET UNION Fields]

(* A row of WorkflowTransitionLog; the first comes from no stage, under a  *)
(* key of its own.                                                         *)
LogEntry == [from : STRING \cup {None}, to : STRING, key : STRING \cup {"start"}]

(* Neither a workflow nor an instance is null. *)
ASSUME NullAssumption == None \notin Definition \cup Instance

(* Where the handlers that author versions, those that run records and the *)
(* escalation job may be between two of their steps.                       *)
AuthorStages == {"saving", "opening", "seeding", "activating", "retiring", "archiving"}

RecordStages == {"starting", "binding", "gating", "moving"}

JobStages == {"escalating", "marking"}

WithStatus(status) == {v \in DOMAIN version : version[v].status = status}

MaxOf(S) == CHOOSE v \in S : \A w \in S : w <= v

SpecOf(r) == version[instance[r].version].spec

-----------------------------------------------------------------------------

Goto(c, here, there) == pc[c] = here /\ pc' = [pc EXCEPT ![c] = there]

Return(c) ==
    /\ pc' = [pc EXCEPT ![c] = "idle"]
    /\ req' = [req EXCEPT ![c] = None]

Read(c, what) == req' = [req EXCEPT ![c] = what]

Editable == definition # None /\ ~definition.archived

(* createWorkflow *)
CreateWorkflow(c) ==
    /\ pc[c] = "idle"
    /\ definition = None
    /\ definition' = [status |-> "draft", archived |-> FALSE, current |-> 0]
    /\ version' = <<[status |-> "draft", spec |-> Starter]>>
    /\ UNCHANGED <<runtime, pc, req>>

(* Variant: the latest version is edited, draft or not. *)
ReadLatestToSave(c, spec) ==
    /\ Goto(c, "idle", "saving")
    /\ Editable
    /\ Read(c, [version |-> Len(version), spec |-> spec])
    /\ UNCHANGED <<authoring, runtime>>

(* saveWorkflowDraft: find the draft. *)
ReadDraft(c, spec) ==
    /\ Goto(c, "idle", "saving")
    /\ Editable
    /\ WithStatus("draft") # {}
    /\ Read(c, [version |-> MaxOf(WithStatus("draft")), spec |-> spec])
    /\ UNCHANGED <<authoring, runtime>>

(* ... and store the specification in it, valid or not. *)
WriteDraft(c) ==
    /\ pc[c] = "saving"
    /\ version' = [version EXCEPT ![req[c].version].spec = req[c].spec]
    /\ Return(c)
    /\ UNCHANGED <<definition, runtime>>

(* openWorkflowRevision: there must be no draft. *)
ReadNoDraft(c) ==
    /\ Goto(c, "idle", "opening")
    /\ Editable
    /\ WithStatus("draft") = {}
    /\ UNCHANGED <<authoring, runtime, req>>

(* ... the latest version seeds the revision *)
ReadLatest(c) ==
    /\ Goto(c, "opening", "seeding")
    /\ Read(c, [number |-> Len(version) + 1, spec |-> version[Len(version)].spec])
    /\ UNCHANGED <<authoring, runtime>>

(* ... which is created unless its number has been taken.                  *)
CreateRevision(c) ==
    /\ pc[c] = "seeding"
    /\ req[c].number = Len(version) + 1
    /\ req[c].number <= MaxVersions
    /\ version' = Append(version, [status |-> "draft", spec |-> req[c].spec])
    /\ Return(c)
    /\ UNCHANGED <<definition, runtime>>

(* activateWorkflowVersion: a draft whose specification is valid. *)
ReadForActivate(c, v) ==
    /\ Goto(c, "idle", "activating")
    /\ Editable
    /\ version[v].status = "draft"
    /\ Valid(version[v].spec)
    /\ Read(c, [version |-> v, retire |-> {}])
    /\ UNCHANGED <<authoring, runtime>>

(* Variant: the active version is not retired. *)
BeginActivateNoRetire(c) ==
    /\ Goto(c, "activating", "retiring")
    /\ UNCHANGED <<authoring, runtime, req>>

(* Its transaction begins by retiring the versions it finds active; a row  *)
(* that another transaction has retired meanwhile is skipped.              *)
BeginActivate(c) ==
    /\ Goto(c, "activating", "retiring")
    /\ Read(c, [req[c] EXCEPT !.retire = WithStatus("active")])
    /\ UNCHANGED <<authoring, runtime>>

CommitActivate(c) ==
    LET v == req[c].version IN
    /\ pc[c] = "retiring"
    /\ version' = [w \in DOMAIN version |->
          IF w = v THEN [version[w] EXCEPT !.status = "active"]
          ELSE IF w \in req[c].retire THEN [version[w] EXCEPT !.status = "retired"]
          ELSE version[w]]
    /\ definition' = [definition EXCEPT !.status = "active", !.current = v]
    /\ Return(c)
    /\ UNCHANGED runtime

(* archiveWorkflow: no record may be running. *)
ReadForArchive(c) ==
    /\ Goto(c, "idle", "archiving")
    /\ Editable
    /\ \A r \in Records : instance[r] # None => instance[r].status # "active"
    /\ UNCHANGED <<authoring, runtime, req>>

CommitArchive(c) ==
    /\ pc[c] = "archiving"
    /\ definition' = [definition EXCEPT !.status = "archived", !.archived = TRUE]
    /\ Return(c)
    /\ UNCHANGED <<version, runtime>>

-----------------------------------------------------------------------------
(* Instances *)

(* startWorkflowInstance: the record has none, the workflow is there. *)
ReadDefinition(c, r) ==
    /\ Goto(c, "idle", "starting")
    /\ instance[r] = None
    /\ Editable
    /\ Read(c, [record |-> r, version |-> 0])
    /\ UNCHANGED <<authoring, runtime>>

(* ... the active version is there and has an initial stage *)
ReadActiveVersion(c) ==
    /\ Goto(c, "starting", "binding")
    /\ WithStatus("active") # {}
    /\ LET v == MaxOf(WithStatus("active")) IN
       /\ version[v].spec.parses
       /\ InitialStages(version[v].spec) # {}
       /\ Read(c, [record |-> req[c].record, version |-> v,
                   stage |-> InitialStage(version[v].spec)])
    /\ UNCHANGED <<authoring, runtime>>

DueIn(stage) == IF stage.sla THEN "running" ELSE "none"

(* ... and the instance is created, unless the record has got one.         *)
CreateInstance(c) ==
    LET r == req[c].record
        stage == req[c].stage
    IN
    /\ pc[c] = "binding"
    /\ instance[r] = None
    /\ instance' = [instance EXCEPT ![r] =
          [version |-> req[c].version, stage |-> stage.key,
           status |-> IF stage.terminal THEN "completed" ELSE "active",
           due |-> DueIn(stage), escalated |-> FALSE, fields |-> {}]]
    /\ log' = [log EXCEPT ![r] = <<[from |-> None, to |-> stage.key, key |-> "start"]>>]
    /\ Return(c)
    /\ UNCHANGED <<authoring, attached, approved, escalations, crashes>>

(* performTransition: an active instance, a transition that leaves its     *)
(* stage and the fields the stage requires.                                *)
ReadForTransition(c, r, t, fields) ==
    LET spec == SpecOf(r)
        stage == instance[r].stage
        collected == instance[r].fields \cup fields
    IN
    /\ Goto(c, "idle", "gating")
    /\ instance[r] # None
    /\ instance[r].status = "active"
    /\ Len(log[r]) < MaxLog
    /\ spec.parses
    /\ t \in TransitionsFrom(spec, stage)
    /\ HasStage(spec, t.to)
    /\ StageByKey(spec, stage).fields \subseteq collected
    /\ Read(c, [record |-> r, from |-> StageByKey(spec, stage),
                to |-> StageByKey(spec, t.to), key |-> t.key,
                fields |-> collected])
    /\ UNCHANGED <<authoring, runtime>>

(* Variant: only the documents are counted. *)
CheckDocumentsOnly(c) ==
    /\ Goto(c, "gating", "moving")
    /\ attached[req[c].record] >= req[c].from.documents
    /\ UNCHANGED <<authoring, runtime, req>>

(* ... the documents and approvals it requires *)
CheckEvidence(c) ==
    /\ Goto(c, "gating", "moving")
    /\ attached[req[c].record] >= req[c].from.documents
    /\ approved[req[c].record] >= req[c].from.approvals
    /\ UNCHANGED <<authoring, runtime, req>>

(* Variant: reaching a terminal stage leaves the instance open. *)
CommitTransitionOpen(c) ==
    LET r == req[c].record IN
    /\ pc[c] = "moving"
    /\ instance' = [instance EXCEPT ![r] =
          [@ EXCEPT !.stage = req[c].to.key, !.due = DueIn(req[c].to),
                    !.escalated = FALSE, !.fields = req[c].fields]]
    /\ log' = [log EXCEPT ![r] =
          Append(@, [from |-> req[c].from.key, to |-> req[c].to.key,
                     key |-> req[c].key])]
    /\ Return(c)
    /\ UNCHANGED <<authoring, attached, approved, escalations, crashes>>

(* ... and the transaction, by the instance's id. *)
CommitTransition(c) ==
    LET r == req[c].record
        to == req[c].to
    IN
    /\ pc[c] = "moving"
    /\ instance' = [instance EXCEPT ![r] =
          [@ EXCEPT !.stage = to.key,
                    !.status = IF to.terminal THEN "completed" ELSE "active",
                    !.due = IF to.terminal THEN "none" ELSE DueIn(to),
                    !.escalated = FALSE, !.fields = req[c].fields]]
    /\ log' = [log EXCEPT ![r] =
          Append(@, [from |-> req[c].from.key, to |-> to.key, key |-> req[c].key])]
    /\ Return(c)
    /\ UNCHANGED <<authoring, attached, approved, escalations, crashes>>

(* Time passes an instance's deadline. *)
PassDeadline(r) ==
    /\ instance[r] # None
    /\ instance[r].due = "running"
    /\ instance' = [instance EXCEPT ![r].due = "passed"]
    /\ UNCHANGED <<authoring, log, attached, approved, escalations, crashes, pc, req>>

(* Between two of its handlers a client attaches a document to a record or *)
(* detaches it, or an approval of the record is decided.                   *)
FileEvidence(c, r) ==
    /\ pc[c] = "idle"
    /\ \/ /\ attached[r] < MaxEvidence
          /\ attached' = [attached EXCEPT ![r] = @ + 1]
          /\ UNCHANGED approved
       \/ /\ attached[r] > 0
          /\ attached' = [attached EXCEPT ![r] = @ - 1]
          /\ UNCHANGED approved
       \/ /\ approved[r] < MaxEvidence
          /\ approved' = [approved EXCEPT ![r] = @ + 1]
          /\ UNCHANGED attached
    /\ UNCHANGED <<authoring, instance, log, escalations, crashes, pc, req>>

(* Variant: escalated instances are found again. *)
OverdueAgain(r) ==
    /\ instance[r] # None
    /\ instance[r].status = "active"
    /\ instance[r].due = "passed"

(* An overdue instance that has not been escalated in its stage. *)
Overdue(r) ==
    /\ instance[r] # None
    /\ instance[r].status = "active"
    /\ instance[r].due = "passed"
    /\ ~instance[r].escalated

(* Does the stage an instance is in declare an escalation? *)
Escalates(r) ==
    /\ SpecOf(r).parses
    /\ HasStage(SpecOf(r), instance[r].stage)
    /\ StageByKey(SpecOf(r), instance[r].stage).escalates

(* escalateOverdueInstances: the query; those without an escalation are    *)
(* passed over.                                                            *)
FindOverdue(c) ==
    /\ Goto(c, "idle", "escalating")
    /\ \E r \in Records : Overdue(r)
    /\ Read(c, {<<r, Len(log[r])>> : r \in {q \in Records : Overdue(q) /\ Escalates(q)}})
    /\ UNCHANGED <<authoring, runtime>>

(* ... the next of those found is notified *)
NotifyEscalation(c, r, entry) ==
    /\ Goto(c, "escalating", "marking")
    /\ <<r, entry>> \in req[c]
    /\ escalations' = [escalations EXCEPT ![r][entry] = @ + 1]
    /\ Read(c, [record |-> r, rest |-> req[c] \ {<<r, entry>>}])
    /\ UNCHANGED <<authoring, instance, log, attached, approved, crashes>>

(* ... and marked. *)
MarkEscalated(c) ==
    /\ Goto(c, "marking", "escalating")
    /\ instance' = [instance EXCEPT ![req[c].record].escalated = TRUE]
    /\ Read(c, req[c].rest)
    /\ UNCHANGED <<authoring, log, attached, approved, escalations, crashes>>

EndEscalation(c) ==
    /\ pc[c] = "escalating"
    /\ req[c] = {}
    /\ Return(c)
    /\ UNCHANGED <<authoring, runtime>>

(* A check or a statement fails and the handler gives up. *)
Fail(c) ==
    /\ pc[c] \notin {"idle", "marking"}
    /\ Return(c)
    /\ UNCHANGED <<authoring, runtime>>

(* The job dies between a notice and its mark. *)
CrashBeforeMark(c) ==
    /\ pc[c] = "marking"
    /\ crashes < MaxCrashes
    /\ crashes' = crashes + 1
    /\ Return(c)
    /\ UNCHANGED <<authoring, instance, log, attached, approved, escalations>>

-----------------------------------------------------------------------------

Init ==
    /\ definition = None
    /\ version = <<>>
    /\ instance = [r \in Records |-> None]
    /\ log = [r \in Records |-> <<>>]
    /\ attached = [r \in Records |-> 0]
    /\ approved = [r \in Records |-> 0]
    /\ escalations = [r \in Records |-> [k \in 1 .. MaxLog |-> 0]]
    /\ crashes = 0
    /\ pc = [c \in Clients |-> "idle"]
    /\ req = [c \in Clients |-> None]

Authoring(c) ==
    \/ CreateWorkflow(c)
    \/ \E spec \in Specs : ReadDraft(c, spec)
    \/ WriteDraft(c)
    \/ ReadNoDraft(c)
    \/ ReadLatest(c)
    \/ CreateRevision(c)
    \/ \E v \in DOMAIN version : ReadForActivate(c, v)
    \/ BeginActivate(c)
    \/ CommitActivate(c)
    \/ ReadForArchive(c)
    \/ CommitArchive(c)

Running(c) ==
    \/ \E r \in Records : ReadDefinition(c, r)
    \/ ReadActiveVersion(c)
    \/ CreateInstance(c)
    \/ \E r \in Records, fields \in Fields :
          /\ instance[r] # None
          /\ \E t \in Range(SpecOf(r).transitions) : ReadForTransition(c, r, t, fields)
    \/ CheckEvidence(c)
    \/ CommitTransition(c)

Escalating(c) ==
    \/ FindOverdue(c)
    \/ \E r \in Records, k \in 1 .. MaxLog :
          pc[c] = "escalating" /\ NotifyEscalation(c, r, k)
    \/ MarkEscalated(c)
    \/ EndEscalation(c)
    \/ CrashBeforeMark(c)

Next ==
    \/ \E c \in Clients :
          \/ Authoring(c) \/ Running(c) \/ Escalating(c) \/ Fail(c)
          \/ \E r \in Records : FileEvidence(c, r)
    \/ \E r \in Records : PassDeadline(r)

Spec == Init /\ [][Next]_vars

-----------------------------------------------------------------------------
(* Properties *)

(* Tables and handlers hold values of their types. *)
TypeOK ==
    /\ definition \in Definition \cup {None}
    /\ version \in Seq(Version)
    /\ instance \in [Records -> Instance \cup {None}]
    /\ log \in [Records -> Seq(LogEntry)]
    /\ attached \in [Records -> 0 .. MaxEvidence]
    /\ approved \in [Records -> 0 .. MaxEvidence]
    /\ escalations \in [Records -> [1 .. MaxLog -> Nat]]
    /\ crashes \in 0 .. MaxCrashes
    /\ pc \in [Clients -> AuthorStages \cup RecordStages \cup JobStages \cup {"idle"}]
    /\ DOMAIN req = Clients
    /\ \A c \in Clients : pc[c] = "idle" => req[c] = None

(* "Editing an active version is impossible by construction": once it has  *)
(* left draft a version keeps its specification, and never becomes a draft *)
(* again; a retired one is never reactivated.                              *)
VersionsAreFrozen ==
    [][\A v \in DOMAIN version :
          /\ version[v].status # "draft" => version'[v].spec = version[v].spec
          /\ version'[v].status = "draft" => version[v].status = "draft"
          /\ version[v].status = "retired" => version'[v].status = "retired"]_vars

(* Records are governed: at most one version is active, the one that the   *)
(* definition names; a record is bound to a version that was activated and *)
(* whose specification passed validation; and an archived workflow governs *)
(* no record that is still running.  All rows are of their types.          *)
RecordsAreGoverned ==
    /\ TypeOK
    /\ \A v \in WithStatus("active") :
         WithStatus("active") = {v} /\ definition.current = v
    /\ \A r \in Records : instance[r] # None =>
         /\ version[instance[r].version].status \in {"active", "retired"}
         /\ Valid(SpecOf(r))
         /\ definition.archived => instance[r].status = "completed"

(* The log of a record is a walk from the initial stage to the current one *)
(* along transitions of the version it is bound to, and the instance is    *)
(* closed exactly when the walk has reached a terminal stage.              *)
LogIsAWalk ==
    \A r \in Records : instance[r] # None =>
        LET steps == log[r] IN
        /\ steps[1].to = InitialStage(SpecOf(r)).key
        /\ \A k \in 2 .. Len(steps) :
             /\ steps[k].from = steps[k - 1].to
             /\ \E t \in Range(SpecOf(r).transitions) :
                  /\ t.key = steps[k].key /\ t.to = steps[k].to
                  /\ t.from \in {steps[k].from, "*"}
             /\ ~StageByKey(SpecOf(r), steps[k].from).terminal
        /\ instance[r].stage = steps[Len(steps)].to
        /\ instance[r].status = "completed"
             <=> StageByKey(SpecOf(r), instance[r].stage).terminal

(* No record leaves a stage unless the documents and approvals that the    *)
(* stage requires are on file.                                             *)
EvidenceOnFile ==
    [][\A r \in Records : log[r] # <<>> /\ log'[r] # log[r] =>
          LET left == StageByKey(SpecOf(r), log'[r][Len(log'[r])].from) IN
          attached[r] >= left.documents /\ approved[r] >= left.approvals]_vars

(* "Once per stage entry": a stage entry of a record is not escalated      *)
(* twice, except when the job died before it could mark the first.         *)
EscalatedOnce ==
    \A r \in Records, k \in 1 .. MaxLog : escalations[r][k] <= 1 + crashes

=============================================================================
