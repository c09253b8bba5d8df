-------------------------- MODULE Workflow_proofs --------------------------
(***************************************************************************)
(* Proofs about Workflow, for any clients, records, specifications and     *)
(* bounds.  Types hold however handlers overlap.  The rest is proved of    *)
(* the behaviours in which the handlers it depends on run one at a time,   *)
(* and the hypothesis of each theorem says which they are: authors of      *)
(* versions, handlers of records, or escalation jobs.                      *)
(***************************************************************************)
EXTENDS Workflow, WellFoundedInduction, FiniteSetTheorems, TLAPS

-----------------------------------------------------------------------------
(* Specifications *)

(* A set of naturals that is not empty has a least element. *)
LEMMA LeastNatural ==
    ASSUME NEW S, S \subseteq Nat, S # {}
    PROVE  \E n \in S : \A m \in S : n <= m
<1>1. PICK R : R = OpToRel(<, Nat)
  OBVIOUS
<1>2. IsWellFoundedOn(R, Nat)
  BY <1>1, NatLessThanWellFounded
<1>3. PICK n \in S : \A m \in S : <<m, n>> \notin R
  BY <1>2, WFMin
<1>4. \A m \in S : ~(m < n)
  BY <1>1, <1>3 DEF OpToRel
<1> QED
  BY <1>4

(* ... and, if it is bounded, a greatest one. *)
LEMMA GreatestNatural ==
    ASSUME NEW S, S \subseteq Nat, S # {}, NEW bound \in Nat, \A n \in S : n <= bound
    PROVE  \E n \in S : \A m \in S : m <= n
<1> DEFINE Below == {bound - n : n \in S}
<1>1. Below # {}
  OBVIOUS
<1>2. Below \subseteq Nat
  <2>1. \A n \in S : bound - n \in Nat
    OBVIOUS
  <2> QED
    BY <2>1
<1>3. PICK b \in Below : \A m \in Below : b <= m
  BY <1>1, <1>2, LeastNatural
<1>4. PICK n \in S : b = bound - n
  OBVIOUS
<1>5. \A m \in S : bound - n <= bound - m
  BY <1>3, <1>4
<1> QED
  BY <1>4, <1>5

(* A search that finds something returns an index of it. *)
LEMMA FirstIsIn ==
    ASSUME NEW S, S \subseteq Nat, S # {}
    PROVE  FirstIn(S) \in S
<1>1. \E i \in S : \A j \in S : i <= j
  BY LeastNatural
<1> QED
  BY <1>1 DEF FirstIn

(* The stage found under a key is a stage with that key. *)
LEMMA StageFound ==
    ASSUME NEW spec \in WorkflowSpecification, NEW key, HasStage(spec, key)
    PROVE  /\ StageByKey(spec, key) \in WorkflowStage
           /\ StageByKey(spec, key).key = key
<1> DEFINE S == {i \in DOMAIN spec.stages : spec.stages[i].key = key}
<1>1. spec.stages \in Seq(WorkflowStage)
  BY DEF WorkflowSpecification
<1>2. DOMAIN spec.stages = 1 .. Len(spec.stages) /\ Len(spec.stages) \in Nat
  BY <1>1
<1>3. S \subseteq Nat /\ S # {}
  BY <1>2 DEF HasStage, StageKeys, Range
<1>4. PICK i : i = FirstIn(S)
  OBVIOUS
<1>5. i \in DOMAIN spec.stages /\ spec.stages[i].key = key
  BY <1>3, <1>4, FirstIsIn
<1>6. StageByKey(spec, key) = spec.stages[i]
  BY <1>4 DEF StageByKey
<1> QED
  BY <1>1, <1>2, <1>5, <1>6

(* Where keys are unique, a stage is found under its own key. *)
LEMMA StageFoundByItsKey ==
    ASSUME NEW spec \in WorkflowSpecification, UniqueKeys(spec.stages),
           NEW i \in DOMAIN spec.stages
    PROVE  StageByKey(spec, spec.stages[i].key) = spec.stages[i]
<1> DEFINE S == {j \in DOMAIN spec.stages : spec.stages[j].key = spec.stages[i].key}
<1>1. spec.stages \in Seq(WorkflowStage)
  BY DEF WorkflowSpecification
<1>2. S \subseteq Nat /\ S # {}
  BY <1>1
<1>3. FirstIn(S) \in S
  BY <1>2, FirstIsIn
<1>4. FirstIn(S) = i
  BY <1>3 DEF UniqueKeys
<1> QED
  BY <1>4 DEF StageByKey

(* The initial stage is one of the stages. *)
LEMMA InitialFound ==
    ASSUME NEW spec \in WorkflowSpecification, InitialStages(spec) # {}
    PROVE  \E i \in DOMAIN spec.stages :
              InitialStage(spec) = spec.stages[i] /\ spec.stages[i] \in WorkflowStage
<1>1. spec.stages \in Seq(WorkflowStage)
  BY DEF WorkflowSpecification
<1>2. InitialStages(spec) \subseteq DOMAIN spec.stages /\ DOMAIN spec.stages \subseteq Nat
  BY <1>1 DEF InitialStages
<1>3. FirstIn(InitialStages(spec)) \in InitialStages(spec)
  BY <1>2, FirstIsIn
<1> QED
  BY <1>1, <1>2, <1>3 DEF InitialStage

(* A table whose rows are rewritten in place is a table of as many rows.   *)
LEMMA RewrittenTable ==
    ASSUME NEW S, NEW T, NEW s \in Seq(S), NEW f, f = [k \in DOMAIN s |-> f[k]],
           \A k \in DOMAIN s : f[k] \in T
    PROVE  f \in Seq(T) /\ Len(f) = Len(s) /\ DOMAIN f = DOMAIN s
<1>1. DOMAIN s = 1 .. Len(s) /\ Len(s) \in Nat
  OBVIOUS
<1>2. f \in [1 .. Len(s) -> T]
  BY <1>1
<1> QED
  BY <1>1, <1>2

-----------------------------------------------------------------------------
(* Types *)

(* What the escalation job has found: entries of the logs of records that  *)
(* run.                                                                    *)
Found(entries) == \A e \in entries : e \in Records \X Nat /\ instance[e[1]] # None

(* A handler at some place, with what it has read. *)
HandlerAt(here, what) ==
    /\ here = "idle" => what = None
    /\ here \in AuthorStages \cup RecordStages => definition # None
    /\ here \in {"saving", "seeding"} => what.spec \in Specs
    /\ here \in {"saving", "activating", "retiring", "binding"} =>
          what.version \in DOMAIN version
    /\ here \in {"activating", "retiring"} =>
          what = [version |-> what.version, retire |-> what.retire]
    /\ here \in RecordStages \cup {"marking"} => what.record \in Records
    /\ here = "binding" => what.stage \in WorkflowStage
    /\ here \in {"gating", "moving", "marking"} => instance[what.record] # None
    /\ here \in {"gating", "moving"} =>
          /\ what.from \in WorkflowStage
          /\ what.to \in WorkflowStage
          /\ what.key \in STRING
          /\ what.fields \in SUBSET UNION Fields
    /\ here = "escalating" => Found(what)
    /\ here = "marking" => Found(what.rest)

HandlerOK(c) == HandlerAt(pc[c], req[c])

(* Rows refer to rows that are there. *)
Linked ==
    /\ definition = None <=> version = <<>>
    /\ \A r \in Records :
          /\ instance[r] # None => instance[r].version \in DOMAIN version
          /\ instance[r] = None <=> log[r] = <<>>

IInv ==
    /\ TypeOK /\ Linked
    /\ req = [c \in Clients |-> req[c]]
    /\ \A c \in Clients : HandlerOK(c)

(* The part of the types that is about tables. *)
TablesTyped ==
    /\ definition \in Definition \cup {None}
    /\ version \in Seq(Version)
    /\ instance \in [Records -> Instance \cup {None}]
    /\ log \in [Records -> Seq(LogEntry)]
    /\ attached \in [Records -> 0 .. MaxEvidence]
    /\ approved \in [Records -> 0 .. MaxEvidence]
    /\ escalations \in [Records -> [1 .. MaxLog -> Nat]]
    /\ crashes \in 0 .. MaxCrashes

(* Nothing is ever deleted. *)
Grows ==
    /\ definition # None => definition' # None
    /\ DOMAIN version \subseteq DOMAIN version'
    /\ \A r \in Records : instance[r] # None => instance'[r] # None

(* What a handler has read stays typed while the tables grow. *)
LEMMA StaysTyped ==
    ASSUME Grows, NEW here, NEW what, HandlerAt(here, what)
    PROVE  HandlerAt(here, what)'
<1>1. here \in AuthorStages \cup RecordStages => definition' # None
  BY DEF HandlerAt, Grows
<1>2. here \in {"saving", "activating", "retiring", "binding"} =>
         what.version \in DOMAIN version'
  BY DEF HandlerAt, Grows
<1>3. here \in {"gating", "moving", "marking"} => instance'[what.record] # None
  <2>1. here \in {"gating", "moving", "marking"} =>
           what.record \in Records /\ instance[what.record] # None
    BY DEF HandlerAt, RecordStages
  <2> QED
    BY <2>1 DEF Grows
<1>4. ASSUME NEW entries, Found(entries)
      PROVE  \A e \in entries : e \in Records \X Nat /\ instance'[e[1]] # None
  BY <1>4 DEF Found, Grows
<1>5. /\ here = "escalating" =>
            \A e \in what : e \in Records \X Nat /\ instance'[e[1]] # None
      /\ here = "marking" =>
            \A e \in what.rest : e \in Records \X Nat /\ instance'[e[1]] # None
  BY <1>4 DEF HandlerAt
<1> QED
  BY <1>1, <1>2, <1>3, <1>5 DEF HandlerAt, Found

(* A step of one client: the tables grow and stay typed, and its handler   *)
(* is typed where it goes.                                                 *)
LEMMA StepOfClient ==
    ASSUME IInv, NEW c \in Clients, NEW here, NEW there,
           TablesTyped', Linked', Grows,
           pc' = [pc EXCEPT ![c] = here], req' = [req EXCEPT ![c] = there],
           here \in AuthorStages \cup RecordStages \cup JobStages \cup {"idle"},
           HandlerAt(here, there)'
    PROVE  IInv'
<1>1. pc'[c] = here /\ req'[c] = there
      /\ \A d \in Clients \ {c} : pc'[d] = pc[d] /\ req'[d] = req[d]
  BY DEF IInv, TypeOK
<1>2. HandlerOK(c)'
  BY <1>1 DEF HandlerOK
<1>3. ASSUME NEW d \in Clients \ {c} PROVE HandlerOK(d)'
  <2>1. PICK at, what : at = pc[d] /\ what = req[d]
    OBVIOUS
  <2>2. HandlerAt(at, what)'
    BY <2>1, StaysTyped DEF IInv, HandlerOK
  <2> QED
    BY <1>1, <2>1, <2>2 DEF HandlerOK
<1>4. /\ pc' \in [Clients -> AuthorStages \cup RecordStages \cup JobStages \cup {"idle"}]
      /\ DOMAIN req' = Clients /\ req' = [d \in Clients |-> req'[d]]
  BY DEF IInv, TypeOK
<1>5. \A d \in Clients : HandlerOK(d)' /\ (pc'[d] = "idle" => req'[d] = None)
  BY <1>2, <1>3 DEF HandlerOK, HandlerAt
<1> QED
  BY <1>4, <1>5 DEF IInv, TypeOK, TablesTyped

(* A step of one client that changes no table. *)
LEMMA StepThatReads ==
    ASSUME IInv, NEW c \in Clients, NEW here, NEW there,
           UNCHANGED <<authoring, runtime>>,
           pc' = [pc EXCEPT ![c] = here], req' = [req EXCEPT ![c] = there],
           here \in AuthorStages \cup RecordStages \cup JobStages \cup {"idle"},
           HandlerAt(here, there)
    PROVE  IInv'
<1>1. TablesTyped' /\ Linked' /\ Grows
  BY DEF IInv, TypeOK, TablesTyped, Linked, Grows, authoring, runtime
<1> QED
  BY <1>1, StaysTyped, StepOfClient

(* An idle handler is typed, whatever the tables. *)
LEMMA IdleHandler == HandlerAt("idle", None) /\ HandlerAt("idle", None)'
BY DEF HandlerAt, AuthorStages, RecordStages

(* Versions are rows of the table. *)
LEMMA VersionRow ==
    ASSUME IInv, NEW v \in DOMAIN version
    PROVE  /\ version[v] \in Version /\ version[v].spec \in Specs
           /\ version[v].spec \in WorkflowSpecification
           /\ definition # None
<1>1. version[v] \in Version
  BY DEF IInv, TypeOK
<1>2. version # <<>>
  OBVIOUS
<1> QED
  BY <1>1, <1>2, SpecsAssumption DEF Version, IInv, Linked

(* The latest version of those with some status. *)
LEMMA MaxIsIn ==
    ASSUME IInv, NEW status, WithStatus(status) # {}
    PROVE  MaxOf(WithStatus(status)) \in WithStatus(status)
<1>1. DOMAIN version = 1 .. Len(version) /\ Len(version) \in Nat
  BY DEF IInv, TypeOK
<1>2. /\ WithStatus(status) \subseteq Nat
      /\ \A v \in WithStatus(status) : v <= Len(version)
  BY <1>1 DEF WithStatus
<1>3. \E v \in WithStatus(status) : \A w \in WithStatus(status) : w <= v
  BY <1>1, <1>2, GreatestNatural
<1> QED
  BY <1>3 DEF MaxOf

(* The steps that only read, and those that give up. *)
LEMMA ReadsTyped ==
    ASSUME IInv, NEW c \in Clients,
           \/ \E spec \in Specs : ReadDraft(c, spec)
           \/ ReadNoDraft(c) \/ ReadLatest(c)
           \/ \E v \in DOMAIN version : ReadForActivate(c, v)
           \/ BeginActivate(c) \/ ReadForArchive(c)
           \/ \E r \in Records : ReadDefinition(c, r)
           \/ ReadActiveVersion(c) \/ CheckEvidence(c)
           \/ FindOverdue(c) \/ EndEscalation(c) \/ Fail(c)
    PROVE  IInv'
<1>a. HandlerAt(pc[c], req[c])
  BY DEF IInv, HandlerOK
<1>b. req = [req EXCEPT ![c] = req[c]]
  BY DEF IInv, TypeOK
<1>1. ASSUME NEW spec \in Specs, ReadDraft(c, spec) PROVE IInv'
  <2>1. PICK what : what = [version |-> MaxOf(WithStatus("draft")), spec |-> spec]
    OBVIOUS
  <2>2. what.version \in DOMAIN version /\ what.spec \in Specs /\ definition # None
    BY <1>1, <2>1, MaxIsIn DEF ReadDraft, WithStatus, Editable
  <2>3. HandlerAt("saving", what)
    BY <2>2 DEF HandlerAt, AuthorStages, RecordStages
  <2> QED
    BY <1>1, <2>1, <2>3, StepThatReads DEF ReadDraft, Goto, Read, AuthorStages
<1>2. CASE ReadNoDraft(c)
  <2>1. PICK what : what = req[c]
    OBVIOUS
  <2>2. HandlerAt("opening", what)
    BY <1>2 DEF ReadNoDraft, Editable, HandlerAt, AuthorStages, RecordStages
  <2> QED
    BY <1>2, <1>b, <2>1, <2>2, StepThatReads DEF ReadNoDraft, Goto, AuthorStages
<1>3. CASE ReadLatest(c)
  <2>1. PICK what : what = [number |-> Len(version) + 1, spec |-> version[Len(version)].spec]
    OBVIOUS
  <2>2. definition # None /\ version # <<>>
    BY <1>3, <1>a DEF ReadLatest, Goto, HandlerAt, AuthorStages, IInv, Linked
  <2>3. Len(version) \in DOMAIN version
    BY <2>2 DEF IInv, TypeOK
  <2>4. HandlerAt("seeding", what)
    BY <2>1, <2>2, <2>3, VersionRow DEF HandlerAt, AuthorStages, RecordStages
  <2> QED
    BY <1>3, <2>1, <2>4, StepThatReads DEF ReadLatest, Goto, Read, AuthorStages
<1>4. ASSUME NEW v \in DOMAIN version, ReadForActivate(c, v) PROVE IInv'
  <2>1. PICK what : what = [version |-> v, retire |-> {}]
    OBVIOUS
  <2>2. HandlerAt("activating", what)
    BY <1>4, <2>1 DEF ReadForActivate, Editable, HandlerAt, AuthorStages, RecordStages
  <2> QED
    BY <1>4, <2>1, <2>2, StepThatReads DEF ReadForActivate, Goto, Read, AuthorStages
<1>5. CASE BeginActivate(c)
  <2>1. PICK what : what = [req[c] EXCEPT !.retire = WithStatus("active")]
    OBVIOUS
  <2>2. HandlerAt("activating", req[c])
    BY <1>5, <1>a DEF BeginActivate, Goto
  <2>3. /\ req[c] = [version |-> req[c].version, retire |-> req[c].retire]
        /\ definition # None /\ req[c].version \in DOMAIN version
    BY <2>2 DEF HandlerAt, AuthorStages
  <2>4. what = [version |-> req[c].version, retire |-> WithStatus("active")]
    BY <2>1, <2>3
  <2>5. HandlerAt("retiring", what)
    BY <2>3, <2>4 DEF HandlerAt, AuthorStages, RecordStages
  <2> QED
    BY <1>5, <2>1, <2>5, StepThatReads DEF BeginActivate, Goto, Read, AuthorStages
<1>6. CASE ReadForArchive(c)
  <2>1. PICK what : what = req[c]
    OBVIOUS
  <2>2. HandlerAt("archiving", what)
    BY <1>6 DEF ReadForArchive, Editable, HandlerAt, AuthorStages, RecordStages
  <2> QED
    BY <1>6, <1>b, <2>1, <2>2, StepThatReads DEF ReadForArchive, Goto, AuthorStages
<1>7. ASSUME NEW r \in Records, ReadDefinition(c, r) PROVE IInv'
  <2>1. PICK what : what = [record |-> r, version |-> 0]
    OBVIOUS
  <2>2. HandlerAt("starting", what)
    BY <1>7, <2>1 DEF ReadDefinition, Editable, HandlerAt, AuthorStages, RecordStages
  <2> QED
    BY <1>7, <2>1, <2>2, StepThatReads DEF ReadDefinition, Goto, Read, RecordStages
<1>8. CASE ReadActiveVersion(c)
  <2>1. PICK v : v = MaxOf(WithStatus("active"))
    OBVIOUS
  <2>2. v \in DOMAIN version /\ InitialStages(version[v].spec) # {}
    BY <1>8, <2>1, MaxIsIn DEF ReadActiveVersion, WithStatus
  <2>3. InitialStage(version[v].spec) \in WorkflowStage
    BY <2>2, VersionRow, InitialFound
  <2>4. PICK what : what = [record |-> req[c].record, version |-> v,
                            stage |-> InitialStage(version[v].spec)]
    OBVIOUS
  <2>5. req[c].record \in Records /\ definition # None
    BY <1>8, <1>a DEF ReadActiveVersion, Goto, HandlerAt, RecordStages
  <2>6. HandlerAt("binding", what)
    BY <2>2, <2>3, <2>4, <2>5 DEF HandlerAt, AuthorStages, RecordStages
  <2> QED
    BY <1>8, <2>1, <2>4, <2>6, StepThatReads DEF ReadActiveVersion, Goto, Read, RecordStages
<1>9. CASE CheckEvidence(c)
  <2>1. PICK what : what = req[c]
    OBVIOUS
  <2>2. HandlerAt("gating", what)
    BY <1>9, <1>a, <2>1 DEF CheckEvidence, Goto
  <2>3. HandlerAt("moving", what)
    BY <2>2 DEF HandlerAt, AuthorStages, RecordStages
  <2> QED
    BY <1>9, <1>b, <2>1, <2>3, StepThatReads DEF CheckEvidence, Goto, RecordStages
<1>10. CASE FindOverdue(c)
  <2>1. PICK what : what = {<<r, Len(log[r])>> : r \in {q \in Records : Overdue(q) /\ Escalates(q)}}
    OBVIOUS
  <2>2. \A r \in Records : Len(log[r]) \in Nat
    BY DEF IInv, TypeOK
  <2>3. Found(what)
    BY <2>1, <2>2 DEF Found, Overdue
  <2>4. HandlerAt("escalating", what)
    BY <2>3 DEF HandlerAt, AuthorStages, RecordStages
  <2> QED
    BY <1>10, <2>1, <2>4, StepThatReads DEF FindOverdue, Goto, Read, JobStages
<1>11. CASE EndEscalation(c)
  BY <1>11, IdleHandler, StepThatReads DEF EndEscalation, Return
<1>12. CASE Fail(c)
  BY <1>12, IdleHandler, StepThatReads DEF Fail, Return
<1> QED
  BY <1>1, <1>2, <1>3, <1>4, <1>5, <1>6, <1>7, <1>8, <1>9, <1>10, <1>11, <1>12

(* A transition read from the specification joins two of its stages. *)
LEMMA TransitionRead ==
    ASSUME IInv, NEW c \in Clients, NEW r \in Records, NEW fields \in Fields,
           instance[r] # None,
           NEW t \in Range(SpecOf(r).transitions), ReadForTransition(c, r, t, fields)
    PROVE  LET what == req'[c] IN
           /\ IInv'
           /\ what.record = r /\ what.key = t.key
           /\ what.from = StageByKey(SpecOf(r), instance[r].stage)
           /\ what.from.key = instance[r].stage /\ ~what.from.terminal
           /\ what.to = StageByKey(SpecOf(r), t.to) /\ what.to.key = t.to
<1>1. PICK spec : spec = SpecOf(r)
  OBVIOUS
<1>2. /\ instance[r].version \in DOMAIN version
      /\ instance[r] \in Instance /\ definition # None
  BY VersionRow DEF IInv, Linked, TypeOK
<1>3. spec \in WorkflowSpecification
  BY <1>1, <1>2, VersionRow DEF SpecOf
<1>4. t \in WorkflowTransition
  <2>1. spec.transitions \in Seq(WorkflowTransition)
    BY <1>3 DEF WorkflowSpecification
  <2> QED
    BY <1>1, <2>1 DEF Range
<1>5. /\ HasStage(spec, instance[r].stage) /\ HasStage(spec, t.to)
      /\ ~StageByKey(spec, instance[r].stage).terminal
  BY <1>1 DEF ReadForTransition, TransitionsFrom
<1>6. PICK from : from = StageByKey(spec, instance[r].stage)
  OBVIOUS
<1>7. PICK to : to = StageByKey(spec, t.to)
  OBVIOUS
<1>8. /\ from \in WorkflowStage /\ from.key = instance[r].stage /\ ~from.terminal
      /\ to \in WorkflowStage /\ to.key = t.to
  BY <1>3, <1>5, <1>6, <1>7, StageFound
<1>9. PICK collected : collected = instance[r].fields \cup fields
  OBVIOUS
<1>10. collected \in SUBSET UNION Fields
  BY <1>2, <1>9 DEF Instance
<1>11. PICK what : what = [record |-> r, from |-> from, to |-> to, key |-> t.key,
                           fields |-> collected]
  OBVIOUS
<1>12. HandlerAt("gating", what)
  BY <1>2, <1>4, <1>8, <1>10, <1>11 DEF HandlerAt, AuthorStages, RecordStages,
                                       WorkflowTransition
<1>13. /\ pc' = [pc EXCEPT ![c] = "gating"] /\ req' = [req EXCEPT ![c] = what]
       /\ UNCHANGED <<authoring, runtime>>
  BY <1>1, <1>6, <1>7, <1>9, <1>11 DEF ReadForTransition, Goto, Read
<1>14. IInv'
  BY <1>12, <1>13, StepThatReads DEF RecordStages
<1>15. req'[c] = what
  BY <1>13 DEF IInv, TypeOK
<1> QED
  BY <1>1, <1>6, <1>7, <1>8, <1>11, <1>14, <1>15

(* A step that moves no handler. *)
LEMMA StepOfTables ==
    ASSUME IInv, TablesTyped', Linked', Grows, UNCHANGED <<pc, req>>
    PROVE  IInv'
<1>1. ASSUME NEW d \in Clients PROVE HandlerOK(d)'
  <2>1. PICK at, what : at = pc[d] /\ what = req[d]
    OBVIOUS
  <2>2. HandlerAt(at, what)'
    BY <2>1, StaysTyped DEF IInv, HandlerOK
  <2> QED
    BY <2>1, <2>2 DEF HandlerOK
<1> QED
  BY <1>1 DEF IInv, TypeOK, TablesTyped

(* A step of the authors: the table of versions, rewritten or longer. *)
LEMMA VersionsWritten ==
    ASSUME IInv, UNCHANGED runtime, definition' \in Definition,
           version' \in Seq(Version), DOMAIN version \subseteq DOMAIN version',
           version' # <<>>
    PROVE  TablesTyped' /\ Linked' /\ Grows
<1>1. definition' # None
  BY NullAssumption DEF NullAssumption
<1> QED
  BY <1>1 DEF IInv, TypeOK, TablesTyped, Linked, Grows, runtime

(* The steps of the authors that write. *)
LEMMA AuthorsTyped ==
    ASSUME IInv, NEW c \in Clients,
           \/ CreateWorkflow(c) \/ WriteDraft(c) \/ CreateRevision(c)
           \/ CommitActivate(c) \/ CommitArchive(c)
    PROVE  /\ IInv'
           /\ definition # None => DOMAIN version \subseteq DOMAIN version'
<1>a. HandlerAt(pc[c], req[c])
  BY DEF IInv, HandlerOK
<1>b. version \in Seq(Version) /\ definition \in Definition \cup {None}
  BY DEF IInv, TypeOK
<1>1. CASE CreateWorkflow(c)
  <2>1. version = <<>>
    BY <1>1 DEF CreateWorkflow, IInv, Linked
  <2>2. [status |-> "draft", spec |-> Starter] \in Version
    BY StarterAssumption DEF StarterAssumption, Version
  <2>3. /\ version' \in Seq(Version) /\ version' # <<>>
        /\ DOMAIN version \subseteq DOMAIN version'
    BY <1>1, <2>1, <2>2 DEF CreateWorkflow
  <2>4. definition' \in Definition
    BY <1>1 DEF CreateWorkflow, Definition
  <2>5. UNCHANGED runtime /\ UNCHANGED <<pc, req>>
    BY <1>1 DEF CreateWorkflow
  <2> QED
    BY <2>3, <2>4, <2>5, VersionsWritten, StepOfTables
<1>2. CASE WriteDraft(c)
  <2>1. /\ req[c].version \in DOMAIN version /\ req[c].spec \in Specs
        /\ definition # None
    BY <1>2, <1>a DEF WriteDraft, HandlerAt, AuthorStages
  <2>2. version' = [version EXCEPT ![req[c].version].spec = req[c].spec]
    BY <1>2 DEF WriteDraft
  <2>3. /\ version' = [v \in DOMAIN version |-> version'[v]]
        /\ \A v \in DOMAIN version : version'[v] \in Version
    <3>1. PICK u, spec : u = req[c].version /\ spec = req[c].spec
      OBVIOUS
    <3>2. version' = [version EXCEPT ![u] = [version[u] EXCEPT !.spec = spec]]
      BY <2>2, <3>1
    <3>3. version[u] \in Version /\ [version[u] EXCEPT !.spec = spec] \in Version
      <4>1. version[u] \in Version
        BY <1>b, <2>1, <3>1
      <4> QED
        BY <2>1, <3>1, <4>1 DEF Version
    <3>4. PICK new : new = [version[u] EXCEPT !.spec = spec]
      OBVIOUS
    <3>5. version' = [v \in DOMAIN version |-> IF v = u THEN new ELSE version[v]]
      BY <3>2, <3>4
    <3>6. \A v \in DOMAIN version : version[v] \in Version
      BY <1>b
    <3> QED
      BY <3>3, <3>4, <3>5, <3>6
  <2>4. version' \in Seq(Version) /\ DOMAIN version' = DOMAIN version
    BY <1>b, <2>3, RewrittenTable
  <2>5. version' # <<>>
    BY <2>1, <2>4
  <2>6. definition' = definition /\ UNCHANGED runtime
    BY <1>2 DEF WriteDraft
  <2>7. TablesTyped' /\ Linked' /\ Grows
    BY <1>b, <2>1, <2>4, <2>5, <2>6, VersionsWritten
  <2> QED
    BY <1>2, <2>4, <2>7, IdleHandler, StepOfClient DEF WriteDraft, Return
<1>3. CASE CreateRevision(c)
  <2>1. req[c].spec \in Specs /\ definition # None
    BY <1>3, <1>a DEF CreateRevision, HandlerAt, AuthorStages
  <2>2. [status |-> "draft", spec |-> req[c].spec] \in Version
    BY <2>1 DEF Version
  <2>3. /\ version' \in Seq(Version) /\ version' # <<>>
        /\ DOMAIN version \subseteq DOMAIN version'
    BY <1>3, <1>b, <2>2 DEF CreateRevision
  <2>4. definition' = definition /\ UNCHANGED runtime
    BY <1>3 DEF CreateRevision
  <2>5. TablesTyped' /\ Linked' /\ Grows
    BY <1>b, <2>1, <2>3, <2>4, VersionsWritten
  <2> QED
    BY <1>3, <2>3, <2>5, IdleHandler, StepOfClient DEF CreateRevision, Return
<1>4. CASE CommitActivate(c)
  <2>1. req[c].version \in DOMAIN version /\ definition # None
    BY <1>4, <1>a DEF CommitActivate, HandlerAt, AuthorStages
  <2>2. /\ version' = [v \in DOMAIN version |-> version'[v]]
        /\ \A v \in DOMAIN version : version'[v] \in Version
    <3>1. ASSUME NEW v \in DOMAIN version
          PROVE  /\ version[v] \in Version
                 /\ [version[v] EXCEPT !.status = "active"] \in Version
                 /\ [version[v] EXCEPT !.status = "retired"] \in Version
      <4>1. version[v] \in Version
        BY <1>b
      <4> QED
        BY <4>1 DEF Version
    <3>2. version' = [v \in DOMAIN version |->
            IF v = req[c].version THEN [version[v] EXCEPT !.status = "active"]
            ELSE IF v \in req[c].retire THEN [version[v] EXCEPT !.status = "retired"]
            ELSE version[v]]
      BY <1>4 DEF CommitActivate
    <3> QED
      BY <3>1, <3>2
  <2>3. version' \in Seq(Version) /\ DOMAIN version' = DOMAIN version
    BY <1>b, <2>2, RewrittenTable
  <2>4. version' # <<>>
    BY <2>1, <2>3
  <2>5. req[c].version \in Nat
    BY <1>b, <2>1
  <2>6. definition' \in Definition /\ UNCHANGED runtime
    BY <1>4, <1>b, <2>1, <2>5 DEF CommitActivate, Definition
  <2>7. TablesTyped' /\ Linked' /\ Grows
    BY <2>3, <2>4, <2>6, VersionsWritten
  <2> QED
    BY <1>4, <2>3, <2>7, IdleHandler, StepOfClient DEF CommitActivate, Return
<1>5. CASE CommitArchive(c)
  <2>1. definition # None /\ version # <<>>
    BY <1>5, <1>a DEF CommitArchive, HandlerAt, AuthorStages, IInv, Linked
  <2>2. definition' \in Definition /\ version' = version /\ UNCHANGED runtime
    BY <1>5, <1>b, <2>1 DEF CommitArchive, Definition
  <2>3. TablesTyped' /\ Linked' /\ Grows
    BY <1>b, <2>1, <2>2, VersionsWritten
  <2> QED
    BY <1>5, <2>2, <2>3, IdleHandler, StepOfClient DEF CommitArchive, Return
<1> QED
  BY <1>1, <1>2, <1>3, <1>4, <1>5

(* A step that writes one instance, and the log with it or not. *)
LEMMA InstanceWritten ==
    ASSUME IInv, UNCHANGED <<authoring, attached, approved, escalations, crashes>>,
           NEW r \in Records, NEW new \in Instance,
           instance' = [instance EXCEPT ![r] = new],
           new.version \in DOMAIN version,
           \/ log' = log /\ instance[r] # None
           \/ \E entries \in Seq(LogEntry) :
                 entries # <<>> /\ log' = [log EXCEPT ![r] = entries]
    PROVE  /\ TablesTyped' /\ Linked' /\ Grows
           /\ instance'[r] = new /\ \A q \in Records \ {r} : instance'[q] = instance[q]
<1>1. new # None
  BY NullAssumption DEF NullAssumption
<1>2. /\ instance' \in [Records -> Instance \cup {None}] /\ instance'[r] = new
      /\ \A q \in Records \ {r} : instance'[q] = instance[q]
  BY DEF IInv, TypeOK
<1>3. /\ log' \in [Records -> Seq(LogEntry)] /\ log'[r] # <<>>
      /\ \A q \in Records \ {r} : log'[q] = log[q]
  <2>1. CASE log' = log /\ instance[r] # None
    BY <2>1 DEF IInv, TypeOK, Linked
  <2>2. CASE \E entries \in Seq(LogEntry) : entries # <<>> /\ log' = [log EXCEPT ![r] = entries]
    BY <2>2 DEF IInv, TypeOK
  <2> QED
    BY <2>1, <2>2
<1> QED
  BY <1>1, <1>2, <1>3 DEF IInv, TypeOK, TablesTyped, Linked, Grows, authoring

(* An instance is created where there was none, with the first entry of    *)
(* its log.                                                                *)
LEMMA CreateInstanceTyped ==
    ASSUME IInv, NEW c \in Clients, CreateInstance(c), NEW r, r = req[c].record
    PROVE  /\ IInv'
           /\ r \in Records /\ instance[r] = None /\ log[r] = <<>>
           /\ instance' = [instance EXCEPT ![r] = instance'[r]]
           /\ log' = [log EXCEPT ![r] = log'[r]]
           /\ instance'[r].version = req[c].version
           /\ instance'[r].stage = req[c].stage.key
           /\ instance'[r].status = IF req[c].stage.terminal THEN "completed" ELSE "active"
           /\ log'[r] = <<[from |-> None, to |-> req[c].stage.key, key |-> "start"]>>
<1>1. /\ r \in Records /\ req[c].version \in DOMAIN version
      /\ req[c].stage \in WorkflowStage /\ definition # None
  <2>1. HandlerAt("binding", req[c])
    BY DEF IInv, HandlerOK, CreateInstance
  <2> QED
    BY <2>1 DEF HandlerAt, RecordStages
<1>2. PICK stage : stage = req[c].stage
  OBVIOUS
<1>3. PICK new : new = [version |-> req[c].version, stage |-> stage.key,
                        status |-> IF stage.terminal THEN "completed" ELSE "active",
                        due |-> DueIn(stage), escalated |-> FALSE, fields |-> {}]
  OBVIOUS
<1>4. req[c].version \in Nat \ {0}
  <2>1. version \in Seq(Version)
    BY DEF IInv, TypeOK
  <2> QED
    BY <1>1, <2>1
<1>5. new \in Instance
  BY <1>1, <1>2, <1>3, <1>4 DEF Instance, DueIn, WorkflowStage
<1>6. PICK entry : entry = [from |-> None, to |-> stage.key, key |-> "start"]
  OBVIOUS
<1>7. entry \in LogEntry
  <2>1. stage.key \in STRING
    BY <1>1, <1>2 DEF WorkflowStage
  <2> QED
    BY <1>6, <2>1 DEF LogEntry
<1>8. <<entry>> \in Seq(LogEntry) /\ <<entry>> # <<>>
  BY <1>7
<1>9. /\ instance' = [instance EXCEPT ![r] = new] /\ log' = [log EXCEPT ![r] = <<entry>>]
      /\ instance[r] = None
      /\ UNCHANGED <<authoring, attached, approved, escalations, crashes>>
  BY <1>2, <1>3, <1>6 DEF CreateInstance
<1>10. new.version \in DOMAIN version
  BY <1>1, <1>3
<1>11. TablesTyped' /\ Linked' /\ Grows /\ instance'[r] = new
  BY <1>1, <1>5, <1>8, <1>9, <1>10, InstanceWritten
<1>12. IInv'
  BY <1>11, IdleHandler, StepOfClient DEF CreateInstance, Return
<1>13. log[r] = <<>> /\ log'[r] = <<entry>> /\ log' = [log EXCEPT ![r] = log'[r]]
  BY <1>1, <1>9 DEF IInv, Linked, TypeOK
<1>14. /\ new.version = req[c].version /\ new.stage = stage.key
       /\ new.status = IF stage.terminal THEN "completed" ELSE "active"
  BY <1>3
<1>15. instance' = [instance EXCEPT ![r] = instance'[r]]
  BY <1>9, <1>11
<1> QED
  BY <1>1, <1>2, <1>6, <1>9, <1>11, <1>12, <1>13, <1>14, <1>15

(* A transition moves its instance and adds one entry to the log. *)
LEMMA CommitTransitionTyped ==
    ASSUME IInv, NEW c \in Clients, CommitTransition(c), NEW r, r = req[c].record
    PROVE  /\ IInv'
           /\ r \in Records /\ instance[r] # None
           /\ instance' = [instance EXCEPT ![r] = instance'[r]]
           /\ log' = [log EXCEPT ![r] = log'[r]]
           /\ instance'[r].version = instance[r].version
           /\ instance'[r].stage = req[c].to.key
           /\ instance'[r].status = IF req[c].to.terminal THEN "completed" ELSE "active"
           /\ log'[r] = Append(log[r], [from |-> req[c].from.key, to |-> req[c].to.key,
                                        key |-> req[c].key])
<1>1. /\ r \in Records /\ instance[r] # None
      /\ req[c].from \in WorkflowStage /\ req[c].to \in WorkflowStage
      /\ req[c].key \in STRING /\ req[c].fields \in SUBSET UNION Fields
  <2>1. HandlerAt("moving", req[c])
    BY DEF IInv, HandlerOK, CommitTransition
  <2> QED
    BY <2>1 DEF HandlerAt, RecordStages
<1>2. PICK to : to = req[c].to
  OBVIOUS
<1>3. PICK old : old = instance[r]
  OBVIOUS
<1>4. old \in Instance /\ old.version \in DOMAIN version
  BY <1>1, <1>3 DEF IInv, TypeOK, Linked
<1>5. PICK new : new = [old EXCEPT !.stage = to.key,
                          !.status = IF to.terminal THEN "completed" ELSE "active",
                          !.due = IF to.terminal THEN "none" ELSE DueIn(to),
                          !.escalated = FALSE, !.fields = req[c].fields]
  OBVIOUS
<1>6. /\ new \in Instance /\ new.version = old.version /\ new.stage = to.key
      /\ new.status = IF to.terminal THEN "completed" ELSE "active"
  BY <1>1, <1>2, <1>4, <1>5 DEF Instance, DueIn, WorkflowStage
<1>7. PICK entry : entry = [from |-> req[c].from.key, to |-> to.key, key |-> req[c].key]
  OBVIOUS
<1>8. entry \in LogEntry
  BY <1>1, <1>2, <1>7 DEF LogEntry, WorkflowStage
<1>9. PICK entries : entries = Append(log[r], entry)
  OBVIOUS
<1>10. entries \in Seq(LogEntry) /\ entries # <<>>
  BY <1>1, <1>8, <1>9 DEF IInv, TypeOK
<1>11. /\ instance' = [instance EXCEPT ![r] = new] /\ log' = [log EXCEPT ![r] = entries]
       /\ UNCHANGED <<authoring, attached, approved, escalations, crashes>>
  BY <1>2, <1>3, <1>5, <1>7, <1>9 DEF CommitTransition
<1>12. TablesTyped' /\ Linked' /\ Grows /\ instance'[r] = new
  BY <1>1, <1>4, <1>6, <1>10, <1>11, InstanceWritten
<1>13. IInv'
  BY <1>12, IdleHandler, StepOfClient DEF CommitTransition, Return
<1>14. log'[r] = entries
  BY <1>1, <1>11 DEF IInv, TypeOK
<1> QED
  BY <1>1, <1>2, <1>3, <1>6, <1>7, <1>9, <1>11, <1>12, <1>13, <1>14

(* A mark or a deadline that passes changes nothing else of an instance.   *)
LEMMA InstanceMarked ==
    ASSUME IInv, UNCHANGED <<authoring, log, attached, approved, escalations, crashes>>,
           NEW r \in Records, instance[r] # None,
           \/ instance' = [instance EXCEPT ![r].escalated = TRUE]
           \/ instance' = [instance EXCEPT ![r].due = "passed"]
    PROVE  /\ TablesTyped' /\ Linked' /\ Grows
           /\ instance' = [instance EXCEPT ![r] = instance'[r]]
           /\ instance'[r].version = instance[r].version
           /\ instance'[r].stage = instance[r].stage
           /\ instance'[r].status = instance[r].status
           /\ instance[r].escalated => instance'[r].escalated
<1>1. PICK old : old = instance[r]
  OBVIOUS
<1>2. old \in Instance /\ old.version \in DOMAIN version
  BY <1>1 DEF IInv, TypeOK, Linked
<1>3. PICK new : /\ instance' = [instance EXCEPT ![r] = new]
                 /\ new = [old EXCEPT !.escalated = TRUE] \/ new = [old EXCEPT !.due = "passed"]
  BY <1>1
<1>4. /\ new \in Instance /\ new.version = old.version /\ new.stage = old.stage
      /\ new.status = old.status /\ (old.escalated => new.escalated)
  BY <1>2, <1>3 DEF Instance
<1>5. TablesTyped' /\ Linked' /\ Grows /\ instance'[r] = new
  BY <1>2, <1>3, <1>4, InstanceWritten
<1> QED
  BY <1>1, <1>3, <1>4, <1>5

(* The job writes notices and marks, and dies between the two. *)
LEMMA NotifyTyped ==
    ASSUME IInv, NEW c \in Clients, NEW r \in Records, NEW k \in 1 .. MaxLog,
           pc[c] = "escalating", NotifyEscalation(c, r, k)
    PROVE  IInv'
<1>1. PICK what : what = [record |-> r, rest |-> req[c] \ {<<r, k>>}]
  OBVIOUS
<1>2. Found(req[c])
  BY DEF IInv, HandlerOK, HandlerAt
<1>3. instance[r] # None /\ Found(what.rest)
  BY <1>1, <1>2 DEF NotifyEscalation, Found
<1>4. escalations' \in [Records -> [1 .. MaxLog -> Nat]]
  <2>1. escalations \in [Records -> [1 .. MaxLog -> Nat]]
    BY DEF IInv, TypeOK
  <2>2. PICK row : row = [escalations[r] EXCEPT ![k] = @ + 1]
    OBVIOUS
  <2>3. row \in [1 .. MaxLog -> Nat]
    <3>1. PICK old \in [1 .. MaxLog -> Nat] : old = escalations[r]
      BY <2>1
    <3>2. old[k] + 1 \in Nat
      OBVIOUS
    <3>3. row = [j \in 1 .. MaxLog |-> IF j = k THEN old[k] + 1 ELSE old[j]]
      BY <2>2, <3>1
    <3> QED
      BY <3>2, <3>3
  <2>4. escalations' = [escalations EXCEPT ![r] = row]
    BY <2>2 DEF NotifyEscalation
  <2> QED
    BY <2>1, <2>3, <2>4
<1>5. UNCHANGED <<authoring, instance, log, attached, approved, crashes>>
  BY DEF NotifyEscalation
<1>6. TablesTyped' /\ Linked' /\ Grows
  BY <1>4, <1>5 DEF IInv, TypeOK, TablesTyped, Linked, Grows, authoring
<1>7. HandlerAt("marking", what)
  BY <1>1, <1>3 DEF HandlerAt, AuthorStages, RecordStages
<1>8. HandlerAt("marking", what)'
  BY <1>6, <1>7, StaysTyped
<1> QED
  BY <1>1, <1>6, <1>8, StepOfClient DEF NotifyEscalation, Goto, Read, JobStages

(* What a mark does. *)
LEMMA MarkTyped ==
    ASSUME IInv, NEW c \in Clients, MarkEscalated(c), NEW r, r = req[c].record
    PROVE  /\ IInv'
           /\ r \in Records /\ instance[r] # None
           /\ instance' = [instance EXCEPT ![r] = instance'[r]]
           /\ instance'[r].version = instance[r].version
           /\ instance'[r].stage = instance[r].stage
           /\ instance'[r].status = instance[r].status
           /\ instance'[r].escalated
<1>1. HandlerAt("marking", req[c])
  BY DEF IInv, HandlerOK, MarkEscalated, Goto
<1>2. r \in Records /\ instance[r] # None /\ Found(req[c].rest)
  BY <1>1 DEF HandlerAt
<1>3. /\ UNCHANGED <<authoring, log, attached, approved, escalations, crashes>>
      /\ instance' = [instance EXCEPT ![r].escalated = TRUE]
  BY DEF MarkEscalated
<1>4. /\ TablesTyped' /\ Linked' /\ Grows
      /\ instance' = [instance EXCEPT ![r] = instance'[r]]
      /\ instance'[r].version = instance[r].version
      /\ instance'[r].stage = instance[r].stage
      /\ instance'[r].status = instance[r].status
  BY <1>2, <1>3, InstanceMarked
<1>5. PICK rest : rest = req[c].rest
  OBVIOUS
<1>6. HandlerAt("escalating", rest)
  BY <1>2, <1>5 DEF HandlerAt, AuthorStages, RecordStages
<1>7. HandlerAt("escalating", rest)'
  BY <1>4, <1>6, StaysTyped
<1>8. IInv'
  BY <1>4, <1>5, <1>7, StepOfClient DEF MarkEscalated, Goto, Read, JobStages
<1>9. instance'[r].escalated
  <2>1. instance[r] \in Instance
    BY <1>2 DEF IInv, TypeOK
  <2>2. instance'[r] = [instance[r] EXCEPT !.escalated = TRUE]
    BY <1>2, <1>3 DEF IInv, TypeOK
  <2> QED
    BY <2>1, <2>2 DEF Instance
<1> QED
  BY <1>2, <1>4, <1>8, <1>9

(* ... it may die between a notice and its mark. *)
LEMMA CrashTyped ==
    ASSUME IInv, NEW c \in Clients, CrashBeforeMark(c)
    PROVE  IInv'
<1>1. crashes' \in 0 .. MaxCrashes
  BY BoundsAssumption DEF BoundsAssumption, CrashBeforeMark, IInv, TypeOK
<1>2. UNCHANGED <<authoring, instance, log, attached, approved, escalations>>
  BY DEF CrashBeforeMark
<1>3. TablesTyped' /\ Linked' /\ Grows
  BY <1>1, <1>2 DEF IInv, TypeOK, TablesTyped, Linked, Grows, authoring
<1> QED
  BY <1>3, IdleHandler, StepOfClient DEF CrashBeforeMark, Return

(* A deadline passes beside the handlers. *)
LEMMA DeadlineTyped ==
    ASSUME IInv, NEW r \in Records, PassDeadline(r)
    PROVE  /\ IInv'
           /\ instance[r] # None
           /\ instance' = [instance EXCEPT ![r] = instance'[r]]
           /\ instance'[r].version = instance[r].version
           /\ instance'[r].stage = instance[r].stage
           /\ instance'[r].status = instance[r].status
           /\ instance[r].escalated => instance'[r].escalated
<1>1. /\ UNCHANGED <<authoring, log, attached, approved, escalations, crashes>>
      /\ instance' = [instance EXCEPT ![r].due = "passed"]
      /\ instance[r] # None /\ UNCHANGED <<pc, req>>
  BY DEF PassDeadline
<1>2. /\ TablesTyped' /\ Linked' /\ Grows
      /\ instance' = [instance EXCEPT ![r] = instance'[r]]
      /\ instance'[r].version = instance[r].version
      /\ instance'[r].stage = instance[r].stage
      /\ instance'[r].status = instance[r].status
      /\ instance[r].escalated => instance'[r].escalated
  BY <1>1, InstanceMarked
<1> QED
  BY <1>1, <1>2, StepOfTables

(* ... and evidence comes and goes. *)
LEMMA EvidenceTyped ==
    ASSUME IInv, NEW c \in Clients, NEW r \in Records, FileEvidence(c, r)
    PROVE  IInv'
<1>1. /\ attached \in [Records -> 0 .. MaxEvidence] /\ approved \in [Records -> 0 .. MaxEvidence]
      /\ MaxEvidence \in Nat
  BY BoundsAssumption DEF BoundsAssumption, IInv, TypeOK
<1>2. /\ attached' \in [Records -> 0 .. MaxEvidence]
      /\ approved' \in [Records -> 0 .. MaxEvidence]
  BY <1>1 DEF FileEvidence
<1>3. UNCHANGED <<authoring, instance, log, escalations, crashes, pc, req>>
  BY DEF FileEvidence
<1>4. TablesTyped' /\ Linked' /\ Grows
  BY <1>2, <1>3 DEF IInv, TypeOK, TablesTyped, Linked, Grows, authoring
<1> QED
  BY <1>3, <1>4, StepOfTables

(* Every step keeps the types. *)
LEMMA StepTyped == IInv /\ [Next]_vars => IInv'
<1> SUFFICES ASSUME IInv, [Next]_vars PROVE IInv'
  OBVIOUS
<1>1. ASSUME NEW c \in Clients, Authoring(c) PROVE IInv'
  BY <1>1, ReadsTyped, AuthorsTyped DEF Authoring
<1>2. ASSUME NEW c \in Clients, Running(c) PROVE IInv'
  BY <1>2, ReadsTyped, TransitionRead, CreateInstanceTyped, CommitTransitionTyped DEF Running
<1>3. ASSUME NEW c \in Clients, Escalating(c) PROVE IInv'
  BY <1>3, ReadsTyped, NotifyTyped, MarkTyped, CrashTyped DEF Escalating
<1>4. ASSUME NEW c \in Clients, Fail(c) PROVE IInv'
  BY <1>4, ReadsTyped
<1>5. ASSUME NEW c \in Clients, NEW r \in Records, FileEvidence(c, r) PROVE IInv'
  BY <1>5, EvidenceTyped
<1>6. ASSUME NEW r \in Records, PassDeadline(r) PROVE IInv'
  BY <1>6, DeadlineTyped
<1>7. CASE UNCHANGED vars
  <2>1. TablesTyped' /\ Linked' /\ Grows /\ UNCHANGED <<pc, req>>
    BY <1>7 DEF vars, IInv, TypeOK, TablesTyped, Linked, Grows
  <2> QED
    BY <2>1, StepOfTables
<1> QED
  BY <1>1, <1>2, <1>3, <1>4, <1>5, <1>6, <1>7 DEF Next

(* The types hold at the start. *)
LEMMA InitTyped == Init => IInv
<1> SUFFICES ASSUME Init PROVE IInv
  OBVIOUS
<1>1. TypeOK
  BY BoundsAssumption DEF BoundsAssumption, Init, TypeOK
<1>2. Linked /\ req = [c \in Clients |-> req[c]]
  BY DEF Init, Linked
<1>3. \A c \in Clients : HandlerOK(c)
  BY IdleHandler DEF Init, HandlerOK
<1> QED
  BY <1>1, <1>2, <1>3 DEF IInv

(* The tables and the handlers hold values of their types, however         *)
(* handlers overlap, fail and crash.                                       *)
THEOREM TypeCorrect == Spec => []TypeOK
<1>1. IInv => TypeOK
  BY DEF IInv
<1> QED
  BY <1>1, InitTyped, StepTyped, PTL DEF Spec

-----------------------------------------------------------------------------
(* Authors, one at a time *)

(* At most one handler is at one of these stages.  Nothing in the code     *)
(* ensures it: a theorem that assumes it says what depends on it.          *)
Alone(stages) ==
    \A c, d \in Clients : pc[c] \in stages /\ pc[d] \in stages => c = d

AuthorsAlone == Alone(AuthorStages)

(* What an author has read is still so when it writes. *)
Fresh(c) ==
    /\ pc[c] \in {"saving", "activating", "retiring"} =>
          version[req[c].version].status = "draft"
    /\ pc[c] \in {"activating", "retiring"} => Valid(version[req[c].version].spec)
    /\ pc[c] = "retiring" => req[c].retire = WithStatus("active")

AuthorInv ==
    /\ \A v \in WithStatus("active") : definition.current = v
    /\ \A v \in DOMAIN version : version[v].status # "draft" => Valid(version[v].spec)
    /\ \A c \in Clients : Fresh(c)

(* What VersionsAreFrozen says of one step. *)
Frozen ==
    \A v \in DOMAIN version :
       /\ version[v].status # "draft" => version'[v].spec = version[v].spec
       /\ version'[v].status = "draft" => version[v].status = "draft"
       /\ version[v].status = "retired" => version'[v].status = "retired"

(* Where a step of one client leaves the handlers. *)
LEMMA Moves ==
    ASSUME IInv, NEW c \in Clients, NEW here, NEW there,
           pc' = [pc EXCEPT ![c] = here], req' = [req EXCEPT ![c] = there]
    PROVE  /\ pc'[c] = here /\ req'[c] = there
           /\ \A d \in Clients \ {c} : pc'[d] = pc[d] /\ req'[d] = req[d]
BY DEF IInv, TypeOK

(* A step that changes no version, in which at most one handler moves. *)
LEMMA AuthorsUndisturbed ==
    ASSUME AuthorInv, UNCHANGED authoring, NEW c,
           \A d \in Clients \ {c} : pc'[d] = pc[d] /\ req'[d] = req[d],
           c \in Clients => Fresh(c)'
    PROVE  AuthorInv' /\ Frozen
<1>1. version' = version /\ definition' = definition
  BY DEF authoring
<1>2. \A d \in Clients : Fresh(d)'
  BY <1>1 DEF AuthorInv, Fresh, WithStatus
<1>3. WithStatus("active")' = WithStatus("active")
  BY <1>1 DEF WithStatus
<1> QED
  BY <1>1, <1>2, <1>3 DEF AuthorInv, Frozen

(* The steps of an author that read. *)
LEMMA AuthorReads ==
    ASSUME IInv, AuthorInv, NEW c \in Clients,
           \/ \E spec \in Specs : ReadDraft(c, spec)
           \/ ReadNoDraft(c) \/ ReadLatest(c)
           \/ \E v \in DOMAIN version : ReadForActivate(c, v)
           \/ BeginActivate(c) \/ ReadForArchive(c)
    PROVE  AuthorInv' /\ Frozen
<1>1. UNCHANGED authoring
  BY DEF ReadDraft, ReadNoDraft, ReadLatest, ReadForActivate, BeginActivate, ReadForArchive
<1>2. version' = version /\ WithStatus("active")' = WithStatus("active")
  BY <1>1 DEF authoring, WithStatus
<1>3. ASSUME NEW spec \in Specs, ReadDraft(c, spec) PROVE AuthorInv' /\ Frozen
  <2>1. PICK what : what = [version |-> MaxOf(WithStatus("draft")), spec |-> spec]
    OBVIOUS
  <2>2. what.version \in WithStatus("draft")
    BY <1>3, <2>1, MaxIsIn DEF ReadDraft
  <2>3. /\ pc'[c] = "saving" /\ req'[c] = what
        /\ \A d \in Clients \ {c} : pc'[d] = pc[d] /\ req'[d] = req[d]
    BY <1>3, <2>1, Moves DEF ReadDraft, Goto, Read
  <2>4. Fresh(c)'
    BY <1>2, <2>2, <2>3 DEF Fresh, WithStatus
  <2> QED
    BY <1>1, <2>3, <2>4, AuthorsUndisturbed
<1>4. CASE ReadNoDraft(c) \/ ReadLatest(c) \/ ReadForArchive(c)
  <2>1. /\ pc'[c] \in {"opening", "seeding", "archiving"}
        /\ \A d \in Clients \ {c} : pc'[d] = pc[d] /\ req'[d] = req[d]
    BY <1>4 DEF ReadNoDraft, ReadLatest, ReadForArchive, Goto, Read, IInv, TypeOK
  <2>2. Fresh(c)'
    BY <2>1 DEF Fresh
  <2> QED
    BY <1>1, <2>1, <2>2, AuthorsUndisturbed
<1>5. ASSUME NEW v \in DOMAIN version, ReadForActivate(c, v) PROVE AuthorInv' /\ Frozen
  <2>1. PICK what : what = [version |-> v, retire |-> {}]
    OBVIOUS
  <2>2. /\ pc'[c] = "activating" /\ req'[c] = what
        /\ \A d \in Clients \ {c} : pc'[d] = pc[d] /\ req'[d] = req[d]
    BY <1>5, <2>1, Moves DEF ReadForActivate, Goto, Read
  <2>3. version[v].status = "draft" /\ Valid(version[v].spec)
    BY <1>5 DEF ReadForActivate
  <2>4. Fresh(c)'
    BY <1>2, <2>1, <2>2, <2>3 DEF Fresh
  <2> QED
    BY <1>1, <2>2, <2>4, AuthorsUndisturbed
<1>6. CASE BeginActivate(c)
  <2>1. PICK what : what = [req[c] EXCEPT !.retire = WithStatus("active")]
    OBVIOUS
  <2>2. /\ pc'[c] = "retiring" /\ req'[c] = what
        /\ \A d \in Clients \ {c} : pc'[d] = pc[d] /\ req'[d] = req[d]
    BY <1>6, <2>1, Moves DEF BeginActivate, Goto, Read
  <2>3. pc[c] = "activating" /\ HandlerAt("activating", req[c]) /\ Fresh(c)
    BY <1>6 DEF BeginActivate, Goto, IInv, HandlerOK, AuthorInv
  <2>4. what.version = req[c].version /\ what.retire = WithStatus("active")
    BY <2>1, <2>3 DEF HandlerAt
  <2>5. version[what.version].status = "draft" /\ Valid(version[what.version].spec)
    BY <2>3, <2>4 DEF Fresh
  <2>6. Fresh(c)'
    BY <1>2, <2>2, <2>4, <2>5 DEF Fresh
  <2> QED
    BY <1>1, <2>2, <2>6, AuthorsUndisturbed
<1> QED
  BY <1>3, <1>4, <1>5, <1>6

(* A handler that is no author has nothing to keep fresh. *)
LEMMA NoAuthorIsFresh ==
    ASSUME NEW d, pc'[d] \notin AuthorStages
    PROVE  Fresh(d)'
BY DEF Fresh, AuthorStages

(* The steps of an author that write, while no other is between its        *)
(* reading and its writing.                                                *)
LEMMA AuthorWrites ==
    ASSUME IInv, AuthorInv, AuthorsAlone, NEW c \in Clients,
           \/ CreateWorkflow(c) \/ WriteDraft(c) \/ CreateRevision(c)
           \/ CommitActivate(c) \/ CommitArchive(c)
    PROVE  AuthorInv' /\ Frozen
<1>a. HandlerAt(pc[c], req[c]) /\ Fresh(c)
  BY DEF IInv, HandlerOK, AuthorInv
<1>b. ASSUME pc[c] \in AuthorStages, pc' = [pc EXCEPT ![c] = "idle"]
      PROVE  \A d \in Clients : Fresh(d)'
  <2>1. \A d \in Clients : pc'[d] \notin AuthorStages
    BY <1>b DEF AuthorsAlone, Alone, IInv, TypeOK, AuthorStages
  <2> QED
    BY <2>1, NoAuthorIsFresh
<1>1. CASE CreateWorkflow(c)
  <2>1. /\ version = <<>> /\ definition = None /\ UNCHANGED <<pc, req>>
        /\ version' = <<[status |-> "draft", spec |-> Starter]>>
    BY <1>1 DEF CreateWorkflow, IInv, Linked
  <2>2. \A d \in Clients : pc[d] \notin AuthorStages
    BY <2>1 DEF IInv, HandlerOK, HandlerAt
  <2>3. \A d \in Clients : Fresh(d)'
    BY <2>1, <2>2, NoAuthorIsFresh
  <2>4. \A v \in DOMAIN version' : version'[v].status = "draft"
    BY <2>1
  <2>5. Frozen
    BY <2>1 DEF Frozen
  <2> QED
    BY <2>3, <2>4, <2>5 DEF AuthorInv, WithStatus
<1>2. CASE WriteDraft(c)
  <2>1. PICK u, spec : u = req[c].version /\ spec = req[c].spec
    OBVIOUS
  <2>2. u \in DOMAIN version /\ version[u].status = "draft"
    BY <1>2, <1>a, <2>1 DEF WriteDraft, HandlerAt, Fresh
  <2>3. version' = [version EXCEPT ![u] = [version[u] EXCEPT !.spec = spec]]
    BY <1>2, <2>1 DEF WriteDraft
  <2>4. version[u] \in Version
    BY <2>2, VersionRow
  <2>5. PICK new : new = [version[u] EXCEPT !.spec = spec]
    OBVIOUS
  <2>6. new.status = "draft"
    BY <2>2, <2>4, <2>5 DEF Version
  <2>7. \A v \in DOMAIN version : version'[v] = IF v = u THEN new ELSE version[v]
    BY <2>3, <2>5
  <2>8. DOMAIN version' = DOMAIN version /\ definition' = definition
    BY <1>2, <2>3 DEF WriteDraft
  <2>9. \A d \in Clients : Fresh(d)'
    BY <1>2, <1>b DEF WriteDraft, Return, AuthorStages
  <2> QED
    BY <2>2, <2>6, <2>7, <2>8, <2>9 DEF AuthorInv, Frozen, WithStatus
<1>3. CASE CreateRevision(c)
  <2>1. PICK new : new = [status |-> "draft", spec |-> req[c].spec]
    OBVIOUS
  <2>2. version' = Append(version, new) /\ new.status = "draft" /\ definition' = definition
    BY <1>3, <2>1 DEF CreateRevision
  <2>3. version \in Seq(Version)
    BY DEF IInv, TypeOK
  <2>4. /\ \A v \in DOMAIN version : version'[v] = version[v]
        /\ \A v \in DOMAIN version' : v \in DOMAIN version \/ version'[v].status = "draft"
    BY <2>2, <2>3
  <2>5. \A d \in Clients : Fresh(d)'
    BY <1>3, <1>b DEF CreateRevision, Return, AuthorStages
  <2> QED
    BY <2>2, <2>4, <2>5 DEF AuthorInv, Frozen, WithStatus
<1>4. CASE CommitActivate(c)
  <2>1. PICK u : u = req[c].version
    OBVIOUS
  <2>2. /\ u \in DOMAIN version /\ version[u].status = "draft" /\ Valid(version[u].spec)
        /\ req[c].retire = WithStatus("active") /\ definition # None
    BY <1>4, <1>a, <2>1 DEF CommitActivate, HandlerAt, Fresh, AuthorStages
  <2>3. /\ DOMAIN version' = DOMAIN version
        /\ \A v \in DOMAIN version : version'[v] =
              IF v = u THEN [version[v] EXCEPT !.status = "active"]
              ELSE IF version[v].status = "active"
                     THEN [version[v] EXCEPT !.status = "retired"] ELSE version[v]
    BY <1>4, <2>1, <2>2 DEF CommitActivate, WithStatus
  <2>4. \A v \in DOMAIN version :
           /\ version'[v].spec = version[v].spec
           /\ version'[v].status = IF v = u THEN "active"
                                   ELSE IF version[v].status = "active" THEN "retired"
                                   ELSE version[v].status
    BY <2>3, VersionRow DEF Version
  <2>5. definition'.current = u
    BY <1>4, <2>1, <2>2 DEF CommitActivate, IInv, TypeOK, Definition
  <2>6. \A d \in Clients : Fresh(d)'
    BY <1>4, <1>b DEF CommitActivate, Return, AuthorStages
  <2> QED
    BY <2>2, <2>3, <2>4, <2>5, <2>6 DEF AuthorInv, Frozen, WithStatus
<1>5. CASE CommitArchive(c)
  <2>1. version' = version
    BY <1>5 DEF CommitArchive
  <2>2. definition # None
    BY <1>5, <1>a DEF CommitArchive, HandlerAt, AuthorStages
  <2>3. definition'.current = definition.current
    BY <1>5, <2>2 DEF CommitArchive, IInv, TypeOK, Definition
  <2>4. \A d \in Clients : Fresh(d)'
    BY <1>5, <1>b DEF CommitArchive, Return, AuthorStages
  <2> QED
    BY <2>1, <2>3, <2>4 DEF AuthorInv, Frozen, WithStatus
<1> QED
  BY <1>1, <1>2, <1>3, <1>4, <1>5

(* The other handlers write no version and never become authors. *)
LEMMA BesideAuthors ==
    ASSUME IInv, NEW c \in Clients, Running(c) \/ Escalating(c) \/ Fail(c)
    PROVE  /\ UNCHANGED authoring /\ pc'[c] \notin AuthorStages
           /\ \A d \in Clients \ {c} : pc'[d] = pc[d] /\ req'[d] = req[d]
<1>a. pc \in [Clients -> AuthorStages \cup RecordStages \cup JobStages \cup {"idle"}]
      /\ DOMAIN req = Clients
  BY DEF IInv, TypeOK
<1>1. CASE Running(c)
  <2>1. UNCHANGED authoring
    BY <1>1 DEF Running, ReadDefinition, ReadActiveVersion, CreateInstance,
       ReadForTransition, CheckEvidence, CommitTransition
  <2>2. pc'[c] \in RecordStages \cup {"idle"}
    BY <1>a, <1>1 DEF Running, ReadDefinition, ReadActiveVersion, CreateInstance,
       ReadForTransition, CheckEvidence, CommitTransition, Goto, Return, RecordStages
  <2>3. \A d \in Clients \ {c} : pc'[d] = pc[d] /\ req'[d] = req[d]
    BY <1>a, <1>1 DEF Running, ReadDefinition, ReadActiveVersion, CreateInstance,
       ReadForTransition, CheckEvidence, CommitTransition, Goto, Return, Read
  <2> QED
    BY <2>1, <2>2, <2>3 DEF AuthorStages, RecordStages
<1>2. CASE Escalating(c)
  <2>1. UNCHANGED authoring
    BY <1>2 DEF Escalating, FindOverdue, NotifyEscalation, MarkEscalated, EndEscalation,
       CrashBeforeMark
  <2>2. pc'[c] \in JobStages \cup {"idle"}
    BY <1>a, <1>2 DEF Escalating, FindOverdue, NotifyEscalation, MarkEscalated,
       EndEscalation, CrashBeforeMark, Goto, Return, JobStages
  <2>3. \A d \in Clients \ {c} : pc'[d] = pc[d] /\ req'[d] = req[d]
    BY <1>a, <1>2 DEF Escalating, FindOverdue, NotifyEscalation, MarkEscalated,
       EndEscalation, CrashBeforeMark, Goto, Return, Read
  <2> QED
    BY <2>1, <2>2, <2>3 DEF AuthorStages, JobStages
<1>3. CASE Fail(c)
  BY <1>a, <1>3 DEF Fail, Return, AuthorStages
<1> QED
  BY <1>1, <1>2, <1>3

(* Every step keeps what the authors rely on, and freezes the versions. *)
LEMMA AuthorStep == IInv /\ AuthorInv /\ AuthorsAlone /\ [Next]_vars => AuthorInv' /\ Frozen
<1> SUFFICES ASSUME IInv, AuthorInv, AuthorsAlone, [Next]_vars PROVE AuthorInv' /\ Frozen
  OBVIOUS
<1>1. ASSUME NEW c \in Clients, Authoring(c) PROVE AuthorInv' /\ Frozen
  BY <1>1, AuthorReads, AuthorWrites DEF Authoring
<1>2. ASSUME NEW c \in Clients, Running(c) \/ Escalating(c) \/ Fail(c)
      PROVE  AuthorInv' /\ Frozen
  BY <1>2, BesideAuthors, NoAuthorIsFresh, AuthorsUndisturbed
<1>3. ASSUME UNCHANGED <<authoring, pc, req>> PROVE AuthorInv' /\ Frozen
  <2>1. /\ version' = version /\ definition' = definition
        /\ WithStatus("active")' = WithStatus("active")
    BY <1>3 DEF authoring, WithStatus
  <2>2. \A c \in Clients : Fresh(c)'
    BY <1>3, <2>1 DEF AuthorInv, Fresh
  <2>3. AuthorInv'
    BY <2>1, <2>2 DEF AuthorInv
  <2> QED
    BY <2>1, <2>3 DEF Frozen
<1>4. ASSUME NEW c \in Clients, NEW r \in Records, FileEvidence(c, r)
      PROVE  AuthorInv' /\ Frozen
  BY <1>3, <1>4 DEF FileEvidence
<1>5. ASSUME NEW r \in Records, PassDeadline(r) PROVE AuthorInv' /\ Frozen
  BY <1>3, <1>5 DEF PassDeadline
<1>6. CASE UNCHANGED vars
  <2>1. UNCHANGED <<authoring, pc, req>>
    BY <1>6 DEF vars, authoring
  <2> QED
    BY <1>3, <2>1
<1> QED
  BY <1>1, <1>2, <1>4, <1>5, <1>6 DEF Next

(* While authors do not overlap, what they have read is fresh, the active  *)
(* version is the one the definition names, and every version that has     *)
(* ever been active is valid.                                              *)
THEOREM AuthorInvariance == Spec /\ []AuthorsAlone => []AuthorInv
<1>1. Init => AuthorInv
  BY DEF Init, AuthorInv, Fresh, WithStatus
<1> QED
  BY <1>1, InitTyped, StepTyped, AuthorStep, PTL DEF Spec

(* "Editing an active version is impossible by construction" - as long as  *)
(* no two authors overlap: once it has left draft a version keeps its      *)
(* specification, never becomes a draft again and, once retired, stays so  *)
(* (saveWorkflowDraft, activateWorkflowVersion).                           *)
THEOREM VersionsStayFrozen == Spec /\ []AuthorsAlone => VersionsAreFrozen
<1>1. IInv /\ AuthorInv /\ AuthorsAlone /\ [Next]_vars =>
        [\A v \in DOMAIN version :
          /\ version[v].status # "draft" => version'[v].spec = version[v].spec
          /\ version'[v].status = "draft" => version[v].status = "draft"
          /\ version[v].status = "retired" => version'[v].status = "retired"]_vars
  BY AuthorStep DEF Frozen
<1> QED
  BY <1>1, InitTyped, StepTyped, AuthorInvariance, PTL DEF Spec, VersionsAreFrozen

-----------------------------------------------------------------------------
(* What a step does to a record and to a handler *)

(* A step leaves a record where it is: a mark or a deadline is not seen.   *)
Still(r) ==
    /\ instance[r] = None <=> instance'[r] = None
    /\ instance[r] # None => /\ instance'[r].version = instance[r].version
                             /\ instance'[r].stage = instance[r].stage
                             /\ instance'[r].status = instance[r].status
    /\ log'[r] = log[r]

(* Only starting an instance and committing a transition move a record. *)
LEMMA RecordsMove ==
    ASSUME IInv, [Next]_vars, NEW r \in Records
    PROVE  \/ Still(r)
           \/ \E c \in Clients : CreateInstance(c) /\ r = req[c].record
           \/ \E c \in Clients : CommitTransition(c) /\ r = req[c].record
<1>1. ASSUME instance' = instance, log' = log PROVE Still(r)
  BY <1>1 DEF Still
<1>2. ASSUME NEW c \in Clients, Authoring(c) PROVE Still(r)
  <2>1. instance' = instance /\ log' = log
    BY <1>2 DEF Authoring, CreateWorkflow, ReadDraft, WriteDraft, ReadNoDraft, ReadLatest,
       CreateRevision, ReadForActivate, BeginActivate, CommitActivate, ReadForArchive,
       CommitArchive, runtime
  <2> QED
    BY <1>1, <2>1
<1>3. ASSUME NEW c \in Clients,
             \/ \E q \in Records : ReadDefinition(c, q)
             \/ ReadActiveVersion(c)
             \/ \E q \in Records, fields \in Fields :
                   \E t \in Range(SpecOf(q).transitions) : ReadForTransition(c, q, t, fields)
             \/ CheckEvidence(c) \/ FindOverdue(c) \/ EndEscalation(c) \/ Fail(c)
             \/ \E q \in Records, k \in 1 .. MaxLog : NotifyEscalation(c, q, k)
             \/ CrashBeforeMark(c)
             \/ \E q \in Records : FileEvidence(c, q)
      PROVE  Still(r)
  <2>1. instance' = instance /\ log' = log
    BY <1>3 DEF ReadDefinition, ReadActiveVersion, ReadForTransition, CheckEvidence,
       FindOverdue, EndEscalation, Fail, NotifyEscalation, CrashBeforeMark, FileEvidence,
       runtime
  <2> QED
    BY <1>1, <2>1
<1>4. ASSUME instance' = [instance EXCEPT ![r] = instance'[r]], log' = log,
             instance[r] # None, instance'[r] # None,
             instance'[r].version = instance[r].version,
             instance'[r].stage = instance[r].stage,
             instance'[r].status = instance[r].status
      PROVE  Still(r)
  BY <1>4 DEF Still
<1>5. ASSUME NEW q \in Records, q # r, instance' = [instance EXCEPT ![q] = instance'[q]],
             \/ log' = log
             \/ log' = [log EXCEPT ![q] = log'[q]]
      PROVE  Still(r)
  <2>1. instance'[r] = instance[r] /\ log'[r] = log[r]
    BY <1>5 DEF IInv, TypeOK
  <2> QED
    BY <2>1 DEF Still
<1>6. ASSUME NEW c \in Clients, MarkEscalated(c) PROVE Still(r)
  <2>1. PICK q : q = req[c].record
    OBVIOUS
  <2>2. /\ q \in Records /\ instance[q] # None
        /\ instance' = [instance EXCEPT ![q] = instance'[q]]
        /\ instance'[q].version = instance[q].version
        /\ instance'[q].stage = instance[q].stage
        /\ instance'[q].status = instance[q].status
        /\ IInv'
    BY <1>6, <2>1, MarkTyped
  <2>3. log' = log
    BY <1>6 DEF MarkEscalated
  <2>4. instance'[q] # None
    BY <2>2, <2>3 DEF IInv, Linked
  <2> QED
    BY <1>4, <1>5, <2>2, <2>3, <2>4
<1>7. ASSUME NEW q \in Records, PassDeadline(q) PROVE Still(r)
  <2>1. /\ instance[q] # None
        /\ instance' = [instance EXCEPT ![q] = instance'[q]]
        /\ instance'[q].version = instance[q].version
        /\ instance'[q].stage = instance[q].stage
        /\ instance'[q].status = instance[q].status
        /\ IInv'
    BY <1>7, DeadlineTyped
  <2>2. log' = log
    BY <1>7 DEF PassDeadline
  <2>3. instance'[q] # None
    BY <2>1, <2>2 DEF IInv, Linked
  <2> QED
    BY <1>4, <1>5, <2>1, <2>2, <2>3
<1>8. ASSUME NEW c \in Clients, CreateInstance(c) \/ CommitTransition(c), r # req[c].record
      PROVE  Still(r)
  <2>1. PICK q : q = req[c].record
    OBVIOUS
  <2>2. /\ q \in Records /\ instance' = [instance EXCEPT ![q] = instance'[q]]
        /\ log' = [log EXCEPT ![q] = log'[q]]
    BY <1>8, <2>1, CreateInstanceTyped, CommitTransitionTyped
  <2> QED
    BY <1>5, <1>8, <2>1, <2>2
<1>9. CASE UNCHANGED vars
  BY <1>1, <1>9 DEF vars
<1>10. ASSUME NEW c \in Clients, Running(c)
       PROVE  \/ Still(r)
              \/ (CreateInstance(c) \/ CommitTransition(c)) /\ r = req[c].record
  BY <1>3, <1>8, <1>10 DEF Running
<1>11. ASSUME NEW c \in Clients, Escalating(c) PROVE Still(r)
  BY <1>3, <1>6, <1>11 DEF Escalating
<1> QED
  BY <1>2, <1>3, <1>7, <1>9, <1>10, <1>11 DEF Next

(* A record stays bound to the version it started under. *)
LEMMA BindingsStay ==
    ASSUME IInv, [Next]_vars, NEW r \in Records, instance[r] # None
    PROVE  instance'[r] # None /\ instance'[r].version = instance[r].version
<1>1. IInv'
  BY StepTyped
<1>2. ASSUME NEW c \in Clients, CommitTransition(c), r = req[c].record
      PROVE  instance'[r].version = instance[r].version /\ log'[r] # <<>>
  <2>1. /\ instance'[r].version = instance[r].version
        /\ log'[r] = Append(log[r], [from |-> req[c].from.key, to |-> req[c].to.key,
                                     key |-> req[c].key])
    BY <1>2, CommitTransitionTyped
  <2>2. PICK entry : log'[r] = Append(log[r], entry)
    BY <2>1
  <2>3. log[r] \in Seq(LogEntry)
    BY DEF IInv, TypeOK
  <2> QED
    BY <2>1, <2>2, <2>3
<1>3. ASSUME NEW c \in Clients, CreateInstance(c), r = req[c].record PROVE FALSE
  BY <1>3, CreateInstanceTyped
<1> QED
  BY <1>1, <1>2, <1>3, RecordsMove DEF Still, IInv, Linked

(* How a handler comes to be archiving or at work on a record. *)
Enters(d) ==
    \/ ReadForArchive(d)
    \/ \E r \in Records : ReadDefinition(d, r)
    \/ ReadActiveVersion(d)
    \/ \E r \in Records, fields \in Fields :
          /\ instance[r] # None
          /\ \E t \in Range(SpecOf(r).transitions) : ReadForTransition(d, r, t, fields)
    \/ CheckEvidence(d)

(* A step leaves a handler alone, moves it so, or sends it elsewhere. *)
LEMMA HandlersMove ==
    ASSUME IInv, [Next]_vars, NEW d \in Clients
    PROVE  \/ pc'[d] = pc[d] /\ req'[d] = req[d]
           \/ Enters(d)
           \/ pc'[d] \notin RecordStages \cup {"archiving"}
<1>a. /\ pc \in [Clients -> AuthorStages \cup RecordStages \cup JobStages \cup {"idle"}]
      /\ DOMAIN req = Clients
  BY DEF IInv, TypeOK
<1>1. ASSUME NEW c \in Clients \ {d},
             Authoring(c) \/ Running(c) \/ Escalating(c) \/ Fail(c)
      PROVE  pc'[d] = pc[d] /\ req'[d] = req[d]
  <2>1. CASE Authoring(c)
    BY <1>a, <1>1, <2>1 DEF Authoring, CreateWorkflow, ReadDraft, WriteDraft, ReadNoDraft,
       ReadLatest, CreateRevision, ReadForActivate, BeginActivate, CommitActivate,
       ReadForArchive, CommitArchive, Goto, Return, Read
  <2> QED
    BY <1>1, <2>1, BesideAuthors
<1>2. ASSUME Authoring(d)
      PROVE  \/ ReadForArchive(d)
             \/ pc'[d] \notin RecordStages \cup {"archiving"}
             \/ pc'[d] = pc[d] /\ req'[d] = req[d]
  <2>1. CreateWorkflow(d) => pc'[d] = pc[d] /\ req'[d] = req[d]
    BY DEF CreateWorkflow
  <2>2. ASSUME \/ \E spec \in Specs : ReadDraft(d, spec)
               \/ ReadNoDraft(d) \/ ReadLatest(d) \/ BeginActivate(d)
               \/ \E v \in DOMAIN version : ReadForActivate(d, v)
        PROVE  pc'[d] \in {"saving", "opening", "seeding", "activating", "retiring"}
    BY <1>a, <2>2 DEF ReadDraft, ReadNoDraft, ReadLatest, BeginActivate, ReadForActivate,
       Goto
  <2>3. ASSUME WriteDraft(d) \/ CreateRevision(d) \/ CommitActivate(d) \/ CommitArchive(d)
        PROVE  pc'[d] = "idle"
    BY <1>a, <2>3 DEF WriteDraft, CreateRevision, CommitActivate, CommitArchive, Return
  <2>4. pc'[d] \in {"saving", "opening", "seeding", "activating", "retiring", "idle"}
          => pc'[d] \notin RecordStages \cup {"archiving"}
    BY DEF RecordStages
  <2> QED
    BY <1>2, <2>1, <2>2, <2>3, <2>4 DEF Authoring
<1>3. ASSUME Running(d)
      PROVE  Enters(d) \/ pc'[d] \notin RecordStages \cup {"archiving"}
  <2>1. CreateInstance(d) \/ CommitTransition(d)
          => pc'[d] \notin RecordStages \cup {"archiving"}
    BY <1>a DEF CreateInstance, CommitTransition, Return, RecordStages
  <2> QED
    BY <1>3, <2>1 DEF Running, Enters
<1>4. ASSUME Escalating(d) \/ Fail(d)
      PROVE  pc'[d] \notin RecordStages \cup {"archiving"}
  BY <1>a, <1>4 DEF Escalating, FindOverdue, NotifyEscalation, MarkEscalated,
     EndEscalation, CrashBeforeMark, Fail, Goto, Return, RecordStages
<1>5. ASSUME UNCHANGED <<pc, req>> PROVE pc'[d] = pc[d] /\ req'[d] = req[d]
  BY <1>5
<1>6. ASSUME NEW c \in Clients, NEW r \in Records, FileEvidence(c, r)
      PROVE  UNCHANGED <<pc, req>>
  BY <1>6 DEF FileEvidence
<1>7. ASSUME NEW r \in Records, PassDeadline(r) PROVE UNCHANGED <<pc, req>>
  BY <1>7 DEF PassDeadline
<1>8. CASE UNCHANGED vars
  BY <1>5, <1>8 DEF vars
<1>9. ASSUME NEW c \in Clients, Authoring(c) \/ Running(c) \/ Escalating(c) \/ Fail(c)
      PROVE  \/ pc'[d] = pc[d] /\ req'[d] = req[d]
             \/ Enters(d)
             \/ pc'[d] \notin RecordStages \cup {"archiving"}
  BY <1>1, <1>2, <1>3, <1>4, <1>9 DEF Enters
<1> QED
  BY <1>5, <1>6, <1>7, <1>8, <1>9 DEF Next

-----------------------------------------------------------------------------
(* Records under frozen versions *)

(* A move along a transition of a specification, between stages of it. *)
MoveOf(spec, move) ==
    /\ StageByKey(spec, move.from.key) = move.from
    /\ StageByKey(spec, move.to.key) = move.to
    /\ ~move.from.terminal
    /\ \E t \in Range(spec.transitions) :
          t.key = move.key /\ t.to = move.to.key /\ t.from \in {move.from.key, "*"}

(* What a handler of records has read of a version. *)
FollowsAt(here, what) ==
    /\ here = "binding" => /\ version[what.version].status # "draft"
                           /\ InitialStages(version[what.version].spec) # {}
                           /\ what.stage = InitialStage(version[what.version].spec)
    /\ here \in {"gating", "moving"} => MoveOf(SpecOf(what.record), what)

BoundInv ==
    /\ \A r \in Records : instance[r] # None => version[instance[r].version].status # "draft"
    /\ \A c \in Clients : FollowsAt(pc[c], req[c])

(* A version that is no draft is as it was after any step that freezes it, *)
(* and so is the specification of a record.                                *)
LEMMA SpecsStay ==
    ASSUME IInv, BoundInv, Frozen, [Next]_vars, NEW r \in Records, instance[r] # None
    PROVE  SpecOf(r)' = SpecOf(r) /\ version'[instance'[r].version].status # "draft"
<1>1. instance'[r].version = instance[r].version
  BY BindingsStay
<1>2. instance[r].version \in DOMAIN version /\ version[instance[r].version].status # "draft"
  BY DEF IInv, Linked, BoundInv
<1> QED
  BY <1>1, <1>2 DEF Frozen, SpecOf

(* What a handler has read of a version is still so. *)
LEMMA StillFollows ==
    ASSUME IInv, BoundInv, Frozen, [Next]_vars,
           NEW here, NEW what, HandlerAt(here, what), FollowsAt(here, what)
    PROVE  FollowsAt(here, what)'
<1>1. CASE here = "binding"
  <2>1. what.version \in DOMAIN version /\ version[what.version].status # "draft"
    BY <1>1 DEF HandlerAt, FollowsAt
  <2>2. version'[what.version].spec = version[what.version].spec
        /\ version'[what.version].status # "draft"
    BY <2>1 DEF Frozen
  <2> QED
    BY <1>1, <2>2 DEF FollowsAt
<1>2. CASE here \in {"gating", "moving"}
  <2>1. PICK r : r = what.record
    OBVIOUS
  <2>2. r \in Records /\ instance[r] # None
    BY <1>2, <2>1 DEF HandlerAt, RecordStages
  <2>3. SpecOf(r)' = SpecOf(r)
    BY <2>2, SpecsStay
  <2>4. SpecOf(what.record)' = SpecOf(what.record)
    BY <2>1, <2>3 DEF SpecOf
  <2> QED
    BY <1>2, <2>4 DEF FollowsAt
<1> QED
  BY <1>1, <1>2 DEF FollowsAt

(* A handler that enters reads what the version says. *)
LEMMA EntersFollowing ==
    ASSUME IInv, BoundInv, NEW d \in Clients, Enters(d)
    PROVE  FollowsAt(pc[d], req[d])'
<1>a. /\ pc \in [Clients -> AuthorStages \cup RecordStages \cup JobStages \cup {"idle"}]
      /\ DOMAIN req = Clients
  BY DEF IInv, TypeOK
<1>1. ASSUME ReadForArchive(d) \/ \E r \in Records : ReadDefinition(d, r)
      PROVE  FollowsAt(pc[d], req[d])'
  <2>1. pc'[d] \in {"archiving", "starting"}
    BY <1>a, <1>1 DEF ReadForArchive, ReadDefinition, Goto
  <2> QED
    BY <2>1 DEF FollowsAt
<1>2. ASSUME ReadActiveVersion(d) PROVE FollowsAt(pc[d], req[d])'
  <2>1. PICK v : v = MaxOf(WithStatus("active"))
    OBVIOUS
  <2>2. v \in WithStatus("active") /\ InitialStages(version[v].spec) # {}
    BY <1>2, <2>1, MaxIsIn DEF ReadActiveVersion
  <2>3. PICK what : what = [record |-> req[d].record, version |-> v,
                            stage |-> InitialStage(version[v].spec)]
    OBVIOUS
  <2>4. pc'[d] = "binding" /\ req'[d] = what /\ version' = version
    BY <1>a, <1>2, <2>1, <2>3 DEF ReadActiveVersion, Goto, Read, authoring
  <2>5. what.version = v /\ what.stage = InitialStage(version[v].spec)
    BY <2>3
  <2> QED
    BY <2>2, <2>4, <2>5 DEF FollowsAt, WithStatus
<1>3. ASSUME NEW r \in Records, NEW fields \in Fields, instance[r] # None,
             NEW t \in Range(SpecOf(r).transitions), ReadForTransition(d, r, t, fields)
      PROVE  FollowsAt(pc[d], req[d])'
  <2>1. PICK what : what = req'[d]
    OBVIOUS
  <2>2. /\ what.record = r /\ what.key = t.key
        /\ what.from = StageByKey(SpecOf(r), instance[r].stage)
        /\ what.from.key = instance[r].stage /\ ~what.from.terminal
        /\ what.to = StageByKey(SpecOf(r), t.to) /\ what.to.key = t.to
    BY <1>3, <2>1, TransitionRead
  <2>3. t.from \in {instance[r].stage, "*"}
    BY <1>3 DEF ReadForTransition, TransitionsFrom
  <2>4. MoveOf(SpecOf(r), what)
    BY <2>2, <2>3 DEF MoveOf
  <2>5. pc'[d] = "gating" /\ version' = version /\ instance' = instance
    BY <1>a, <1>3 DEF ReadForTransition, Goto, authoring, runtime
  <2>6. SpecOf(what.record)' = SpecOf(r)
    BY <2>2, <2>5 DEF SpecOf
  <2> QED
    BY <2>1, <2>4, <2>5, <2>6 DEF FollowsAt
<1>4. ASSUME CheckEvidence(d) PROVE FollowsAt(pc[d], req[d])'
  <2>1. /\ pc[d] = "gating" /\ pc'[d] = "moving" /\ req'[d] = req[d]
        /\ version' = version /\ instance' = instance
    BY <1>a, <1>4 DEF CheckEvidence, Goto, authoring, runtime
  <2> QED
    BY <2>1 DEF FollowsAt, BoundInv, SpecOf
<1> QED
  BY <1>1, <1>2, <1>3, <1>4 DEF Enters

(* While versions are frozen, records are bound to versions that are no    *)
(* longer drafts, and handlers follow them.                                *)
LEMMA BoundStep == IInv /\ BoundInv /\ Frozen /\ [Next]_vars => BoundInv'
<1> SUFFICES ASSUME IInv, BoundInv, Frozen, [Next]_vars PROVE BoundInv'
  OBVIOUS
<1>1. ASSUME NEW r \in Records, instance'[r] # None
      PROVE  version'[instance'[r].version].status # "draft"
  <2>1. CASE instance[r] # None
    BY <2>1, SpecsStay
  <2>2. ASSUME NEW c \in Clients, CreateInstance(c), r = req[c].record
        PROVE  version'[instance'[r].version].status # "draft"
    <3>1. instance'[r].version = req[c].version
      BY <2>2, CreateInstanceTyped
    <3>2. req[c].version \in DOMAIN version /\ version[req[c].version].status # "draft"
      BY <2>2 DEF CreateInstance, IInv, HandlerOK, HandlerAt, BoundInv, FollowsAt
    <3> QED
      BY <3>1, <3>2 DEF Frozen
  <2>3. ASSUME NEW c \in Clients, CommitTransition(c), r = req[c].record
        PROVE  instance[r] # None
    BY <2>3, CommitTransitionTyped
  <2> QED
    BY <1>1, <2>1, <2>2, <2>3, RecordsMove DEF Still
<1>2. ASSUME NEW d \in Clients PROVE FollowsAt(pc[d], req[d])'
  <2>1. CASE pc'[d] = pc[d] /\ req'[d] = req[d]
    <3>1. PICK here, what : here = pc[d] /\ what = req[d]
      OBVIOUS
    <3>2. HandlerAt(here, what) /\ FollowsAt(here, what)
      BY <3>1 DEF IInv, HandlerOK, BoundInv
    <3>3. FollowsAt(here, what)'
      BY <3>2, StillFollows
    <3> QED
      BY <2>1, <3>1, <3>3 DEF FollowsAt
  <2>2. CASE pc'[d] \notin RecordStages \cup {"archiving"}
    BY <2>2 DEF FollowsAt, RecordStages
  <2> QED
    BY <2>1, <2>2, EntersFollowing, HandlersMove
<1> QED
  BY <1>1, <1>2 DEF BoundInv

(* ... from the start. *)
LEMMA InitBound == Init => BoundInv
BY DEF Init, BoundInv, FollowsAt

-----------------------------------------------------------------------------
(* Authors and handlers of records, one at a time *)

HandlersAlone == Alone(AuthorStages \cup RecordStages)

Completed == \A r \in Records : instance[r] # None => instance[r].status = "completed"

(* What LogIsAWalk says of one record. *)
WalkOf(spec, row, steps) ==
    /\ steps[1].to = InitialStage(spec).key
    /\ \A k \in 2 .. Len(steps) :
         /\ steps[k].from = steps[k - 1].to
         /\ \E t \in Range(spec.transitions) :
              /\ t.key = steps[k].key /\ t.to = steps[k].to
              /\ t.from \in {steps[k].from, "*"}
         /\ ~StageByKey(spec, steps[k].from).terminal
    /\ row.stage = steps[Len(steps)].to
    /\ row.status = "completed" <=> StageByKey(spec, row.stage).terminal

(* What a handler has read of the tables is still so. *)
HoldsAt(here, what) ==
    /\ here = "archiving" => Completed
    /\ here \in {"starting", "binding"} => ~definition.archived
    /\ here \in {"gating", "moving"} => /\ instance[what.record].status = "active"
                                        /\ instance[what.record].stage = what.from.key

RecordInv ==
    /\ \A r \in Records : instance[r] # None =>
         /\ definition.archived => instance[r].status = "completed"
         /\ WalkOf(SpecOf(r), instance[r], log[r])
    /\ \A c \in Clients : HoldsAt(pc[c], req[c])

(* The first entry of a log is a walk to the initial stage. *)
LEMMA WalkBegins ==
    ASSUME NEW spec \in WorkflowSpecification, Valid(spec), NEW stage,
           stage = InitialStage(spec), NEW row, row.stage = stage.key,
           row.status = IF stage.terminal THEN "completed" ELSE "active",
           NEW steps, steps = <<[from |-> None, to |-> stage.key, key |-> "start"]>>
    PROVE  WalkOf(spec, row, steps)
<1>1. InitialStages(spec) # {}
  BY FS_EmptySet DEF Valid
<1>2. PICK i \in DOMAIN spec.stages : stage = spec.stages[i]
  BY <1>1, InitialFound
<1>3. StageByKey(spec, stage.key) = stage
  BY <1>2, StageFoundByItsKey DEF Valid
<1>4. Len(steps) = 1 /\ steps[1].to = stage.key
  OBVIOUS
<1> QED
  BY <1>3, <1>4 DEF WalkOf

(* A move from the stage that a walk has reached continues the walk. *)
LEMMA WalkGoesOn ==
    ASSUME NEW spec, NEW move, MoveOf(spec, move), NEW row, NEW steps \in Seq(LogEntry),
           steps # <<>>, WalkOf(spec, row, steps), row.stage = move.from.key,
           NEW row2, row2.stage = move.to.key,
           row2.status = IF move.to.terminal THEN "completed" ELSE "active",
           NEW longer,
           longer = Append(steps, [from |-> move.from.key, to |-> move.to.key,
                                   key |-> move.key])
    PROVE  WalkOf(spec, row2, longer)
<1>1. PICK n : n = Len(steps)
  OBVIOUS
<1>2. n \in Nat \ {0} /\ Len(longer) = n + 1
  BY <1>1
<1>3. PICK entry : entry = [from |-> move.from.key, to |-> move.to.key, key |-> move.key]
  OBVIOUS
<1>4. entry.from = move.from.key /\ entry.to = move.to.key /\ entry.key = move.key
  BY <1>3
<1>5. longer[n + 1] = entry /\ \A k \in 1 .. n : longer[k] = steps[k]
  BY <1>1, <1>2, <1>3
<1>6. longer[1].to = InitialStage(spec).key
  BY <1>2, <1>5 DEF WalkOf
<1>7. ASSUME NEW k \in 2 .. n + 1
      PROVE  /\ longer[k].from = longer[k - 1].to
             /\ \E t \in Range(spec.transitions) :
                  /\ t.key = longer[k].key /\ t.to = longer[k].to
                  /\ t.from \in {longer[k].from, "*"}
             /\ ~StageByKey(spec, longer[k].from).terminal
  <2>1. CASE k = n + 1
    <3>1. longer[k - 1] = steps[n]
      BY <1>2, <1>5, <2>1
    <3>2. steps[n].to = move.from.key
      BY <1>1 DEF WalkOf
    <3> QED
      BY <1>4, <1>5, <2>1, <3>1, <3>2 DEF MoveOf
  <2>2. CASE k \in 2 .. n
    <3>1. longer[k] = steps[k] /\ longer[k - 1] = steps[k - 1]
      BY <1>2, <1>5, <2>2
    <3> QED
      BY <1>1, <2>2, <3>1 DEF WalkOf
  <2> QED
    BY <1>2, <2>1, <2>2
<1>8. row2.status = "completed" <=> StageByKey(spec, row2.stage).terminal
  BY DEF MoveOf
<1> QED
  BY <1>2, <1>4, <1>5, <1>6, <1>7, <1>8 DEF WalkOf

(* A step that leaves a record where it is leaves its walk. *)
LEMMA WalkStays ==
    ASSUME NEW spec, NEW row, NEW steps, WalkOf(spec, row, steps),
           NEW row2, row2.stage = row.stage, row2.status = row.status
    PROVE  WalkOf(spec, row2, steps)
BY DEF WalkOf

(* Only archiving archives a workflow that is there. *)
LEMMA ArchivedMoves ==
    ASSUME IInv, [Next]_vars, definition # None
    PROVE  \/ definition'.archived = definition.archived
           \/ \E c \in Clients : CommitArchive(c)
<1>1. definition \in Definition
  BY DEF IInv, TypeOK
<1>2. ASSUME NEW c \in Clients, Authoring(c)
      PROVE  definition'.archived = definition.archived \/ CommitArchive(c)
  BY <1>1, <1>2 DEF Authoring, CreateWorkflow, ReadDraft, WriteDraft, ReadNoDraft,
     ReadLatest, CreateRevision, ReadForActivate, BeginActivate, CommitActivate,
     ReadForArchive, authoring, Definition
<1>3. ASSUME UNCHANGED authoring PROVE definition'.archived = definition.archived
  BY <1>3 DEF authoring
<1>4. ASSUME NEW c \in Clients, NEW r \in Records, FileEvidence(c, r)
      PROVE  UNCHANGED authoring
  BY <1>4 DEF FileEvidence
<1>5. ASSUME NEW r \in Records, PassDeadline(r) PROVE UNCHANGED authoring
  BY <1>5 DEF PassDeadline
<1>6. CASE UNCHANGED vars
  BY <1>6 DEF vars
<1> QED
  BY <1>2, <1>3, <1>4, <1>5, <1>6, BesideAuthors DEF Next

(* Every record stays governed and keeps its walk. *)
LEMMA RecordsStayGoverned ==
    ASSUME IInv, AuthorInv, BoundInv, RecordInv, Frozen, [Next]_vars,
           NEW r \in Records, instance'[r] # None
    PROVE  /\ definition'.archived => instance'[r].status = "completed"
           /\ WalkOf(SpecOf(r)', instance'[r], log'[r])
<1>1. CASE Still(r)
  <2>1. instance[r] # None /\ SpecOf(r)' = SpecOf(r)
    BY <1>1, SpecsStay DEF Still
  <2>2. WalkOf(SpecOf(r), instance[r], log[r])
    BY <2>1 DEF RecordInv
  <2>3. WalkOf(SpecOf(r), instance'[r], log'[r])
    BY <1>1, <2>1, <2>2, WalkStays DEF Still
  <2>4. definition # None
    BY <2>1 DEF IInv, Linked
  <2>5. ASSUME NEW c \in Clients, CommitArchive(c) PROVE instance[r].status = "completed"
    BY <2>1, <2>5 DEF CommitArchive, RecordInv, HoldsAt, Completed
  <2>6. definition'.archived => instance[r].status = "completed"
    BY <2>1, <2>4, <2>5, ArchivedMoves DEF RecordInv
  <2> QED
    BY <1>1, <2>1, <2>3, <2>6 DEF Still
<1>2. ASSUME NEW c \in Clients, CreateInstance(c), r = req[c].record
      PROVE  /\ definition'.archived => instance'[r].status = "completed"
             /\ WalkOf(SpecOf(r)', instance'[r], log'[r])
  <2>1. PICK v, stage : v = req[c].version /\ stage = req[c].stage
    OBVIOUS
  <2>2. pc[c] = "binding" /\ version' = version /\ definition' = definition
    BY <1>2 DEF CreateInstance, authoring
  <2>3. ~definition.archived
    BY <2>2 DEF RecordInv, HoldsAt
  <2>4. /\ v \in DOMAIN version /\ version[v].status # "draft"
        /\ stage = InitialStage(version[v].spec)
    BY <2>1, <2>2 DEF IInv, HandlerOK, HandlerAt, BoundInv, FollowsAt
  <2>5. PICK spec : spec = version[v].spec
    OBVIOUS
  <2>6. spec \in WorkflowSpecification /\ Valid(spec) /\ stage = InitialStage(spec)
    BY <2>4, <2>5, VersionRow DEF AuthorInv
  <2>7. PICK row, steps : row = instance'[r] /\ steps = log'[r]
    OBVIOUS
  <2>8. /\ row.version = v /\ row.stage = stage.key
        /\ row.status = IF stage.terminal THEN "completed" ELSE "active"
        /\ steps = <<[from |-> None, to |-> stage.key, key |-> "start"]>>
    BY <1>2, <2>1, <2>7, CreateInstanceTyped
  <2>9. WalkOf(spec, row, steps)
    BY <2>6, <2>8, WalkBegins
  <2>10. SpecOf(r)' = spec
    BY <2>2, <2>5, <2>7, <2>8 DEF SpecOf
  <2> QED
    BY <2>2, <2>3, <2>7, <2>9, <2>10
<1>3. ASSUME NEW c \in Clients, CommitTransition(c), r = req[c].record
      PROVE  /\ definition'.archived => instance'[r].status = "completed"
             /\ WalkOf(SpecOf(r)', instance'[r], log'[r])
  <2>1. PICK move : move = req[c]
    OBVIOUS
  <2>2. pc[c] = "moving" /\ definition' = definition
    BY <1>3 DEF CommitTransition, authoring
  <2>a. instance[r] # None
    BY <1>3, CommitTransitionTyped
  <2>3. instance[r] # None /\ log[r] # <<>> /\ log[r] \in Seq(LogEntry)
    BY <2>a DEF IInv, Linked, TypeOK
  <2>4. SpecOf(r)' = SpecOf(r)
    BY <2>3, SpecsStay
  <2>5. instance[r].status = "active" /\ instance[r].stage = move.from.key
    BY <1>3, <2>1, <2>2 DEF RecordInv, HoldsAt
  <2>6. ~definition.archived
    BY <2>3, <2>5 DEF RecordInv
  <2>7. MoveOf(SpecOf(r), move)
    BY <1>3, <2>1, <2>2 DEF BoundInv, FollowsAt
  <2>8. PICK spec, row, steps : spec = SpecOf(r) /\ row = instance[r] /\ steps = log[r]
    OBVIOUS
  <2>9. PICK row2, longer : row2 = instance'[r] /\ longer = log'[r]
    OBVIOUS
  <2>10. /\ row2.stage = move.to.key
         /\ row2.status = IF move.to.terminal THEN "completed" ELSE "active"
         /\ longer = Append(steps, [from |-> move.from.key, to |-> move.to.key,
                                    key |-> move.key])
    BY <1>3, <2>1, <2>8, <2>9, CommitTransitionTyped
  <2>11. WalkOf(spec, row, steps)
    BY <2>3, <2>8 DEF RecordInv
  <2>12. WalkOf(spec, row2, longer)
    BY <2>3, <2>5, <2>7, <2>8, <2>10, <2>11, WalkGoesOn
  <2> QED
    BY <2>2, <2>4, <2>6, <2>8, <2>9, <2>12
<1> QED
  BY <1>1, <1>2, <1>3, RecordsMove

(* While a handler is archiving or at work on a record, no other moves a   *)
(* record or archives.                                                     *)
LEMMA StillHolds ==
    ASSUME IInv, RecordInv, HandlersAlone, [Next]_vars, NEW d \in Clients,
           pc[d] \in RecordStages \cup {"archiving"}, pc'[d] = pc[d], req'[d] = req[d]
    PROVE  HoldsAt(pc[d], req[d])'
<1>a. pc \in [Clients -> AuthorStages \cup RecordStages \cup JobStages \cup {"idle"}]
  BY DEF IInv, TypeOK
<1>1. ASSUME NEW c \in Clients, CreateInstance(c) \/ CommitTransition(c) \/ CommitArchive(c)
      PROVE  FALSE
  <2>1. pc[c] \in AuthorStages \cup RecordStages /\ pc'[c] = "idle"
    BY <1>a, <1>1 DEF CreateInstance, CommitTransition, CommitArchive, Return,
       AuthorStages, RecordStages
  <2>2. c = d
    BY <2>1 DEF HandlersAlone, Alone, AuthorStages
  <2> QED
    BY <2>1, <2>2 DEF RecordStages
<1>2. \A r \in Records : Still(r)
  BY <1>1, RecordsMove
<1>3. definition # None => definition'.archived = definition.archived
  BY <1>1, ArchivedMoves
<1>4. HoldsAt(pc[d], req[d]) /\ HandlerAt(pc[d], req[d])
  BY DEF RecordInv, IInv, HandlerOK
<1>5. CASE pc[d] = "archiving"
  BY <1>2, <1>4, <1>5 DEF HoldsAt, Completed, Still
<1>6. CASE pc[d] \in {"starting", "binding"}
  BY <1>3, <1>4, <1>6 DEF HoldsAt, HandlerAt, RecordStages
<1>7. CASE pc[d] \in {"gating", "moving"}
  <2>1. PICK r : r = req[d].record
    OBVIOUS
  <2>2. r \in Records /\ instance[r] # None
    BY <1>4, <1>7, <2>1 DEF HandlerAt, RecordStages
  <2>3. instance'[r].status = "active" /\ instance'[r].stage = req[d].from.key
    BY <1>2, <1>4, <1>7, <2>1, <2>2 DEF HoldsAt, Still
  <2> QED
    BY <1>7, <2>1, <2>3 DEF HoldsAt
<1> QED
  BY <1>5, <1>6, <1>7 DEF RecordStages

(* A handler that enters has just looked. *)
LEMMA EntersHolding ==
    ASSUME IInv, RecordInv, NEW d \in Clients, Enters(d)
    PROVE  HoldsAt(pc[d], req[d])'
<1>a. /\ pc \in [Clients -> AuthorStages \cup RecordStages \cup JobStages \cup {"idle"}]
      /\ DOMAIN req = Clients
  BY DEF IInv, TypeOK
<1>1. ASSUME ReadForArchive(d) PROVE HoldsAt(pc[d], req[d])'
  <2>1. pc'[d] = "archiving" /\ instance' = instance
    BY <1>a, <1>1 DEF ReadForArchive, Goto, runtime
  <2>2. ASSUME NEW r \in Records, instance[r] # None PROVE instance[r].status = "completed"
    <3>1. instance[r] \in Instance
      BY <2>2 DEF IInv, TypeOK
    <3> QED
      BY <1>1, <2>2, <3>1 DEF ReadForArchive, Instance
  <2> QED
    BY <2>1, <2>2 DEF HoldsAt, Completed
<1>2. ASSUME NEW r \in Records, ReadDefinition(d, r) PROVE HoldsAt(pc[d], req[d])'
  BY <1>a, <1>2 DEF ReadDefinition, Goto, Editable, authoring, HoldsAt
<1>3. ASSUME ReadActiveVersion(d) PROVE HoldsAt(pc[d], req[d])'
  <2>1. pc[d] = "starting" /\ pc'[d] = "binding" /\ definition' = definition
    BY <1>a, <1>3 DEF ReadActiveVersion, Goto, authoring
  <2> QED
    BY <2>1 DEF RecordInv, HoldsAt
<1>4. ASSUME NEW r \in Records, NEW fields \in Fields, instance[r] # None,
             NEW t \in Range(SpecOf(r).transitions), ReadForTransition(d, r, t, fields)
      PROVE  HoldsAt(pc[d], req[d])'
  <2>1. PICK what : what = req'[d]
    OBVIOUS
  <2>2. what.record = r /\ what.from.key = instance[r].stage
    BY <1>4, <2>1, TransitionRead
  <2>3. pc'[d] = "gating" /\ instance' = instance /\ instance[r].status = "active"
    BY <1>a, <1>4 DEF ReadForTransition, Goto, runtime
  <2> QED
    BY <2>1, <2>2, <2>3 DEF HoldsAt
<1>5. ASSUME CheckEvidence(d) PROVE HoldsAt(pc[d], req[d])'
  <2>1. pc[d] = "gating" /\ pc'[d] = "moving" /\ req'[d] = req[d] /\ instance' = instance
    BY <1>a, <1>5 DEF CheckEvidence, Goto, runtime
  <2> QED
    BY <2>1 DEF RecordInv, HoldsAt
<1> QED
  BY <1>1, <1>2, <1>3, <1>4, <1>5 DEF Enters

(* Every step of handlers that do not overlap keeps the records governed. *)
LEMMA RecordStep ==
    IInv /\ AuthorInv /\ BoundInv /\ Frozen /\ HandlersAlone /\ RecordInv /\ [Next]_vars
      => RecordInv'
<1> SUFFICES ASSUME IInv, AuthorInv, BoundInv, Frozen, HandlersAlone, RecordInv, [Next]_vars
             PROVE  RecordInv'
  OBVIOUS
<1>1. ASSUME NEW r \in Records, instance'[r] # None
      PROVE  /\ definition'.archived => instance'[r].status = "completed"
             /\ WalkOf(SpecOf(r)', instance'[r], log'[r])
  BY <1>1, RecordsStayGoverned
<1>2. ASSUME NEW d \in Clients PROVE HoldsAt(pc[d], req[d])'
  <2>1. pc'[d] \notin RecordStages \cup {"archiving"} => HoldsAt(pc[d], req[d])'
    BY DEF HoldsAt, RecordStages
  <2> QED
    BY <2>1, StillHolds, EntersHolding, HandlersMove
<1> QED
  BY <1>1, <1>2 DEF RecordInv

(* ... from the start. *)
LEMMA InitRecords == Init => RecordInv
BY DEF Init, RecordInv, HoldsAt

(* Handlers that do not overlap are authors that do not overlap. *)
LEMMA AloneTogether == HandlersAlone => AuthorsAlone
BY DEF HandlersAlone, AuthorsAlone, Alone

(* While authors and handlers of records do not overlap, records are bound *)
(* to frozen versions and their handlers act on what still holds.          *)
THEOREM RecordInvariance ==
    Spec /\ []HandlersAlone => [](IInv /\ AuthorInv /\ BoundInv /\ RecordInv)
<1> DEFINE All == IInv /\ AuthorInv /\ BoundInv /\ RecordInv
<1>1. Init => All
  BY InitTyped, InitBound, InitRecords DEF Init, AuthorInv, Fresh, WithStatus
<1>2. All /\ HandlersAlone /\ [Next]_vars => All'
  BY StepTyped, AuthorStep, BoundStep, RecordStep, AloneTogether
<1> QED
  BY <1>1, <1>2, PTL DEF Spec

(* Records are governed: at most one version is active and the definition  *)
(* names it, a record is bound to a version that was activated and is      *)
(* valid, and an archived workflow runs no record - as long as authors and *)
(* handlers of records do not overlap (activateWorkflowVersion,            *)
(* archiveWorkflow, startWorkflowInstance).                                *)
THEOREM RecordsStayUnderAVersion == Spec /\ []HandlersAlone => []RecordsAreGoverned
<1>1. IInv /\ AuthorInv /\ BoundInv /\ RecordInv => RecordsAreGoverned
  <2> SUFFICES ASSUME IInv, AuthorInv, BoundInv, RecordInv PROVE RecordsAreGoverned
    OBVIOUS
  <2>1. \A v \in WithStatus("active") :
           WithStatus("active") = {v} /\ definition.current = v
    BY DEF AuthorInv
  <2>2. ASSUME NEW r \in Records, instance[r] # None
        PROVE  /\ version[instance[r].version].status \in {"active", "retired"}
               /\ Valid(SpecOf(r))
    <3>1. instance[r].version \in DOMAIN version
          /\ version[instance[r].version].status # "draft"
      BY <2>2 DEF IInv, Linked, BoundInv
    <3>2. version[instance[r].version] \in Version
      BY <3>1, VersionRow
    <3> QED
      BY <3>1, <3>2 DEF AuthorInv, SpecOf, Version
  <2> QED
    BY <2>1, <2>2 DEF RecordsAreGoverned, IInv, RecordInv
<1> QED
  BY <1>1, RecordInvariance, PTL

(* The log of a record is a walk along the transitions of its version, and *)
(* a record is closed exactly where the walk ends in a terminal stage - as *)
(* long as authors and handlers of records do not overlap                  *)
(* (performTransition).                                                    *)
THEOREM RecordsWalk == Spec /\ []HandlersAlone => []LogIsAWalk
<1>1. RecordInv => LogIsAWalk
  BY DEF RecordInv, LogIsAWalk, WalkOf
<1> QED
  BY <1>1, RecordInvariance, PTL

-----------------------------------------------------------------------------
(* Evidence that stays on file *)

(* Nobody attaches, detaches or decides while a handler is between         *)
(* counting the evidence and committing the transition.                    *)
EvidenceSettled == (\E c \in Clients : pc[c] = "moving") => UNCHANGED <<attached, approved>>

(* What a handler that is about to commit has counted is on file. *)
CountedAt(here, what) ==
    here = "moving" => /\ attached[what.record] >= what.from.documents
                       /\ approved[what.record] >= what.from.approvals

EvidenceInv == \A c \in Clients : CountedAt(pc[c], req[c])

(* Counting comes before committing. *)
LEMMA EvidenceStep == IInv /\ EvidenceInv /\ [EvidenceSettled]_vars /\ [Next]_vars => EvidenceInv'
<1> SUFFICES ASSUME IInv, EvidenceInv, [EvidenceSettled]_vars, [Next]_vars,
                    NEW d \in Clients, pc'[d] = "moving"
             PROVE  CountedAt(pc[d], req[d])'
  BY DEF EvidenceInv, CountedAt
<1>a. /\ pc \in [Clients -> AuthorStages \cup RecordStages \cup JobStages \cup {"idle"}]
      /\ DOMAIN req = Clients
  BY DEF IInv, TypeOK
<1>1. CASE pc'[d] = pc[d] /\ req'[d] = req[d]
  <2>1. attached' = attached /\ approved' = approved
    BY <1>1 DEF EvidenceSettled, vars
  <2> QED
    BY <1>1, <2>1 DEF EvidenceInv, CountedAt
<1>2. CASE Enters(d)
  <2>1. CheckEvidence(d)
    BY <1>a, <1>2 DEF Enters, ReadForArchive, ReadDefinition, ReadActiveVersion,
       ReadForTransition, Goto
  <2>2. /\ attached' = attached /\ approved' = approved /\ req'[d] = req[d]
        /\ attached[req[d].record] >= req[d].from.documents
        /\ approved[req[d].record] >= req[d].from.approvals
    BY <2>1 DEF CheckEvidence, runtime
  <2> QED
    BY <2>2 DEF CountedAt
<1> QED
  BY <1>1, <1>2, HandlersMove DEF RecordStages

(* No record leaves a stage without the documents and approvals the stage  *)
(* requires (performTransition) - as long as the evidence stays as it was  *)
(* counted, and authors do not overlap.                                    *)
THEOREM EvidenceIsOnFile ==
    Spec /\ []AuthorsAlone /\ [][EvidenceSettled]_vars => EvidenceOnFile
<1> DEFINE All == IInv /\ AuthorInv /\ BoundInv /\ EvidenceInv
<1>1. Init => All
  BY InitTyped, InitBound DEF Init, AuthorInv, Fresh, WithStatus, EvidenceInv, CountedAt
<1>2. All /\ AuthorsAlone /\ [EvidenceSettled]_vars /\ [Next]_vars => All'
  BY StepTyped, AuthorStep, BoundStep, EvidenceStep
<1>3. All /\ [Next]_vars =>
        [\A r \in Records : log[r] # <<>> /\ log'[r] # log[r] =>
            LET left == StageByKey(SpecOf(r), log'[r][Len(log'[r])].from) IN
            attached[r] >= left.documents /\ approved[r] >= left.approvals]_vars
  <2> SUFFICES ASSUME All, [Next]_vars,
                      NEW r \in Records, log[r] # <<>>, log'[r] # log[r],
                      NEW left, left = StageByKey(SpecOf(r), log'[r][Len(log'[r])].from)
               PROVE  attached[r] >= left.documents /\ approved[r] >= left.approvals
    OBVIOUS
  <2>1. PICK c \in Clients : CommitTransition(c) /\ r = req[c].record
    BY RecordsMove, CreateInstanceTyped DEF Still
  <2>2. PICK move : move = req[c]
    OBVIOUS
  <2>a. log'[r] = Append(log[r], [from |-> req[c].from.key, to |-> req[c].to.key,
                                  key |-> req[c].key])
    BY <2>1, CommitTransitionTyped
  <2>3. PICK entry : /\ entry = [from |-> move.from.key, to |-> move.to.key,
                                 key |-> move.key]
                     /\ log'[r] = Append(log[r], entry)
    BY <2>2, <2>a
  <2>4. log'[r][Len(log'[r])] = entry
    <3>1. log[r] \in Seq(LogEntry)
      BY DEF IInv, TypeOK
    <3> QED
      BY <2>3, <3>1
  <2>5. log'[r][Len(log'[r])].from = move.from.key
    BY <2>3, <2>4
  <2>6. pc[c] = "moving"
    BY <2>1 DEF CommitTransition
  <2>7. MoveOf(SpecOf(r), move) /\ CountedAt("moving", move)
    BY <2>1, <2>2, <2>6 DEF BoundInv, FollowsAt, EvidenceInv
  <2>8. left = move.from
    BY <2>5, <2>7 DEF MoveOf
  <2> QED
    BY <2>1, <2>2, <2>7, <2>8 DEF CountedAt
<1> QED
  BY <1>1, <1>2, <1>3, PTL DEF Spec, EvidenceOnFile

-----------------------------------------------------------------------------
(* Escalation jobs, one at a time *)

JobsAlone == Alone(JobStages)

(* Those the job has found are entries of the logs, and no notice of them  *)
(* has been sent that a death does not account for.                        *)
Due(entries) ==
    \A e \in entries :
       /\ e[2] <= Len(log[e[1]])
       /\ e[2] \in 1 .. MaxLog => escalations[e[1]][e[2]] <= crashes

DueAt(here, what) ==
    /\ here = "escalating" => Due(what)
    /\ here = "marking" => Due(what.rest)

Marking(r) == \E c \in Clients : pc[c] = "marking" /\ req[c].record = r

(* A record whose last entry was notified once more than the job has died  *)
(* is marked, or is about to be.                                           *)
Accounted(r) ==
    \A k \in 1 .. MaxLog :
       /\ escalations[r][k] <= 1 + crashes
       /\ k > Len(log[r]) => escalations[r][k] = 0
       /\ k = Len(log[r]) /\ escalations[r][k] > crashes
            => instance[r].escalated \/ Marking(r)

JobInv ==
    /\ \A r \in Records : Accounted(r)
    /\ \A c \in Clients : DueAt(pc[c], req[c])

(* The next entry of a record's log is new, and until then a mark stays. *)
Unmarked(r) ==
    \/ log'[r] = log[r] /\ (instance[r].escalated => instance'[r].escalated)
    \/ Len(log'[r]) = Len(log[r]) + 1

(* A handler stays where it is, or is not among the jobs before and after, *)
(* or a job of it begins or ends.                                          *)
Quiet(d) ==
    \/ pc'[d] = pc[d] /\ req'[d] = req[d]
    \/ pc[d] # "marking" /\ pc'[d] \notin JobStages
    \/ pc[d] # "marking" /\ DueAt(pc[d], req[d])'

(* Numbers that the comparisons are about. *)
LEMMA Counts ==
    ASSUME IInv
    PROVE  /\ crashes \in Nat /\ MaxLog \in Nat
           /\ \A r \in Records : Len(log[r]) \in Nat
           /\ \A r \in Records, k \in 1 .. MaxLog : escalations[r][k] \in Nat
<1>1. crashes \in Nat /\ MaxLog \in Nat
  BY BoundsAssumption DEF BoundsAssumption, IInv, TypeOK
<1>2. \A r \in Records : Len(log[r]) \in Nat
  BY DEF IInv, TypeOK
<1>3. \A r \in Records, k \in 1 .. MaxLog : escalations[r][k] \in Nat
  BY DEF IInv, TypeOK
<1> QED
  BY <1>1, <1>2, <1>3

(* A step that sends no notice and marks nothing. *)
LEMMA JobsUndisturbed ==
    ASSUME IInv, IInv', JobInv, UNCHANGED <<escalations, crashes>>,
           \A r \in Records : Unmarked(r), \A d \in Clients : Quiet(d)
    PROVE  JobInv'
<1>a. crashes' = crashes /\ escalations' = escalations
  OBVIOUS
<1>b. \A r \in Records : /\ Len(log[r]) \in Nat /\ Len(log'[r]) \in Nat
                         /\ Len(log[r]) <= Len(log'[r])
  BY Counts DEF Unmarked
<1>1. ASSUME NEW r \in Records PROVE Accounted(r)'
  <2>1. Marking(r) => Marking(r)'
    BY DEF Marking, Quiet
  <2>2. SUFFICES ASSUME NEW k \in 1 .. MaxLog
        PROVE  /\ escalations[r][k] <= 1 + crashes
               /\ k > Len(log'[r]) => escalations[r][k] = 0
               /\ k = Len(log'[r]) /\ escalations[r][k] > crashes
                    => instance'[r].escalated \/ Marking(r)'
    BY <1>a DEF Accounted
  <2>3. /\ escalations[r][k] <= 1 + crashes
        /\ k > Len(log[r]) => escalations[r][k] = 0
        /\ k = Len(log[r]) /\ escalations[r][k] > crashes
             => instance[r].escalated \/ Marking(r)
    BY DEF JobInv, Accounted
  <2>4. crashes \in Nat /\ k \in Nat
    BY Counts
  <2>5. k > Len(log'[r]) => k > Len(log[r])
    BY <1>b, <2>4
  <2>6. CASE log'[r] = log[r] /\ (instance[r].escalated => instance'[r].escalated)
    BY <2>1, <2>3, <2>6
  <2>7. CASE Len(log'[r]) = Len(log[r]) + 1
    <3>1. k = Len(log'[r]) => escalations[r][k] = 0
      BY <1>b, <2>3, <2>7
    <3> QED
      BY <2>3, <2>4, <2>5, <3>1
  <2> QED
    BY <2>6, <2>7 DEF Unmarked
<1>2. ASSUME NEW entries, Found(entries), Due(entries) PROVE Due(entries)'
  <2>1. ASSUME NEW e \in entries
        PROVE  /\ e[2] <= Len(log'[e[1]])
               /\ e[2] \in 1 .. MaxLog => escalations[e[1]][e[2]] <= crashes
    <3>1. PICK r, k : e = <<r, k>> /\ r \in Records /\ k \in Nat
      BY <1>2 DEF Found
    <3>2. k <= Len(log[r]) /\ (k \in 1 .. MaxLog => escalations[r][k] <= crashes)
      BY <1>2, <3>1 DEF Due
    <3>3. k <= Len(log'[r])
      BY <1>b, <3>1, <3>2
    <3> QED
      BY <3>1, <3>2, <3>3
  <2> QED
    BY <1>a, <2>1 DEF Due
<1>3. ASSUME NEW d \in Clients PROVE DueAt(pc[d], req[d])'
  <2>1. CASE pc'[d] = pc[d] /\ req'[d] = req[d]
    <3>1. PICK here, what : here = pc[d] /\ what = req[d]
      OBVIOUS
    <3>2. HandlerAt(here, what) /\ DueAt(here, what)
      BY <3>1 DEF IInv, HandlerOK, JobInv
    <3>3. here = "escalating" => Due(what)'
      BY <1>2, <3>2 DEF HandlerAt, DueAt
    <3>4. PICK rest : rest = what.rest
      OBVIOUS
    <3>5. here = "marking" => Due(rest)'
      BY <1>2, <3>2, <3>4 DEF HandlerAt, DueAt
    <3> QED
      BY <2>1, <3>1, <3>3, <3>4, <3>5 DEF DueAt
  <2>2. CASE pc'[d] \notin JobStages
    BY <2>2 DEF DueAt, JobStages
  <2> QED
    BY <2>1, <2>2 DEF Quiet
<1> QED
  BY <1>1, <1>3 DEF JobInv

(* A client's step keeps the handlers of the others quiet. *)
LEMMA QuietBeside ==
    ASSUME NEW c \in Clients, NEW d \in Clients,
           \A e \in Clients \ {c} : pc'[e] = pc[e] /\ req'[e] = req[e],
           Quiet(c)
    PROVE  Quiet(d)
BY DEF Quiet

(* Authors, handlers of records and those that give up leave the jobs and  *)
(* the marks to themselves.                                                *)
LEMMA BesideJobs ==
    ASSUME IInv, NEW c \in Clients,
           \/ Authoring(c) \/ Running(c) \/ Fail(c) \/ EndEscalation(c)
           \/ \E r \in Records : FileEvidence(c, r)
    PROVE  /\ UNCHANGED <<escalations, crashes>>
           /\ \A r \in Records : Unmarked(r)
           /\ \A d \in Clients : Quiet(d)
<1>a. /\ pc \in [Clients -> AuthorStages \cup RecordStages \cup JobStages \cup {"idle"}]
      /\ DOMAIN req = Clients
  BY DEF IInv, TypeOK
<1>b. ASSUME instance' = instance, log' = log PROVE \A r \in Records : Unmarked(r)
  BY <1>b DEF Unmarked
<1>c. ASSUME pc[c] # "marking", pc'[c] \notin JobStages PROVE Quiet(c)
  BY <1>c DEF Quiet
<1>1. CASE Authoring(c)
  <2>1. UNCHANGED <<escalations, crashes>> /\ instance' = instance /\ log' = log
    BY <1>1 DEF Authoring, CreateWorkflow, ReadDraft, WriteDraft, ReadNoDraft, ReadLatest,
       CreateRevision, ReadForActivate, BeginActivate, CommitActivate, ReadForArchive,
       CommitArchive, runtime
  <2>2. \A d \in Clients \ {c} : pc'[d] = pc[d] /\ req'[d] = req[d]
    BY <1>a, <1>1 DEF Authoring, CreateWorkflow, ReadDraft, WriteDraft, ReadNoDraft,
       ReadLatest, CreateRevision, ReadForActivate, BeginActivate, CommitActivate,
       ReadForArchive, CommitArchive, Goto, Return, Read
  <2>3. pc[c] \in AuthorStages \cup {"idle"} /\ pc'[c] \in AuthorStages \cup {"idle"}
    BY <1>a, <1>1 DEF Authoring, CreateWorkflow, ReadDraft, WriteDraft, ReadNoDraft,
       ReadLatest, CreateRevision, ReadForActivate, BeginActivate, CommitActivate,
       ReadForArchive, CommitArchive, Goto, Return, AuthorStages
  <2>4. Quiet(c)
    BY <1>c, <2>3 DEF AuthorStages, JobStages
  <2> QED
    BY <1>b, <2>1, <2>2, <2>4, QuietBeside
<1>2. CASE Running(c)
  <2>1. UNCHANGED <<escalations, crashes>>
    BY <1>2 DEF Running, ReadDefinition, ReadActiveVersion, CreateInstance,
       ReadForTransition, CheckEvidence, CommitTransition, runtime
  <2>2. pc[c] \in RecordStages \cup {"idle"} /\ pc'[c] \in RecordStages \cup {"idle"}
    BY <1>a, <1>2 DEF Running, ReadDefinition, ReadActiveVersion, CreateInstance,
       ReadForTransition, CheckEvidence, CommitTransition, Goto, Return, RecordStages
  <2>3. Quiet(c)
    BY <1>c, <2>2 DEF RecordStages, JobStages
  <2>4. \A d \in Clients : Quiet(d)
    BY <1>2, <2>3, BesideAuthors, QuietBeside
  <2>5. \/ instance' = instance /\ log' = log
        \/ CreateInstance(c) \/ CommitTransition(c)
    BY <1>2 DEF Running, ReadDefinition, ReadActiveVersion, ReadForTransition,
       CheckEvidence, runtime
  <2>6. ASSUME NEW q \in Records, NEW entry,
               instance' = [instance EXCEPT ![q] = instance'[q]],
               log' = [log EXCEPT ![q] = log'[q]],
               log'[q] = Append(log[q], entry)
        PROVE  \A r \in Records : Unmarked(r)
    <3>1. \A r \in Records \ {q} : instance'[r] = instance[r] /\ log'[r] = log[r]
      BY <2>6 DEF IInv, TypeOK
    <3>2. log[q] \in Seq(LogEntry)
      BY DEF IInv, TypeOK
    <3>3. Len(log'[q]) = Len(log[q]) + 1
      BY <2>6, <3>2
    <3> QED
      BY <3>1, <3>3 DEF Unmarked
  <2>7. ASSUME CreateInstance(c) PROVE \A r \in Records : Unmarked(r)
    <3>1. PICK q : q = req[c].record
      OBVIOUS
    <3>2. PICK entry : entry = [from |-> None, to |-> req[c].stage.key, key |-> "start"]
      OBVIOUS
    <3>3. /\ q \in Records /\ log[q] = <<>>
          /\ instance' = [instance EXCEPT ![q] = instance'[q]]
          /\ log' = [log EXCEPT ![q] = log'[q]]
          /\ log'[q] = <<[from |-> None, to |-> req[c].stage.key, key |-> "start"]>>
      BY <2>7, <3>1, CreateInstanceTyped
    <3>4. log'[q] = Append(log[q], entry)
      BY <3>2, <3>3
    <3> QED
      BY <2>6, <3>3, <3>4
  <2>8. ASSUME CommitTransition(c) PROVE \A r \in Records : Unmarked(r)
    <3>1. PICK q : q = req[c].record
      OBVIOUS
    <3>2. PICK entry : entry = [from |-> req[c].from.key, to |-> req[c].to.key,
                                key |-> req[c].key]
      OBVIOUS
    <3>3. /\ q \in Records
          /\ instance' = [instance EXCEPT ![q] = instance'[q]]
          /\ log' = [log EXCEPT ![q] = log'[q]]
          /\ log'[q] = Append(log[q], [from |-> req[c].from.key, to |-> req[c].to.key,
                                       key |-> req[c].key])
      BY <2>8, <3>1, CommitTransitionTyped
    <3> QED
      BY <2>6, <3>2, <3>3
  <2> QED
    BY <1>b, <2>1, <2>4, <2>5, <2>7, <2>8
<1>3. CASE Fail(c) \/ EndEscalation(c)
  <2>1. /\ UNCHANGED <<escalations, crashes>> /\ instance' = instance /\ log' = log
        /\ pc[c] # "marking" /\ pc'[c] = "idle"
        /\ \A d \in Clients \ {c} : pc'[d] = pc[d] /\ req'[d] = req[d]
    BY <1>a, <1>3 DEF Fail, EndEscalation, Return, runtime
  <2>2. Quiet(c)
    BY <1>c, <2>1 DEF JobStages
  <2> QED
    BY <1>b, <2>1, <2>2, QuietBeside
<1>4. CASE \E r \in Records : FileEvidence(c, r)
  BY <1>b, <1>4 DEF FileEvidence, Quiet
<1> QED
  BY <1>1, <1>2, <1>3, <1>4

(* The job finds records that are overdue and not marked. *)
LEMMA FindsWhatIsDue ==
    ASSUME IInv, JobInv, JobsAlone', NEW c \in Clients, FindOverdue(c)
    PROVE  /\ UNCHANGED <<escalations, crashes>>
           /\ \A r \in Records : Unmarked(r)
           /\ \A d \in Clients : Quiet(d)
<1>a. /\ pc \in [Clients -> AuthorStages \cup RecordStages \cup JobStages \cup {"idle"}]
      /\ DOMAIN req = Clients
  BY DEF IInv, TypeOK
<1>1. PICK found : found = {<<r, Len(log[r])>> : r \in {q \in Records : Overdue(q) /\ Escalates(q)}}
  OBVIOUS
<1>2. /\ pc[c] = "idle" /\ pc'[c] = "escalating" /\ req'[c] = found
      /\ \A d \in Clients \ {c} : pc'[d] = pc[d] /\ req'[d] = req[d]
      /\ escalations' = escalations /\ crashes' = crashes
      /\ instance' = instance /\ log' = log
  BY <1>a, <1>1 DEF FindOverdue, Goto, Read, runtime
<1>3. ASSUME NEW e \in found
      PROVE  /\ e[2] <= Len(log[e[1]])
             /\ e[2] \in 1 .. MaxLog => escalations[e[1]][e[2]] <= crashes
  <2>1. PICK r \in Records : e = <<r, Len(log[r])>> /\ Overdue(r)
    BY <1>1
  <2>2. PICK k : k = Len(log[r])
    OBVIOUS
  <2>3. k \in Nat
    BY <2>2, Counts
  <2>4. ~Marking(r)
    <3> SUFFICES ASSUME NEW d \in Clients, pc[d] = "marking" PROVE FALSE
      BY DEF Marking
    <3>1. pc'[d] = "marking" /\ d # c
      BY <1>2
    <3> QED
      BY <1>2, <3>1 DEF JobsAlone, Alone, JobStages
  <2>5. ~instance[r].escalated
    BY <2>1 DEF Overdue
  <2>6. ASSUME k \in 1 .. MaxLog PROVE escalations[r][k] <= crashes
    <3>1. ~(escalations[r][k] > crashes)
      BY <2>2, <2>4, <2>5, <2>6 DEF JobInv, Accounted
    <3> QED
      BY <2>6, <3>1, Counts
  <2> QED
    BY <2>1, <2>2, <2>3, <2>6
<1>4. DueAt(pc[c], req[c])'
  BY <1>2, <1>3 DEF DueAt, Due
<1>5. Quiet(c)
  BY <1>2, <1>4 DEF Quiet
<1> QED
  BY <1>2, <1>5, QuietBeside DEF Unmarked

(* While a job is at work no other is. *)
LEMMA OnlyJob ==
    ASSUME JobsAlone, NEW c \in Clients, pc[c] \in JobStages
    PROVE  /\ \A d \in Clients \ {c} : pc[d] \notin JobStages
           /\ \A r \in Records : Marking(r) => pc[c] = "marking" /\ req[c].record = r
BY DEF JobsAlone, Alone, Marking, JobStages

(* A notice is sent of an entry that was due, and taken off the list. *)
LEMMA NotifyCounts ==
    ASSUME IInv, JobInv, JobsAlone, NEW c \in Clients, NEW r \in Records,
           NEW k \in 1 .. MaxLog, pc[c] = "escalating", NotifyEscalation(c, r, k)
    PROVE  JobInv'
<1>a. /\ pc \in [Clients -> AuthorStages \cup RecordStages \cup JobStages \cup {"idle"}]
      /\ DOMAIN req = Clients
  BY DEF IInv, TypeOK
<1>1. PICK found, rest : found = req[c] /\ rest = found \ {<<r, k>>}
  OBVIOUS
<1>2. PICK what : what = [record |-> r, rest |-> rest]
  OBVIOUS
<1>3. /\ pc'[c] = "marking" /\ req'[c] = what
      /\ \A d \in Clients \ {c} : pc'[d] = pc[d] /\ req'[d] = req[d]
      /\ log' = log /\ instance' = instance /\ crashes' = crashes
      /\ <<r, k>> \in found
  BY <1>a, <1>1, <1>2 DEF NotifyEscalation, Goto, Read
<1>4. Due(found) /\ Found(found)
  BY <1>1 DEF JobInv, DueAt, IInv, HandlerOK, HandlerAt
<1>5. k <= Len(log[r]) /\ escalations[r][k] <= crashes
  BY <1>3, <1>4 DEF Due
<1>6. escalations'[r][k] = escalations[r][k] + 1
      /\ \A q \in Records, j \in 1 .. MaxLog :
            q # r \/ j # k => escalations'[q][j] = escalations[q][j]
  <2>1. escalations \in [Records -> [1 .. MaxLog -> Nat]]
    BY DEF IInv, TypeOK
  <2>2. escalations' = [escalations EXCEPT ![r] = [escalations[r] EXCEPT ![k] = @ + 1]]
    BY DEF NotifyEscalation
  <2>3. PICK row : row = escalations[r]
    OBVIOUS
  <2>4. row \in [1 .. MaxLog -> Nat]
    BY <2>1, <2>3
  <2>5. PICK new : new = [row EXCEPT ![k] = @ + 1]
    OBVIOUS
  <2>6. new[k] = row[k] + 1 /\ \A j \in 1 .. MaxLog : j # k => new[j] = row[j]
    BY <2>4, <2>5
  <2>7. escalations' = [escalations EXCEPT ![r] = new]
    BY <2>2, <2>3, <2>5
  <2>8. escalations'[r] = new /\ \A q \in Records : q # r => escalations'[q] = escalations[q]
    BY <2>1, <2>7
  <2> QED
    BY <2>3, <2>6, <2>8
<1>7. Marking(r)'
  BY <1>2, <1>3 DEF Marking
<1>8. \A q \in Records : ~Marking(q)
  BY OnlyJob DEF JobStages
<1>9. ASSUME NEW q \in Records PROVE Accounted(q)'
  <2> SUFFICES ASSUME NEW j \in 1 .. MaxLog
      PROVE  /\ escalations'[q][j] <= 1 + crashes
             /\ j > Len(log[q]) => escalations'[q][j] = 0
             /\ j = Len(log[q]) /\ escalations'[q][j] > crashes
                  => instance[q].escalated \/ Marking(q)'
    BY <1>3 DEF Accounted
  <2>1. /\ escalations[q][j] <= 1 + crashes
        /\ j > Len(log[q]) => escalations[q][j] = 0
        /\ j = Len(log[q]) /\ escalations[q][j] > crashes => instance[q].escalated
    BY <1>8 DEF JobInv, Accounted
  <2>2. CASE q = r /\ j = k
    BY <1>5, <1>6, <1>7, <2>2, Counts
  <2>3. CASE q # r \/ j # k
    BY <1>6, <2>1, <2>3
  <2> QED
    BY <2>2, <2>3
<1>10. Due(rest)'
  <2> SUFFICES ASSUME NEW e \in rest
      PROVE  /\ e[2] <= Len(log[e[1]])
             /\ e[2] \in 1 .. MaxLog => escalations'[e[1]][e[2]] <= crashes
    BY <1>3 DEF Due
  <2>1. PICK q, j : e = <<q, j>> /\ q \in Records /\ e \in found
    BY <1>1, <1>4 DEF Found
  <2>2. q # r \/ j # k
    BY <1>1, <2>1
  <2>3. j <= Len(log[q]) /\ (j \in 1 .. MaxLog => escalations[q][j] <= crashes)
    BY <1>4, <2>1 DEF Due
  <2> QED
    BY <1>6, <2>1, <2>2, <2>3
<1>11. ASSUME NEW d \in Clients PROVE DueAt(pc[d], req[d])'
  <2>1. CASE d = c
    <3>1. what.rest = rest
      BY <1>2
    <3> QED
      BY <1>3, <1>10, <2>1, <3>1 DEF DueAt
  <2>2. CASE d # c
    BY <1>3, <2>2, OnlyJob DEF DueAt, JobStages
  <2> QED
    BY <2>1, <2>2
<1> QED
  BY <1>9, <1>11 DEF JobInv

(* The mark accounts for the notice. *)
LEMMA MarkCounts ==
    ASSUME IInv, JobInv, JobsAlone, NEW c \in Clients, MarkEscalated(c)
    PROVE  JobInv'
<1>a. /\ pc \in [Clients -> AuthorStages \cup RecordStages \cup JobStages \cup {"idle"}]
      /\ DOMAIN req = Clients
  BY DEF IInv, TypeOK
<1>1. PICK r, rest : r = req[c].record /\ rest = req[c].rest
  OBVIOUS
<1>2. /\ pc[c] = "marking" /\ pc'[c] = "escalating" /\ req'[c] = rest
      /\ \A d \in Clients \ {c} : pc'[d] = pc[d] /\ req'[d] = req[d]
      /\ log' = log /\ escalations' = escalations /\ crashes' = crashes
  BY <1>a, <1>1 DEF MarkEscalated, Goto, Read
<1>3. /\ r \in Records /\ instance' = [instance EXCEPT ![r] = instance'[r]]
      /\ instance'[r].escalated
  BY <1>1, MarkTyped
<1>4. \A q \in Records : q # r => instance'[q] = instance[q]
  BY <1>3 DEF IInv, TypeOK
<1>5. \A q \in Records : Marking(q) => q = r
  BY <1>1, <1>2, OnlyJob DEF JobStages
<1>6. ASSUME NEW q \in Records PROVE Accounted(q)'
  <2> SUFFICES ASSUME NEW j \in 1 .. MaxLog
      PROVE  /\ escalations[q][j] <= 1 + crashes
             /\ j > Len(log[q]) => escalations[q][j] = 0
             /\ j = Len(log[q]) /\ escalations[q][j] > crashes => instance'[q].escalated
    BY <1>2 DEF Accounted
  <2>1. /\ escalations[q][j] <= 1 + crashes
        /\ j > Len(log[q]) => escalations[q][j] = 0
        /\ j = Len(log[q]) /\ escalations[q][j] > crashes
             => instance[q].escalated \/ q = r
    BY <1>5 DEF JobInv, Accounted
  <2> QED
    BY <1>3, <1>4, <2>1
<1>7. Due(rest)'
  BY <1>1, <1>2 DEF JobInv, DueAt, Due
<1>8. ASSUME NEW d \in Clients PROVE DueAt(pc[d], req[d])'
  BY <1>2, <1>7, OnlyJob DEF DueAt, JobStages
<1> QED
  BY <1>6, <1>8 DEF JobInv

(* A death accounts for one more notice of every entry. *)
LEMMA CrashCounts ==
    ASSUME IInv, JobInv, JobsAlone, NEW c \in Clients, CrashBeforeMark(c)
    PROVE  JobInv'
<1>a. /\ pc \in [Clients -> AuthorStages \cup RecordStages \cup JobStages \cup {"idle"}]
      /\ DOMAIN req = Clients
  BY DEF IInv, TypeOK
<1>1. /\ pc[c] = "marking" /\ pc'[c] = "idle"
      /\ \A d \in Clients \ {c} : pc'[d] = pc[d]
      /\ log' = log /\ escalations' = escalations /\ crashes' = crashes + 1
  BY <1>a DEF CrashBeforeMark, Return
<1>2. ASSUME NEW r \in Records PROVE Accounted(r)'
  <2> SUFFICES ASSUME NEW k \in 1 .. MaxLog
      PROVE  /\ escalations[r][k] <= 1 + (crashes + 1)
             /\ k > Len(log[r]) => escalations[r][k] = 0
             /\ ~(escalations[r][k] > crashes + 1)
    BY <1>1 DEF Accounted
  <2>1. escalations[r][k] <= 1 + crashes /\ (k > Len(log[r]) => escalations[r][k] = 0)
    BY DEF JobInv, Accounted
  <2> QED
    BY <2>1, Counts
<1>3. ASSUME NEW d \in Clients PROVE DueAt(pc[d], req[d])'
  BY <1>1, OnlyJob DEF DueAt, JobStages
<1> QED
  BY <1>2, <1>3 DEF JobInv

(* Every step accounts for its notices. *)
LEMMA JobStep == IInv /\ JobInv /\ JobsAlone /\ JobsAlone' /\ [Next]_vars => JobInv'
<1> SUFFICES ASSUME IInv, JobInv, JobsAlone, JobsAlone', [Next]_vars PROVE JobInv'
  OBVIOUS
<1>a. IInv'
  BY StepTyped
<1>1. ASSUME NEW c \in Clients,
             \/ Authoring(c) \/ Running(c) \/ Fail(c) \/ EndEscalation(c)
             \/ \E r \in Records : FileEvidence(c, r)
             \/ FindOverdue(c)
      PROVE  JobInv'
  BY <1>a, <1>1, BesideJobs, FindsWhatIsDue, JobsUndisturbed
<1>2. ASSUME NEW c \in Clients, Escalating(c) PROVE JobInv'
  BY <1>1, <1>2, NotifyCounts, MarkCounts, CrashCounts DEF Escalating
<1>3. ASSUME NEW r \in Records, PassDeadline(r) PROVE JobInv'
  <2>1. /\ UNCHANGED <<escalations, crashes>> /\ log' = log
        /\ \A d \in Clients : pc'[d] = pc[d] /\ req'[d] = req[d]
    BY <1>3 DEF PassDeadline
  <2>2. /\ instance' = [instance EXCEPT ![r] = instance'[r]]
        /\ instance[r].escalated => instance'[r].escalated
    BY <1>3, DeadlineTyped
  <2>3. \A q \in Records \ {r} : instance'[q] = instance[q]
    BY <2>2 DEF IInv, TypeOK
  <2>4. \A q \in Records : Unmarked(q)
    BY <2>1, <2>2, <2>3 DEF Unmarked
  <2>5. \A d \in Clients : Quiet(d)
    BY <2>1 DEF Quiet
  <2> QED
    BY <1>a, <2>1, <2>4, <2>5, JobsUndisturbed
<1>4. CASE UNCHANGED vars
  <2>1. UNCHANGED <<escalations, crashes>>
    BY <1>4 DEF vars
  <2>2. \A q \in Records : Unmarked(q)
    BY <1>4 DEF vars, Unmarked
  <2>3. \A d \in Clients : Quiet(d)
    BY <1>4 DEF vars, Quiet
  <2> QED
    BY <1>a, <2>1, <2>2, <2>3, JobsUndisturbed
<1> QED
  BY <1>1, <1>2, <1>3, <1>4 DEF Next

(* "Once per stage entry": a stage entry is not notified twice, except     *)
(* when the job died before it could mark the first - as long as no two    *)
(* runs of the job overlap (escalateOverdueInstances).                     *)
THEOREM EscalatedOncePerEntry == Spec /\ []JobsAlone => []EscalatedOnce
<1>1. Init => JobInv
  BY InitTyped, Counts DEF Init, JobInv, Accounted, DueAt
<1>2. JobInv => EscalatedOnce
  BY DEF JobInv, Accounted, EscalatedOnce
<1> QED
  BY <1>1, <1>2, InitTyped, StepTyped, JobStep, PTL DEF Spec

-----------------------------------------------------------------------------
(* One client *)

(* With one client none of the hypotheses above is needed: its handlers    *)
(* never overlap, and it files evidence between them.                      *)
THEOREM OneClient ==
    ASSUME \A c, d \in Clients : c = d
    PROVE  Spec => /\ VersionsAreFrozen
                   /\ []RecordsAreGoverned
                   /\ []LogIsAWalk
                   /\ EvidenceOnFile
                   /\ []EscalatedOnce
<1>1. AuthorsAlone /\ HandlersAlone /\ JobsAlone
  BY DEF AuthorsAlone, HandlersAlone, JobsAlone, Alone
<1>2. [Next]_vars => [EvidenceSettled]_vars
  <2> SUFFICES ASSUME Next, NEW c \in Clients, pc[c] = "moving"
               PROVE  UNCHANGED <<attached, approved>>
    BY DEF EvidenceSettled
  <2>1. ASSUME NEW d \in Clients, Authoring(d) \/ Running(d) \/ Escalating(d) \/ Fail(d)
        PROVE  UNCHANGED <<attached, approved>>
    <3>1. CASE Authoring(d)
      BY <3>1 DEF Authoring, CreateWorkflow, ReadDraft, WriteDraft, ReadNoDraft, ReadLatest,
         CreateRevision, ReadForActivate, BeginActivate, CommitActivate, ReadForArchive,
         CommitArchive, runtime
    <3>2. CASE Running(d)
      BY <3>2 DEF Running, ReadDefinition, ReadActiveVersion, CreateInstance,
         ReadForTransition, CheckEvidence, CommitTransition, runtime
    <3>3. CASE Escalating(d) \/ Fail(d)
      BY <3>3 DEF Escalating, FindOverdue, NotifyEscalation, MarkEscalated, EndEscalation,
         CrashBeforeMark, Fail, runtime
    <3> QED
      BY <2>1, <3>1, <3>2, <3>3
  <2>2. ASSUME NEW d \in Clients, NEW r \in Records, FileEvidence(d, r) PROVE FALSE
    <3>1. pc[d] = "idle" /\ c = d
      BY <2>2 DEF FileEvidence
    <3> QED
      BY <3>1
  <2>3. ASSUME NEW r \in Records, PassDeadline(r) PROVE UNCHANGED <<attached, approved>>
    BY <2>3 DEF PassDeadline
  <2> QED
    BY <2>1, <2>2, <2>3 DEF Next
<1> QED
  BY <1>1, <1>2, VersionsStayFrozen, RecordsStayUnderAVersion, RecordsWalk,
     EvidenceIsOnFile, EscalatedOncePerEntry, PTL DEF Spec

=============================================================================
