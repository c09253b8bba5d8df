------------------------------ MODULE Approvals ------------------------------
(***************************************************************************)
(* The approval engine (domain/approvals.ts): a request passes through a   *)
(* chain of approvers, one step at a time, until one of them turns it down *)
(* or the last one approves.                                               *)
(*                                                                         *)
(* A decision reads the request, checks it, and writes in a transaction    *)
(* that updates the step and the request by id; handlers interleave at     *)
(* each await.  The audit record written after each change is left out.    *)
(***************************************************************************)
EXTENDS Naturals, Sequences

CONSTANTS
    Clients,     \* handlers that may be running at the same time
    Requests,    \* identifiers of approval requests
    Users,       \* the people who submit and decide
    CanApprove,  \* those holding approvals.approve in the request's scope
    CanManage,   \* those holding approvals.manage in it
    Chains,      \* the lists of approvers that requests are submitted with
    None         \* null

RightsAssumption == CanApprove \subseteq Users /\ CanManage \subseteq Users

ChainsAssumption == Chains \subseteq Seq(Users) /\ <<>> \notin Chains

ASSUME RightsAssumption
ASSUME ChainsAssumption

VARIABLES
    request,  \* rows of ApprovalRequest with their steps; None: not created
    told,     \* the notifications delivered, as <<user, type, request>>
    pc,       \* where each client's handler is
    req,      \* what it works on and what it has read
    overtaken \* history: requests written by a handler whose reading was stale

vars == <<request, told, pc, req, overtaken>>

Decision == {"approved", "rejected", "changes"}

Request ==
    [status      : Decision \cup {"pending", "cancelled"},
     currentStep : Nat \ {0},
     requester   : Users,
     approvers   : Chains,
     steps       : Seq(Decision \cup {"pending"})]

(* A request as created, and null is not one. *)
NoRequestAssumption == None \notin Request

ASSUME NoRequestAssumption

Steps(r) == 1 .. Len(request[r].approvers)

-----------------------------------------------------------------------------

Goto(c, here, there) == pc[c] = here /\ pc' = [pc EXCEPT ![c] = there]

Return(c) ==
    /\ pc' = [pc EXCEPT ![c] = "idle"]
    /\ req' = [req EXCEPT ![c] = None]

(* Whom the handler has yet to tell, and what. *)
Notice(user, type, r, actor) ==
    [user |-> user, type |-> type, request |-> r, actor |-> actor]

(* createApprovalRequest: the request and its steps in one transaction. *)
CreateApprovalRequest(c, r, u, chain) ==
    /\ Goto(c, "idle", "notify")
    /\ request[r] = None
    /\ request' = [request EXCEPT ![r] =
                     [status |-> "pending", currentStep |-> 1, requester |-> u,
                      approvers |-> chain,
                      steps |-> [k \in 1 .. Len(chain) |-> "pending"]]]
    /\ req' = [req EXCEPT ![c] = Notice(chain[1], "pending", r, u)]
    /\ UNCHANGED <<told, overtaken>>

(* Variant: any step may be decided, not only the current one. *)
ReadForDecisionAnyStep(c, r, u, decision) ==
    /\ Goto(c, "idle", "decide")
    /\ request[r] # None
    /\ request[r].status = "pending"
    /\ \E k \in Steps(r) :
         /\ request[r].approvers[k] = u \/ u \in CanApprove
         /\ req' = [req EXCEPT ![c] = [request |-> r, row |-> request[r], user |-> u,
                                       step |-> k, decision |-> decision]]
    /\ UNCHANGED <<request, told, overtaken>>

(* Variant: a request that is resolved may be decided again. *)
ReadForDecisionResolved(c, r, u, decision) ==
    LET k == request[r].currentStep IN
    /\ Goto(c, "idle", "decide")
    /\ request[r] # None
    /\ k \in Steps(r)
    /\ request[r].approvers[k] = u \/ u \in CanApprove
    /\ req' = [req EXCEPT ![c] = [request |-> r, row |-> request[r], user |-> u,
                                  step |-> k, decision |-> decision]]
    /\ UNCHANGED <<request, told, overtaken>>

(* decideApproval: the request must be pending and the user the approver   *)
(* of its current step, or hold the right to approve.                      *)
ReadForDecision(c, r, u, decision) ==
    LET k == request[r].currentStep IN
    /\ Goto(c, "idle", "decide")
    /\ request[r] # None
    /\ request[r].status = "pending"
    /\ k \in Steps(r)
    /\ request[r].approvers[k] = u \/ u \in CanApprove
    /\ req' = [req EXCEPT ![c] = [request |-> r, row |-> request[r], user |-> u,
                                  step |-> k, decision |-> decision]]
    /\ UNCHANGED <<request, told, overtaken>>

(* Variant: approving a step approves the request. *)
DecidedAtOnce(row, k, decision) ==
    [row EXCEPT !.steps[k] = decision, !.status = decision, !.currentStep = k]

(* What a decision on step k makes of a request: on an approval that is    *)
(* not the last the next step's turn comes, else the request is resolved.  *)
Decided(row, k, decision) ==
    IF decision = "approved" /\ k < Len(row.approvers)
      THEN [row EXCEPT !.steps[k] = decision, !.status = "pending",
                       !.currentStep = k + 1]
      ELSE [row EXCEPT !.steps[k] = decision, !.status = decision,
                       !.currentStep = k]

(* A request is written over what has changed since it was read. *)
Overtakes(r, stale) == overtaken' = IF stale THEN overtaken \cup {r} ELSE overtaken

(* decideApproval's transaction: the step that was read is updated by id,  *)
(* and the request with what follows from that reading.                    *)
CommitDecision(c) ==
    LET r == req[c].request
        k == req[c].step
        row == request[r]
        new == Decided(row, k, req[c].decision)
    IN
    /\ Goto(c, "decide", "notify")
    /\ request' = [request EXCEPT ![r] = new]
    /\ Overtakes(r, row # req[c].row)
    /\ req' = [req EXCEPT ![c] =
                 IF new.status = "pending"
                   THEN Notice(row.approvers[k + 1], "pending", r, @.user)
                   ELSE Notice(row.requester, @.decision, r, @.user)]
    /\ UNCHANGED told

(* cancelApprovalRequest: by the requester or a manager, while pending. *)
ReadForCancel(c, r, u) ==
    /\ Goto(c, "idle", "cancel")
    /\ request[r] # None
    /\ request[r].status = "pending"
    /\ request[r].requester = u \/ u \in CanManage
    /\ req' = [req EXCEPT ![c] = [request |-> r, row |-> request[r]]]
    /\ UNCHANGED <<request, told, overtaken>>

(* ... and the update, by id.  An approval in between that only passed the *)
(* turn on does no harm to it.                                             *)
CommitCancel(c) ==
    LET r == req[c].request IN
    /\ pc[c] = "cancel"
    /\ request' = [request EXCEPT ![r].status = "cancelled"]
    /\ Overtakes(r, request[r].status # req[c].row.status)
    /\ Return(c)
    /\ UNCHANGED told

(* notify: nobody is told of what they did themselves. *)
Notify(c) ==
    /\ pc[c] = "notify"
    /\ told' = IF req[c].user = req[c].actor
                 THEN told
                 ELSE told \cup {<<req[c].user, req[c].type, req[c].request>>}
    /\ Return(c)
    /\ UNCHANGED <<request, overtaken>>

(* The process dies, or a statement fails, at any point: what was          *)
(* committed stays, the notification is lost.                              *)
Fail(c) ==
    /\ pc[c] # "idle"
    /\ Return(c)
    /\ UNCHANGED <<request, told, overtaken>>

-----------------------------------------------------------------------------

Init ==
    /\ request = [r \in Requests |-> None]
    /\ told = {}
    /\ pc = [c \in Clients |-> "idle"]
    /\ req = [c \in Clients |-> None]
    /\ overtaken = {}

Next ==
    \E c \in Clients :
        \/ \E r \in Requests, u \in Users, chain \in Chains :
               CreateApprovalRequest(c, r, u, chain)
        \/ \E r \in Requests, u \in Users, decision \in Decision :
               ReadForDecision(c, r, u, decision)
        \/ \E r \in Requests, u \in Users : ReadForCancel(c, r, u)
        \/ CommitDecision(c)
        \/ CommitCancel(c)
        \/ Notify(c)
        \/ Fail(c)

Spec == Init /\ [][Next]_vars

-----------------------------------------------------------------------------
(* Properties *)

(* Requests, notifications and handlers hold values of their types. *)
TypeOK ==
    /\ request \in [Requests -> Request \cup {None}]
    /\ told \subseteq Users \X (Decision \cup {"pending"}) \X Requests
    /\ pc \in [Clients -> {"idle", "decide", "cancel", "notify"}]
    /\ DOMAIN req = Clients
    /\ overtaken \subseteq Requests
    /\ \A r \in Requests : request[r] # None =>
         /\ Len(request[r].steps) = Len(request[r].approvers)
         /\ request[r].currentStep \in Steps(r)
    /\ \A c \in Clients :
         /\ pc[c] = "idle" => req[c] = None
         /\ pc[c] = "decide" =>
              /\ req[c] \in [request : Requests, row : Request, user : Users,
                             step : Nat, decision : Decision]
              /\ request[req[c].request] # None
              /\ req[c].step \in Steps(req[c].request)
         /\ pc[c] = "cancel" =>
              /\ req[c] \in [request : Requests, row : Request]
              /\ request[req[c].request] # None
         /\ pc[c] = "notify" =>
              req[c] \in [user : Users, type : Decision \cup {"pending"},
                          request : Requests, actor : Users]

(* A request is resolved by a decision that is on record: an approved one  *)
(* was approved by its last approver, and one turned down or returned for  *)
(* changes shows the step that did it - whichever decisions overlapped.    *)
OutcomeHasItsDecision ==
    \A r \in Requests : request[r] # None =>
        LET row == request[r] IN
        /\ row.status = "approved" => row.steps[Len(row.approvers)] = "approved"
        /\ row.status \in {"rejected", "changes"} =>
              \E k \in Steps(r) : row.steps[k] = row.status

(* "A later step can never approve before earlier steps are complete":     *)
(* every step before a decided one was approved - unless a decision was    *)
(* written over another one that it had not seen.                          *)
EarlierStepsComplete ==
    \A r \in Requests \ overtaken : request[r] # None =>
        \A k \in Steps(r) : request[r].steps[k] # "pending" =>
            \A j \in 1 .. k - 1 : request[r].steps[j] = "approved"

(* The immutable decision history: a decided step is never decided again,  *)
(* a resolved or cancelled request stays so, and turns only move forward - *)
(* with the same exception.                                                *)
DecisionsAreFinal ==
    [][\A r \in Requests \ overtaken' : request[r] # None =>
          LET old == request[r]
              new == request'[r]
          IN /\ \A k \in Steps(r) :
                    old.steps[k] # "pending" => new.steps[k] = old.steps[k]
             /\ old.status # "pending" => new.status = old.status
             /\ new.currentStep >= old.currentStep]_vars

(* Nobody is told of an outcome that the request does not have - with the  *)
(* same exception.                                                         *)
ToldTheTruth ==
    \A r \in Requests \ overtaken, u \in Users, d \in Decision :
        <<u, d, r>> \in told =>
            /\ request[r].status = d
            /\ request[r].requester = u

=============================================================================
