-------------------------- MODULE Approvals_proofs --------------------------
(***************************************************************************)
(* Proofs about Approvals, for any clients, requests, users and chains:    *)
(* type correctness, that a resolved request carries the decision that     *)
(* resolved it, and, unless a request was written by a handler whose       *)
(* reading was stale, that its steps are in order, its decisions stay and  *)
(* its notices are true - however decisions and cancellations overlap.     *)
(* Where no two handlers are between reading and writing the same request, *)
(* none is written so.                                                     *)
(***************************************************************************)
EXTENDS Approvals, TLAPS

IInv == TypeOK /\ OutcomeHasItsDecision

(* What one row must satisfy: the parts of IInv that speak of a request.   *)
RowOK(row) ==
    /\ row \in Request
    /\ Len(row.steps) = Len(row.approvers)
    /\ row.currentStep \in 1 .. Len(row.approvers)
    /\ row.status = "approved" => row.steps[Len(row.approvers)] = "approved"
    /\ row.status \in {"rejected", "changes"} =>
          \E k \in 1 .. Len(row.approvers) : row.steps[k] = row.status

(* The rows carry the part of the invariant that is about requests. *)
LEMMA RowsOfIInv ==
    ASSUME IInv, NEW r \in Requests, request[r] # None
    PROVE  RowOK(request[r])
BY DEF IInv, TypeOK, OutcomeHasItsDecision, RowOK, Steps

(* A new request is in order. *)
LEMMA CreatedRow ==
    ASSUME NEW u \in Users, NEW chain \in Chains
    PROVE  RowOK([status |-> "pending", currentStep |-> 1, requester |-> u,
                  approvers |-> chain,
                  steps |-> [k \in 1 .. Len(chain) |-> "pending"]])
<1>1. chain \in Seq(Users) /\ Len(chain) \in Nat /\ Len(chain) # 0
  <2>1. chain \in Seq(Users) /\ chain # <<>>
    BY ChainsAssumption DEF ChainsAssumption
  <2> QED
    BY <2>1
<1>2. [k \in 1 .. Len(chain) |-> "pending"] \in Seq(Decision \cup {"pending"})
  BY <1>1
<1>3. Len([k \in 1 .. Len(chain) |-> "pending"]) = Len(chain)
  BY <1>1
<1> QED
  BY <1>1, <1>2, <1>3 DEF RowOK, Request, Decision

(* A decision on any step of a request in order leaves it in order. *)
LEMMA DecidedRow ==
    ASSUME NEW row, RowOK(row), NEW k \in 1 .. Len(row.approvers),
           NEW decision \in Decision
    PROVE  RowOK(Decided(row, k, decision))
<1> DEFINE n == Len(row.approvers)
           steps == [row.steps EXCEPT ![k] = decision]
<1>1. row \in Request /\ row.approvers \in Seq(Users) /\ n \in Nat
  BY ChainsAssumption DEF RowOK, Request, ChainsAssumption
<1>2. row.steps \in Seq(Decision \cup {"pending"}) /\ Len(row.steps) = n
  BY DEF RowOK, Request
<1>3. steps \in Seq(Decision \cup {"pending"}) /\ Len(steps) = n /\ steps[k] = decision
  BY <1>1, <1>2
<1> HIDE DEF steps
<1> DEFINE new == Decided(row, k, decision)
<1>4. CASE decision = "approved" /\ k < n
  <2>1. new = [row EXCEPT !.steps = steps, !.status = "pending", !.currentStep = k + 1]
    BY <1>1, <1>4 DEF Decided, steps, Request
  <2>2. /\ new.steps = steps /\ new.status = "pending" /\ new.currentStep = k + 1
        /\ new.approvers = row.approvers
    BY <1>1, <2>1 DEF Request
  <2>3. new \in Request
    <3>1. k + 1 \in Nat \ {0}
      BY <1>1
    <3> QED
      BY <1>1, <1>3, <2>1, <3>1 DEF Request
  <2>4. k + 1 \in 1 .. n
    BY <1>1, <1>4
  <2> QED
    BY <1>3, <2>2, <2>3, <2>4 DEF RowOK
<1>5. CASE ~(decision = "approved" /\ k < n)
  <2>1. new = [row EXCEPT !.steps = steps, !.status = decision, !.currentStep = k]
    BY <1>1, <1>5 DEF Decided, steps, Request
  <2>2. /\ new.steps = steps /\ new.status = decision /\ new.currentStep = k
        /\ new.approvers = row.approvers
    BY <1>1, <2>1 DEF Request
  <2>3. new \in Request
    <3>1. decision \in Decision \cup {"pending", "cancelled"} /\ k \in Nat \ {0}
      BY <1>1
    <3> QED
      BY <1>1, <1>3, <2>1, <3>1 DEF Request
  <2>4. decision = "approved" => k = n
    BY <1>1, <1>5
  <2>5. steps[k] = decision
    BY <1>3
  <2> QED
    BY <2>2, <2>3, <2>4, <2>5, <1>3 DEF RowOK
<1> QED
  BY <1>4, <1>5

(* Cancelling leaves a request in order. *)
LEMMA CancelledRow ==
    ASSUME NEW row, RowOK(row)
    PROVE  RowOK([row EXCEPT !.status = "cancelled"])
BY DEF RowOK, Request, Decision

(* What TypeOK says of a handler. *)
HandlerOK(c) ==
    /\ pc[c] = "idle" => req[c] = None
    /\ pc[c] = "decide" =>
         /\ req[c] \in [request : Requests, row : Request, user : Users,
                        step : Nat, decision : Decision]
         /\ request[req[c].request] # None
         /\ req[c].step \in Steps(req[c].request)
    /\ pc[c] = "cancel" =>
         /\ req[c] \in [request : Requests, row : Request]
         /\ request[req[c].request] # None
    /\ pc[c] = "notify" =>
         req[c] \in [user : Users, type : Decision \cup {"pending"},
                     request : Requests, actor : Users]

(* A step keeps a row if it is still there, with the same approvers. *)
Kept == \A r \in Requests : request[r] # None =>
            request'[r] # None /\ request'[r].approvers = request[r].approvers

(* A handler that does not move in a step that keeps the rows stays in     *)
(* order.                                                                  *)
LEMMA OtherHandler ==
    ASSUME IInv, Kept, NEW d \in Clients, pc'[d] = pc[d], req'[d] = req[d]
    PROVE  HandlerOK(d)'
<1>1. HandlerOK(d)
  BY DEF IInv, TypeOK, HandlerOK
<1>2. CASE pc[d] = "decide"
  <2>1. req[d].request \in Requests
    BY <1>1, <1>2 DEF HandlerOK
  <2> QED
    BY <1>1, <1>2, <2>1 DEF HandlerOK, Kept, Steps
<1>3. CASE pc[d] = "cancel"
  <2>1. req[d].request \in Requests
    BY <1>1, <1>3 DEF HandlerOK
  <2> QED
    BY <1>1, <1>3, <2>1 DEF HandlerOK, Kept
<1>4. CASE pc[d] \notin {"decide", "cancel"}
  BY <1>1, <1>4 DEF HandlerOK
<1> QED
  BY <1>2, <1>3, <1>4

(* A step that puts a row in order in place of one, keeping its approvers. *)
LEMMA RowWritten ==
    ASSUME IInv, NEW r \in Requests, NEW row, RowOK(row),
           request' = [request EXCEPT ![r] = row],
           request[r] # None => row.approvers = request[r].approvers
    PROVE  /\ request' \in [Requests -> Request \cup {None}]
           /\ \A q \in Requests : request'[q] # None => RowOK(request'[q])
           /\ Kept
<1>1. row \in Request /\ request \in [Requests -> Request \cup {None}]
  BY DEF RowOK, IInv, TypeOK
<1>2. row # None
  BY <1>1, NoRequestAssumption DEF NoRequestAssumption
<1>3. \A q \in Requests : request[q] # None => RowOK(request[q])
  BY RowsOfIInv
<1>4. \A q \in Requests : request'[q] = IF q = r THEN row ELSE request[q]
  BY <1>1
<1>5. \A q \in Requests : request'[q] # None => RowOK(request'[q])
  BY <1>3, <1>4
<1>6. Kept
  BY <1>2, <1>4 DEF Kept
<1>7. request' \in [Requests -> Request \cup {None}]
  BY <1>1
<1> QED
  BY <1>5, <1>6, <1>7

(* A step that leaves the rows alone. *)
LEMMA RowsLeft ==
    ASSUME IInv, request' = request
    PROVE  /\ request' \in [Requests -> Request \cup {None}]
           /\ \A q \in Requests : request'[q] # None => RowOK(request'[q])
           /\ Kept
<1>1. request' \in [Requests -> Request \cup {None}]
  BY DEF IInv, TypeOK
<1>2. \A q \in Requests : request[q] # None => RowOK(request[q])
  BY RowsOfIInv
<1> QED
  BY <1>1, <1>2 DEF Kept

(* Where a step of one client leads: the rows it leaves are in order, the  *)
(* others stand still and the client's own handler is in order.            *)
LEMMA StepOfClient ==
    ASSUME IInv, NEW c \in Clients, NEW here, NEW there,
           request' \in [Requests -> Request \cup {None}],
           \A q \in Requests : request'[q] # None => RowOK(request'[q]),
           Kept,
           told' \subseteq Users \X (Decision \cup {"pending"}) \X Requests,
           pc' = [pc EXCEPT ![c] = here], req' = [req EXCEPT ![c] = there],
           here \in {"idle", "decide", "cancel", "notify"},
           overtaken' \subseteq Requests, HandlerOK(c)'
    PROVE  IInv'
<1>1. pc \in [Clients -> {"idle", "decide", "cancel", "notify"}] /\ DOMAIN req = Clients
  BY DEF IInv, TypeOK
<1>2. \A d \in Clients \ {c} : pc'[d] = pc[d] /\ req'[d] = req[d]
  BY <1>1
<1>3. \A d \in Clients : HandlerOK(d)'
  BY <1>2, OtherHandler
<1>4. /\ pc' \in [Clients -> {"idle", "decide", "cancel", "notify"}]
      /\ DOMAIN req' = Clients
  BY <1>1
<1>5. TypeOK'
  BY <1>3, <1>4 DEF TypeOK, RowOK, HandlerOK, Steps
<1>6. OutcomeHasItsDecision'
  BY DEF OutcomeHasItsDecision, RowOK, Steps
<1> QED
  BY <1>5, <1>6 DEF IInv

-----------------------------------------------------------------------------
(* The inductive invariant *)

(* The invariant holds at the start. *)
LEMMA InitInv == Init => IInv
BY DEF Init, IInv, TypeOK, OutcomeHasItsDecision

(* Every step keeps it: one case per action. *)
LEMMA StepInv == IInv /\ [Next]_vars => IInv'
<1> SUFFICES ASSUME IInv, [Next]_vars PROVE IInv'
  OBVIOUS
<1> DEFINE Told == told' \subseteq Users \X (Decision \cup {"pending"}) \X Requests
<1>a. /\ told \subseteq Users \X (Decision \cup {"pending"}) \X Requests
      /\ pc \in [Clients -> {"idle", "decide", "cancel", "notify"}]
      /\ DOMAIN req = Clients /\ overtaken \subseteq Requests
      /\ \A c \in Clients : HandlerOK(c)
  BY DEF IInv, TypeOK, HandlerOK
<1>1. ASSUME NEW c \in Clients, NEW r \in Requests, NEW u \in Users,
             NEW chain \in Chains, CreateApprovalRequest(c, r, u, chain)
      PROVE  IInv'
  <2> DEFINE row == [status |-> "pending", currentStep |-> 1, requester |-> u,
                     approvers |-> chain,
                     steps |-> [k \in 1 .. Len(chain) |-> "pending"]]
             notice == Notice(chain[1], "pending", r, u)
  <2>1. /\ request' = [request EXCEPT ![r] = row] /\ request[r] = None /\ told' = told
        /\ pc' = [pc EXCEPT ![c] = "notify"] /\ req' = [req EXCEPT ![c] = notice]
        /\ overtaken' = overtaken
    BY <1>1 DEF CreateApprovalRequest, Goto
  <2>2. RowOK(row)
    BY CreatedRow
  <2>3. chain \in Seq(Users) /\ chain # <<>>
    BY ChainsAssumption DEF ChainsAssumption
  <2>4. HandlerOK(c)'
    BY <1>a, <2>1, <2>3 DEF HandlerOK, Notice
  <2> HIDE DEF row, notice
  <2> QED
    BY <1>a, <2>1, <2>2, <2>4, RowWritten, StepOfClient
<1>2. ASSUME NEW c \in Clients, NEW r \in Requests, NEW u \in Users,
             NEW decision \in Decision, ReadForDecision(c, r, u, decision)
      PROVE  IInv'
  <2> DEFINE read == [request |-> r, row |-> request[r], user |-> u,
                      step |-> request[r].currentStep, decision |-> decision]
  <2>1. /\ request' = request /\ told' = told /\ overtaken' = overtaken
        /\ pc' = [pc EXCEPT ![c] = "decide"] /\ req' = [req EXCEPT ![c] = read]
    BY <1>2 DEF ReadForDecision, Goto
  <2>2. RowOK(request[r]) /\ request[r].currentStep \in Steps(r) /\ request[r] # None
    BY <1>2, RowsOfIInv DEF ReadForDecision
  <2>3. request[r].currentStep \in Nat /\ request[r] \in Request
    BY <2>2 DEF RowOK, Request
  <2>4. HandlerOK(c)'
    BY <1>a, <2>1, <2>2, <2>3 DEF HandlerOK, Steps
  <2> HIDE DEF read
  <2> QED
    BY <1>a, <2>1, <2>4, RowsLeft, StepOfClient
<1>3. ASSUME NEW c \in Clients, NEW r \in Requests, NEW u \in Users,
             ReadForCancel(c, r, u)
      PROVE  IInv'
  <2> DEFINE read == [request |-> r, row |-> request[r]]
  <2>1. /\ request' = request /\ told' = told /\ request[r] # None
        /\ overtaken' = overtaken
        /\ pc' = [pc EXCEPT ![c] = "cancel"] /\ req' = [req EXCEPT ![c] = read]
    BY <1>3 DEF ReadForCancel, Goto
  <2>2. request[r] \in Request
    BY <2>1, RowsOfIInv DEF RowOK
  <2>3. HandlerOK(c)'
    BY <1>a, <2>1, <2>2 DEF HandlerOK
  <2> HIDE DEF read
  <2> QED
    BY <1>a, <2>1, <2>3, RowsLeft, StepOfClient
<1>4. ASSUME NEW c \in Clients, CommitDecision(c)
      PROVE  IInv'
  <2> DEFINE r == req[c].request
             k == req[c].step
             new == Decided(request[r], k, req[c].decision)
             notice == IF new.status = "pending"
                         THEN Notice(request[r].approvers[k + 1], "pending", r, req[c].user)
                         ELSE Notice(request[r].requester, req[c].decision, r, req[c].user)
  <2>1. /\ request' = [request EXCEPT ![r] = new] /\ told' = told /\ pc[c] = "decide"
        /\ pc' = [pc EXCEPT ![c] = "notify"] /\ req' = [req EXCEPT ![c] = notice]
    BY <1>4 DEF CommitDecision, Goto
  <2>2. /\ r \in Requests /\ req[c].user \in Users /\ req[c].decision \in Decision
        /\ request[r] # None /\ k \in 1 .. Len(request[r].approvers)
    BY <1>a, <2>1 DEF HandlerOK, Steps
  <2>3. RowOK(request[r])
    BY <2>2, RowsOfIInv
  <2>4. RowOK(new)
    BY <2>2, <2>3, DecidedRow
  <2>5. new.approvers = request[r].approvers
    BY <2>3 DEF Decided, RowOK, Request
  <2>6. new.status = "pending" => k < Len(request[r].approvers)
    BY <2>2, <2>3 DEF Decided, Decision, RowOK, Request
  <2>7. request[r].approvers \in Seq(Users) /\ request[r].requester \in Users
    BY <2>3, ChainsAssumption DEF RowOK, Request, ChainsAssumption
  <2>8. notice \in [user : Users, type : Decision \cup {"pending"},
                    request : Requests, actor : Users]
    <3> HIDE DEF new
    <3>1. CASE new.status = "pending"
      <4>1. request[r].approvers[k + 1] \in Users
        BY <2>2, <2>6, <2>7, <3>1
      <4> QED
        BY <2>2, <3>1, <4>1 DEF Notice
    <3>2. CASE new.status # "pending"
      BY <2>2, <2>7, <3>2 DEF Notice
    <3> QED
      BY <3>1, <3>2
  <2>10. overtaken' \subseteq Requests
    BY <1>a, <1>4, <2>2 DEF CommitDecision, Overtakes
  <2> HIDE DEF new, notice, r
  <2>9. HandlerOK(c)'
    BY <1>a, <2>1, <2>8 DEF HandlerOK
  <2> QED
    BY <1>a, <2>1, <2>2, <2>4, <2>5, <2>9, <2>10, RowWritten, StepOfClient
<1>5. ASSUME NEW c \in Clients, CommitCancel(c)
      PROVE  IInv'
  <2> DEFINE r == req[c].request
             row == [request[r] EXCEPT !.status = "cancelled"]
  <2>1. r \in Requests /\ request[r] # None
    BY <1>a, <1>5 DEF CommitCancel, HandlerOK
  <2>2. /\ request' = [request EXCEPT ![r] = row] /\ told' = told
        /\ pc' = [pc EXCEPT ![c] = "idle"] /\ req' = [req EXCEPT ![c] = None]
    BY <1>5 DEF CommitCancel, Return
  <2>3. RowOK(request[r])
    BY <2>1, RowsOfIInv
  <2>4. RowOK(row) /\ row.approvers = request[r].approvers
    BY <2>3, CancelledRow DEF RowOK, Request
  <2>5. HandlerOK(c)'
    BY <1>a, <2>2 DEF HandlerOK
  <2>6. overtaken' \subseteq Requests
    BY <1>a, <1>5, <2>1 DEF CommitCancel, Overtakes
  <2> HIDE DEF r, row
  <2> QED
    BY <1>a, <2>1, <2>2, <2>4, <2>5, <2>6, RowWritten, StepOfClient
<1>6. ASSUME NEW c \in Clients, Notify(c)
      PROVE  IInv'
  <2>1. /\ request' = request /\ overtaken' = overtaken
        /\ pc' = [pc EXCEPT ![c] = "idle"] /\ req' = [req EXCEPT ![c] = None]
    BY <1>6 DEF Notify, Return
  <2>2. req[c] \in [user : Users, type : Decision \cup {"pending"},
                    request : Requests, actor : Users]
    BY <1>a, <1>6 DEF Notify, HandlerOK
  <2>3. Told
    BY <1>a, <1>6, <2>2 DEF Notify
  <2>4. HandlerOK(c)'
    BY <1>a, <2>1 DEF HandlerOK
  <2> QED
    BY <1>a, <2>1, <2>3, <2>4, RowsLeft, StepOfClient
<1>7. ASSUME NEW c \in Clients, Fail(c)
      PROVE  IInv'
  <2>1. /\ request' = request /\ told' = told /\ overtaken' = overtaken
        /\ pc' = [pc EXCEPT ![c] = "idle"] /\ req' = [req EXCEPT ![c] = None]
    BY <1>7 DEF Fail, Return
  <2>2. HandlerOK(c)'
    BY <1>a, <2>1 DEF HandlerOK
  <2> QED
    BY <1>a, <2>1, <2>2, RowsLeft, StepOfClient
<1>8. CASE UNCHANGED vars
  BY <1>8 DEF vars, IInv, TypeOK, OutcomeHasItsDecision, Steps
<1> QED
  BY <1>1, <1>2, <1>3, <1>4, <1>5, <1>6, <1>7, <1>8 DEF Next

(* The invariant holds of every behaviour of the engine. *)
THEOREM Invariance == Spec => []IInv
BY InitInv, StepInv, PTL DEF Spec

(* The engine is type correct: no step of a request is decided that the    *)
(* request does not have, and no handler writes to a missing request.      *)
THEOREM TypeCorrect == Spec => []TypeOK
<1>1. IInv => TypeOK
  BY DEF IInv
<1> QED
  BY <1>1, Invariance, PTL

(* A resolved request carries the decision that resolved it, for any       *)
(* number of people deciding, cancelling and failing at once.              *)
THEOREM OutcomesAreDecided == Spec => []OutcomeHasItsDecision
<1>1. IInv => OutcomeHasItsDecision
  BY DEF IInv
<1> QED
  BY <1>1, Invariance, PTL

-----------------------------------------------------------------------------
(* What holds of a request that nobody has overtaken *)

(* The handlers between reading a request and writing it. *)
Writing(c) == pc[c] \in {"decide", "cancel"}

(* Steps are approved up to the current one, which shows the outcome.      *)
InOrder(row) ==
    \A k \in 1 .. Len(row.approvers) :
        /\ k < row.currentStep => row.steps[k] = "approved"
        /\ k = row.currentStep =>
              row.steps[k] = IF row.status \in Decision THEN row.status ELSE "pending"
        /\ k > row.currentStep => row.steps[k] = "pending"

RowsAreInOrder ==
    \A r \in Requests \ overtaken : request[r] # None => InOrder(request[r])

(* A handler has read a pending request, and decides on its current step.  *)
ReadPending(c) ==
    Writing(c) =>
        /\ req[c].row.status = "pending"
        /\ pc[c] = "decide" => req[c].step = req[c].row.currentStep

(* What a handler is about to tell is so. *)
TrueNotice(c) ==
    pc[c] = "notify" /\ req[c].type # "pending" /\ req[c].request \notin overtaken =>
        /\ request[req[c].request] # None
        /\ request[req[c].request].status = req[c].type
        /\ request[req[c].request].requester = req[c].user

ToldOfRequests ==
    \A r \in Requests \ overtaken, u \in Users, d \in Decision :
        <<u, d, r>> \in told => request[r] # None

TrueInv ==
    /\ RowsAreInOrder
    /\ \A c \in Clients : ReadPending(c) /\ TrueNotice(c)
    /\ ToldOfRequests /\ ToldTheTruth

(* A new request is in order. *)
LEMMA CreatedInOrder ==
    ASSUME NEW u \in Users, NEW chain \in Chains
    PROVE  InOrder([status |-> "pending", currentStep |-> 1, requester |-> u,
                    approvers |-> chain,
                    steps |-> [k \in 1 .. Len(chain) |-> "pending"]])
<1>1. Len(chain) \in Nat
  BY ChainsAssumption DEF ChainsAssumption
<1> QED
  BY <1>1 DEF InOrder, Decision

(* A decision on the current step of a pending request leaves it in order, *)
(* undoes no step and moves the turn forward.                              *)
LEMMA DecidedInOrder ==
    ASSUME NEW row, RowOK(row), InOrder(row), row.status = "pending",
           NEW decision \in Decision, NEW new, new = Decided(row, row.currentStep, decision)
    PROVE  /\ InOrder(new)
           /\ new.approvers = row.approvers /\ new.requester = row.requester
           /\ new.status \in {"pending", decision}
           /\ new.currentStep >= row.currentStep
           /\ \A k \in 1 .. Len(row.approvers) :
                 row.steps[k] # "pending" => new.steps[k] = row.steps[k]
<1> DEFINE n == Len(row.approvers)
           cur == row.currentStep
           steps == [row.steps EXCEPT ![cur] = decision]
<1>1. row \in Request /\ n \in Nat /\ cur \in 1 .. n /\ "pending" \notin Decision
  BY ChainsAssumption DEF RowOK, Request, ChainsAssumption, Decision
<1>2. row.steps \in Seq(Decision \cup {"pending"}) /\ Len(row.steps) = n
  BY DEF RowOK, Request
<1>3. \A k \in 1 .. n : steps[k] = IF k = cur THEN decision ELSE row.steps[k]
  BY <1>1, <1>2
<1>4. \A k \in 1 .. n : /\ k < cur => row.steps[k] = "approved"
                        /\ k = cur => row.steps[k] = "pending"
                        /\ k > cur => row.steps[k] = "pending"
  BY <1>1 DEF InOrder
<1>5. CASE decision = "approved" /\ cur < n
  <2>1. /\ new.steps = steps /\ new.status = "pending" /\ new.currentStep = cur + 1
        /\ new.approvers = row.approvers /\ new.requester = row.requester
    BY <1>1, <1>5 DEF Decided, Request
  <2> HIDE DEF steps
  <2>2. InOrder(new)
    BY <1>1, <1>3, <1>4, <1>5, <2>1 DEF InOrder
  <2> QED
    BY <1>1, <1>3, <1>4, <2>1, <2>2
<1>6. CASE ~(decision = "approved" /\ cur < n)
  <2>1. /\ new.steps = steps /\ new.status = decision /\ new.currentStep = cur
        /\ new.approvers = row.approvers /\ new.requester = row.requester
    BY <1>1, <1>6 DEF Decided, Request
  <2> HIDE DEF steps
  <2>2. InOrder(new)
    BY <1>1, <1>3, <1>4, <2>1 DEF InOrder
  <2> QED
    BY <1>1, <1>3, <1>4, <2>1, <2>2
<1> QED
  BY <1>5, <1>6

(* Cancelling a pending request leaves its steps as they are. *)
LEMMA CancelledInOrder ==
    ASSUME NEW row, RowOK(row), InOrder(row), row.status = "pending",
           NEW new, new = [row EXCEPT !.status = "cancelled"]
    PROVE  /\ InOrder(new)
           /\ new.approvers = row.approvers /\ new.requester = row.requester
           /\ new.steps = row.steps /\ new.currentStep = row.currentStep
           /\ new.status = "cancelled"
BY DEF InOrder, RowOK, Request, Decision

(* What a step may do to the requests that are there: rewrite one that is  *)
(* pending, or overtake it.                                                *)
WritesPending ==
    /\ overtaken \subseteq overtaken'
    /\ \A r \in Requests \ overtaken' : request[r] # None =>
          request'[r] = request[r] \/ request[r].status = "pending"

(* A step of one client, seen from the part of the invariant that is about *)
(* requests and notices: what the others are about to tell, and what       *)
(* people were told, stays true.                                           *)
LEMMA StepStaysTrue ==
    ASSUME IInv, TrueInv, NEW c \in Clients, WritesPending, NEW here, NEW there,
           pc' = [pc EXCEPT ![c] = here], req' = [req EXCEPT ![c] = there],
           RowsAreInOrder', ReadPending(c)', TrueNotice(c)',
           \A u \in Users, d \in Decision, r \in Requests \ overtaken' :
               <<u, d, r>> \in told' /\ <<u, d, r>> \notin told =>
                   request'[r] # None /\ request'[r].status = d /\ request'[r].requester = u
    PROVE  TrueInv'
<1>1. ASSUME NEW d \in Clients \ {c}
      PROVE  ReadPending(d)' /\ TrueNotice(d)'
  <2>1. pc'[d] = pc[d] /\ req'[d] = req[d]
    BY DEF IInv, TypeOK
  <2>2. HandlerOK(d) /\ ReadPending(d) /\ TrueNotice(d)
    BY DEF IInv, TypeOK, HandlerOK, TrueInv
  <2>3. ReadPending(d)'
    BY <2>1, <2>2 DEF ReadPending, Writing
  <2>4. CASE pc[d] = "notify" /\ req[d].type # "pending" /\ req[d].request \notin overtaken'
    <3>1. PICK r \in Requests \ overtaken' : r = req[d].request
      BY <2>2, <2>4 DEF HandlerOK
    <3>2. /\ request[r] # None /\ request[r].status = req[d].type
          /\ request[r].requester = req[d].user
      BY <2>2, <2>4, <3>1 DEF TrueNotice, WritesPending
    <3>3. request'[r] = request[r]
      BY <2>4, <3>1, <3>2 DEF WritesPending
    <3> QED
      BY <2>1, <2>3, <3>1, <3>2, <3>3 DEF TrueNotice
  <2>5. CASE ~(pc[d] = "notify" /\ req[d].type # "pending" /\ req[d].request \notin overtaken')
    BY <2>1, <2>3, <2>5 DEF TrueNotice
  <2> QED
    BY <2>4, <2>5
<1>2. ASSUME NEW u \in Users, NEW d \in Decision, NEW r \in Requests \ overtaken',
             <<u, d, r>> \in told
      PROVE  request'[r] # None /\ request'[r].status = d /\ request'[r].requester = u
  <2>1. request[r] # None /\ request[r].status = d /\ request[r].requester = u
    BY <1>2 DEF TrueInv, ToldOfRequests, ToldTheTruth, WritesPending
  <2>2. request'[r] = request[r]
    BY <2>1 DEF WritesPending, Decision
  <2> QED
    BY <2>1, <2>2
<1>3. ToldOfRequests' /\ ToldTheTruth'
  BY <1>2 DEF ToldOfRequests, ToldTheTruth
<1> QED
  BY <1>1, <1>3 DEF TrueInv

(* A step that leaves the requests and what is excused alone. *)
LEMMA RequestsLeft ==
    ASSUME IInv, TrueInv, request' = request, overtaken' = overtaken
    PROVE  RowsAreInOrder' /\ WritesPending
BY DEF TrueInv, RowsAreInOrder, WritesPending

(* A handler that rewrites the row it has read, as a decision or a         *)
(* cancellation does: nothing is asked of the row that it overtakes.       *)
LEMMA RowRewritten ==
    ASSUME IInv, TrueInv, NEW r \in Requests, request[r] # None,
           NEW new, request' = [request EXCEPT ![r] = new],
           NEW stale, Overtakes(r, stale),
           r \notin overtaken' => request[r].status = "pending" /\ InOrder(new)
    PROVE  /\ RowsAreInOrder' /\ WritesPending
           /\ request'[r] = new
           /\ \A q \in Requests : q # r => request'[q] = request[q]
<1>1. \A q \in Requests : request'[q] = IF q = r THEN new ELSE request[q]
  BY DEF IInv, TypeOK
<1>2. overtaken \subseteq overtaken'
  BY DEF Overtakes
<1>3. RowsAreInOrder'
  BY <1>1, <1>2 DEF TrueInv, RowsAreInOrder
<1>4. WritesPending
  BY <1>1, <1>2 DEF WritesPending
<1> QED
  BY <1>1, <1>3, <1>4

(* What a decision does, unless it overtakes another writer. *)
LEMMA CommitDecisionTrue ==
    ASSUME IInv, TrueInv, NEW c \in Clients, CommitDecision(c)
    PROVE  LET r == req[c].request IN
           /\ r \in Requests /\ request[r] # None
           /\ RowsAreInOrder' /\ WritesPending /\ TrueNotice(c)'
           /\ \A q \in Requests : q # r => request'[q] = request[q]
           /\ r \notin overtaken' =>
                 /\ request[r].status = "pending"
                 /\ request'[r].currentStep >= request[r].currentStep
                 /\ \A k \in Steps(r) : request[r].steps[k] # "pending" =>
                                           request'[r].steps[k] = request[r].steps[k]
<1>1. pc[c] = "decide" /\ HandlerOK(c) /\ ReadPending(c)
  BY DEF CommitDecision, Goto, IInv, TypeOK, HandlerOK, TrueInv
<1>2. PICK r \in Requests : r = req[c].request
  BY <1>1 DEF HandlerOK
<1>3. PICK decision \in Decision : decision = req[c].decision
  BY <1>1 DEF HandlerOK
<1>4. PICK row : row = request[r]
  OBVIOUS
<1>5. PICK k : k = req[c].step
  OBVIOUS
<1>6. row # None /\ RowOK(row) /\ k \in 1 .. Len(row.approvers)
  BY <1>1, <1>2, <1>4, <1>5, RowsOfIInv DEF HandlerOK, Steps
<1>7. PICK new : new = Decided(row, k, decision)
  OBVIOUS
<1>8. RowOK(new)
  BY <1>6, <1>7, DecidedRow
<1>9. new # None
  BY <1>8, NoRequestAssumption DEF RowOK, NoRequestAssumption
<1>10. /\ request' = [request EXCEPT ![r] = new]
       /\ Overtakes(r, row # req[c].row)
       /\ req' = [req EXCEPT ![c] =
                    IF new.status = "pending"
                      THEN Notice(row.approvers[k + 1], "pending", r, req[c].user)
                      ELSE Notice(row.requester, decision, r, req[c].user)]
       /\ pc' = [pc EXCEPT ![c] = "notify"]
  BY <1>2, <1>3, <1>4, <1>5, <1>7 DEF CommitDecision, Goto
<1>11. ASSUME r \notin overtaken'
       PROVE  /\ row.status = "pending" /\ InOrder(new) /\ new.requester = row.requester
              /\ new.status \in {"pending", decision} /\ new.currentStep >= row.currentStep
              /\ \A i \in 1 .. Len(row.approvers) :
                    row.steps[i] # "pending" => new.steps[i] = row.steps[i]
  <2>1. row = req[c].row /\ r \notin overtaken
    BY <1>10, <1>11 DEF Overtakes
  <2>2. row.status = "pending" /\ row.currentStep = k
    BY <1>1, <1>5, <2>1 DEF ReadPending, Writing
  <2>3. InOrder(row)
    BY <1>4, <1>6, <2>1 DEF TrueInv, RowsAreInOrder
  <2> QED
    BY <1>6, <1>7, <2>2, <2>3, DecidedInOrder
<1>12. /\ RowsAreInOrder' /\ WritesPending /\ request'[r] = new
       /\ \A q \in Requests : q # r => request'[q] = request[q]
  BY <1>4, <1>6, <1>10, <1>11, RowRewritten
<1>13. TrueNotice(c)'
  <2>1. CASE new.status = "pending"
    <3>1. req'[c].type = "pending"
      BY <1>10, <2>1 DEF Notice, IInv, TypeOK
    <3> QED
      BY <3>1 DEF TrueNotice
  <2>2. CASE new.status # "pending"
    <3>1. req'[c] = Notice(row.requester, decision, r, req[c].user)
      BY <1>10, <2>2 DEF IInv, TypeOK
    <3>2. /\ req'[c].request = r /\ req'[c].type = decision
          /\ req'[c].user = row.requester
      BY <3>1 DEF Notice
    <3> QED
      BY <1>9, <1>11, <1>12, <2>2, <3>2 DEF TrueNotice
  <2> QED
    BY <2>1, <2>2
<1> QED
  BY <1>2, <1>4, <1>6, <1>11, <1>12, <1>13 DEF Steps

(* What a cancellation does, unless it overtakes a resolution. *)
LEMMA CommitCancelTrue ==
    ASSUME IInv, TrueInv, NEW c \in Clients, CommitCancel(c)
    PROVE  LET r == req[c].request IN
           /\ r \in Requests /\ request[r] # None
           /\ RowsAreInOrder' /\ WritesPending
           /\ \A q \in Requests : q # r => request'[q] = request[q]
           /\ request'[r].currentStep = request[r].currentStep
           /\ request'[r].steps = request[r].steps
           /\ r \notin overtaken' => request[r].status = "pending"
<1>1. pc[c] = "cancel" /\ HandlerOK(c) /\ ReadPending(c)
  BY DEF CommitCancel, IInv, TypeOK, HandlerOK, TrueInv
<1>2. PICK r \in Requests : r = req[c].request
  BY <1>1 DEF HandlerOK
<1>3. PICK row : row = request[r]
  OBVIOUS
<1>4. row # None /\ RowOK(row)
  BY <1>1, <1>2, <1>3, RowsOfIInv DEF HandlerOK
<1>5. PICK new : new = [row EXCEPT !.status = "cancelled"]
  OBVIOUS
<1>6. new.steps = row.steps /\ new.currentStep = row.currentStep
  BY <1>4, <1>5 DEF RowOK, Request
<1>7. /\ request' = [request EXCEPT ![r] = new]
      /\ Overtakes(r, row.status # req[c].row.status)
  BY <1>2, <1>3, <1>5 DEF CommitCancel
<1>8. ASSUME r \notin overtaken'
      PROVE  row.status = "pending" /\ InOrder(new)
  <2>1. row.status = "pending" /\ r \notin overtaken
    BY <1>1, <1>7, <1>8 DEF Overtakes, ReadPending, Writing
  <2>2. InOrder(row)
    BY <1>3, <1>4, <2>1 DEF TrueInv, RowsAreInOrder
  <2> QED
    BY <1>4, <1>5, <2>1, <2>2, CancelledInOrder
<1>9. /\ RowsAreInOrder' /\ WritesPending /\ request'[r] = new
      /\ \A q \in Requests : q # r => request'[q] = request[q]
  BY <1>3, <1>4, <1>7, <1>8, RowRewritten
<1> QED
  BY <1>2, <1>3, <1>4, <1>6, <1>8, <1>9

(* Every step keeps the invariant. *)
LEMMA StepTrueInv == IInv /\ TrueInv /\ [Next]_vars => TrueInv'
<1> SUFFICES ASSUME IInv, TrueInv, [Next]_vars PROVE TrueInv'
  OBVIOUS
<1>1. ASSUME NEW c \in Clients, NEW r \in Requests, NEW u \in Users,
             NEW chain \in Chains, CreateApprovalRequest(c, r, u, chain)
      PROVE  TrueInv'
  <2>1. PICK row : row = [status |-> "pending", currentStep |-> 1, requester |-> u,
                          approvers |-> chain,
                          steps |-> [k \in 1 .. Len(chain) |-> "pending"]]
    OBVIOUS
  <2>2. PICK notice : notice = Notice(chain[1], "pending", r, u)
    OBVIOUS
  <2>3. /\ request' = [request EXCEPT ![r] = row] /\ request[r] = None /\ told' = told
        /\ pc' = [pc EXCEPT ![c] = "notify"] /\ req' = [req EXCEPT ![c] = notice]
        /\ overtaken' = overtaken
    BY <1>1, <2>1, <2>2 DEF CreateApprovalRequest, Goto
  <2>4. InOrder(row)
    BY <2>1, CreatedInOrder
  <2>5. \A q \in Requests : request'[q] = IF q = r THEN row ELSE request[q]
    BY <2>3 DEF IInv, TypeOK
  <2>6. RowsAreInOrder' /\ WritesPending
    BY <2>3, <2>4, <2>5 DEF TrueInv, RowsAreInOrder, WritesPending
  <2>7. pc'[c] = "notify" /\ req'[c] = notice /\ notice.type = "pending"
    BY <2>2, <2>3 DEF Notice, IInv, TypeOK
  <2>8. ReadPending(c)' /\ TrueNotice(c)'
    BY <2>7 DEF ReadPending, Writing, TrueNotice
  <2> QED
    BY <2>3, <2>6, <2>8, StepStaysTrue
<1>2. ASSUME NEW c \in Clients, NEW r \in Requests, NEW u \in Users,
             NEW decision \in Decision, ReadForDecision(c, r, u, decision)
      PROVE  TrueInv'
  <2>1. PICK read : read = [request |-> r, row |-> request[r], user |-> u,
                            step |-> request[r].currentStep, decision |-> decision]
    OBVIOUS
  <2>2. /\ request' = request /\ told' = told /\ request[r].status = "pending"
        /\ pc' = [pc EXCEPT ![c] = "decide"] /\ req' = [req EXCEPT ![c] = read]
        /\ overtaken' = overtaken
    BY <1>2, <2>1 DEF ReadForDecision, Goto
  <2>3. pc'[c] = "decide" /\ req'[c] = read
    BY <2>2 DEF IInv, TypeOK
  <2>4. ReadPending(c)' /\ TrueNotice(c)'
    BY <2>1, <2>2, <2>3 DEF ReadPending, Writing, TrueNotice
  <2> QED
    BY <2>2, <2>4, RequestsLeft, StepStaysTrue
<1>3. ASSUME NEW c \in Clients, NEW r \in Requests, NEW u \in Users,
             ReadForCancel(c, r, u)
      PROVE  TrueInv'
  <2>1. PICK read : read = [request |-> r, row |-> request[r]]
    OBVIOUS
  <2>2. /\ request' = request /\ told' = told /\ request[r].status = "pending"
        /\ pc' = [pc EXCEPT ![c] = "cancel"] /\ req' = [req EXCEPT ![c] = read]
        /\ overtaken' = overtaken
    BY <1>3, <2>1 DEF ReadForCancel, Goto
  <2>3. pc'[c] = "cancel" /\ req'[c] = read
    BY <2>2 DEF IInv, TypeOK
  <2>4. ReadPending(c)' /\ TrueNotice(c)'
    BY <2>1, <2>2, <2>3 DEF ReadPending, Writing, TrueNotice
  <2> QED
    BY <2>2, <2>4, RequestsLeft, StepStaysTrue
<1>4. ASSUME NEW c \in Clients, CommitDecision(c)
      PROVE  TrueInv'
  <2>1. RowsAreInOrder' /\ WritesPending /\ TrueNotice(c)'
    BY <1>4, CommitDecisionTrue
  <2>2. PICK there : req' = [req EXCEPT ![c] = there]
    BY <1>4 DEF CommitDecision
  <2>3. pc' = [pc EXCEPT ![c] = "notify"] /\ told' = told
    BY <1>4 DEF CommitDecision, Goto
  <2>4. ReadPending(c)'
    BY <2>3 DEF ReadPending, Writing, IInv, TypeOK
  <2> QED
    BY <2>1, <2>2, <2>3, <2>4, StepStaysTrue
<1>5. ASSUME NEW c \in Clients, pc' = [pc EXCEPT ![c] = "idle"],
             req' = [req EXCEPT ![c] = None]
      PROVE  ReadPending(c)' /\ TrueNotice(c)'
  BY <1>5 DEF ReadPending, Writing, TrueNotice, IInv, TypeOK
<1>6. ASSUME NEW c \in Clients, CommitCancel(c)
      PROVE  TrueInv'
  <2>1. RowsAreInOrder' /\ WritesPending
    BY <1>6, CommitCancelTrue
  <2>2. /\ told' = told
        /\ pc' = [pc EXCEPT ![c] = "idle"] /\ req' = [req EXCEPT ![c] = None]
    BY <1>6 DEF CommitCancel, Return
  <2> QED
    BY <1>5, <2>1, <2>2, StepStaysTrue
<1>7. ASSUME NEW c \in Clients, Notify(c)
      PROVE  TrueInv'
  <2>1. /\ request' = request /\ pc[c] = "notify" /\ overtaken' = overtaken
        /\ pc' = [pc EXCEPT ![c] = "idle"] /\ req' = [req EXCEPT ![c] = None]
    BY <1>7 DEF Notify, Return
  <2>2. TrueNotice(c)
    BY DEF TrueInv
  <2>3. ASSUME NEW u \in Users, NEW d \in Decision, NEW r \in Requests \ overtaken',
               <<u, d, r>> \in told', <<u, d, r>> \notin told
        PROVE  request'[r] # None /\ request'[r].status = d /\ request'[r].requester = u
    <3>1. u = req[c].user /\ d = req[c].type /\ r = req[c].request
      BY <1>7, <2>3 DEF Notify
    <3> QED
      BY <2>1, <2>2, <2>3, <3>1 DEF TrueNotice, Decision
  <2>4. RowsAreInOrder' /\ WritesPending
    BY <2>1, RequestsLeft
  <2>5. ReadPending(c)' /\ TrueNotice(c)'
    BY <1>5, <2>1
  <2>6. \A u \in Users, d \in Decision, r \in Requests \ overtaken' :
            <<u, d, r>> \in told' /\ <<u, d, r>> \notin told =>
                request'[r] # None /\ request'[r].status = d /\ request'[r].requester = u
    BY <2>3, Zenon
  <2> QED
    BY <2>1, <2>4, <2>5, <2>6, StepStaysTrue
<1>8. ASSUME NEW c \in Clients, Fail(c)
      PROVE  TrueInv'
  <2>1. /\ request' = request /\ told' = told /\ overtaken' = overtaken
        /\ pc' = [pc EXCEPT ![c] = "idle"] /\ req' = [req EXCEPT ![c] = None]
    BY <1>8 DEF Fail, Return
  <2> QED
    BY <1>5, <2>1, RequestsLeft, StepStaysTrue
<1>9. CASE UNCHANGED vars
  BY <1>9 DEF vars, TrueInv, RowsAreInOrder, ReadPending, Writing, TrueNotice,
              ToldOfRequests, ToldTheTruth
<1> QED
  BY <1>1, <1>2, <1>3, <1>4, <1>6, <1>7, <1>8, <1>9 DEF Next

(* Of a request that nobody has overtaken, the steps are in order and what *)
(* is told is true.                                                        *)
THEOREM TrueInvariance == Spec => []TrueInv
<1>1. Init => TrueInv
  BY DEF Init, TrueInv, RowsAreInOrder, ReadPending, Writing, TrueNotice, ToldOfRequests,
         ToldTheTruth
<1> QED
  BY <1>1, Invariance, StepTrueInv, PTL DEF Spec

(* A later step never approves before the earlier ones are complete, of a  *)
(* request that nobody has overtaken, however decisions overlap.           *)
THEOREM StepsGoInOrder == Spec => []EarlierStepsComplete
<1>1. IInv /\ TrueInv => EarlierStepsComplete
  <2> SUFFICES ASSUME IInv, TrueInv, NEW r \in Requests \ overtaken, request[r] # None,
                      NEW k \in Steps(r), request[r].steps[k] # "pending",
                      NEW j \in 1 .. k - 1
               PROVE  request[r].steps[j] = "approved"
    BY DEF EarlierStepsComplete
  <2>1. RowOK(request[r]) /\ InOrder(request[r])
    BY RowsOfIInv DEF TrueInv, RowsAreInOrder
  <2>2. /\ Len(request[r].approvers) \in Nat
        /\ request[r].currentStep \in 1 .. Len(request[r].approvers)
    BY <2>1, ChainsAssumption DEF RowOK, Request, ChainsAssumption
  <2>3. k <= request[r].currentStep /\ j < request[r].currentStep
    BY <2>1, <2>2 DEF InOrder, Steps
  <2>4. j \in 1 .. Len(request[r].approvers)
    BY <2>2 DEF Steps
  <2> QED
    BY <2>1, <2>3, <2>4 DEF InOrder
<1> QED
  BY <1>1, Invariance, TrueInvariance, PTL

(* Nobody is told of an outcome that the request does not have, if nobody  *)
(* has overtaken it.                                                       *)
THEOREM NoticesAreTrue == Spec => []ToldTheTruth
<1>1. TrueInv => ToldTheTruth
  BY DEF TrueInv
<1> QED
  BY <1>1, TrueInvariance, PTL

(* One step of one handler, as DecisionsAreFinal sees it. *)
LEMMA StepIsFinal ==
    ASSUME IInv, TrueInv, [Next]_vars, NEW r \in Requests \ overtaken', request[r] # None
    PROVE  /\ \A k \in Steps(r) : request[r].steps[k] # "pending" =>
                                     request'[r].steps[k] = request[r].steps[k]
           /\ request[r].status # "pending" => request'[r].status = request[r].status
           /\ request'[r].currentStep >= request[r].currentStep
<1>1. request[r].currentStep \in Nat
  BY RowsOfIInv DEF RowOK, Request
<1>2. ASSUME NEW c \in Clients, CommitDecision(c)
      PROVE  /\ \A k \in Steps(r) : request[r].steps[k] # "pending" =>
                                       request'[r].steps[k] = request[r].steps[k]
             /\ request[r].status # "pending" => request'[r].status = request[r].status
             /\ request'[r].currentStep >= request[r].currentStep
  <2>1. CASE req[c].request = r
    BY <1>2, <2>1, CommitDecisionTrue
  <2>2. CASE req[c].request # r
    <3>1. request'[r] = request[r]
      BY <1>2, <2>2, CommitDecisionTrue
    <3> QED
      BY <1>1, <3>1
  <2> QED
    BY <2>1, <2>2
<1>3. ASSUME NEW c \in Clients, CommitCancel(c)
      PROVE  /\ \A k \in Steps(r) : request[r].steps[k] # "pending" =>
                                       request'[r].steps[k] = request[r].steps[k]
             /\ request[r].status # "pending" => request'[r].status = request[r].status
             /\ request'[r].currentStep >= request[r].currentStep
  <2>1. CASE req[c].request = r
    BY <1>1, <1>3, <2>1, CommitCancelTrue
  <2>2. CASE req[c].request # r
    <3>1. request'[r] = request[r]
      BY <1>3, <2>2, CommitCancelTrue
    <3> QED
      BY <1>1, <3>1
  <2> QED
    BY <2>1, <2>2
<1>4. CASE ~ \E c \in Clients : CommitDecision(c) \/ CommitCancel(c)
  <2>1. request'[r] = request[r]
    <3>1. ASSUME NEW c \in Clients, NEW q \in Requests, NEW u \in Users, NEW chain \in Chains,
                 CreateApprovalRequest(c, q, u, chain)
          PROVE  request'[r] = request[r]
      BY <3>1 DEF CreateApprovalRequest, IInv, TypeOK
    <3> QED
      BY <1>4, <3>1 DEF Next, vars, ReadForDecision, ReadForCancel, Notify, Fail
  <2> QED
    BY <1>1, <2>1
<1> QED
  BY <1>2, <1>3, <1>4

(* A decided step is never decided again, a resolved request stays so and  *)
(* turns only move forward, if nobody has overtaken it.                    *)
THEOREM DecisionsStay == Spec => DecisionsAreFinal
<1>1. IInv /\ TrueInv /\ [Next]_vars =>
         [\A r \in Requests \ overtaken' : request[r] # None =>
             LET old == request[r]
                 new == request'[r]
             IN /\ \A k \in Steps(r) :
                       old.steps[k] # "pending" => new.steps[k] = old.steps[k]
                /\ old.status # "pending" => new.status = old.status
                /\ new.currentStep >= old.currentStep]_vars
  BY StepIsFinal
<1> QED
  BY <1>1, Invariance, TrueInvariance, PTL DEF Spec, DecisionsAreFinal

-----------------------------------------------------------------------------
(* When nobody is overtaken *)

(* No two handlers are between reading and writing the same request.       *)
(* Nothing in the code ensures it.                                         *)
DecidedAlone ==
    \A c, d \in Clients :
        Writing(c) /\ Writing(d) /\ req[c].request = req[d].request => c = d

(* What a handler has read is still so when it writes. *)
Fresh(c) == Writing(c) => req[c].row = request[req[c].request]

FreshInv == overtaken = {} /\ \A c \in Clients : Fresh(c)

LEMMA StepFresh == IInv /\ FreshInv /\ DecidedAlone /\ [Next]_vars => FreshInv'
<1> SUFFICES ASSUME IInv, FreshInv, DecidedAlone, [Next]_vars PROVE FreshInv'
  OBVIOUS
<1>1. \A d \in Clients : HandlerOK(d)
  BY DEF IInv, TypeOK, HandlerOK
<1>2. ASSUME NEW c \in Clients, NEW here, NEW there,
             pc' = [pc EXCEPT ![c] = here], req' = [req EXCEPT ![c] = there],
             \A r \in Requests : request[r] # None =>
                 request'[r] = request[r] \/ (Writing(c) /\ r = req[c].request),
             overtaken' = {}, Fresh(c)'
      PROVE  FreshInv'
  <2>1. ASSUME NEW d \in Clients \ {c}
        PROVE  Fresh(d)'
    <3>1. pc'[d] = pc[d] /\ req'[d] = req[d]
      BY <1>2 DEF IInv, TypeOK
    <3>2. CASE Writing(d)
      <4>1. req[d].request \in Requests /\ request[req[d].request] # None
        BY <1>1, <3>2 DEF HandlerOK, Writing
      <4>2. request'[req[d].request] = request[req[d].request]
        BY <1>2, <3>2, <4>1 DEF DecidedAlone
      <4> QED
        BY <3>1, <3>2, <4>2 DEF FreshInv, Fresh, Writing
    <3>3. CASE ~Writing(d)
      BY <3>1, <3>3 DEF Fresh, Writing
    <3> QED
      BY <3>2, <3>3
  <2> QED
    BY <1>2, <2>1 DEF FreshInv
<1>3. ASSUME NEW c \in Clients, NEW r \in Requests, NEW u \in Users,
             NEW chain \in Chains, CreateApprovalRequest(c, r, u, chain)
      PROVE  FreshInv'
  <2>1. PICK there : req' = [req EXCEPT ![c] = there]
    BY <1>3 DEF CreateApprovalRequest
  <2>2. pc' = [pc EXCEPT ![c] = "notify"] /\ overtaken' = {}
    BY <1>3 DEF CreateApprovalRequest, Goto, FreshInv
  <2>3. \A q \in Requests : request[q] # None => request'[q] = request[q]
    BY <1>3 DEF CreateApprovalRequest, IInv, TypeOK
  <2>4. Fresh(c)'
    BY <2>2 DEF Fresh, Writing, IInv, TypeOK
  <2> QED
    BY <1>2, <2>1, <2>2, <2>3, <2>4
<1>4. ASSUME NEW c \in Clients, NEW r \in Requests, NEW here, NEW there,
             pc' = [pc EXCEPT ![c] = here], req' = [req EXCEPT ![c] = there],
             there.request = r, there.row = request[r],
             request' = request, overtaken' = overtaken
      PROVE  FreshInv'
  <2>1. Fresh(c)'
    BY <1>4 DEF Fresh, IInv, TypeOK
  <2> QED
    BY <1>2, <1>4, <2>1 DEF FreshInv
<1>5. ASSUME NEW c \in Clients, NEW r \in Requests, NEW u \in Users,
             (\E decision \in Decision : ReadForDecision(c, r, u, decision))
                \/ ReadForCancel(c, r, u)
      PROVE  FreshInv'
  <2>1. CASE ReadForCancel(c, r, u)
    <3>1. PICK there : there = [request |-> r, row |-> request[r]]
      OBVIOUS
    <3>2. /\ pc' = [pc EXCEPT ![c] = "cancel"] /\ req' = [req EXCEPT ![c] = there]
          /\ request' = request /\ overtaken' = overtaken
      BY <2>1, <3>1 DEF ReadForCancel, Goto
    <3>3. there.request = r /\ there.row = request[r]
      BY <3>1
    <3> QED
      BY <1>4, <3>2, <3>3
  <2>2. ASSUME NEW decision \in Decision, ReadForDecision(c, r, u, decision)
        PROVE  FreshInv'
    <3>1. PICK there : there = [request |-> r, row |-> request[r], user |-> u,
                                step |-> request[r].currentStep, decision |-> decision]
      OBVIOUS
    <3>2. /\ pc' = [pc EXCEPT ![c] = "decide"] /\ req' = [req EXCEPT ![c] = there]
          /\ request' = request /\ overtaken' = overtaken
      BY <2>2, <3>1 DEF ReadForDecision, Goto
    <3>3. there.request = r /\ there.row = request[r]
      BY <3>1
    <3> QED
      BY <1>4, <3>2, <3>3
  <2> QED
    BY <1>5, <2>1, <2>2
<1>6. ASSUME NEW c \in Clients, CommitDecision(c) \/ CommitCancel(c)
      PROVE  FreshInv'
  <2>1. Writing(c)
    BY <1>6 DEF CommitDecision, CommitCancel, Goto, Writing
  <2>2. req[c].row = request[req[c].request]
    BY <2>1 DEF FreshInv, Fresh
  <2>3. overtaken' = {}
    BY <1>6, <2>2 DEF CommitDecision, CommitCancel, Overtakes, FreshInv
  <2>4. PICK here, there : /\ pc' = [pc EXCEPT ![c] = here] /\ here \in {"idle", "notify"}
                           /\ req' = [req EXCEPT ![c] = there]
    BY <1>6 DEF CommitDecision, CommitCancel, Goto, Return
  <2>5. \A q \in Requests : q # req[c].request => request'[q] = request[q]
    BY <1>6 DEF CommitDecision, CommitCancel, IInv, TypeOK
  <2>6. Fresh(c)'
    BY <2>4 DEF Fresh, Writing, IInv, TypeOK
  <2> QED
    BY <1>2, <2>1, <2>3, <2>4, <2>5, <2>6
<1>7. ASSUME NEW c \in Clients, Notify(c) \/ Fail(c)
      PROVE  FreshInv'
  <2>1. /\ request' = request /\ overtaken' = {}
        /\ pc' = [pc EXCEPT ![c] = "idle"] /\ req' = [req EXCEPT ![c] = None]
    BY <1>7 DEF Notify, Fail, Return, FreshInv
  <2>2. Fresh(c)'
    BY <2>1 DEF Fresh, Writing, IInv, TypeOK
  <2> QED
    BY <1>2, <2>1, <2>2
<1>8. CASE UNCHANGED vars
  BY <1>8 DEF vars, FreshInv, Fresh, Writing
<1> QED
  BY <1>3, <1>5, <1>6, <1>7, <1>8 DEF Next

(* No request is overtaken as long as no two handlers decide or cancel the *)
(* same one at a time, so that nothing above is excused.                   *)
THEOREM AloneOvertakesNobody == Spec /\ []DecidedAlone => [](overtaken = {})
<1>1. Init => FreshInv
  BY DEF Init, FreshInv, Fresh, Writing
<1>2. FreshInv => overtaken = {}
  BY DEF FreshInv
<1> QED
  BY <1>1, <1>2, Invariance, StepFresh, PTL DEF Spec

(* Nor is any where one handler serves all requests. *)
THEOREM OneHandler ==
    ASSUME \A c, d \in Clients : c = d
    PROVE  Spec => [](overtaken = {})
<1>1. DecidedAlone
  BY DEF DecidedAlone
<1> QED
  BY <1>1, AloneOvertakesNobody, PTL

=============================================================================
