------------------------------ MODULE Webhooks ------------------------------
(***************************************************************************)
(* Outbound webhooks (domain/webhooks.ts).  An audited action emits an     *)
(* event; every active webhook gets a delivery, which is attempted at once *)
(* and then by a job each minute, until the endpoint accepts it or its     *)
(* attempts are used up.  The attempt at emission and the jobs of several  *)
(* app servers may work on one delivery at the same time, processes die,   *)
(* answers and database calls get lost, and webhooks come and go.          *)
(*                                                                         *)
(* All webhooks subscribe to the one kind of event.  A tick is a minute,   *)
(* so what a process has cached (for 30 seconds) is gone at the next.      *)
(***************************************************************************)
EXTENDS Naturals, FiniteSets

CONSTANTS
    Processes,   \* app servers
    Hooks,       \* webhooks
    Events,      \* events (a bound on their number)
    MaxAttempts, \* maxAttempts of a delivery
    MaxFaults,   \* bound on crashes and failed database calls
    None         \* null

AttemptsAssumption == MaxAttempts \in Nat \ {0}

(* null is not an answer to the question whether anybody listens. *)
NullAssumption == \A listens \in BOOLEAN : listens # None

ASSUME AttemptsAssumption
ASSUME NullAssumption

(* One delivery per event and webhook. *)
Deliveries == Events \X Hooks

(* Who attempts: the emission of a delivery, and the job of a process.     *)
Workers == Deliveries \cup Processes

VARIABLES
    hook,      \* the state of each webhook
    cache,     \* subCache of each process: does anybody listen?
    row,       \* rows of WebhookDelivery; None: no such row
    home,      \* the process that emitted an event, None before
    queue,     \* what the job of each process has left of the list it read
    work,      \* the attempt each worker is at, or None
    faults,    \* crashes and failed database calls so far
    answered,  \* history: deliveries that an endpoint has accepted
    refused,   \* history: deliveries that met a webhook switched off
    settled,   \* history: webhooks unchanged since the last tick
    missed     \* history: settled, active webhooks that missed an event

vars == <<hook, cache, row, home, queue, work, faults, answered, refused,
          settled, missed>>

history == <<answered, refused, settled, missed>>

Active == {h \in Hooks : hook[h] = "active"}

HookOf(d) == d[2]

NewRow == [status |-> "pending", attempts |-> 0, wait |-> 0]

-----------------------------------------------------------------------------
(* Lifecycle, in process p *)

(* createWebhook, setWebhookActive and deleteWebhook end alike: only the   *)
(* cache of their own process is invalidated.                              *)
Change(p, h, to) ==
    /\ hook' = [hook EXCEPT ![h] = to]
    /\ cache' = [cache EXCEPT ![p] = None]
    /\ settled' = settled \ {h}
    /\ UNCHANGED <<home, queue, work, faults, answered, refused, missed>>

CreateWebhook(p, h) ==
    /\ hook[h] = "none"
    /\ Change(p, h, "active")
    /\ UNCHANGED row

SetWebhookActive(p, h, active) ==
    /\ hook[h] \in {"active", "inactive"}
    /\ Change(p, h, IF active THEN "active" ELSE "inactive")
    /\ UNCHANGED row

(* Its deliveries go with it (onDelete: Cascade). *)
DeleteWebhook(p, h) ==
    /\ hook[h] \in {"active", "inactive"}
    /\ Change(p, h, "deleted")
    /\ row' = [d \in Deliveries |-> IF HookOf(d) = h THEN None ELSE row[d]]

-----------------------------------------------------------------------------
(* Emission *)

(* subscribedEvents: the cached answer, or that of the table. *)
Listened(p) == IF cache[p] = None THEN Active # {} ELSE cache[p]

(* emitWebhookEvent: a row per active webhook, all pending and due, and an *)
(* attempt at each, in the same process.                                   *)
Emit(p, e) ==
    LET targets == {e} \X Active IN
    /\ home[e] = None
    /\ Listened(p)
    /\ home' = [home EXCEPT ![e] = p]
    /\ cache' = [cache EXCEPT ![p] = TRUE]
    /\ row' = [d \in Deliveries |-> IF d \in targets THEN NewRow ELSE row[d]]
    /\ work' = [w \in Workers |->
                  IF w \in targets THEN [delivery |-> w, stage |-> "read", attempts |-> 0]
                                   ELSE work[w]]
    /\ UNCHANGED <<hook, queue, faults, history>>

(* Nobody listens, as far as this process knows. *)
EmitToNobody(p) ==
    /\ ~Listened(p)
    /\ cache' = [cache EXCEPT ![p] = FALSE]
    /\ missed' = missed \cup (Active \cap settled)
    /\ UNCHANGED <<hook, row, home, queue, work, faults, answered, refused, settled>>

-----------------------------------------------------------------------------
(* Attempts *)

Due(d) == row[d] # None /\ row[d].status = "pending" /\ row[d].wait = 0

(* deliverPendingWebhooks: the list of what is due is read once. *)
StartJob(p) ==
    /\ queue[p] = {} /\ work[p] = None
    /\ \E d \in Deliveries : Due(d)
    /\ queue' = [queue EXCEPT ![p] = {d \in Deliveries : Due(d)}]
    /\ UNCHANGED <<hook, cache, row, home, work, faults, history>>

(* ... and worked off one at a time. *)
TakeNext(p) ==
    /\ work[p] = None
    /\ \E d \in queue[p] :
          /\ queue' = [queue EXCEPT ![p] = @ \ {d}]
          /\ work' = [work EXCEPT ![p] =
                        [delivery |-> d, stage |-> "read", attempts |-> 0]]
    /\ UNCHANGED <<hook, cache, row, home, faults, history>>

At(w, stage) == work[w] # None /\ work[w].stage = stage

Done(w) == work' = [work EXCEPT ![w] = None]

(* attemptDelivery reads the delivery and its webhook. *)
ReadDelivery(w) ==
    LET d == work[w].delivery IN
    /\ At(w, "read")
    /\ IF row[d] = None \/ row[d].status = "success"
         THEN Done(w)
         ELSE work' = [work EXCEPT ![w] =
                [delivery |-> d,
                 stage    |-> IF hook[HookOf(d)] = "active" THEN "post" ELSE "refuse",
                 attempts |-> row[d].attempts + 1]]
    /\ UNCHANGED <<hook, cache, row, home, queue, faults, history>>

(* Variant: any answer is taken for an acceptance. *)
PostAnyAnswer(w, accepted, ok) ==
    /\ At(w, "post")
    /\ ok => accepted
    /\ work' = [work EXCEPT ![w].stage = "won"]
    /\ answered' = IF accepted THEN answered \cup {work[w].delivery} ELSE answered
    /\ UNCHANGED <<hook, cache, row, home, queue, faults, refused, settled, missed>>

(* The request: accepted or not, and known to be (a 2xx in time) or not.   *)
Post(w, accepted, ok) ==
    /\ At(w, "post")
    /\ ok => accepted
    /\ work' = [work EXCEPT ![w].stage = IF ok THEN "won" ELSE "lost"]
    /\ answered' = IF accepted THEN answered \cup {work[w].delivery} ELSE answered
    /\ UNCHANGED <<hook, cache, row, home, queue, faults, refused, settled, missed>>

(* Variant: the count starts again. *)
RetriedUncounted(attempts) ==
    IF attempts >= MaxAttempts
      THEN [status |-> "failed", attempts |-> attempts, wait |-> 0]
      ELSE [status |-> "pending", attempts |-> 0, wait |-> 2 ^ (attempts - 1)]

(* The row as an attempt that failed leaves it, by id and whatever it is   *)
(* by now: dead-lettered, or due again after 1, 2, 4 .. minutes.           *)
Retried(attempts) ==
    IF attempts >= MaxAttempts
      THEN [status |-> "failed", attempts |-> attempts, wait |-> 0]
      ELSE [status |-> "pending", attempts |-> attempts, wait |-> 2 ^ (attempts - 1)]

Update(d, new) == row' = [row EXCEPT ![d] = IF @ = None THEN None ELSE new]

(* The success is recorded; a row deleted meanwhile makes the update throw *)
(* and the attempt count as failed.                                        *)
RecordSuccess(w) ==
    LET d == work[w].delivery IN
    /\ At(w, "won")
    /\ Update(d, [status |-> "success", attempts |-> work[w].attempts, wait |-> 0])
    /\ IF row[d] = None THEN work' = [work EXCEPT ![w].stage = "lost"] ELSE Done(w)
    /\ UNCHANGED <<hook, cache, home, queue, faults, history>>

(* scheduleRetry *)
ScheduleRetry(w) ==
    /\ At(w, "lost")
    /\ Update(work[w].delivery, Retried(work[w].attempts))
    /\ Done(w)
    /\ UNCHANGED <<hook, cache, home, queue, faults, history>>

(* The webhook is inactive or removed. *)
Refuse(w) ==
    LET d == work[w].delivery IN
    /\ At(w, "refuse")
    /\ row' = [row EXCEPT ![d] = IF @ = None THEN None ELSE [@ EXCEPT !.status = "failed"]]
    /\ refused' = refused \cup {d}
    /\ Done(w)
    /\ UNCHANGED <<hook, cache, home, queue, faults, answered, settled, missed>>

-----------------------------------------------------------------------------
(* Faults and time *)

Fault == faults < MaxFaults /\ faults' = faults + 1

(* A database call fails.  Reading the delivery: the attempt ends, and the *)
(* job with it.  Recording a success: the attempt counts as failed.        *)
(* Recording anything else: the error is swallowed.                        *)
LoseCall(w) ==
    /\ work[w] # None /\ work[w].stage # "post"
    /\ Fault
    /\ IF At(w, "won") THEN work' = [work EXCEPT ![w].stage = "lost"] ELSE Done(w)
    /\ queue' = [p \in Processes |-> IF p = w /\ At(w, "read") THEN {} ELSE queue[p]]
    /\ UNCHANGED <<hook, cache, row, home, history>>

(* A process dies, and a new one takes its place. *)
Crash(p) ==
    /\ Fault
    /\ work' = [w \in Workers |->
                  IF w = p \/ (w \in Deliveries /\ home[w[1]] = p) THEN None ELSE work[w]]
    /\ queue' = [queue EXCEPT ![p] = {}]
    /\ cache' = [cache EXCEPT ![p] = None]
    /\ UNCHANGED <<hook, row, home, history>>

(* Variant: what is cached does not expire. *)
TickAndKeep ==
    /\ settled' = Hooks
    /\ row' = [d \in Deliveries |->
                IF row[d] = None \/ row[d].wait = 0 THEN row[d]
                                                    ELSE [row[d] EXCEPT !.wait = @ - 1]]
    /\ UNCHANGED <<hook, cache, home, queue, work, faults, answered, refused, missed>>

(* A minute passes. *)
Tick ==
    /\ cache' = [p \in Processes |-> None]
    /\ settled' = Hooks
    /\ row' = [d \in Deliveries |->
                IF row[d] = None \/ row[d].wait = 0 THEN row[d]
                                                    ELSE [row[d] EXCEPT !.wait = @ - 1]]
    /\ UNCHANGED <<hook, home, queue, work, faults, answered, refused, missed>>

-----------------------------------------------------------------------------

Init ==
    /\ hook = [h \in Hooks |-> "none"]
    /\ cache = [p \in Processes |-> None]
    /\ row = [d \in Deliveries |-> None]
    /\ home = [e \in Events |-> None]
    /\ queue = [p \in Processes |-> {}]
    /\ work = [w \in Workers |-> None]
    /\ faults = 0
    /\ answered = {} /\ refused = {} /\ settled = Hooks /\ missed = {}

Administer(p, h) ==
    \/ CreateWebhook(p, h)
    \/ \E active \in BOOLEAN : SetWebhookActive(p, h, active)
    \/ DeleteWebhook(p, h)

Attempt(w) ==
    \/ ReadDelivery(w)
    \/ \E accepted, ok \in BOOLEAN : Post(w, accepted, ok)
    \/ RecordSuccess(w)
    \/ ScheduleRetry(w)
    \/ Refuse(w)

Next ==
    \/ \E p \in Processes, h \in Hooks : Administer(p, h)
    \/ \E p \in Processes, e \in Events : Emit(p, e)
    \/ \E p \in Processes : EmitToNobody(p) \/ StartJob(p) \/ TakeNext(p) \/ Crash(p)
    \/ \E w \in Workers : Attempt(w) \/ LoseCall(w)
    \/ Tick

Spec == Init /\ [][Next]_vars

(* Time passes, the scheduler runs the job every minute, and a request     *)
(* ends within its timeout.                                                *)
Fairness ==
    /\ WF_vars(Tick)
    /\ \A p \in Processes : WF_vars(StartJob(p)) /\ WF_vars(TakeNext(p))
    /\ \A w \in Workers : WF_vars(Attempt(w))

FairSpec == Spec /\ Fairness

-----------------------------------------------------------------------------
(* Properties *)

(* A delivery says success only if its endpoint accepted it, and is given  *)
(* up only when the attempts are used up or its webhook was switched off - *)
(* although two deliverers overwrite each other's counts.                  *)
OutcomesAreEarned ==
    \A d \in Deliveries : row[d] # None =>
        /\ row[d].status = "success" => d \in answered
        /\ row[d].status = "failed" => row[d].attempts >= MaxAttempts \/ d \in refused

(* No process keeps believing that nobody listens: a webhook active since  *)
(* before the last tick, thirty seconds or more, misses no event.          *)
NothingMissed == missed = {}

(* Every delivery settles: while it is pending it is retried, and an end   *)
(* is reached although attempts overlap, crash and go unrecorded.          *)
EverySettles ==
    \A d \in Deliveries :
        row[d] # None /\ row[d].status = "pending" ~>
            row[d] = None \/ row[d].status # "pending"

=============================================================================
