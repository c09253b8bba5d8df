---------------------------- MODULE Counts_proofs ----------------------------
(***************************************************************************)
(* Proofs about what the program counts, for any number of callers, rows   *)
(* and bounds: attempts at the deliveries of Webhooks, and, of Services,   *)
(* the minutes of a day, the money that a campaign spends, entries of what *)
(* is posted once, hits within a rate limit, and the minutes at which a    *)
(* job is due.  Each has an inductive invariant of its own.  What the      *)
(* model adds up by folding over a finite set is shown to be a sum that    *)
(* may be reckoned with, once, below.                                      *)
(***************************************************************************)
EXTENDS Webhooks, Services, TLAPS, FiniteSetTheorems, WellFoundedInduction

-----------------------------------------------------------------------------
(* Deliveries of webhooks *)

(* A row of WebhookDelivery.  The backoff is a power of two, which the     *)
(* provers cannot type; nothing here depends on its value.                 *)
IsRow(r) ==
    /\ r = [status |-> r.status, attempts |-> r.attempts, wait |-> r.wait]
    /\ r.status \in {"pending", "success", "failed"}
    /\ r.attempts \in Nat

Work == [delivery : Deliveries, stage : {"read", "post", "refuse", "won", "lost"},
         attempts : Nat]

Typed ==
    /\ hook \in [Hooks -> {"none", "active", "inactive", "deleted"}]
    /\ cache \in [Processes -> {TRUE, FALSE, None}]
    /\ DOMAIN row = Deliveries /\ row = [d \in Deliveries |-> row[d]]
    /\ \A d \in Deliveries : row[d] # None => IsRow(row[d])
    /\ home \in [Events -> Processes \cup {None}]
    /\ queue \in [Processes -> SUBSET Deliveries]
    /\ work \in [Workers -> Work \cup {None}]

(* An attempt that is about to record a success has been accepted. *)
WinsAreAccepted == \A w \in Workers : At(w, "won") => work[w].delivery \in answered

IInv == Typed /\ OutcomesAreEarned /\ WinsAreAccepted

-----------------------------------------------------------------------------
(* Rows *)

(* What the outcome in a row must have behind it, given the deliveries     *)
(* that were accepted and those that met a webhook switched off.           *)
Earned(r, d, accepted, off) ==
    /\ r.status = "success" => d \in accepted
    /\ r.status = "failed" => r.attempts >= MaxAttempts \/ d \in off

(* The row of an attempt that failed says failed only when the attempts    *)
(* are used up (scheduleRetry).                                            *)
LEMMA RetriedRow ==
    ASSUME NEW n \in Nat, NEW d, NEW accepted, NEW off
    PROVE  IsRow(Retried(n)) /\ Earned(Retried(n), d, accepted, off)
BY DEF Retried, IsRow, Earned

(* A step that writes rows that are earned, or writes none, and forgets no *)
(* acceptance or refusal, keeps the outcomes earned.                       *)
LEMMA RowsWritten ==
    ASSUME IInv, answered \subseteq answered', refused \subseteq refused',
           row' = [d \in Deliveries |-> row'[d]],
           \A d \in Deliveries : row'[d] # None /\ row'[d] # row[d] =>
               IsRow(row'[d]) /\ Earned(row'[d], d, answered', refused')
    PROVE  /\ OutcomesAreEarned'
           /\ DOMAIN row' = Deliveries /\ row' = [d \in Deliveries |-> row'[d]]
           /\ \A d \in Deliveries : row'[d] # None => IsRow(row'[d])
<1>1. DOMAIN row' = Deliveries
  OBVIOUS
<1>2. ASSUME NEW d \in Deliveries, row'[d] # None
      PROVE  IsRow(row'[d]) /\ Earned(row'[d], d, answered', refused')
  <2>1. CASE row'[d] = row[d]
    BY <1>2, <2>1 DEF IInv, Typed, OutcomesAreEarned, Earned
  <2>2. CASE row'[d] # row[d]
    BY <1>2, <2>2
  <2> QED
    BY <2>1, <2>2
<1> QED
  BY <1>1, <1>2 DEF OutcomesAreEarned, Earned

(* The attempts of the workers go on as they are, but for one. *)
LEMMA OneWorker ==
    ASSUME IInv, NEW w \in Workers, NEW new, new \in Work \cup {None},
           work' = [work EXCEPT ![w] = new], answered \subseteq answered',
           new # None /\ new.stage = "won" => new.delivery \in answered'
    PROVE  work' \in [Workers -> Work \cup {None}] /\ WinsAreAccepted'
BY DEF IInv, Typed, WinsAreAccepted, At

(* One step of a worker. *)
LEMMA AttemptKeepsOutcomes ==
    ASSUME IInv, NEW w \in Workers, Attempt(w) \/ LoseCall(w)
    PROVE  IInv'
<1>1. ASSUME NEW stage, At(w, stage) PROVE work[w] \in Work /\ work[w] # None
  BY <1>1 DEF At, IInv, Typed
<1>2. ASSUME UNCHANGED <<hook, cache, row, home, refused>>,
             queue' \in [Processes -> SUBSET Deliveries],
             work' \in [Workers -> Work \cup {None}], WinsAreAccepted',
             answered \subseteq answered'
      PROVE  IInv'
  BY <1>2 DEF IInv, Typed, OutcomesAreEarned, IsRow
<1>3. CASE ReadDelivery(w)
  <2> DEFINE d == work[w].delivery
             next == [delivery |-> d,
                      stage    |-> IF hook[HookOf(d)] = "active" THEN "post" ELSE "refuse",
                      attempts |-> row[d].attempts + 1]
  <2>1. work[w] \in Work
    BY <1>1, <1>3 DEF ReadDelivery
  <2>2. row[d] # None => next \in Work /\ next.stage # "won"
    <3>1. d \in Deliveries
      BY <2>1 DEF Work
    <3>2. row[d] # None => row[d].attempts + 1 \in Nat
      BY <3>1 DEF IInv, Typed, IsRow
    <3> QED
      BY <3>1, <3>2 DEF Work
  <2>3. \/ work' = [work EXCEPT ![w] = None]
        \/ row[d] # None /\ work' = [work EXCEPT ![w] = next]
    BY <1>3 DEF ReadDelivery, Done
  <2> HIDE DEF d, next
  <2>4. PICK new : /\ new \in Work \cup {None} /\ work' = [work EXCEPT ![w] = new]
                   /\ new # None => new.stage # "won"
    BY <2>2, <2>3
  <2>5. answered' = answered
    BY <1>3 DEF ReadDelivery, history
  <2>6. work' \in [Workers -> Work \cup {None}] /\ WinsAreAccepted'
    BY <2>4, <2>5, OneWorker
  <2> QED
    BY <1>2, <1>3, <2>5, <2>6 DEF ReadDelivery, history, IInv, Typed
<1>4. ASSUME NEW accepted \in BOOLEAN, NEW ok \in BOOLEAN, Post(w, accepted, ok) PROVE IInv'
  <2> DEFINE d == work[w].delivery
             next == [work[w] EXCEPT !.stage = IF ok THEN "won" ELSE "lost"]
  <2>1. work[w] \in Work
    BY <1>1, <1>4 DEF Post
  <2>2. /\ next \in Work /\ next.delivery = d
        /\ next.stage = IF ok THEN "won" ELSE "lost"
    BY <2>1 DEF Work
  <2>3. work' = [work EXCEPT ![w] = next]
    BY <1>4 DEF Post
  <2>4. answered \subseteq answered' /\ (ok => d \in answered')
    BY <1>4 DEF Post
  <2>5. PICK new : new = next
    OBVIOUS
  <2>6. PICK delivery : delivery = d
    OBVIOUS
  <2> HIDE DEF next, d
  <2>7. new.stage = "won" => new.delivery \in answered'
    BY <2>2, <2>4, <2>5, <2>6
  <2>8. work' \in [Workers -> Work \cup {None}] /\ WinsAreAccepted'
    BY <2>2, <2>3, <2>4, <2>5, <2>7, OneWorker
  <2> QED
    BY <1>2, <1>4, <2>4, <2>8 DEF Post, IInv, Typed
<1>5. ASSUME At(w, "won") \/ At(w, "lost") \/ At(w, "refuse"),
             UNCHANGED <<hook, cache, home, queue, answered>>, refused \subseteq refused',
             work' = [work EXCEPT ![w] = None] \/ work' = [work EXCEPT ![w].stage = "lost"],
             NEW new, Update(work[w].delivery, new),
             row[work[w].delivery] # None => IsRow(new) /\ Earned(new, work[w].delivery, answered', refused')
      PROVE  IInv'
  <2>1. work[w] \in Work
    BY <1>1, <1>5
  <2>2. PICK d \in Deliveries : d = work[w].delivery
    BY <2>1 DEF Work
  <2>3. work' \in [Workers -> Work \cup {None}] /\ WinsAreAccepted'
    <3>1. CASE work' = [work EXCEPT ![w] = None]
      BY <1>5, <3>1, OneWorker
    <3>2. CASE work' = [work EXCEPT ![w].stage = "lost"]
      <4>1. PICK next : next = [work[w] EXCEPT !.stage = "lost"]
        OBVIOUS
      <4>2. next \in Work /\ next.stage = "lost" /\ work' = [work EXCEPT ![w] = next]
        BY <2>1, <3>2, <4>1 DEF Work
      <4> QED
        BY <1>5, <4>2, OneWorker
    <3> QED
      BY <1>5, <3>1, <3>2
  <2>4. row' = [row EXCEPT ![d] = IF row[d] = None THEN None ELSE new]
    BY <1>5, <2>2 DEF Update
  <2>5. row' = [e \in Deliveries |-> row'[e]]
        /\ \A e \in Deliveries : row'[e] # None /\ row'[e] # row[e] => e = d /\ row'[e] = new
                                                                    /\ row[d] # None
    BY <2>4 DEF IInv, Typed
  <2>6. row[d] # None => IsRow(new) /\ Earned(new, d, answered', refused')
    BY <1>5, <2>2 DEF Earned
  <2>7. \A e \in Deliveries : row'[e] # None /\ row'[e] # row[e] =>
           IsRow(row'[e]) /\ Earned(row'[e], e, answered', refused')
    BY <2>5, <2>6 DEF Earned
  <2>8. /\ OutcomesAreEarned'
        /\ DOMAIN row' = Deliveries /\ row' = [e \in Deliveries |-> row'[e]]
        /\ \A e \in Deliveries : row'[e] # None => IsRow(row'[e])
    BY <1>5, <2>5, <2>7, RowsWritten
  <2> QED
    BY <1>5, <2>3, <2>8 DEF IInv, Typed, IsRow
<1>6. CASE RecordSuccess(w)
  <2>1. At(w, "won") /\ work[w] \in Work /\ work[w].delivery \in answered
    BY <1>1, <1>6 DEF RecordSuccess, IInv, WinsAreAccepted
  <2>2. PICK new : new = [status |-> "success", attempts |-> work[w].attempts, wait |-> 0]
    OBVIOUS
  <2>3. IsRow(new) /\ Earned(new, work[w].delivery, answered, refused)
    BY <2>1, <2>2 DEF IsRow, Earned, Work
  <2>4. UNCHANGED <<hook, cache, home, queue, answered, refused>>
    BY <1>6 DEF RecordSuccess, history
  <2>5. work' = [work EXCEPT ![w] = None] \/ work' = [work EXCEPT ![w].stage = "lost"]
    BY <1>6 DEF RecordSuccess, Done
  <2>6. Update(work[w].delivery, new)
    BY <1>6, <2>2 DEF RecordSuccess
  <2> QED
    BY <1>5, <2>1, <2>3, <2>4, <2>5, <2>6
<1>7. CASE ScheduleRetry(w)
  <2>1. At(w, "lost") /\ work[w] \in Work
    BY <1>1, <1>7 DEF ScheduleRetry
  <2>2. PICK new : new = Retried(work[w].attempts)
    OBVIOUS
  <2>3. IsRow(new) /\ Earned(new, work[w].delivery, answered', refused')
    BY <2>1, <2>2, RetriedRow DEF Work
  <2>4. UNCHANGED <<hook, cache, home, queue, answered, refused>>
    BY <1>7 DEF ScheduleRetry, history
  <2>5. work' = [work EXCEPT ![w] = None] /\ Update(work[w].delivery, new)
    BY <1>7, <2>2 DEF ScheduleRetry, Done
  <2> QED
    BY <1>5, <2>1, <2>3, <2>4, <2>5
<1>8. CASE Refuse(w)
  <2>1. At(w, "refuse") /\ work[w] \in Work
    BY <1>1, <1>8 DEF Refuse
  <2>2. PICK d \in Deliveries : d = work[w].delivery
    BY <2>1 DEF Work
  <2>3. PICK new : new = [row[d] EXCEPT !.status = "failed"]
    OBVIOUS
  <2>4. refused' = refused \cup {d}
    BY <1>8, <2>2 DEF Refuse
  <2>5. row[d] # None => IsRow(new) /\ Earned(new, d, answered', refused')
    BY <2>2, <2>3, <2>4 DEF IInv, Typed, IsRow, Earned
  <2>6. UNCHANGED <<hook, cache, home, queue, answered>>
    BY <1>8 DEF Refuse
  <2>7. work' = [work EXCEPT ![w] = None] /\ Update(d, new)
    BY <1>8, <2>2, <2>3 DEF Refuse, Done, Update
  <2> QED
    BY <1>5, <2>1, <2>2, <2>4, <2>5, <2>6, <2>7
<1>9. CASE LoseCall(w)
  <2>1. work[w] \in Work
    BY <1>9 DEF LoseCall, IInv, Typed
  <2>2. UNCHANGED <<hook, cache, row, home, answered, refused>>
    BY <1>9 DEF LoseCall, history
  <2>3. queue' \in [Processes -> SUBSET Deliveries]
    BY <1>9 DEF LoseCall, IInv, Typed
  <2>4. work' = [work EXCEPT ![w] = None] \/ work' = [work EXCEPT ![w].stage = "lost"]
    BY <1>9 DEF LoseCall, Done
  <2>5. PICK next : next = [work[w] EXCEPT !.stage = "lost"]
    OBVIOUS
  <2>6. next \in Work /\ next.stage = "lost"
    BY <2>1, <2>5 DEF Work
  <2>7. work' \in [Workers -> Work \cup {None}] /\ WinsAreAccepted'
    BY <2>2, <2>4, <2>5, <2>6, OneWorker
  <2> QED
    BY <1>2, <2>2, <2>3, <2>7
<1> QED
  BY <1>3, <1>4, <1>6, <1>7, <1>8, <1>9 DEF Attempt

-----------------------------------------------------------------------------
(* Everything else *)

(* Creating, switching and deleting webhooks touches no delivery except to *)
(* remove it.                                                              *)
LEMMA AdministerKeepsOutcomes ==
    ASSUME IInv, NEW p \in Processes, NEW h \in Hooks, Administer(p, h)
    PROVE  IInv'
<1>1. PICK to \in {"active", "inactive", "deleted"} : Change(p, h, to)
  BY DEF Administer, CreateWebhook, SetWebhookActive, DeleteWebhook
<1>2. /\ hook' = [hook EXCEPT ![h] = to] /\ cache' = [cache EXCEPT ![p] = None]
      /\ UNCHANGED <<home, queue, work, answered, refused>>
  BY <1>1 DEF Change
<1>3. row' = row \/ row' = [d \in Deliveries |-> IF HookOf(d) = h THEN None ELSE row[d]]
  BY DEF Administer, CreateWebhook, SetWebhookActive, DeleteWebhook
<1>4. row' = [d \in Deliveries |-> row'[d]]
      /\ \A d \in Deliveries : row'[d] # None => row'[d] = row[d]
  BY <1>3 DEF IInv, Typed
<1>5. /\ OutcomesAreEarned'
      /\ DOMAIN row' = Deliveries /\ row' = [d \in Deliveries |-> row'[d]]
      /\ \A d \in Deliveries : row'[d] # None => IsRow(row'[d])
  BY <1>2, <1>4, RowsWritten
<1>6. WinsAreAccepted'
  BY <1>2 DEF IInv, WinsAreAccepted, At
<1>7. /\ hook' \in [Hooks -> {"none", "active", "inactive", "deleted"}]
      /\ cache' \in [Processes -> {TRUE, FALSE, None}]
  BY <1>2 DEF IInv, Typed
<1> QED
  BY <1>2, <1>5, <1>6, <1>7 DEF IInv, Typed, IsRow

(* An event adds rows that are pending and attempts that have not begun. *)
LEMMA EmitKeepsOutcomes ==
    ASSUME IInv, NEW p \in Processes, NEW e \in Events, Emit(p, e)
    PROVE  IInv'
<1> DEFINE targets == {e} \X Active
           Begun(w) == [delivery |-> w, stage |-> "read", attempts |-> 0]
<1>1. /\ home' = [home EXCEPT ![e] = p] /\ cache' = [cache EXCEPT ![p] = TRUE]
      /\ row' = [d \in Deliveries |-> IF d \in targets THEN NewRow ELSE row[d]]
      /\ work' = [w \in Workers |-> IF w \in targets THEN Begun(w) ELSE work[w]]
      /\ UNCHANGED <<hook, queue, answered, refused>>
  BY DEF Emit, history
<1>2. IsRow(NewRow) /\ \A d : Earned(NewRow, d, answered, refused)
  BY DEF NewRow, IsRow, Earned
<1>3. targets \subseteq Deliveries
  BY DEF Active, Deliveries
<1>4. \A w \in targets : Begun(w) \in Work /\ Begun(w).stage # "won"
  BY <1>3 DEF Work
<1> HIDE DEF targets, Begun
<1>5. row' = [d \in Deliveries |-> row'[d]]
      /\ \A d \in Deliveries : row'[d] # None /\ row'[d] # row[d] =>
            IsRow(row'[d]) /\ Earned(row'[d], d, answered', refused')
  BY <1>1, <1>2
<1>6. /\ OutcomesAreEarned'
      /\ DOMAIN row' = Deliveries /\ row' = [d \in Deliveries |-> row'[d]]
      /\ \A d \in Deliveries : row'[d] # None => IsRow(row'[d])
  BY <1>1, <1>5, RowsWritten
<1>7. work' \in [Workers -> Work \cup {None}] /\ WinsAreAccepted'
  BY <1>1, <1>4 DEF IInv, Typed, WinsAreAccepted, At
<1>8. /\ home' \in [Events -> Processes \cup {None}]
      /\ cache' \in [Processes -> {TRUE, FALSE, None}]
  BY <1>1 DEF IInv, Typed
<1> QED
  BY <1>1, <1>6, <1>7, <1>8 DEF IInv, Typed, IsRow

(* Jobs take deliveries up, processes die and time passes. *)
LEMMA ProcessKeepsOutcomes ==
    ASSUME IInv, NEW p,
           \/ p \in Processes /\ (EmitToNobody(p) \/ StartJob(p) \/ TakeNext(p) \/ Crash(p))
           \/ Tick
    PROVE  IInv'
<1>1. UNCHANGED <<hook, home, answered, refused>>
  BY DEF EmitToNobody, StartJob, TakeNext, Crash, Tick, history
<1>2. cache' \in [Processes -> {TRUE, FALSE, None}]
  BY DEF EmitToNobody, StartJob, TakeNext, Crash, Tick, IInv, Typed
<1>3. queue' \in [Processes -> SUBSET Deliveries]
  <2>1. {d \in Deliveries : Due(d)} \in SUBSET Deliveries
    OBVIOUS
  <2> HIDE DEF Deliveries
  <2> QED
    BY <2>1 DEF EmitToNobody, StartJob, TakeNext, Crash, Tick, IInv, Typed
<1>4. work' \in [Workers -> Work \cup {None}] /\ WinsAreAccepted'
  <2>1. CASE p \in Processes /\ TakeNext(p)
    <3>1. PICK d \in queue[p] : work' = [work EXCEPT ![p] =
                                  [delivery |-> d, stage |-> "read", attempts |-> 0]]
      BY <2>1 DEF TakeNext
    <3>2. d \in Deliveries /\ p \in Workers
      BY <2>1 DEF IInv, Typed, Workers
    <3>3. PICK new : new = [delivery |-> d, stage |-> "read", attempts |-> 0]
      OBVIOUS
    <3>4. new \in Work /\ new.stage # "won"
      BY <3>2, <3>3 DEF Work
    <3> QED
      BY <1>1, <3>1, <3>2, <3>3, <3>4, OneWorker
  <2>2. CASE Crash(p)
    <3>1. \A w \in Workers : work'[w] = None \/ work'[w] = work[w]
      BY <2>2 DEF Crash
    <3>2. work' = [w \in Workers |-> work'[w]]
      BY <2>2 DEF Crash
    <3> QED
      BY <1>1, <3>1, <3>2 DEF IInv, Typed, WinsAreAccepted, At
  <2>3. CASE work' = work
    BY <1>1, <2>3 DEF IInv, Typed, WinsAreAccepted, At
  <2> QED
    BY <2>1, <2>2, <2>3 DEF EmitToNobody, StartJob, Tick
<1>5. row' = [d \in Deliveries |-> row'[d]]
      /\ \A d \in Deliveries : row'[d] # None /\ row'[d] # row[d] =>
            IsRow(row'[d]) /\ Earned(row'[d], d, answered', refused')
  <2>1. CASE row' = row
    BY <2>1 DEF IInv, Typed
  <2>2. CASE Tick
    <3>1. row' = [d \in Deliveries |->
              IF row[d] = None \/ row[d].wait = 0 THEN row[d]
                                                ELSE [row[d] EXCEPT !.wait = @ - 1]]
      BY <2>2 DEF Tick
    <3>2. ASSUME NEW d \in Deliveries, row[d] # None
          PROVE  LET new == [row[d] EXCEPT !.wait = @ - 1]
                 IN IsRow(new) /\ Earned(new, d, answered', refused')
      <4>1. IsRow(row[d]) /\ Earned(row[d], d, answered, refused)
        BY <3>2 DEF IInv, Typed, OutcomesAreEarned, Earned
      <4> QED
        BY <1>1, <4>1 DEF IsRow, Earned
    <3> QED
      BY <3>1, <3>2
  <2> QED
    BY <2>1, <2>2 DEF EmitToNobody, StartJob, TakeNext, Crash
<1>6. /\ OutcomesAreEarned'
      /\ DOMAIN row' = Deliveries /\ row' = [d \in Deliveries |-> row'[d]]
      /\ \A d \in Deliveries : row'[d] # None => IsRow(row'[d])
  BY <1>1, <1>5, RowsWritten
<1> QED
  BY <1>1, <1>2, <1>3, <1>4, <1>6 DEF IInv, Typed, IsRow

(* Whatever runs at the same time, however often a delivery is posted, its *)
(* count overwritten, its webhook switched or a call lost: it says success *)
(* only if the endpoint accepted it, and is given up only when its         *)
(* attempts are used up or its webhook was off (attemptDelivery,           *)
(* scheduleRetry).                                                         *)
THEOREM OutcomesEarned == Spec => []OutcomesAreEarned
<1>1. Init => IInv
  BY DEF Init, IInv, Typed, OutcomesAreEarned, WinsAreAccepted, At
<1>2. IInv /\ [Next]_vars => IInv'
  <2> SUFFICES ASSUME IInv, [Next]_vars PROVE IInv'
    OBVIOUS
  <2>1. CASE UNCHANGED vars
    <3>1. UNCHANGED <<hook, cache, row, home, queue, work, answered, refused>>
      BY <2>1 DEF vars, history
    <3>2. Typed' /\ OutcomesAreEarned'
      BY <3>1 DEF IInv, Typed, IsRow, OutcomesAreEarned
    <3>3. WinsAreAccepted'
      BY <3>1 DEF IInv, WinsAreAccepted, At
    <3> QED
      BY <3>2, <3>3 DEF IInv
  <2>2. CASE Tick
    BY <2>2, ProcessKeepsOutcomes
  <2> QED
    BY <2>1, <2>2, AttemptKeepsOutcomes, AdministerKeepsOutcomes, EmitKeepsOutcomes,
       ProcessKeepsOutcomes
    DEF Next
<1>3. IInv => OutcomesAreEarned
  BY DEF IInv
<1> QED
  BY <1>1, <1>2, <1>3, PTL DEF Spec

-----------------------------------------------------------------------------
(* The cache *)

(* A process that believes that nobody listens is right about everybody    *)
(* who has not changed since the last tick.                                *)
CachesAreFresh == \A p \in Processes : cache[p] = FALSE => Active \cap settled = {}

CacheInv ==
    /\ hook \in [Hooks -> {"none", "active", "inactive", "deleted"}]
    /\ cache \in [Processes -> {TRUE, FALSE, None}]
    /\ NothingMissed /\ CachesAreFresh

LEMMA CachePreserved == CacheInv /\ [Next]_vars => CacheInv'
<1> SUFFICES ASSUME CacheInv, [Next]_vars PROVE CacheInv'
  OBVIOUS
<1>1. ASSUME NEW p \in Processes, NEW h \in Hooks, Administer(p, h) PROVE CacheInv'
  <2>1. PICK to \in {"active", "inactive", "deleted"} : Change(p, h, to)
    BY <1>1 DEF Administer, CreateWebhook, SetWebhookActive, DeleteWebhook
  <2>2. /\ hook' = [hook EXCEPT ![h] = to] /\ cache' = [cache EXCEPT ![p] = None]
        /\ settled' = settled \ {h} /\ missed' = missed
    BY <2>1 DEF Change
  <2>3. (Active \cap settled)' \subseteq Active \cap settled
    BY <2>2 DEF Active, CacheInv
  <2>4. cache' \in [Processes -> {TRUE, FALSE, None}]
        /\ \A q \in Processes : cache'[q] = FALSE => cache[q] = FALSE
    BY <2>2, NullAssumption DEF NullAssumption, CacheInv
  <2> QED
    BY <2>2, <2>3, <2>4 DEF CacheInv, CachesAreFresh, NothingMissed
<1>2. ASSUME NEW p \in Processes, NEW e \in Events, Emit(p, e) PROVE CacheInv'
  BY <1>2 DEF Emit, CacheInv, CachesAreFresh, NothingMissed, Active, history
<1>3. ASSUME NEW p \in Processes, EmitToNobody(p) PROVE CacheInv'
  <2>1. /\ cache' = [cache EXCEPT ![p] = FALSE] /\ hook' = hook /\ settled' = settled
        /\ missed' = missed \cup (Active \cap settled)
    BY <1>3 DEF EmitToNobody
  <2>2. Active \cap settled = {}
    BY <1>3 DEF EmitToNobody, Listened, CacheInv, CachesAreFresh
  <2> QED
    BY <2>1, <2>2 DEF CacheInv, CachesAreFresh, NothingMissed, Active
<1>4. ASSUME NEW p \in Processes, StartJob(p) \/ TakeNext(p) PROVE CacheInv'
  BY <1>4 DEF StartJob, TakeNext, CacheInv, CachesAreFresh, NothingMissed, Active, history
<1>5. ASSUME NEW p \in Processes, Crash(p) PROVE CacheInv'
  BY <1>5, NullAssumption
  DEF NullAssumption, Crash, CacheInv, CachesAreFresh, NothingMissed, Active, history
<1>6. ASSUME NEW w \in Workers, Attempt(w) \/ LoseCall(w) PROVE CacheInv'
  <2>1. UNCHANGED <<hook, cache, settled, missed>>
    BY <1>6 DEF Attempt, ReadDelivery, Post, RecordSuccess, ScheduleRetry, Refuse, LoseCall, history
  <2> QED
    BY <2>1 DEF CacheInv, CachesAreFresh, NothingMissed, Active
<1>7. CASE Tick
  BY <1>7, NullAssumption
  DEF NullAssumption, Tick, CacheInv, CachesAreFresh, NothingMissed, history
<1>8. CASE UNCHANGED vars
  BY <1>8 DEF vars, CacheInv, CachesAreFresh, NothingMissed, Active
<1> QED
  BY <1>1, <1>2, <1>3, <1>4, <1>5, <1>6, <1>7, <1>8 DEF Next

(* No process keeps believing that nobody listens: a webhook that has been *)
(* active since before the last tick misses no event, although only the    *)
(* process that changed it drops its cache (subscribedEvents,              *)
(* emitWebhookEvent).                                                      *)
THEOREM NoEventIsMissed == Spec => []NothingMissed
<1>1. Init => CacheInv
  BY NullAssumption DEF NullAssumption, Init, CacheInv, CachesAreFresh, NothingMissed
<1>2. CacheInv => NothingMissed
  BY DEF CacheInv
<1> QED
  BY <1>1, <1>2, CachePreserved, PTL DEF Spec

(* Every step of the services is a step of each, or leaves it as it is. *)
LEMMA EachServiceSteps ==
    ASSUME [ServicesNext]_services
    PROVE  /\ UNCHANGED focus
           /\ [Hub!Next]_hubvars
           /\ [Content!Next]_contentvars
           /\ [Day!Next]_dayvars
           /\ [Checks!Next]_checkvars
           /\ [Remind!Next]_remindervars
           /\ [Files!Next]_filevars
           /\ [Recur!Next]_recurrencevars
           /\ [Confirm!Next]_confirmationvars
           /\ [Spend!Next]_spendvars
           /\ [Once!Next]_oncevars
           /\ [Design!Next]_designvars
           /\ [Told!Next]_inboxvars
           /\ [Jobs!Next]_cronvars
           /\ [Limits!Next]_limitvars
BY DEF ServicesNext, services

(* A set of naturals that is not empty has a least element. *)
LEMMA LeastNatural ==
    ASSUME NEW S, S \subseteq Nat, S # {}
    PROVE  \E n \in S : \A m \in S : n <= m
<1>1. PICK R : R = OpToRel(<, Nat)
  OBVIOUS
<1>2. IsWellFoundedOn(R, Nat)
  BY <1>1, NatLessThanWellFounded
<1>3. PICK n \in S : \A m \in S : <<m, n>> \notin R
  BY <1>2, WFMin
<1>4. \A m \in S : ~(m < n)
  BY <1>1, <1>3 DEF OpToRel
<1> QED
  BY <1>4

(* A set of which any two elements are equal has one at most. *)
LEMMA AtMostOne ==
    ASSUME NEW S, \A j, k \in S : j = k
    PROVE  Cardinality(S) <= 1
<1>1. CASE S = {}
  BY <1>1, FS_EmptySet
<1>2. CASE S # {}
  <2>1. PICK x : S = {x}
    BY <1>2
  <2>2. Cardinality({x}) = 1
    BY FS_Singleton
  <2> QED
    BY <2>1, <2>2
<1> QED
  BY <1>1, <1>2

-----------------------------------------------------------------------------
(* Sums over finite sets, as the recursions of the operators that fold     *)
(* them compute them                                                       *)

(* A set of naturals that holds 0 and the successors of its elements holds *)
(* all of them.                                                            *)
LEMMA AllNaturals ==
    ASSUME NEW S, 0 \in S, \A n \in Nat : n \in S => n + 1 \in S
    PROVE  \A n \in Nat : n \in S
<1> SUFFICES ASSUME NEW n \in Nat, n \notin S PROVE FALSE
  OBVIOUS
<1>1. PICK least \in Nat \ S : \A m \in Nat \ S : least <= m
  BY LeastNatural
<1>2. least - 1 \in Nat
  BY <1>1
<1>3. least - 1 \in S
  BY <1>1, <1>2
<1> QED
  BY <1>1, <1>2, <1>3

-----------------------------------------------------------------------------
(* The recursion *)

(* The element that the recursion takes away first. *)
First(s) == CHOOSE x \in s : TRUE

(* The sums over the subsets of S, as the recursion has them. *)
SumsOver(f, S, g) ==
    g = [s \in SUBSET S |-> IF s = {} THEN 0 ELSE f[First(s)] + g[s \ {First(s)}]]

(* ... over those with up to n elements. *)
UpTo(S, n) == {s \in SUBSET S : Cardinality(s) <= n}

(* ... and the recursion over these. *)
SumsUpTo(f, S, n, g) ==
    g = [s \in UpTo(S, n) |-> IF s = {} THEN 0 ELSE f[First(s)] + g[s \ {First(s)}]]

(* What is left of a finite set has one element less. *)
LEMMA Rest ==
    ASSUME NEW S, IsFiniteSet(S), NEW s \in SUBSET S, s # {}
    PROVE  /\ First(s) \in s /\ s \ {First(s)} \in SUBSET S
           /\ IsFiniteSet(s) /\ Cardinality(s) \in Nat
           /\ Cardinality(s \ {First(s)}) = Cardinality(s) - 1
           /\ Cardinality(s) # 0
<1>1. First(s) \in s
  BY DEF First
<1>2. IsFiniteSet(s) /\ Cardinality(s) \in Nat
  BY FS_Subset, FS_CardinalityType
<1>3. Cardinality(s \ {First(s)}) = Cardinality(s) - 1
  BY <1>1, <1>2, FS_RemoveElement
<1>4. Cardinality(s) # 0
  BY <1>2, FS_EmptySet
<1> QED
  BY <1>1, <1>2, <1>3, <1>4

(* The recursion is well defined. *)
LEMMA SumsExist ==
    ASSUME NEW f, NEW S, IsFiniteSet(S)
    PROVE  \E g : SumsOver(f, S, g)
<1> DEFINE Fine == {n \in Nat : \E g : SumsUpTo(f, S, n, g)}
<1>a. \A s \in SUBSET S : Cardinality(s) \in Nat /\ (Cardinality(s) = 0 <=> s = {})
  BY FS_Subset, FS_CardinalityType, FS_EmptySet
<1>1. 0 \in Fine
  <2>1. PICK g : g = [s \in UpTo(S, 0) |-> 0]
    OBVIOUS
  <2>2. \A s \in UpTo(S, 0) : s = {}
    BY <1>a DEF UpTo
  <2>3. g = [s \in UpTo(S, 0) |-> IF s = {} THEN 0 ELSE f[First(s)] + g[s \ {First(s)}]]
    BY <2>1, <2>2
  <2> QED
    BY <2>3 DEF SumsUpTo
<1>2. ASSUME NEW n \in Nat, n \in Fine PROVE n + 1 \in Fine
  <2>1. PICK g : SumsUpTo(f, S, n, g)
    BY <1>2
  <2>2. PICK h : h = [s \in UpTo(S, n + 1) |->
                         IF s = {} THEN 0 ELSE f[First(s)] + g[s \ {First(s)}]]
    OBVIOUS
  <2>3. \A s \in UpTo(S, n) : s \in UpTo(S, n + 1) /\ h[s] = g[s]
    <3>1. \A s \in UpTo(S, n) : s \in UpTo(S, n + 1)
      BY <1>a DEF UpTo
    <3>2. \A s \in UpTo(S, n) :
             g[s] = IF s = {} THEN 0 ELSE f[First(s)] + g[s \ {First(s)}]
      BY <2>1 DEF SumsUpTo
    <3> QED
      BY <2>2, <3>1, <3>2
  <2>4. \A s \in UpTo(S, n + 1) : s # {} => s \ {First(s)} \in UpTo(S, n)
    BY <1>a, Rest DEF UpTo
  <2>5. h = [s \in UpTo(S, n + 1) |->
                IF s = {} THEN 0 ELSE f[First(s)] + h[s \ {First(s)}]]
    BY <2>2, <2>3, <2>4
  <2>6. SumsUpTo(f, S, n + 1, h)
    BY <2>5 DEF SumsUpTo
  <2>7. \E k : SumsUpTo(f, S, n + 1, k)
    BY <2>6
  <2> QED
    BY <2>7
<1>3. Cardinality(S) \in Fine
  <2> HIDE DEF Fine
  <2> QED
    BY <1>1, <1>2, AllNaturals, FS_CardinalityType
<1>4. UpTo(S, Cardinality(S)) = SUBSET S
  BY FS_Subset DEF UpTo
<1> QED
  BY <1>3, <1>4 DEF SumsUpTo, SumsOver

(* The recursion adds up the same whatever set it is started from, and     *)
(* whatever else the functions hold.                                       *)
LEMMA SumsAgree ==
    ASSUME NEW f, NEW e, NEW S, IsFiniteSet(S), NEW T \in SUBSET S,
           NEW g, SumsOver(f, S, g), NEW h, SumsOver(e, T, h),
           \A x \in T : f[x] = e[x]
    PROVE  \A s \in SUBSET T : g[s] = h[s]
<1> DEFINE Same == {n \in Nat : \A s \in SUBSET T : Cardinality(s) = n => g[s] = h[s]}
<1>a. \A s \in SUBSET T : Cardinality(s) \in Nat /\ (Cardinality(s) = 0 <=> s = {})
  BY FS_Subset, FS_CardinalityType, FS_EmptySet
<1>b. \A s \in SUBSET T :
         /\ g[s] = IF s = {} THEN 0 ELSE f[First(s)] + g[s \ {First(s)}]
         /\ h[s] = IF s = {} THEN 0 ELSE e[First(s)] + h[s \ {First(s)}]
  BY DEF SumsOver
<1>1. 0 \in Same
  BY <1>a, <1>b
<1>2. ASSUME NEW n \in Nat, n \in Same PROVE n + 1 \in Same
  <2> SUFFICES ASSUME NEW s \in SUBSET T, Cardinality(s) = n + 1 PROVE g[s] = h[s]
    OBVIOUS
  <2>1. s # {}
    BY <1>a
  <2>2. IsFiniteSet(T)
    BY FS_Subset
  <2>3. First(s) \in T /\ s \ {First(s)} \in SUBSET T
        /\ Cardinality(s \ {First(s)}) = n
    BY <2>1, <2>2, Rest
  <2>4. g[s \ {First(s)}] = h[s \ {First(s)}]
    BY <1>2, <2>3
  <2> QED
    BY <1>b, <2>1, <2>3, <2>4
<1>3. \A n \in Nat : n \in Same
  <2> HIDE DEF Same
  <2> QED
    BY <1>1, <1>2, AllNaturals
<1> QED
  BY <1>a, <1>3

(* The sum of a function over a set. *)
Sum(f, S) == (CHOOSE g : SumsOver(f, S, g))[S]

(* The sum is that of some recursion over the subsets. *)
LEMMA SumIsOver ==
    ASSUME NEW f, NEW S, IsFiniteSet(S)
    PROVE  \E g : SumsOver(f, S, g) /\ Sum(f, S) = g[S]
<1>1. PICK r : r = CHOOSE g : SumsOver(f, S, g)
  OBVIOUS
<1>2. SumsOver(f, S, r)
  BY <1>1, SumsExist
<1> QED
  BY <1>1, <1>2 DEF Sum

(* Whatever satisfies the recursion has the sum. *)
LEMMA SumOfRecursion ==
    ASSUME NEW f, NEW S, IsFiniteSet(S), NEW r, SumsOver(f, S, r)
    PROVE  r[S] = Sum(f, S)
<1>1. PICK g : SumsOver(f, S, g) /\ Sum(f, S) = g[S]
  BY SumIsOver
<1>2. PICK T : T = S
  OBVIOUS
<1>3. PICK e : e = f
  OBVIOUS
<1>4. \A s \in SUBSET T : r[s] = g[s]
  <2>1. T \in SUBSET S /\ SumsOver(e, T, g) /\ \A x \in T : f[x] = e[x]
    BY <1>1, <1>2, <1>3
  <2>2. SumsOver(f, S, r) /\ IsFiniteSet(S)
    OBVIOUS
  <2>3. PICK U : U = S
    OBVIOUS
  <2>4. SumsOver(f, U, r) /\ IsFiniteSet(U) /\ T \in SUBSET U
    BY <2>1, <2>2, <2>3
  <2> QED
    BY <2>1, <2>4, SumsAgree, Z3T(60)
<1> QED
  BY <1>1, <1>2, <1>4

-----------------------------------------------------------------------------
(* Sums *)

(* The sum over no elements is 0; over some, it is the value of the first  *)
(* element and the sum over the others.                                    *)
LEMMA SumFirst ==
    ASSUME NEW f, NEW S, IsFiniteSet(S)
    PROVE  Sum(f, S) =
              IF S = {} THEN 0
              ELSE f[First(S)] + Sum(f, S \ {First(S)})
<1>1. PICK g : SumsOver(f, S, g) /\ Sum(f, S) = g[S]
  BY SumIsOver
<1>2. g[S] = IF S = {} THEN 0 ELSE f[First(S)] + g[S \ {First(S)}]
  BY <1>1 DEF SumsOver
<1>3. PICK T : T = S \ {First(S)}
  OBVIOUS
<1>4. T \in SUBSET S /\ IsFiniteSet(T)
  BY <1>3, FS_Subset
<1>5. PICK h : SumsOver(f, T, h) /\ Sum(f, T) = h[T]
  BY <1>4, SumIsOver
<1>6. \A s \in SUBSET T : g[s] = h[s]
  BY <1>1, <1>4, <1>5, SumsAgree
<1>7. g[T] = h[T]
  BY <1>6
<1> QED
  BY <1>1, <1>2, <1>3, <1>5, <1>7

(* Functions that agree on a set have the same sum over it. *)
LEMMA SumSame ==
    ASSUME NEW f, NEW e, NEW S, IsFiniteSet(S), \A x \in S : f[x] = e[x]
    PROVE  Sum(f, S) = Sum(e, S)
<1>1. PICK g : SumsOver(f, S, g) /\ Sum(f, S) = g[S]
  BY SumIsOver
<1>2. PICK h : SumsOver(e, S, h) /\ Sum(e, S) = h[S]
  BY SumIsOver
<1>3. PICK T : T = S
  OBVIOUS
<1>4. \A s \in SUBSET S : g[s] = h[s]
  <2>1. T \in SUBSET S /\ SumsOver(e, T, h) /\ \A x \in T : f[x] = e[x]
    BY <1>2, <1>3
  <2>2. \A s \in SUBSET T : g[s] = h[s]
    BY <1>1, <2>1, SumsAgree
  <2> QED
    BY <1>3, <2>2
<1>5. g[S] = h[S]
  BY <1>4
<1> QED
  BY <1>1, <1>2, <1>5

(* A set that holds 0 and is closed under addition holds the sums of its   *)
(* elements.                                                               *)
LEMMA SumType ==
    ASSUME NEW D, 0 \in D, \A a \in D : \A b \in D : a + b \in D,
           NEW f, NEW S, IsFiniteSet(S), \A x \in S : f[x] \in D
    PROVE  Sum(f, S) \in D
<1> DEFINE Fine == {n \in Nat : \A s \in SUBSET S :
                       Cardinality(s) = n => Sum(f, s) \in D}
<1>a. \A s \in SUBSET S : /\ IsFiniteSet(s) /\ Cardinality(s) \in Nat
                           /\ (Cardinality(s) = 0 <=> s = {})
  BY FS_Subset, FS_CardinalityType, FS_EmptySet
<1>1. 0 \in Fine
  <2>1. Sum(f, {}) = 0
    BY SumFirst, FS_EmptySet
  <2> QED
    BY <1>a, <2>1
<1>2. ASSUME NEW n \in Nat, n \in Fine PROVE n + 1 \in Fine
  <2> SUFFICES ASSUME NEW s \in SUBSET S, Cardinality(s) = n + 1
               PROVE  Sum(f, s) \in D
    OBVIOUS
  <2>1. s # {} /\ IsFiniteSet(s)
    BY <1>a
  <2>2. Sum(f, s) = f[First(s)] + Sum(f, s \ {First(s)})
    BY <2>1, SumFirst
  <2>3. First(s) \in S /\ s \ {First(s)} \in SUBSET S
        /\ Cardinality(s \ {First(s)}) = n
    BY <2>1, Rest
  <2>4. Sum(f, s \ {First(s)}) \in D
    BY <1>2, <2>3
  <2> QED
    BY <2>2, <2>3, <2>4
<1>3. Cardinality(S) \in Fine
  <2> HIDE DEF Fine
  <2> QED
    BY <1>1, <1>2, AllNaturals, FS_CardinalityType
<1> QED
  BY <1>3

(* The sum over any other order: each element may be taken away first. *)
LEMMA SumRemove ==
    ASSUME NEW f, NEW S, IsFiniteSet(S), \A x \in S : f[x] \in Int
    PROVE  /\ Sum(f, S) \in Int
           /\ \A x \in S : Sum(f, S) = f[x] + Sum(f, S \ {x})
<1> DEFINE Good(s) == /\ Sum(f, s) \in Int
                      /\ \A x \in s : Sum(f, s) =
                                          f[x] + Sum(f, s \ {x})
           Fine == {n \in Nat : \A s \in SUBSET S : Cardinality(s) = n => Good(s)}
<1>a. \A s \in SUBSET S : /\ IsFiniteSet(s) /\ Cardinality(s) \in Nat
                           /\ (Cardinality(s) = 0 <=> s = {})
  BY FS_Subset, FS_CardinalityType, FS_EmptySet
<1>b. \A s \in SUBSET S : \A x \in s :
         s \ {x} \in SUBSET S /\ Cardinality(s \ {x}) = Cardinality(s) - 1
  <2> TAKE s \in SUBSET S
  <2> TAKE x \in s
  <2>1. IsFiniteSet(s)
    BY <1>a
  <2> QED
    BY <2>1, FS_RemoveElement
<1>1. 0 \in Fine
  <2>1. Sum(f, {}) = 0
    BY SumFirst, FS_EmptySet
  <2>2. Good({})
    BY <2>1
  <2> QED
    BY <1>a, <2>2
<1>2. ASSUME NEW n \in Nat, n \in Fine PROVE n + 1 \in Fine
  <2> SUFFICES ASSUME NEW s \in SUBSET S, Cardinality(s) = n + 1 PROVE Good(s)
    OBVIOUS
  <2>1. PICK a : a = First(s)
    OBVIOUS
  <2>2. s # {} /\ a \in s
    BY <1>a, <2>1 DEF First
  <2>3. PICK t : t = s \ {a}
    OBVIOUS
  <2>4. Sum(f, s) = f[a] + Sum(f, t)
    BY <1>a, <2>1, <2>2, <2>3, SumFirst
  <2>5. t \in SUBSET S /\ Cardinality(t) = n
    BY <1>b, <2>2, <2>3
  <2>6. Good(t)
    BY <1>2, <2>5
  <2>7. ASSUME NEW x \in s
        PROVE  Sum(f, s) = f[x] + Sum(f, s \ {x})
    <3>1. CASE x = a
      BY <2>3, <2>4, <3>1
    <3>2. CASE x # a
      <4>1. PICK u : u = s \ {x}
        OBVIOUS
      <4>2. u \in SUBSET S /\ Cardinality(u) = n /\ a \in u
        BY <1>b, <2>2, <3>2, <4>1
      <4>3. Good(u)
        BY <1>2, <4>2
      <4>4. Sum(f, u) = f[a] + Sum(f, u \ {a})
        BY <4>2, <4>3
      <4>5. x \in t /\ t \ {x} = u \ {a}
        BY <2>3, <3>2, <4>1
      <4>6. Sum(f, t) = f[x] + Sum(f, t \ {x})
        BY <2>6, <4>5
      <4>7. u \ {a} \in SUBSET S /\ Cardinality(u \ {a}) = n - 1 /\ n - 1 \in Nat
        BY <1>a, <1>b, <4>2
      <4>8. Sum(f, u) \in Int /\ f[a] \in Int /\ f[x] \in Int
        BY <2>2, <4>3
      <4>9. Sum(f, u \ {a}) \in Int
        <5>1. \A y \in u \ {a} : f[y] \in Int
          BY <4>7
        <5>2. IsFiniteSet(u \ {a})
          BY <1>a, <4>7
        <5> QED
          BY <5>1, <5>2, SumType
      <4>10. PICK w : w = Sum(f, u \ {a})
        OBVIOUS
      <4>11. Sum(f, t) = f[x] + w
        BY <4>5, <4>6, <4>10
      <4>12. Sum(f, u) = f[a] + w
        BY <4>4, <4>10
      <4>13. f[a] + (f[x] + w) = f[x] + (f[a] + w)
        BY <4>8, <4>9, <4>10
      <4>14. Sum(f, s) = f[x] + Sum(f, u)
        BY <2>4, <4>11, <4>12, <4>13
      <4> QED
        BY <4>1, <4>14
    <3> QED
      BY <3>1, <3>2
  <2> QED
    BY <2>2, <2>4, <2>6, <2>7
<1>3. Cardinality(S) \in Fine
  <2> HIDE DEF Fine
  <2> QED
    BY <1>1, <1>2, AllNaturals, FS_CardinalityType
<1> QED
  BY <1>3

(* Sums of integers, and of naturals. *)
LEMMA SumInt ==
    ASSUME NEW f, NEW S, IsFiniteSet(S), \A x \in S : f[x] \in Int
    PROVE  Sum(f, S) \in Int
  BY SumRemove

(* Naturals add up to a natural. *)
LEMMA SumNat ==
    ASSUME NEW f, NEW S, IsFiniteSet(S), \A x \in S : f[x] \in Nat
    PROVE  Sum(f, S) \in Nat
<1>1. 0 \in Nat /\ \A a \in Nat : \A b \in Nat : a + b \in Nat
  OBVIOUS
<1> QED
  BY <1>1, SumType

(* A sum of naturals is at least each of them. *)
LEMMA SumAtLeast ==
    ASSUME NEW f, NEW S, IsFiniteSet(S), \A x \in S : f[x] \in Nat, NEW x \in S
    PROVE  f[x] <= Sum(f, S)
<1>1. IsFiniteSet(S \ {x}) /\ \A y \in S : f[y] \in Int
  BY FS_Subset
<1>2. Sum(f, S) = f[x] + Sum(f, S \ {x})
  BY <1>1, SumRemove
<1>3. Sum(f, S \ {x}) \in Nat
  BY <1>1, SumNat
<1> QED
  BY <1>2, <1>3

(* Zeros add up to zero. *)
LEMMA SumZero ==
    ASSUME NEW f, NEW S, IsFiniteSet(S), \A x \in S : f[x] = 0
    PROVE  Sum(f, S) = 0
<1>1. PICK D : D = {0}
  OBVIOUS
<1>2. Sum(f, S) \in D
  BY <1>1, SumType
<1> QED
  BY <1>1, <1>2

(* Changing the value at one element changes the sum by as much. *)
LEMMA SumChange ==
    ASSUME NEW f, NEW e, NEW S, IsFiniteSet(S), NEW x \in S,
           \A y \in S : f[y] \in Int /\ e[y] \in Int,
           \A y \in S \ {x} : e[y] = f[y]
    PROVE  Sum(e, S) = Sum(f, S) + (e[x] - f[x])
<1>1. IsFiniteSet(S \ {x})
  BY FS_Subset
<1>2. Sum(e, S \ {x}) = Sum(f, S \ {x})
  BY <1>1, SumSame
<1>3. Sum(f, S \ {x}) \in Int
  BY <1>1, SumInt
<1>4. Sum(f, S) = f[x] + Sum(f, S \ {x})
  BY SumRemove
<1>5. Sum(e, S) = e[x] + Sum(e, S \ {x})
  BY SumRemove
<1> QED
  BY <1>2, <1>3, <1>4, <1>5

(* A sum over one more element. *)
LEMMA SumAdd ==
    ASSUME NEW f, NEW S, IsFiniteSet(S), NEW x, x \notin S,
           f[x] \in Int, \A y \in S : f[y] \in Int
    PROVE  Sum(f, S \cup {x}) = Sum(f, S) + f[x]
<1>1. PICK T : T = S \cup {x}
  OBVIOUS
<1>2. IsFiniteSet(T)
  BY <1>1, FS_AddElement
<1>3. T \ {x} = S /\ x \in T /\ \A y \in T : f[y] \in Int
  BY <1>1
<1>4. Sum(f, T) = f[x] + Sum(f, T \ {x})
  BY <1>2, <1>3, SumRemove
<1>5. Sum(f, S) \in Int
  BY SumInt
<1>6. Sum(f, T) = f[x] + Sum(f, S)
  BY <1>3, <1>4
<1>7. f[x] + Sum(f, S) = Sum(f, S) + f[x]
  BY <1>5
<1> QED
  BY <1>1, <1>6, <1>7

(* A sum over two sets that have no element in common. *)
LEMMA SumUnion ==
    ASSUME NEW f, NEW S, IsFiniteSet(S), NEW T, IsFiniteSet(T), S \cap T = {},
           \A x \in S \cup T : f[x] \in Int
    PROVE  Sum(f, S \cup T) = Sum(f, S) + Sum(f, T)
<1> DEFINE Fine == {n \in Nat : \A s \in SUBSET T : Cardinality(s) = n =>
                       Sum(f, S \cup s) = Sum(f, S) + Sum(f, s)}
<1>a. \A s \in SUBSET T : /\ IsFiniteSet(s) /\ Cardinality(s) \in Nat
                           /\ (Cardinality(s) = 0 <=> s = {})
  BY FS_Subset, FS_CardinalityType, FS_EmptySet
<1>b. Sum(f, S) \in Int
  BY SumInt
<1>1. 0 \in Fine
  <2>1. Sum(f, {}) = 0
    BY SumFirst, FS_EmptySet
  <2>2. S \cup {} = S
    OBVIOUS
  <2>3. Sum(f, S \cup {}) = Sum(f, S) + Sum(f, {})
    BY <1>b, <2>1, <2>2
  <2> QED
    BY <1>a, <2>3
<1>2. ASSUME NEW n \in Nat, n \in Fine PROVE n + 1 \in Fine
  <2> SUFFICES ASSUME NEW s \in SUBSET T, Cardinality(s) = n + 1
               PROVE  Sum(f, S \cup s) = Sum(f, S) + Sum(f, s)
    OBVIOUS
  <2>1. s # {} /\ IsFiniteSet(s)
    BY <1>a
  <2>2. PICK a : a = First(s)
    OBVIOUS
  <2>3. PICK t : t = s \ {a}
    OBVIOUS
  <2>4. a \in s /\ t \in SUBSET T /\ Cardinality(t) = n /\ IsFiniteSet(t)
    BY <1>a, <2>1, <2>2, <2>3, Rest
  <2>5. PICK u : u = S \cup t
    OBVIOUS
  <2>6. Sum(f, u) = Sum(f, S) + Sum(f, t)
    BY <1>2, <2>4, <2>5
  <2>7. IsFiniteSet(u) /\ a \notin u /\ f[a] \in Int /\ \A y \in u : f[y] \in Int
    <3>1. IsFiniteSet(u)
      BY <2>4, <2>5, FS_Union
    <3> QED
      BY <2>3, <2>4, <2>5, <3>1
  <2>8. Sum(f, u \cup {a}) = Sum(f, u) + f[a]
    BY <2>7, SumAdd
  <2>9. u \cup {a} = S \cup s
    BY <2>3, <2>4, <2>5
  <2>10. Sum(f, t \cup {a}) = Sum(f, t) + f[a]
    <3>1. a \notin t /\ \A y \in t : f[y] \in Int
      BY <2>3, <2>4
    <3> QED
      BY <2>4, <2>7, <3>1, SumAdd
  <2>11. t \cup {a} = s
    BY <2>3, <2>4
  <2>12. Sum(f, t) \in Int
    <3>1. \A y \in t : f[y] \in Int
      BY <2>4
    <3> QED
      BY <2>4, <3>1, SumInt
  <2>13. Sum(f, S \cup s) = (Sum(f, S) + Sum(f, t)) + f[a]
    BY <2>6, <2>8, <2>9
  <2>14. Sum(f, s) = Sum(f, t) + f[a]
    BY <2>10, <2>11
  <2>15. (Sum(f, S) + Sum(f, t)) + f[a] = Sum(f, S) + (Sum(f, t) + f[a])
    BY <1>b, <2>7, <2>12
  <2> QED
    BY <2>13, <2>14, <2>15
<1>3. Cardinality(T) \in Fine
  <2> HIDE DEF Fine
  <2> QED
    BY <1>1, <1>2, AllNaturals, FS_CardinalityType
<1> QED
  BY <1>3

(* Sums add up element by element. *)
LEMMA SumPlus ==
    ASSUME NEW f, NEW e, NEW g, NEW S, IsFiniteSet(S),
           \A x \in S : f[x] \in Int /\ e[x] \in Int /\ g[x] = f[x] + e[x]
    PROVE  Sum(g, S) = Sum(f, S) + Sum(e, S)
<1> DEFINE Fine == {n \in Nat : \A s \in SUBSET S : Cardinality(s) = n =>
                       Sum(g, s) =
                           Sum(f, s) + Sum(e, s)}
<1>a. \A s \in SUBSET S : /\ IsFiniteSet(s) /\ Cardinality(s) \in Nat
                           /\ (Cardinality(s) = 0 <=> s = {})
  BY FS_Subset, FS_CardinalityType, FS_EmptySet
<1>1. 0 \in Fine
  <2>1. /\ Sum(f, {}) = 0 /\ Sum(e, {}) = 0
        /\ Sum(g, {}) = 0
    BY SumFirst, FS_EmptySet
  <2>2. \A s \in SUBSET S : Cardinality(s) = 0 => s = {}
    BY <1>a
  <2>3. Sum(g, {}) = Sum(f, {}) + Sum(e, {})
    BY <2>1
  <2> QED
    BY <2>2, <2>3
<1>2. ASSUME NEW n \in Nat, n \in Fine PROVE n + 1 \in Fine
  <2> SUFFICES ASSUME NEW s \in SUBSET S, Cardinality(s) = n + 1
               PROVE  Sum(g, s) =
                          Sum(f, s) + Sum(e, s)
    OBVIOUS
  <2>1. s # {} /\ IsFiniteSet(s)
    BY <1>a
  <2>2. PICK a : a = First(s)
    OBVIOUS
  <2>3. PICK t : t = s \ {a}
    OBVIOUS
  <2>4. a \in S /\ t \in SUBSET S /\ Cardinality(t) = n /\ IsFiniteSet(t)
    <3>1. /\ First(s) \in s /\ s \ {First(s)} \in SUBSET S
          /\ Cardinality(s \ {First(s)}) = Cardinality(s) - 1
      BY <2>1, Rest
    <3> QED
      BY <1>a, <2>2, <2>3, <3>1
  <2>5. Sum(f, s) = f[a] + Sum(f, t)
    BY <2>1, <2>2, <2>3, SumFirst
  <2>6. Sum(e, s) = e[a] + Sum(e, t)
    BY <2>1, <2>2, <2>3, SumFirst
  <2>7. Sum(g, s) = g[a] + Sum(g, t)
    BY <2>1, <2>2, <2>3, SumFirst
  <2>8. Sum(g, t) = Sum(f, t) + Sum(e, t)
    BY <1>2, <2>4
  <2>9. Sum(f, t) \in Int /\ Sum(e, t) \in Int
    BY <2>4, SumInt
  <2> QED
    BY <2>4, <2>5, <2>6, <2>7, <2>8, <2>9
<1>3. Cardinality(S) \in Fine
  <2> HIDE DEF Fine
  <2> QED
    BY <1>1, <1>2, AllNaturals, FS_CardinalityType
<1> QED
  BY <1>3

(* A sum over one more index. *)
LEMMA SumNext ==
    ASSUME NEW n \in Nat, NEW f, \A k \in 1 .. n + 1 : f[k] \in Int
    PROVE  Sum(f, 1 .. n + 1) = Sum(f, 1 .. n) + f[n + 1]
<1>1. PICK S : S = 1 .. n
  OBVIOUS
<1>2. PICK T : T = 1 .. n + 1
  OBVIOUS
<1>3. PICK x : x = n + 1
  OBVIOUS
<1>4. IsFiniteSet(S)
  BY <1>1, FS_Interval
<1>5. T = S \cup {x} /\ x \notin S /\ f[x] \in Int /\ \A y \in S : f[y] \in Int
  BY <1>1, <1>2, <1>3
<1>6. Sum(f, S \cup {x}) = Sum(f, S) + f[x]
  BY <1>4, <1>5, SumAdd
<1> QED
  BY <1>1, <1>2, <1>3, <1>5, <1>6

-----------------------------------------------------------------------------
(* Attendance *)

DayConstants ==
    /\ MaxMinute \in Nat
    /\ Null \notin AttendanceRow \cup CorrectionRow \cup ClockCall \cup DecideCall

BreakEvent == [type : {"break_start", "break_end"}, at : Nat]

DayType ==
    /\ minute \in Nat
    /\ attendance \in {Null} \cup AttendanceRow
    /\ events \in Seq(BreakEvent)
    /\ correction \in [Corrections -> {Null} \cup CorrectionRow]
    /\ visit \in [Callers -> {Null} \cup ClockCall \cup DecideCall]
    /\ overlapped \in BOOLEAN /\ amended \in BOOLEAN
    /\ adjusted \in Nat \X Nat /\ adjusted[2] <= Len(events)

(* A break that ended had begun with the event before, and no later than   *)
(* now.                                                                    *)
EventsStand(ev, now) ==
    \A i \in 1 .. Len(ev) : ev[i].at <= now /\ (ev[i].type = "break_end" => i > 1)

(* What a call of some kind has found. *)
VisitStands(v, rec, ev) ==
    v \in ClockCall =>
        /\ v.record # Null => rec # Null
        /\ v.op = "checkIn" => v.record = Null \/ v.record.actualStart = Null
        /\ v.op # "checkIn" => v.record # Null /\ v.record.actualStart # Null
        /\ v.op = "endBreak" =>
              /\ v.record.actualEnd = Null
              /\ v.count \in 1 .. Len(ev) /\ ev[v.count].type = "break_start"
              /\ v.lastStart = ev[v.count].at

LengthAt(ev, i) == ev[i].at - ev[i - 1].at

Lengths(ev) == [i \in 1 .. Len(ev) |-> LengthAt(ev, i)]

EndedIn(ev, from) == {i \in from + 1 .. Len(ev) : ev[i].type = "break_end"}

(* The breaks that ended after some event. *)
Lengthened(ev, from) == Sum(Lengths(ev), EndedIn(ev, from))

DayInv ==
    /\ DayType /\ EventsStand(events, minute)
    /\ \A c \in Callers : VisitStands(visit[c], attendance, events)
    /\ \A c \in Callers : visit[c] \in DecideCall => correction[visit[c].correction] # Null
    /\ attendance = Null => events = <<>> /\ adjusted = <<0, 0>>
    /\ ~overlapped =>
          /\ attendance # Null =>
                attendance.breakMinutes = adjusted[1] + Lengthened(events, adjusted[2])
          /\ attendance # Null /\ attendance.actualEnd # Null /\ ~amended =>
                /\ attendance.actualStart # Null
                /\ attendance.totalWorkedMinutes =
                      Day!Mins(Day!Mins(attendance.actualEnd, attendance.actualStart),
                               attendance.breakMinutes)
          /\ Day!DecisionsAreKept

(* What the property adds up by a fold is that sum. *)
LEMMA BreaksAreSum ==
    ASSUME events \in Seq(BreakEvent), NEW from \in Nat
    PROVE  Day!BreakLengths(from) = Lengthened(events, from)
<1>1. PICK f : f = Lengths(events)
  OBVIOUS
<1>2. PICK T : T = Day!Ended(from)
  OBVIOUS
<1>3. T = EndedIn(events, from) /\ T \in SUBSET (1 .. Len(events)) /\ IsFiniteSet(T)
  <2>1. T = EndedIn(events, from) /\ T \in SUBSET (1 .. Len(events))
    BY <1>2 DEF Day!Ended, EndedIn
  <2>2. IsFiniteSet(1 .. Len(events))
    BY FS_Interval
  <2> QED
    BY <2>1, <2>2, FS_Subset
<1>4. PICK r : r = CHOOSE g : g = [s \in SUBSET T |->
        IF s = {} THEN 0
        ELSE LengthAt(events, CHOOSE x \in s : TRUE)
             + g[s \ {CHOOSE x \in s : TRUE}]]
  OBVIOUS
<1>5. Day!BreakLengths(from) = r[T]
  BY <1>2, <1>4 DEF Day!BreakLengths, Day!MapThenSumSet, Day!MapThenFoldSet, LengthAt
<1>6. \A s \in SUBSET T : s # {} =>
         f[First(s)] = LengthAt(events, CHOOSE x \in s : TRUE)
  <2> TAKE s \in SUBSET T
  <2> SUFFICES ASSUME s # {}
               PROVE  f[First(s)] = LengthAt(events, CHOOSE x \in s : TRUE)
    OBVIOUS
  <2>1. PICK i : i = First(s)
    OBVIOUS
  <2>2. i \in 1 .. Len(events) /\ i = CHOOSE x \in s : TRUE
    BY <1>3, <2>1 DEF First
  <2>3. f[i] = LengthAt(events, i)
    BY <1>1, <2>2 DEF Lengths
  <2> QED
    BY <2>1, <2>2, <2>3
<1>7. PICK h : SumsOver(f, T, h)
  BY <1>3, SumsExist
<1>8. h = [s \in SUBSET T |->
        IF s = {} THEN 0
        ELSE LengthAt(events, CHOOSE x \in s : TRUE)
             + h[s \ {CHOOSE x \in s : TRUE}]]
  BY <1>6, <1>7 DEF SumsOver, First
<1>9. r = [s \in SUBSET T |->
        IF s = {} THEN 0
        ELSE LengthAt(events, CHOOSE x \in s : TRUE)
             + r[s \ {CHOOSE x \in s : TRUE}]]
  <2>1. \E k : k = [s \in SUBSET T |->
          IF s = {} THEN 0
          ELSE LengthAt(events, CHOOSE x \in s : TRUE)
               + k[s \ {CHOOSE x \in s : TRUE}]]
    BY <1>8
  <2> QED
    BY <1>4, <2>1
<1>10. SumsOver(f, T, r)
  BY <1>6, <1>9 DEF SumsOver, First
<1>11. r[T] = Sum(f, T)
  BY <1>3, <1>10, SumOfRecursion
<1> QED
  BY <1>1, <1>3, <1>5, <1>11 DEF Lengthened

(* One more event ends a break, or does not. *)
LEMMA LengthenedByEvent ==
    ASSUME NEW ev \in Seq(BreakEvent), NEW now, EventsStand(ev, now),
           NEW e \in BreakEvent, e.type = "break_end" => Len(ev) > 0,
           NEW from \in Nat, from <= Len(ev)
    PROVE  Lengthened(Append(ev, e), from) = Lengthened(ev, from)
               + (IF e.type = "break_end" THEN e.at - ev[Len(ev)].at ELSE 0)
<1>1. PICK n \in Nat : n = Len(ev)
  OBVIOUS
<1>2. PICK next : next = Append(ev, e)
  OBVIOUS
<1>3. /\ next \in Seq(BreakEvent) /\ Len(next) = n + 1 /\ next[n + 1] = e
      /\ \A i \in 1 .. n : next[i] = ev[i] /\ ev[i] \in BreakEvent
  BY <1>1, <1>2
<1>4. PICK S : S = EndedIn(ev, from)
  OBVIOUS
<1>5. S \in SUBSET (1 .. n) /\ IsFiniteSet(S) /\ n + 1 \notin S
  <2>1. S \in SUBSET (1 .. n)
    BY <1>1, <1>4 DEF EndedIn
  <2>2. IsFiniteSet(1 .. n)
    BY FS_Interval
  <2>3. IsFiniteSet(S)
    BY <2>1, <2>2, FS_Subset
  <2>4. n + 1 \notin 1 .. n
    OBVIOUS
  <2> QED
    BY <2>1, <2>3, <2>4
<1>6. PICK f : f = Lengths(ev)
  OBVIOUS
<1>7. PICK g : g = Lengths(next)
  OBVIOUS
<1>8. \A i \in S : f[i] \in Int /\ g[i] = f[i]
  <2> TAKE i \in S
  <2>1. i \in 1 .. n /\ i > 1 /\ i - 1 \in 1 .. n
    BY <1>1, <1>4, <1>5 DEF EndedIn, EventsStand
  <2>2. f[i] = ev[i].at - ev[i - 1].at /\ g[i] = next[i].at - next[i - 1].at
    BY <1>1, <1>3, <1>6, <1>7, <2>1 DEF Lengths, LengthAt
  <2>3. ev[i].at \in Nat /\ ev[i - 1].at \in Nat
    BY <1>3, <2>1 DEF BreakEvent
  <2>4. next[i].at = ev[i].at /\ next[i - 1].at = ev[i - 1].at
    BY <1>3, <2>1
  <2> QED
    BY <2>2, <2>3, <2>4
<1>9. Sum(g, S) = Sum(f, S) /\ Sum(f, S) \in Int
  BY <1>5, <1>8, SumSame, SumInt
<1>10. CASE e.type = "break_end"
  <2>1. EndedIn(next, from) = S \cup {n + 1}
    <3>1. ASSUME NEW i \in from + 1 .. n + 1, next[i].type = "break_end"
          PROVE  i \in S \cup {n + 1}
      BY <1>1, <1>3, <1>4, <3>1 DEF EndedIn
    <3>2. \A i \in S : i \in from + 1 .. n + 1 /\ next[i].type = "break_end"
      BY <1>1, <1>3, <1>4, <1>5 DEF EndedIn
    <3>3. n + 1 \in from + 1 .. n + 1 /\ next[n + 1].type = "break_end"
      BY <1>1, <1>3, <1>10
    <3> QED
      BY <1>3, <3>1, <3>2, <3>3 DEF EndedIn
  <2>2. n \in 1 .. n /\ n + 1 \in 1 .. n + 1
    BY <1>1, <1>10
  <2>3. g[n + 1] = e.at - ev[n].at
    <3>1. g[n + 1] = next[n + 1].at - next[(n + 1) - 1].at
      BY <1>3, <1>7, <2>2 DEF Lengths, LengthAt
    <3>2. (n + 1) - 1 = n
      OBVIOUS
    <3> QED
      BY <1>3, <2>2, <3>1, <3>2
  <2>4. e.at \in Nat /\ ev[n].at \in Nat
    BY <1>3, <2>2 DEF BreakEvent
  <2>5. Sum(g, S \cup {n + 1}) = Sum(g, S) + g[n + 1]
    <3>1. g[n + 1] \in Int /\ \A i \in S : g[i] \in Int
      BY <1>8, <2>3, <2>4
    <3> QED
      BY <1>5, <3>1, SumAdd
  <2> QED
    BY <1>1, <1>2, <1>4, <1>6, <1>7, <1>9, <1>10, <2>1, <2>3, <2>5 DEF Lengthened
<1>11. CASE e.type # "break_end"
  <2>1. EndedIn(next, from) = S
    <3>1. ASSUME NEW i \in from + 1 .. n + 1, next[i].type = "break_end"
          PROVE  i \in S
      BY <1>1, <1>3, <1>4, <1>11, <3>1 DEF EndedIn
    <3>2. \A i \in S : i \in from + 1 .. n + 1 /\ next[i].type = "break_end"
      BY <1>1, <1>3, <1>4, <1>5 DEF EndedIn
    <3> QED
      BY <1>3, <3>1, <3>2 DEF EndedIn
  <2> QED
    BY <1>2, <1>4, <1>6, <1>7, <1>9, <1>11, <2>1 DEF Lengthened
<1> QED
  BY <1>10, <1>11

(* The minutes of breaks are a number. *)
LEMMA LengthenedInt ==
    ASSUME NEW ev \in Seq(BreakEvent), NEW now, EventsStand(ev, now), NEW from \in Nat
    PROVE  Lengthened(ev, from) \in Int
<1>1. PICK n \in Nat : n = Len(ev)
  OBVIOUS
<1>2. PICK S : S = EndedIn(ev, from)
  OBVIOUS
<1>3. PICK f : f = Lengths(ev)
  OBVIOUS
<1>4. S \in SUBSET (1 .. n)
  BY <1>1, <1>2 DEF EndedIn
<1>5. IsFiniteSet(S)
  <2>1. IsFiniteSet(1 .. n)
    BY FS_Interval
  <2> QED
    BY <1>4, <2>1, FS_Subset
<1>6. \A i \in S : f[i] \in Int
  <2> TAKE i \in S
  <2>1. i \in 1 .. n /\ i > 1 /\ i - 1 \in 1 .. n
    BY <1>1, <1>2, <1>4 DEF EndedIn, EventsStand
  <2>2. f[i] = ev[i].at - ev[i - 1].at
    BY <1>1, <1>3, <2>1 DEF Lengths, LengthAt
  <2>3. ev[i] \in BreakEvent /\ ev[i - 1] \in BreakEvent
    BY <1>1, <2>1
  <2> QED
    BY <2>2, <2>3 DEF BreakEvent
<1> QED
  BY <1>2, <1>3, <1>5, <1>6, SumInt DEF Lengthened

(* No break has ended since now. *)
LEMMA NothingLengthened ==
    ASSUME NEW ev \in Seq(BreakEvent)
    PROVE  Lengthened(ev, Len(ev)) = 0
<1>1. EndedIn(ev, Len(ev)) = {}
  BY DEF EndedIn
<1>2. PICK f : f = Lengths(ev)
  OBVIOUS
<1>3. Sum(f, {}) = 0
  BY SumFirst, FS_EmptySet
<1> QED
  BY <1>1, <1>2, <1>3 DEF Lengthened

(* Minutes between two times are a difference, never below zero            *)
(* (domain/attendance.ts:51).                                              *)
LEMMA MinsNat ==
    ASSUME NEW a \in Nat, NEW b \in Nat
    PROVE  Day!Mins(a, b) \in Nat /\ (b <= a => Day!Mins(a, b) = a - b)
BY DEF Day!Mins

(* A day on which nobody has come in yet: its invariant holds. *)
LEMMA DayInit ==
    ASSUME DayConstants, Day!Init
    PROVE  DayInv
<1>1. DayType
  <2>1. /\ correction \in [Corrections -> {Null} \cup CorrectionRow]
        /\ visit \in [Callers -> {Null} \cup ClockCall \cup DecideCall]
        /\ attendance \in {Null} \cup AttendanceRow
    BY DEF Day!Init
  <2>2. events \in Seq(BreakEvent) /\ Len(events) = 0 /\ minute \in Nat
    BY DEF Day!Init
  <2>3. adjusted \in Nat \X Nat /\ adjusted[2] = 0
    BY DEF Day!Init
  <2>4. overlapped \in BOOLEAN /\ amended \in BOOLEAN
    BY DEF Day!Init
  <2> QED
    BY <2>1, <2>2, <2>3, <2>4 DEF DayType
<1>2. /\ attendance = Null /\ events = <<>> /\ adjusted = <<0, 0>>
      /\ \A c \in Callers : visit[c] = Null
      /\ \A k \in Corrections : correction[k] = Null
  BY DEF Day!Init
<1>3. EventsStand(events, minute)
  BY <1>2 DEF EventsStand
<1>4. /\ \A c \in Callers : VisitStands(visit[c], attendance, events)
      /\ \A c \in Callers : visit[c] \in DecideCall => correction[visit[c].correction] # Null
  BY <1>2 DEF VisitStands, DayConstants
<1>5. Day!DecisionsAreKept
  BY <1>2 DEF Day!DecisionsAreKept
<1> QED
  BY <1>1, <1>2, <1>3, <1>4, <1>5 DEF DayInv

(* What a call has found stands while events are added and rows stay. *)
LEMMA VisitStandsOn ==
    ASSUME NEW v, NEW rec, NEW ev, Len(ev) \in Nat, VisitStands(v, rec, ev),
           NEW later, rec # Null => later # Null,
           NEW longer, Len(longer) \in Nat, Len(ev) <= Len(longer),
           \A i \in 1 .. Len(ev) : longer[i] = ev[i]
    PROVE  VisitStands(v, later, longer)
<1>1. v \in ClockCall /\ v.op = "endBreak" =>
         /\ v.record.actualEnd = Null
         /\ v.count \in 1 .. Len(longer) /\ longer[v.count].type = "break_start"
         /\ v.lastStart = longer[v.count].at
  BY DEF VisitStands
<1> QED
  BY <1>1 DEF VisitStands

(* A call ends, the others go on. *)
LEMMA CallEnds ==
    ASSUME DayConstants, DayInv, NEW c \in Callers, visit' = [visit EXCEPT ![c] = Null],
           UNCHANGED minute, attendance # Null => attendance' # Null,
           events' = events
           \/ \E e \in BreakEvent :
                 /\ e.at = minute /\ (e.type = "break_end" => Len(events) > 0)
                 /\ events' = Append(events, e),
           \A k \in Corrections : correction[k] # Null => correction'[k] # Null
    PROVE  /\ visit' \in [Callers -> {Null} \cup ClockCall \cup DecideCall]
           /\ events' \in Seq(BreakEvent) /\ Len(events) <= Len(events')
           /\ EventsStand(events', minute')
           /\ \A d \in Callers : VisitStands(visit'[d], attendance', events')
           /\ \A d \in Callers : visit'[d] \in DecideCall =>
                 correction'[visit'[d].correction] # Null
<1>1. visit' \in [Callers -> {Null} \cup ClockCall \cup DecideCall]
  BY DEF DayInv, DayType
<1>2. PICK now \in Nat : now = minute
  BY DEF DayInv, DayType
<1>3. PICK ev \in Seq(BreakEvent) : ev = events
  BY DEF DayInv, DayType
<1>4. PICK longer : longer = events'
  OBVIOUS
<1>5. /\ longer \in Seq(BreakEvent) /\ Len(ev) <= Len(longer)
      /\ \A i \in 1 .. Len(ev) : longer[i] = ev[i]
      /\ EventsStand(longer, now)
  <2>a. EventsStand(ev, now)
    BY <1>2, <1>3 DEF DayInv
  <2>1. CASE longer = ev
    BY <2>1, <2>a
  <2>2. CASE longer # ev
    <3>1. PICK e \in BreakEvent :
             /\ e.at = now /\ (e.type = "break_end" => Len(ev) > 0)
             /\ longer = Append(ev, e)
      BY <1>2, <1>3, <1>4, <2>2
    <3>2. /\ longer \in Seq(BreakEvent) /\ Len(longer) = Len(ev) + 1
          /\ longer[Len(ev) + 1] = e /\ \A i \in 1 .. Len(ev) : longer[i] = ev[i]
      BY <3>1
    <3>3. ASSUME NEW i \in 1 .. Len(longer)
          PROVE  longer[i].at <= now /\ (longer[i].type = "break_end" => i > 1)
      <4>1. CASE i \in 1 .. Len(ev)
        BY <2>a, <3>2, <4>1 DEF EventsStand
      <4>2. CASE i = Len(ev) + 1
        BY <1>2, <3>1, <3>2, <4>2
      <4> QED
        BY <3>2, <3>3, <4>1, <4>2
    <3> QED
      BY <3>2, <3>3 DEF EventsStand
  <2> QED
    BY <2>1, <2>2
<1>6. ASSUME NEW d \in Callers PROVE VisitStands(visit'[d], attendance', longer)
  <2>1. CASE d = c
    <3>1. visit'[d] = Null
      BY <2>1 DEF DayInv, DayType
    <3> QED
      BY <3>1 DEF VisitStands, DayConstants
  <2>2. CASE d # c
    <3>1. PICK v : v = visit[d]
      OBVIOUS
    <3>2. visit'[d] = v
      BY <2>2, <3>1 DEF DayInv, DayType
    <3>3. PICK rec : rec = attendance
      OBVIOUS
    <3>4. PICK later : later = attendance'
      OBVIOUS
    <3>5. VisitStands(v, rec, ev) /\ (rec # Null => later # Null)
      BY <1>3, <3>1, <3>3, <3>4 DEF DayInv
    <3>6. VisitStands(v, later, longer)
      <4>1. Len(ev) \in Nat /\ Len(longer) \in Nat
        BY <1>5
      <4> QED
        BY <1>5, <3>5, <4>1, VisitStandsOn
    <3> QED
      BY <3>2, <3>4, <3>6
  <2> QED
    BY <2>1, <2>2
<1>7. ASSUME NEW d \in Callers, visit'[d] \in DecideCall
      PROVE  correction'[visit'[d].correction] # Null
  <2>1. d # c
    BY <1>7 DEF DayInv, DayType, DayConstants
  <2>2. visit'[d] = visit[d]
    BY <2>1 DEF DayInv, DayType
  <2>3. visit[d].correction \in Corrections
    BY <1>7, <2>2 DEF DecideCall
  <2> QED
    BY <1>7, <2>2, <2>3 DEF DayInv
<1> QED
  BY <1>1, <1>2, <1>3, <1>4, <1>5, <1>6, <1>7

(* A clock call finds the state that it asks for (domain/attendance.ts:53- *)
(* 77, deriveState and loadToday).                                         *)
LEMMA LoadKeeps ==
    ASSUME DayConstants, DayInv, NEW c \in Callers,
           NEW op \in {"checkIn", "startBreak", "endBreak", "checkOut"}, Day!Load(c, op)
    PROVE  DayInv'
<1>a. PICK rec \in {Null} \cup AttendanceRow : rec = attendance
  BY DEF DayInv, DayType
<1>b. PICK ev \in Seq(BreakEvent) : ev = events
  BY DEF DayInv, DayType
<1>c. PICK last : last = IF op = "endBreak" THEN ev[Len(ev)].at ELSE Null
  OBVIOUS
<1>d. PICK v : v = [op |-> op, record |-> rec, count |-> Len(ev), lastStart |-> last]
  OBVIOUS
<1>1. /\ visit' = [visit EXCEPT ![c] = v]
      /\ UNCHANGED <<minute, attendance, events, correction, overlapped, adjusted, amended>>
  BY <1>a, <1>b, <1>c, <1>d DEF Day!Load
<1>2. /\ op = "checkIn" => rec = Null \/ rec.actualStart = Null
      /\ op # "checkIn" => rec # Null /\ rec.actualStart # Null
      /\ op = "endBreak" => /\ rec.actualEnd = Null /\ ev # <<>>
                             /\ ev[Len(ev)].type = "break_start"
  <2>1. Day!Allowed(op)
    BY DEF Day!Load
  <2>2. CASE rec = Null
    <3>1. Day!ClockState = "out"
      BY <1>a, <2>2 DEF Day!ClockState
    <3> QED
      BY <2>1, <2>2, <3>1 DEF Day!Allowed
  <2>3. CASE rec # Null /\ rec.actualStart = Null
    <3>1. Day!ClockState = "out"
      BY <1>a, <2>3 DEF Day!ClockState
    <3> QED
      BY <2>1, <2>3, <3>1 DEF Day!Allowed
  <2>4. CASE rec # Null /\ rec.actualStart # Null
    <3>1. Day!ClockState = IF rec.actualEnd # Null THEN "checked_out"
                            ELSE IF Day!OnBreak THEN "on_break" ELSE "working"
      BY <1>a, <2>4 DEF Day!ClockState
    <3>2. op # "checkIn"
      BY <2>1, <3>1 DEF Day!Allowed
    <3>3. op = "endBreak" => rec.actualEnd = Null /\ Day!OnBreak
      BY <2>1, <3>1 DEF Day!Allowed
    <3> QED
      BY <1>b, <2>4, <3>2, <3>3 DEF Day!OnBreak
  <2> QED
    BY <2>2, <2>3, <2>4
<1>3. op = "endBreak" => Len(ev) \in 1 .. Len(ev) /\ last \in Nat
  <2> SUFFICES ASSUME op = "endBreak" PROVE Len(ev) \in 1 .. Len(ev) /\ last \in Nat
    OBVIOUS
  <2>1. Len(ev) \in 1 .. Len(ev)
    BY <1>2
  <2>2. ev[Len(ev)] \in BreakEvent
    BY <2>1
  <2> QED
    BY <1>c, <2>1, <2>2 DEF BreakEvent
<1>4. v \in ClockCall
  <2>1. last \in {Null} \cup Nat
    BY <1>3, <1>c
  <2> QED
    BY <1>d, <2>1 DEF ClockCall
<1>5. VisitStands(v, rec, ev)
  BY <1>2, <1>3, <1>c, <1>d DEF VisitStands
<1>6. \A d \in Callers : visit'[d] = IF d = c THEN v ELSE visit[d]
  BY <1>1 DEF DayInv, DayType
<1>7. \A d \in Callers : VisitStands(visit'[d], attendance', events')
  BY <1>1, <1>5, <1>6, <1>a, <1>b DEF DayInv
<1>8. \A d \in Callers : visit'[d] \in DecideCall => correction'[visit'[d].correction] # Null
  <2>1. v \notin DecideCall
    BY <1>d DEF DecideCall
  <2> QED
    BY <1>1, <1>6, <2>1 DEF DayInv
<1>9. DayType'
  <2>1. visit' \in [Callers -> {Null} \cup ClockCall \cup DecideCall]
    BY <1>1, <1>4 DEF DayInv, DayType
  <2> QED
    BY <1>1, <2>1 DEF DayInv, DayType
<1> QED
  BY <1>1, <1>7, <1>8, <1>9 DEF DayInv, Day!DecisionsAreKept

(* Checking in sets the start, and touches neither breaks nor totals       *)
(* (domain/attendance.ts:79-97).                                           *)
LEMMA CheckInKeeps ==
    ASSUME DayConstants, DayInv, NEW c \in Callers, Day!CheckIn(c)
    PROVE  DayInv'
<1>a. PICK rec \in {Null} \cup AttendanceRow : rec = attendance
  BY DEF DayInv, DayType
<1>b. PICK now \in Nat : now = minute
  BY DEF DayInv, DayType
<1>c. PICK v : v = visit[c]
  OBVIOUS
<1>d. v \in ClockCall /\ v.op = "checkIn"
  BY <1>c DEF Day!CheckIn, Day!Writes, DayInv, DayType, DecideCall
<1>e. PICK new : new = IF rec = Null
                        THEN [actualStart |-> now, actualEnd |-> Null, breakMinutes |-> 0,
                              totalWorkedMinutes |-> 0]
                        ELSE [rec EXCEPT !.actualStart = now]
  OBVIOUS
<1>1. /\ attendance' = new /\ visit' = [visit EXCEPT ![c] = Null]
      /\ overlapped' = (overlapped \/ Day!DayChanged(c))
      /\ UNCHANGED <<minute, events, correction, adjusted, amended>>
  <2>1. [Day!NewAttendance EXCEPT !.actualStart = now] =
            [actualStart |-> now, actualEnd |-> Null, breakMinutes |-> 0,
             totalWorkedMinutes |-> 0]
    BY DEF Day!NewAttendance
  <2> QED
    BY <1>a, <1>b, <1>e, <2>1 DEF Day!CheckIn, Day!Wrote
<1>2. new \in AttendanceRow /\ new # Null
  <2>1. new \in AttendanceRow
    BY <1>e DEF AttendanceRow
  <2> QED
    BY <2>1 DEF DayConstants
<1>3. /\ visit' \in [Callers -> {Null} \cup ClockCall \cup DecideCall]
      /\ EventsStand(events', minute')
      /\ \A d \in Callers : VisitStands(visit'[d], attendance', events')
      /\ \A d \in Callers : visit'[d] \in DecideCall =>
            correction'[visit'[d].correction] # Null
  BY <1>1, <1>2, CallEnds
<1>4. DayType'
  <2>1. overlapped' \in BOOLEAN
    BY <1>1
  <2> QED
    BY <1>1, <1>2, <1>3, <2>1 DEF DayInv, DayType
<1>5. ASSUME ~overlapped' 
      PROVE  /\ new.breakMinutes = adjusted[1] + Lengthened(events, adjusted[2])
             /\ new.actualEnd # Null => amended
             /\ Day!DecisionsAreKept
  <2>1. ~overlapped /\ v.record = rec
    BY <1>1, <1>5, <1>a, <1>c DEF Day!DayChanged, DayInv, DayType
  <2>2. rec = Null \/ rec.actualStart = Null
    BY <1>c, <1>d, <2>1 DEF DayInv, VisitStands
  <2>3. CASE rec = Null
    <3>1. events = <<>> /\ adjusted = <<0, 0>>
      BY <1>a, <2>3 DEF DayInv
    <3>2. Lengthened(<<>>, 0) = 0
      <4>1. <<>> \in Seq(BreakEvent) /\ Len(<<>>) = 0
        OBVIOUS
      <4>2. Lengthened(<<>>, Len(<<>>)) = 0
        BY <4>1, NothingLengthened
      <4> QED
        BY <4>1, <4>2
    <3>3. new.breakMinutes = 0 /\ new.actualEnd = Null
      BY <1>e, <2>3
    <3> QED
      BY <2>1, <3>1, <3>2, <3>3 DEF DayInv
  <2>4. CASE rec # Null
    <3>1. new.breakMinutes = rec.breakMinutes /\ new.actualEnd = rec.actualEnd
      BY <1>e, <2>4 DEF AttendanceRow
    <3>2. rec.breakMinutes = adjusted[1] + Lengthened(events, adjusted[2])
      BY <1>a, <2>1, <2>4 DEF DayInv
    <3>3. rec.actualEnd # Null => amended
      BY <1>a, <2>1, <2>2, <2>4 DEF DayInv
    <3> QED
      BY <2>1, <3>1, <3>2, <3>3 DEF DayInv
  <2> QED
    BY <2>3, <2>4
<1> QED
  BY <1>1, <1>2, <1>3, <1>4, <1>5 DEF DayInv, Day!DecisionsAreKept

(* The start of a break ends none (domain/attendance.ts:99-104).           *)
LEMMA StartBreakKeeps ==
    ASSUME DayConstants, DayInv, NEW c \in Callers, Day!StartBreak(c)
    PROVE  DayInv'
<1>a. PICK now \in Nat : now = minute
  BY DEF DayInv, DayType
<1>b. PICK ev \in Seq(BreakEvent) : ev = events
  BY DEF DayInv, DayType
<1>c. PICK e \in BreakEvent : e = [type |-> "break_start", at |-> now]
  BY DEF BreakEvent
<1>1. /\ events' = Append(ev, e) /\ visit' = [visit EXCEPT ![c] = Null]
      /\ UNCHANGED <<minute, attendance, correction, adjusted, amended, overlapped>>
  <2>1. overlapped' = overlapped
    BY DEF Day!StartBreak, Day!Wrote, DayInv, DayType
  <2> QED
    BY <1>a, <1>b, <1>c, <2>1 DEF Day!StartBreak, Day!Wrote
<1>2. attendance # Null
  BY DEF Day!StartBreak, Day!Writes, DayInv, DayType, VisitStands, DecideCall
<1>3. /\ visit' \in [Callers -> {Null} \cup ClockCall \cup DecideCall]
      /\ events' \in Seq(BreakEvent) /\ Len(events) <= Len(events')
      /\ EventsStand(events', minute')
      /\ \A d \in Callers : VisitStands(visit'[d], attendance', events')
      /\ \A d \in Callers : visit'[d] \in DecideCall =>
            correction'[visit'[d].correction] # Null
  <2>1. \E x \in BreakEvent :
           /\ x.at = minute /\ (x.type = "break_end" => Len(events) > 0)
           /\ events' = Append(events, x)
    BY <1>1, <1>a, <1>b, <1>c
  <2> QED
    BY <1>1, <1>2, <2>1, CallEnds
<1>4. DayType'
  BY <1>1, <1>3 DEF DayInv, DayType
<1>5. Lengthened(events', adjusted[2]) = Lengthened(events, adjusted[2])
  <2>1. PICK from \in Nat : from = adjusted[2]
    BY DEF DayInv, DayType
  <2>2. EventsStand(ev, now) /\ from <= Len(ev)
    BY <1>a, <1>b, <2>1 DEF DayInv, DayType
  <2>3. Lengthened(Append(ev, e), from) = Lengthened(ev, from) + 0
    BY <1>c, <2>2, LengthenedByEvent
  <2>4. Lengthened(ev, from) \in Int
    BY <2>2, LengthenedInt
  <2> QED
    BY <1>1, <1>b, <2>1, <2>3, <2>4
<1> QED
  BY <1>1, <1>2, <1>3, <1>4, <1>5 DEF DayInv, Day!DecisionsAreKept

(* The end of a break adds its length (domain/attendance.ts:106-117).      *)
LEMMA EndBreakKeeps ==
    ASSUME DayConstants, DayInv, NEW c \in Callers, Day!EndBreak(c)
    PROVE  DayInv'
<1>a. PICK now \in Nat : now = minute
  BY DEF DayInv, DayType
<1>b. PICK ev \in Seq(BreakEvent) : ev = events
  BY DEF DayInv, DayType
<1>c. PICK e \in BreakEvent : e = [type |-> "break_end", at |-> now]
  BY DEF BreakEvent
<1>d. PICK v : v = visit[c]
  OBVIOUS
<1>e. PICK rec \in {Null} \cup AttendanceRow : rec = attendance
  BY DEF DayInv, DayType
<1>f. v \in ClockCall /\ v.op = "endBreak" /\ VisitStands(v, rec, ev)
  BY <1>b, <1>d, <1>e DEF Day!EndBreak, Day!Writes, DayInv, DayType, DecideCall
<1>g. /\ rec # Null /\ v.record # Null /\ v.record \in AttendanceRow
      /\ v.record.actualEnd = Null /\ v.count \in 1 .. Len(ev)
      /\ v.lastStart = ev[v.count].at
  BY <1>f DEF VisitStands, ClockCall
<1>h. v.lastStart \in Nat /\ v.lastStart <= now /\ Len(ev) > 0
  <2>1. ev[v.count] \in BreakEvent
    BY <1>g
  <2>2. EventsStand(ev, now)
    BY <1>a, <1>b DEF DayInv
  <2> QED
    BY <1>g, <2>1, <2>2 DEF EventsStand, BreakEvent
<1>i. PICK m \in Nat : m = v.record.breakMinutes + Day!Mins(now, v.lastStart)
  <2>1. v.record.breakMinutes \in Nat
    BY <1>g DEF AttendanceRow
  <2>2. Day!Mins(now, v.lastStart) \in Nat
    BY <1>h, MinsNat
  <2> QED
    BY <2>1, <2>2
<1>1. /\ events' = Append(ev, e) /\ visit' = [visit EXCEPT ![c] = Null]
      /\ attendance' = [rec EXCEPT !.breakMinutes = m]
      /\ overlapped' = (overlapped \/ Day!DayChanged(c))
      /\ UNCHANGED <<minute, correction, adjusted, amended>>
  BY <1>a, <1>b, <1>c, <1>d, <1>e, <1>i DEF Day!EndBreak, Day!Wrote
<1>2. PICK new \in AttendanceRow :
         /\ new = attendance' /\ new # Null /\ new.breakMinutes = m
         /\ new.actualEnd = rec.actualEnd
  <2>1. PICK new : new = [rec EXCEPT !.breakMinutes = m]
    OBVIOUS
  <2>2. rec \in AttendanceRow
    BY <1>g
  <2>3. new \in AttendanceRow /\ new.breakMinutes = m /\ new.actualEnd = rec.actualEnd
    BY <2>1, <2>2 DEF AttendanceRow
  <2>4. new # Null
    BY <2>3 DEF DayConstants
  <2> QED
    BY <1>1, <2>1, <2>3, <2>4
<1>3. /\ visit' \in [Callers -> {Null} \cup ClockCall \cup DecideCall]
      /\ events' \in Seq(BreakEvent) /\ Len(events) <= Len(events')
      /\ EventsStand(events', minute')
      /\ \A d \in Callers : VisitStands(visit'[d], attendance', events')
      /\ \A d \in Callers : visit'[d] \in DecideCall =>
            correction'[visit'[d].correction] # Null
  <2>1. \E x \in BreakEvent :
           /\ x.at = minute /\ (x.type = "break_end" => Len(events) > 0)
           /\ events' = Append(events, x)
    BY <1>1, <1>a, <1>b, <1>c, <1>h
  <2>2. attendance # Null => attendance' # Null
    BY <1>2
  <2> QED
    BY <1>1, <2>1, <2>2, CallEnds
<1>4. DayType'
  <2>1. overlapped' \in BOOLEAN
    BY <1>1
  <2> QED
    BY <1>1, <1>2, <1>3, <2>1 DEF DayInv, DayType
<1>5. ASSUME ~overlapped'
      PROVE  /\ new.breakMinutes = adjusted[1] + Lengthened(events', adjusted[2])
             /\ new.actualEnd = Null
             /\ Day!DecisionsAreKept
  <2>1. ~overlapped /\ v.record = rec /\ v.count = Len(ev)
    BY <1>1, <1>5, <1>b, <1>d, <1>e DEF Day!DayChanged, DayInv, DayType
  <2>2. PICK from \in Nat : from = adjusted[2]
    BY DEF DayInv, DayType
  <2>3. EventsStand(ev, now) /\ from <= Len(ev)
    BY <1>a, <1>b, <2>2 DEF DayInv, DayType
  <2>4. Lengthened(Append(ev, e), from) = Lengthened(ev, from) + (now - ev[Len(ev)].at)
    <3>1. e.type = "break_end" /\ e.at = now
      BY <1>c
    <3> QED
      BY <1>h, <2>3, <3>1, LengthenedByEvent
  <2>5. Lengthened(ev, from) \in Int
    BY <2>3, LengthenedInt
  <2>6. rec.breakMinutes = adjusted[1] + Lengthened(ev, from) /\ adjusted[1] \in Nat
    BY <1>b, <1>e, <1>g, <2>1, <2>2 DEF DayInv, DayType
  <2>7. Day!Mins(now, v.lastStart) = now - v.lastStart
    BY <1>h, MinsNat
  <2>8. m = adjusted[1] + Lengthened(Append(ev, e), from)
    BY <1>g, <1>h, <1>i, <2>1, <2>4, <2>5, <2>6, <2>7
  <2> QED
    BY <1>1, <1>2, <1>g, <2>1, <2>2, <2>8 DEF DayInv
<1> QED
  BY <1>1, <1>2, <1>3, <1>4, <1>5 DEF DayInv, Day!DecisionsAreKept

(* Checking out adds up the day that was read (domain/attendance.ts:125-   *)
(* 139).                                                                   *)
LEMMA CheckOutKeeps ==
    ASSUME DayConstants, DayInv, NEW c \in Callers, Day!CheckOut(c)
    PROVE  DayInv'
<1>a. PICK now \in Nat : now = minute
  BY DEF DayInv, DayType
<1>b. PICK v : v = visit[c]
  OBVIOUS
<1>c. PICK rec \in {Null} \cup AttendanceRow : rec = attendance
  BY DEF DayInv, DayType
<1>d. v \in ClockCall /\ v.op = "checkOut" /\ VisitStands(v, rec, events)
  BY <1>b, <1>c DEF Day!CheckOut, Day!Writes, DayInv, DayType, DecideCall
<1>e. /\ rec # Null /\ rec \in AttendanceRow /\ v.record \in AttendanceRow
      /\ v.record.actualStart # Null
  BY <1>d DEF VisitStands, ClockCall
<1>f. PICK m \in Nat : m = Day!Mins(Day!Mins(now, v.record.actualStart), v.record.breakMinutes)
  <2>1. v.record.actualStart \in Nat /\ v.record.breakMinutes \in Nat
    BY <1>e DEF AttendanceRow
  <2>2. Day!Mins(now, v.record.actualStart) \in Nat
    BY <2>1, MinsNat
  <2> QED
    BY <2>1, <2>2, MinsNat
<1>1. /\ attendance' = [rec EXCEPT !.actualEnd = now, !.totalWorkedMinutes = m]
      /\ visit' = [visit EXCEPT ![c] = Null]
      /\ overlapped' = (overlapped \/ Day!DayChanged(c))
      /\ UNCHANGED <<minute, events, correction, adjusted, amended>>
  BY <1>a, <1>b, <1>c, <1>f DEF Day!CheckOut, Day!Wrote
<1>2. PICK new \in AttendanceRow :
         /\ new = attendance' /\ new # Null /\ new.breakMinutes = rec.breakMinutes
         /\ new.actualEnd = now /\ new.totalWorkedMinutes = m
         /\ new.actualStart = rec.actualStart
  <2>1. PICK new : new = [rec EXCEPT !.actualEnd = now, !.totalWorkedMinutes = m]
    OBVIOUS
  <2>2. /\ new \in AttendanceRow /\ new.breakMinutes = rec.breakMinutes
        /\ new.actualEnd = now /\ new.totalWorkedMinutes = m
        /\ new.actualStart = rec.actualStart
    BY <1>e, <2>1 DEF AttendanceRow
  <2>3. new # Null
    BY <2>2 DEF DayConstants
  <2> QED
    BY <1>1, <2>1, <2>2, <2>3
<1>3. /\ visit' \in [Callers -> {Null} \cup ClockCall \cup DecideCall]
      /\ EventsStand(events', minute')
      /\ \A d \in Callers : VisitStands(visit'[d], attendance', events')
      /\ \A d \in Callers : visit'[d] \in DecideCall =>
            correction'[visit'[d].correction] # Null
  <2>1. attendance # Null => attendance' # Null
    BY <1>2
  <2> QED
    BY <1>1, <2>1, CallEnds
<1>4. DayType'
  <2>1. overlapped' \in BOOLEAN
    BY <1>1
  <2> QED
    BY <1>1, <1>2, <1>3, <2>1 DEF DayInv, DayType
<1>5. ASSUME ~overlapped'
      PROVE  /\ new.breakMinutes = adjusted[1] + Lengthened(events, adjusted[2])
             /\ new.actualStart # Null
             /\ new.totalWorkedMinutes =
                   Day!Mins(Day!Mins(new.actualEnd, new.actualStart), new.breakMinutes)
             /\ Day!DecisionsAreKept
  <2>1. ~overlapped /\ v.record = rec
    BY <1>1, <1>5, <1>b, <1>c DEF Day!DayChanged, DayInv, DayType
  <2>2. rec.breakMinutes = adjusted[1] + Lengthened(events, adjusted[2])
    BY <1>c, <1>e, <2>1 DEF DayInv
  <2> QED
    BY <1>2, <1>e, <1>f, <2>1, <2>2 DEF DayInv
<1> QED
  BY <1>1, <1>2, <1>3, <1>4, <1>5 DEF DayInv, Day!DecisionsAreKept

(* A request for a correction changes nothing yet (:160-178). *)
LEMMA RequestKeeps ==
    ASSUME DayConstants, DayInv, NEW k \in Corrections, NEW field \in Day!Fields,
           NEW value \in Day!DayMinutes, Day!Request(k, field, value)
    PROVE  DayInv'
<1>a. PICK rec : rec = [status |-> "pending", field |-> field, value |-> value,
                         applied |-> FALSE]
  OBVIOUS
<1>1. /\ correction' = [correction EXCEPT ![k] = rec]
      /\ UNCHANGED <<minute, attendance, events, visit, overlapped, adjusted, amended>>
  BY <1>a DEF Day!Request
<1>2. rec \in CorrectionRow /\ rec # Null /\ ~rec.applied /\ rec.status # "approved"
  <2>1. value \in Nat
    BY DEF Day!DayMinutes, DayConstants
  <2>2. rec \in CorrectionRow
    BY <1>a, <2>1 DEF CorrectionRow
  <2> QED
    BY <1>a, <2>2 DEF DayConstants
<1>3. \A j \in Corrections : correction'[j] = IF j = k THEN rec ELSE correction[j]
  BY <1>1 DEF DayInv, DayType
<1>4. DayType'
  <2>1. correction' \in [Corrections -> {Null} \cup CorrectionRow]
    BY <1>1, <1>2 DEF DayInv, DayType
  <2> QED
    BY <1>1, <2>1 DEF DayInv, DayType
<1>5. \A c \in Callers : visit'[c] \in DecideCall => correction'[visit'[c].correction] # Null
  <2> TAKE c \in Callers
  <2> SUFFICES ASSUME visit'[c] \in DecideCall
               PROVE  correction'[visit'[c].correction] # Null
    OBVIOUS
  <2>1. visit'[c] = visit[c] /\ visit[c].correction \in Corrections
    BY <1>1 DEF DecideCall
  <2> QED
    BY <1>2, <1>3, <2>1 DEF DayInv
<1>6. Day!DecisionsAreKept => Day!DecisionsAreKept'
  BY <1>2, <1>3 DEF Day!DecisionsAreKept
<1> QED
  BY <1>1, <1>4, <1>5, <1>6 DEF DayInv

(* A manager finds a request that is there (:206-210). *)
LEMMA ReviewKeeps ==
    ASSUME DayConstants, DayInv, NEW c \in Callers, NEW k \in Corrections,
           NEW decision \in {"approved", "rejected"}, Day!Review(c, k, decision)
    PROVE  DayInv'
<1>a. PICK v : v = [op |-> "decide", correction |-> k, decision |-> decision]
  OBVIOUS
<1>1. /\ visit' = [visit EXCEPT ![c] = v] /\ correction[k] # Null
      /\ UNCHANGED <<minute, attendance, events, correction, overlapped, adjusted, amended>>
  BY <1>a DEF Day!Review
<1>2. v \in DecideCall /\ v \notin ClockCall /\ v.correction = k
  BY <1>a DEF DecideCall, ClockCall
<1>3. \A d \in Callers : visit'[d] = IF d = c THEN v ELSE visit[d]
  BY <1>1 DEF DayInv, DayType
<1>4. DayType'
  <2>1. visit' \in [Callers -> {Null} \cup ClockCall \cup DecideCall]
    BY <1>1, <1>2 DEF DayInv, DayType
  <2> QED
    BY <1>1, <2>1 DEF DayInv, DayType
<1>5. \A d \in Callers : VisitStands(visit'[d], attendance', events')
  <2>1. VisitStands(v, attendance, events)
    BY <1>2 DEF VisitStands
  <2> QED
    BY <1>1, <1>3, <2>1 DEF DayInv
<1>6. \A d \in Callers : visit'[d] \in DecideCall => correction'[visit'[d].correction] # Null
  BY <1>1, <1>2, <1>3 DEF DayInv
<1> QED
  BY <1>1, <1>4, <1>5, <1>6 DEF DayInv, Day!DecisionsAreKept

(* A record with a field corrected. *)
Correct(rec, field, value) == [rec EXCEPT ![field] = value]

(* A correction changes the field it names and no other                    *)
(* (domain/attendance.ts:213-221).                                         *)
LEMMA Corrected ==
    ASSUME DayConstants, NEW rec \in AttendanceRow, NEW field \in Day!Fields, NEW value \in Nat,
           NEW new, new = Correct(rec, field, value)
    PROVE  /\ new \in AttendanceRow /\ new # Null
           /\ field = "breakMinutes" => new.breakMinutes = value
           /\ field # "breakMinutes" => new.breakMinutes = rec.breakMinutes
<1>1. CASE field = "actualStart"
  <2>1. new = [rec EXCEPT !.actualStart = value]
    BY <1>1 DEF Correct
  <2> QED
    BY <1>1, <2>1 DEF AttendanceRow, DayConstants
<1>2. CASE field = "actualEnd"
  <2>1. new = [rec EXCEPT !.actualEnd = value]
    BY <1>2 DEF Correct
  <2> QED
    BY <1>2, <2>1 DEF AttendanceRow, DayConstants
<1>3. CASE field = "breakMinutes"
  <2>1. new = [rec EXCEPT !.breakMinutes = value]
    BY <1>3 DEF Correct
  <2> QED
    BY <1>3, <2>1 DEF AttendanceRow, DayConstants
<1> QED
  BY <1>1, <1>2, <1>3 DEF Day!Fields

(* A decision applies the correction if it approves it, and only then      *)
(* (:212-226); breaks are counted from the last correction of them.        *)
LEMMA DecideKeeps ==
    ASSUME DayConstants, DayInv, NEW c \in Callers, Day!Decide(c)
    PROVE  DayInv'
<1>a. PICK v : v = visit[c]
  OBVIOUS
<1>b. v \in DecideCall
  BY <1>a DEF Day!Decide, Day!Writes, DayInv, DayType, ClockCall
<1>c. PICK k \in Corrections : k = v.correction
  BY <1>b DEF DecideCall
<1>d. PICK r : r = correction[k]
  OBVIOUS
<1>e. r \in CorrectionRow
  BY <1>a, <1>b, <1>c, <1>d DEF DayInv, DayType
<1>f. PICK approved \in BOOLEAN : approved <=> v.decision = "approved"
  OBVIOUS
<1>1. /\ visit' = [visit EXCEPT ![c] = Null] /\ UNCHANGED <<minute, events>>
      /\ overlapped' = (overlapped \/ r.status # "pending")
      /\ approved => Day!Apply(k)
      /\ ~approved => UNCHANGED <<attendance, adjusted, amended>>
  BY <1>a, <1>c, <1>d, <1>f DEF Day!Decide, Day!Wrote
<1>2. PICK decided \in CorrectionRow :
         /\ correction' = [correction EXCEPT ![k] = decided]
         /\ decided.status = v.decision /\ decided.applied = (r.applied \/ approved)
         /\ decided # Null
  <2>1. PICK x \in BOOLEAN : x = (r.applied \/ approved)
    OBVIOUS
  <2>2. PICK decided : decided = [r EXCEPT !.status = v.decision, !.applied = x]
    OBVIOUS
  <2>3. v.decision \in {"approved", "rejected"}
    BY <1>b DEF DecideCall
  <2>4. decided \in CorrectionRow /\ decided.status = v.decision /\ decided.applied = x
    BY <1>e, <2>2, <2>3 DEF CorrectionRow
  <2>5. correction' = [correction EXCEPT ![k] = decided]
    <3>1. correction' = [correction EXCEPT ![k].status = v.decision,
                                           ![k].applied = @ \/ v.decision = "approved"]
      BY <1>a, <1>c DEF Day!Decide
    <3>2. correction' = [correction EXCEPT ![k] = [correction[k] EXCEPT
                             !.status = v.decision,
                             !.applied = correction[k].applied \/ v.decision = "approved"]]
      BY <1>d, <1>e, <3>1 DEF DayInv, DayType, CorrectionRow
    <3>3. x = (r.applied \/ v.decision = "approved")
      BY <1>f, <2>1
    <3> QED
      BY <1>d, <2>2, <3>2, <3>3
  <2>6. decided # Null
    BY <2>4 DEF DayConstants
  <2> QED
    BY <2>1, <2>4, <2>5, <2>6
<1>3. \A j \in Corrections : correction'[j] = IF j = k THEN decided ELSE correction[j]
  BY <1>2 DEF DayInv, DayType
<1>4. /\ attendance' \in {Null} \cup AttendanceRow
      /\ attendance # Null => attendance' # Null
      /\ attendance' = Null => attendance = Null /\ adjusted' = adjusted
      /\ adjusted' \in Nat \X Nat /\ adjusted'[2] <= Len(events) /\ amended' \in BOOLEAN
      /\ ~overlapped /\ attendance' # Null =>
            /\ attendance'.breakMinutes = adjusted'[1] + Lengthened(events, adjusted'[2])
            /\ attendance'.actualEnd # Null /\ ~amended' =>
                  /\ attendance'.actualStart # Null
                  /\ attendance'.totalWorkedMinutes =
                        Day!Mins(Day!Mins(attendance'.actualEnd, attendance'.actualStart),
                                 attendance'.breakMinutes)
  <2>1. CASE ~approved
    BY <1>1, <2>1 DEF DayInv, DayType
  <2>2. CASE approved
    <3>1. PICK rec \in AttendanceRow :
             rec = IF attendance = Null THEN Day!NewAttendance ELSE attendance
      BY DEF DayInv, DayType, Day!NewAttendance, AttendanceRow
    <3>2. PICK field \in Day!Fields : field = r.field
      BY <1>e DEF CorrectionRow
    <3>3. PICK value \in Nat : value = r.value
      BY <1>e DEF CorrectionRow
    <3>4. PICK new : new = Correct(rec, field, value)
      OBVIOUS
    <3>5. /\ attendance' = new
          /\ adjusted' = IF field = "breakMinutes" THEN <<value, Len(events)>> ELSE adjusted
          /\ amended' = (amended \/ new.actualEnd # Null)
      BY <1>1, <1>d, <2>2, <3>1, <3>2, <3>3, <3>4 DEF Day!Apply, Correct
    <3>6. /\ new \in AttendanceRow /\ new # Null
          /\ field = "breakMinutes" => new.breakMinutes = value
          /\ field # "breakMinutes" => new.breakMinutes = rec.breakMinutes
      BY <3>4, Corrected
    <3>7. events \in Seq(BreakEvent) /\ Len(events) \in Nat
      BY DEF DayInv, DayType
    <3>8. adjusted' \in Nat \X Nat /\ adjusted'[2] <= Len(events)
      BY <3>5, <3>7 DEF DayInv, DayType
    <3>9. amended' \in BOOLEAN /\ (new.actualEnd # Null => amended')
      BY <3>5
    <3>10. ASSUME ~overlapped
           PROVE  new.breakMinutes = adjusted'[1] + Lengthened(events, adjusted'[2])
      <4>1. CASE field = "breakMinutes"
        <5>1. PICK ev \in Seq(BreakEvent) : ev = events
          BY <3>7
        <5>2. Lengthened(ev, Len(ev)) = 0
          BY NothingLengthened
        <5>3. adjusted'[1] = value /\ adjusted'[2] = Len(ev)
          BY <3>5, <4>1, <5>1
        <5> QED
          BY <3>6, <4>1, <5>1, <5>2, <5>3
      <4>2. CASE field # "breakMinutes"
        <5>1. adjusted' = adjusted /\ new.breakMinutes = rec.breakMinutes
          BY <3>5, <3>6, <4>2
        <5>2. CASE attendance # Null
          BY <3>10, <3>1, <5>1, <5>2 DEF DayInv
        <5>3. CASE attendance = Null
          <6>1. events = <<>> /\ adjusted = <<0, 0>> /\ rec.breakMinutes = 0
            BY <3>1, <5>3 DEF DayInv, Day!NewAttendance
          <6>2. <<>> \in Seq(BreakEvent) /\ Len(<<>>) = 0
            OBVIOUS
          <6>3. Lengthened(<<>>, Len(<<>>)) = 0
            BY <6>2, NothingLengthened
          <6> QED
            BY <5>1, <6>1, <6>2, <6>3
        <5> QED
          BY <5>2, <5>3
      <4> QED
        BY <4>1, <4>2
    <3> QED
      BY <3>5, <3>6, <3>8, <3>9, <3>10
  <2> QED
    BY <2>1, <2>2
<1>5. /\ visit' \in [Callers -> {Null} \cup ClockCall \cup DecideCall]
      /\ EventsStand(events', minute')
      /\ \A d \in Callers : VisitStands(visit'[d], attendance', events')
      /\ \A d \in Callers : visit'[d] \in DecideCall =>
            correction'[visit'[d].correction] # Null
  <2>1. \A j \in Corrections : correction[j] # Null => correction'[j] # Null
    BY <1>2, <1>3
  <2>2. /\ visit' = [visit EXCEPT ![c] = Null] /\ UNCHANGED minute /\ events' = events
        /\ attendance # Null => attendance' # Null
    BY <1>1, <1>4
  <2> QED
    BY <2>1, <2>2, CallEnds
<1>6. DayType'
  <2>1. overlapped' \in BOOLEAN
    BY <1>1
  <2>2. correction' \in [Corrections -> {Null} \cup CorrectionRow]
    BY <1>2 DEF DayInv, DayType
  <2> QED
    BY <1>1, <1>4, <1>5, <2>1, <2>2 DEF DayInv, DayType
<1>7. ASSUME ~overlapped' PROVE ~overlapped /\ Day!DecisionsAreKept'
  <2>1. ~overlapped /\ r.status = "pending"
    BY <1>1, <1>7 DEF DayInv, DayType
  <2>2. Day!DecisionsAreKept
    BY <2>1 DEF DayInv
  <2>3. ~r.applied
    BY <1>d, <1>e, <2>1, <2>2 DEF Day!DecisionsAreKept, DayConstants
  <2>4. decided.applied <=> decided.status = "approved"
    BY <1>2, <1>f, <2>3
  <2> QED
    BY <1>3, <2>1, <2>2, <2>4 DEF Day!DecisionsAreKept
<1>8. attendance' = Null => events' = <<>> /\ adjusted' = <<0, 0>>
  BY <1>1, <1>4 DEF DayInv
<1> QED
  BY <1>1, <1>4, <1>5, <1>6, <1>7, <1>8 DEF DayInv

(* Time passes. *)
LEMMA PassMinuteKeeps ==
    ASSUME DayConstants, DayInv, Day!PassMinute
    PROVE  DayInv'
<1>1. /\ minute' = minute + 1 /\ minute \in Nat
      /\ UNCHANGED <<attendance, events, correction, visit, overlapped, adjusted, amended>>
  BY DEF Day!PassMinute, DayInv, DayType
<1>2. DayType'
  BY <1>1 DEF DayInv, DayType
<1>3. EventsStand(events, minute + 1)
  <2>1. ASSUME NEW i \in 1 .. Len(events)
        PROVE  events[i].at <= minute + 1 /\ (events[i].type = "break_end" => i > 1)
    <3>1. events[i] \in BreakEvent
      BY DEF DayInv, DayType
    <3>2. events[i].at <= minute /\ (events[i].type = "break_end" => i > 1)
      BY DEF DayInv, EventsStand
    <3>3. events[i].at \in Nat
      BY <3>1 DEF BreakEvent
    <3> QED
      BY <1>1, <3>2, <3>3
  <2> QED
    BY <2>1 DEF EventsStand
<1> QED
  BY <1>1, <1>2, <1>3 DEF DayInv, Day!DecisionsAreKept

(* Every step of a day keeps its invariant. *)
LEMMA DayStep ==
    ASSUME DayConstants, DayInv, [Day!Next]_dayvars
    PROVE  DayInv'
<1>1. CASE Day!Next
  BY <1>1, LoadKeeps, CheckInKeeps, StartBreakKeeps, EndBreakKeeps, CheckOutKeeps,
     RequestKeeps, ReviewKeeps, DecideKeeps, PassMinuteKeeps DEF Day!Next
<1>2. CASE UNCHANGED dayvars
  BY <1>2 DEF dayvars, DayInv, DayType, Day!DecisionsAreKept
<1> QED
  BY <1>1, <1>2

(* The invariant says what DayAddsUp says. *)
LEMMA DaySafe ==
    ASSUME DayInv
    PROVE  Day!DayAddsUp
<1>1. PICK from \in Nat : from = adjusted[2]
  BY DEF DayInv, DayType
<1>2. Day!BreakLengths(from) = Lengthened(events, from)
  BY BreaksAreSum DEF DayInv, DayType
<1>3. ~overlapped => Day!BreaksAddUp
  BY <1>1, <1>2 DEF DayInv, Day!BreaksAddUp
<1>4. ~overlapped => Day!WorkAddsUp
  BY DEF DayInv, Day!WorkAddsUp
<1> QED
  BY <1>3, <1>4 DEF DayInv, Day!DayAddsUp

-----------------------------------------------------------------------------
(* Campaign spend *)

SpendConstants ==
    /\ IsFiniteSet(Metrics)
    /\ SpendAmounts \subseteq Nat /\ Figures \subseteq Nat /\ Null \notin Nat

SpendCalls ==
    {Spend!NoCall} \cup
    [call : {"read", "counted"}, legacy : Nat, alone : BOOLEAN] \cup
    [call : {"write"}, at : {Null} \cup Metrics, amount : {Null} \cup Nat, sum : Nat,
     fresh : BOOLEAN, migrates : BOOLEAN, alone : BOOLEAN]

SpendType ==
    /\ metric \in [Metrics -> {Null} \cup Nat]
    /\ actualSpend \in Nat /\ figure \in Nat
    /\ spending \in [Callers -> SpendCalls]
    /\ outsummed \in BOOLEAN /\ disturbed \in BOOLEAN
    /\ migrations \in Seq({Null} \cup Nat)

(* The spend is the sum of the metrics, or the figure from before while    *)
(* nothing has been committed.                                             *)
SpendStands ==
    \/ actualSpend = Spend!SumOf(metric)
    \/ actualSpend = figure /\ Spend!Entered = {} /\ migrations = <<>>

(* What a call has read, found or summed still holds unless others have    *)
(* committed since.                                                        *)
CallStands(c) ==
    /\ c.call = "read" /\ c.alone => ~outsummed /\ c.legacy = actualSpend
    /\ c.call = "counted" /\ c.alone => c.legacy = figure /\ migrations = <<>>
    /\ c.call = "write" /\ c.fresh => c.sum = Spend!SumOf(Spend!With(c.at, c.amount))
    /\ c.call = "write" /\ c.migrates /\ c.alone => c.amount = figure /\ migrations = <<>>

SpendInv ==
    /\ SpendType
    /\ ~outsummed => SpendStands
    /\ ~disturbed => migrations \in {<<>>, <<figure>>}
    /\ \A u \in Callers : CallStands(spending[u])

(* What metrics add up to. *)
Spent(table) == [m \in Metrics |-> IF table[m] = Null THEN 0 ELSE table[m]]

(* What the campaign service adds up is the sum of the metrics. *)
LEMMA SpendIsSum ==
    ASSUME NEW table, IsFiniteSet(Metrics)
    PROVE  Spend!SumOf(table) = Sum(Spent(table), Metrics)
<1>1. PICK f : f = Spent(table)
  OBVIOUS
<1>2. PICK r : r = CHOOSE g : g = [s \in SUBSET Metrics |->
        IF s = {} THEN 0
        ELSE (IF table[CHOOSE x \in s : TRUE] = Null THEN 0 ELSE table[CHOOSE x \in s : TRUE])
             + g[s \ {CHOOSE x \in s : TRUE}]]
  OBVIOUS
<1>3. Spend!SumOf(table) = r[Metrics]
  BY <1>2 DEF Spend!SumOf, Spend!MapThenSumSet, Spend!MapThenFoldSet
<1>4. \A s \in SUBSET Metrics : s # {} =>
         f[First(s)] = IF table[CHOOSE x \in s : TRUE] = Null THEN 0
                       ELSE table[CHOOSE x \in s : TRUE]
  BY <1>1 DEF Spent, First
<1>5. PICK h : SumsOver(f, Metrics, h)
  BY SumsExist
<1>6. h = [s \in SUBSET Metrics |->
        IF s = {} THEN 0
        ELSE (IF table[CHOOSE x \in s : TRUE] = Null THEN 0 ELSE table[CHOOSE x \in s : TRUE])
             + h[s \ {CHOOSE x \in s : TRUE}]]
  BY <1>4, <1>5 DEF SumsOver, First
<1>7. r = [s \in SUBSET Metrics |->
        IF s = {} THEN 0
        ELSE (IF table[CHOOSE x \in s : TRUE] = Null THEN 0 ELSE table[CHOOSE x \in s : TRUE])
             + r[s \ {CHOOSE x \in s : TRUE}]]
  <2>1. \E k : k = [s \in SUBSET Metrics |->
          IF s = {} THEN 0
          ELSE (IF table[CHOOSE x \in s : TRUE] = Null THEN 0 ELSE table[CHOOSE x \in s : TRUE])
               + k[s \ {CHOOSE x \in s : TRUE}]]
    BY <1>6
  <2> QED
    BY <1>2, <2>1
<1>8. SumsOver(f, Metrics, r)
  BY <1>4, <1>7 DEF SumsOver, First
<1> QED
  BY <1>1, <1>3, <1>8, SumOfRecursion

(* Metrics add up to a natural, and to nothing if there are none. *)
LEMMA SpendSums ==
    ASSUME SpendConstants, NEW table \in [Metrics -> {Null} \cup Nat]
    PROVE  /\ Spend!SumOf(table) \in Nat
           /\ (\A m \in Metrics : table[m] = Null) => Spend!SumOf(table) = 0
<1>1. PICK f : f = Spent(table)
  OBVIOUS
<1>2. \A m \in Metrics : f[m] \in Nat /\ (table[m] = Null => f[m] = 0)
  BY <1>1 DEF Spent
<1>3. Spend!SumOf(table) = Sum(f, Metrics) /\ IsFiniteSet(Metrics)
  BY <1>1, SpendIsSum DEF SpendConstants
<1>4. Sum(f, Metrics) \in Nat
  BY <1>2, <1>3, SumNat
<1>5. (\A m \in Metrics : table[m] = Null) => Sum(f, Metrics) = 0
  BY <1>2, <1>3, SumZero
<1> QED
  BY <1>3, <1>4, <1>5

(* The kind of a call tells what it carries. *)
LEMMA SpendCallTypes ==
    ASSUME NEW c \in SpendCalls
    PROVE  /\ c.call \in {"read", "counted"} =>
                 c \in [call : {"read", "counted"}, legacy : Nat, alone : BOOLEAN]
           /\ c.call = "write" =>
                 c \in [call : {"write"}, at : {Null} \cup Metrics, amount : {Null} \cup Nat,
                        sum : Nat, fresh : BOOLEAN, migrates : BOOLEAN, alone : BOOLEAN]
           /\ c = Spend!NoCall \/ c.call \in {"read", "counted", "write"}
           /\ c.call \in {"read", "counted", "write"} => c # Spend!NoCall
BY DEF SpendCalls, Spend!NoCall

(* No call has read anything. *)
LEMMA NoCallStands == CallStands(Spend!NoCall)
BY DEF CallStands, Spend!NoCall

(* A campaign with the figure of before and no metric: the invariant of    *)
(* the spend holds.                                                        *)
LEMMA SpendInit ==
    ASSUME SpendConstants, Spend!Init
    PROVE  SpendInv
<1> USE DEF Spend!Init
<1>1. SpendType
  <2>1. spending \in [Callers -> SpendCalls]
    BY DEF SpendCalls
  <2>2. figure \in Nat
    BY DEF SpendConstants
  <2>3. migrations \in Seq({Null} \cup Nat)
    OBVIOUS
  <2> QED
    BY <2>1, <2>2, <2>3 DEF SpendType
<1>2. Spend!Entered = {}
  BY DEF Spend!Entered
<1>3. \A u \in Callers : CallStands(spending[u])
  BY NoCallStands
<1> QED
  BY <1>1, <1>2, <1>3 DEF SpendInv, SpendStands

(* A call that stands takes the place of another. *)
LEMMA TakeKeeps ==
    ASSUME SpendInv, NEW u \in Callers, NEW c \in SpendCalls, CallStands(c), Spend!Take(u, c)
    PROVE  SpendInv'
<1>0. SpendType
  BY DEF SpendInv
<1>1. /\ spending' = [spending EXCEPT ![u] = c]
      /\ UNCHANGED <<metric, actualSpend, figure, outsummed, migrations, disturbed>>
  BY DEF Spend!Take
<1>2. SpendType'
  BY <1>0, <1>1 DEF SpendType
<1>3. Spend!Entered' = Spend!Entered /\ Spend!SumOf(metric)' = Spend!SumOf(metric)
  BY <1>1 DEF Spend!Entered
<1>4. ASSUME NEW v \in Callers PROVE CallStands(spending[v])'
  <2>1. PICK d : d = spending'[v]
    OBVIOUS
  <2>2. CallStands(d)
    BY <1>0, <1>1, <2>1 DEF SpendInv, SpendType
  <2>3. d.call = "write" /\ d.fresh =>
           d.sum = Spend!SumOf(Spend!With(d.at, d.amount))'
    BY <1>1, <2>2 DEF CallStands, Spend!With
  <2> QED
    BY <1>1, <2>1, <2>2, <2>3 DEF CallStands
<1> QED
  BY <1>1, <1>2, <1>3, <1>4 DEF SpendInv, SpendStands

(* A metric more, or less, leaves metrics. *)
LEMMA WithType ==
    ASSUME SpendType, NEW m \in {Null} \cup Metrics, NEW amount \in {Null} \cup Nat
    PROVE  Spend!With(m, amount) \in [Metrics -> {Null} \cup Nat]
BY DEF SpendType, Spend!With

(* A transaction sums what it sees, its own change included, and that sum  *)
(* is good until others commit (domain/campaigns.ts:188-272).              *)
LEMMA ChangeAndSumKeeps ==
    ASSUME SpendConstants, SpendInv, NEW u \in Callers, NEW m \in {Null} \cup Metrics,
           NEW amount \in {Null} \cup Nat, NEW alone \in BOOLEAN,
           Spend!ChangeAndSum(u, m, amount, alone),
           spending[u].call = "counted" /\ alone => amount = figure /\ migrations = <<>>
    PROVE  SpendInv'
<1>0. SpendType
  BY DEF SpendInv
<1>1. PICK sum \in Nat : sum = Spend!SumOf(Spend!With(m, amount))
  BY <1>0, WithType, SpendSums
<1>2. PICK migrates \in BOOLEAN : migrates = (spending[u].call = "counted")
  OBVIOUS
<1>3. PICK c : c = [call |-> "write", at |-> m, amount |-> amount, sum |-> sum,
                    fresh |-> TRUE, migrates |-> migrates, alone |-> alone]
  OBVIOUS
<1>4. c \in SpendCalls
  BY <1>3 DEF SpendCalls
<1>5. CallStands(c)
  BY <1>1, <1>2, <1>3 DEF CallStands
<1>6. Spend!Take(u, c)
  BY <1>1, <1>2, <1>3 DEF Spend!ChangeAndSum
<1> QED
  BY <1>4, <1>5, <1>6, TakeKeeps

(* A backfill reads a figure that is good unless it was outsummed. *)
LEMMA ReadFigureKeeps ==
    ASSUME SpendInv, NEW u \in Callers, Spend!ReadFigure(u)
    PROVE  SpendInv'
<1>0. SpendType
  BY DEF SpendInv
<1>1. PICK alone \in BOOLEAN : alone = ~outsummed
  OBVIOUS
<1>2. PICK c : c = [call |-> "read", legacy |-> actualSpend, alone |-> alone]
  OBVIOUS
<1>3. c \in SpendCalls
  BY <1>0, <1>2 DEF SpendCalls, SpendType
<1>4. CallStands(c)
  BY <1>1, <1>2 DEF CallStands
<1>5. Spend!Take(u, c)
  BY <1>1, <1>2 DEF Spend!ReadFigure
<1> QED
  BY <1>3, <1>4, <1>5, TakeKeeps

(* A campaign without metrics shows the figure of before, so that is what  *)
(* the backfill has read; a figure of zero is none.                        *)
LEMMA FindNoneKeeps ==
    ASSUME SpendConstants, SpendInv, NEW u \in Callers, Spend!FindNone(u)
    PROVE  SpendInv'
<1>0. SpendType /\ spending[u].call = "read" /\ Spend!Entered = {}
  BY DEF SpendInv, Spend!FindNone
<1>1. spending[u] \in [call : {"read", "counted"}, legacy : Nat, alone : BOOLEAN]
  BY <1>0, SpendCallTypes DEF SpendType
<1>2. CASE spending[u].legacy = 0
  <2>1. Spend!Take(u, Spend!NoCall)
    BY <1>2 DEF Spend!FindNone
  <2>2. Spend!NoCall \in SpendCalls
    BY DEF SpendCalls
  <2> QED
    BY <2>1, <2>2, NoCallStands, TakeKeeps
<1>3. CASE spending[u].legacy # 0
  <2>1. PICK c : c = [spending[u] EXCEPT !.call = "counted"]
    OBVIOUS
  <2>2. Spend!Take(u, c)
    BY <1>3, <2>1 DEF Spend!FindNone
  <2>3. c \in [call : {"read", "counted"}, legacy : Nat, alone : BOOLEAN]
        /\ c.call = "counted" /\ c.legacy = spending[u].legacy /\ c.alone = spending[u].alone
    BY <1>1, <2>1
  <2>4. c \in SpendCalls
    BY <2>3 DEF SpendCalls
  <2>5. Spend!SumOf(metric) = 0
    <3>1. \A m \in Metrics : metric[m] = Null
      BY <1>0 DEF Spend!Entered
    <3> QED
      BY <1>0, <3>1, SpendSums DEF SpendType
  <2>6. c.alone => c.legacy = figure /\ migrations = <<>>
    <3>1. c.alone => ~outsummed /\ c.legacy = actualSpend
      BY <1>0, <2>3 DEF SpendInv, CallStands
    <3> QED
      BY <1>3, <2>3, <2>5, <3>1 DEF SpendInv, SpendStands
  <2>7. CallStands(c)
    BY <2>3, <2>6 DEF CallStands
  <2> QED
    BY <2>2, <2>4, <2>7, TakeKeeps
<1> QED
  BY <1>2, <1>3

(* The sum that is written is that of the metrics then, unless others      *)
(* committed since; and a figure is migrated at most once unless           *)
(* disturbed.                                                              *)
LEMMA CommitKeeps ==
    ASSUME SpendConstants, SpendInv, NEW u \in Callers, Spend!Commit(u)
    PROVE  SpendInv'
<1>0. SpendType /\ spending[u].call = "write" /\ CallStands(spending[u])
  BY DEF SpendInv, Spend!Commit
<1>1. PICK tx : tx = spending[u]
  OBVIOUS
<1>2. /\ tx \in [call : {"write"}, at : {Null} \cup Metrics, amount : {Null} \cup Nat,
                 sum : Nat, fresh : BOOLEAN, migrates : BOOLEAN, alone : BOOLEAN]
      /\ CallStands(tx)
  BY <1>0, <1>1, SpendCallTypes DEF SpendType
<1>3. /\ metric' = Spend!With(tx.at, tx.amount)
      /\ actualSpend' = tx.sum
      /\ outsummed' = ~tx.fresh
      /\ migrations' = IF tx.migrates THEN Append(migrations, tx.amount) ELSE migrations
      /\ disturbed' = (disturbed \/ (tx.migrates /\ ~tx.alone))
      /\ figure' = figure
  BY <1>1 DEF Spend!Commit
<1>4. ASSUME NEW v \in Callers
      PROVE  spending'[v] \in SpendCalls /\ CallStands(spending[v])'
  <2>1. spending[v] \in SpendCalls
    BY <1>0 DEF SpendType
  <2>2. PICK w : w = spending'[v]
    OBVIOUS
  <2>3. w = CASE v = u \/ spending[v] = Spend!NoCall -> Spend!NoCall
              [] v # u /\ spending[v].call = "write" ->
                    [spending[v] EXCEPT !.fresh = FALSE, !.alone = ~spending[v].migrates]
              [] v # u /\ spending[v].call \in {"read", "counted"} ->
                    [spending[v] EXCEPT !.alone = FALSE]
    BY <2>2 DEF Spend!Commit
  <2>4. CASE v = u \/ spending[v] = Spend!NoCall
    <3>1. w = Spend!NoCall
      <4>1. spending[v] = Spend!NoCall => spending[v].call \notin {"read", "counted", "write"}
        BY DEF Spend!NoCall
      <4> QED
        BY <2>3, <2>4, <4>1
    <3> QED
      BY <2>2, <3>1 DEF SpendCalls, CallStands, Spend!NoCall
  <2>5. CASE v # u /\ spending[v].call = "write"
    <3>1. spending[v] \in [call : {"write"}, at : {Null} \cup Metrics, amount : {Null} \cup Nat,
                           sum : Nat, fresh : BOOLEAN, migrates : BOOLEAN, alone : BOOLEAN]
          /\ spending[v] # Spend!NoCall
      BY <2>1, <2>5, SpendCallTypes
    <3>2. PICK alone \in BOOLEAN : alone = ~spending[v].migrates
      OBVIOUS
    <3>3. w = [spending[v] EXCEPT !.fresh = FALSE, !.alone = alone]
      BY <2>3, <2>5, <3>1, <3>2
    <3>4. w \in SpendCalls /\ w.call = "write" /\ w.fresh = FALSE /\ w.alone = alone
          /\ w.migrates = spending[v].migrates
      BY <3>1, <3>3 DEF SpendCalls
    <3> QED
      BY <2>2, <3>2, <3>4 DEF CallStands
  <2>6. CASE v # u /\ spending[v].call \in {"read", "counted"}
    <3>1. spending[v] \in [call : {"read", "counted"}, legacy : Nat, alone : BOOLEAN]
          /\ spending[v] # Spend!NoCall
      BY <2>1, <2>6, SpendCallTypes
    <3>2. w = [spending[v] EXCEPT !.alone = FALSE]
      BY <2>3, <2>6, <3>1
    <3>3. w \in SpendCalls /\ w.call \in {"read", "counted"} /\ w.alone = FALSE
      BY <3>1, <3>2 DEF SpendCalls
    <3> QED
      BY <2>2, <3>3 DEF CallStands
  <2> QED
    BY <2>1, <2>4, <2>5, <2>6, SpendCallTypes
<1>5. SpendType'
  <2>1. spending' \in [Callers -> SpendCalls]
    BY <1>4 DEF Spend!Commit
  <2>2. metric' \in [Metrics -> {Null} \cup Nat]
    BY <1>0, <1>2, <1>3, WithType
  <2>3. migrations' \in Seq({Null} \cup Nat)
    BY <1>0, <1>2, <1>3 DEF SpendType
  <2>4. outsummed' \in BOOLEAN /\ disturbed' \in BOOLEAN
    BY <1>2, <1>3
  <2> QED
    BY <1>0, <1>2, <1>3, <2>1, <2>2, <2>3, <2>4 DEF SpendType
<1>6. ~outsummed' => SpendStands'
  <2>1. tx.fresh => actualSpend' = Spend!SumOf(Spend!With(tx.at, tx.amount))
    BY <1>2, <1>3 DEF CallStands
  <2>2. tx.fresh => actualSpend' = Spend!SumOf(metric)'
    BY <1>3, <2>1
  <2> QED
    BY <1>2, <1>3, <2>2 DEF SpendStands
<1>7. ~disturbed' => migrations' \in {<<>>, <<figure>>}
  <2>1. CASE tx.migrates
    <3>1. ~disturbed' => tx.amount = figure /\ migrations = <<>>
      BY <1>2, <1>3, <2>1 DEF CallStands
    <3>2. ~disturbed' => migrations' = <<figure>>
      BY <1>3, <2>1, <3>1
    <3> QED
      BY <3>2
  <2>2. CASE ~tx.migrates
    BY <1>3, <2>2 DEF SpendInv
  <2> QED
    BY <2>1, <2>2
<1> QED
  BY <1>3, <1>4, <1>5, <1>6, <1>7 DEF SpendInv

(* Every step of the spend keeps its invariant. *)
LEMMA SpendStep ==
    ASSUME SpendConstants, SpendInv, [Spend!Next]_spendvars
    PROVE  SpendInv'
<1>0. SpendType
  BY DEF SpendInv
<1>1. CASE UNCHANGED spendvars
  BY <1>1 DEF spendvars, SpendInv, SpendType, SpendStands, CallStands, Spend!Entered, Spend!With
<1>2. ASSUME NEW u \in Callers, Spend!Resum(u)
      PROVE  SpendInv'
  <2>1. Spend!ChangeAndSum(u, Null, Null, TRUE) /\ spending[u].call # "counted"
    BY <1>2 DEF Spend!Resum
  <2>2. Null \in {Null} \cup Metrics /\ Null \in {Null} \cup Nat /\ TRUE \in BOOLEAN
    OBVIOUS
  <2> QED
    BY <2>1, <2>2, ChangeAndSumKeeps
<1>3. ASSUME NEW u \in Callers, NEW m \in Metrics, Spend!DeleteCampaignMetric(u, m)
      PROVE  SpendInv'
  <2>0. Spend!ChangeAndSum(u, m, Null, TRUE) /\ spending[u] = Spend!NoCall
    BY <1>3 DEF Spend!DeleteCampaignMetric
  <2>1. Spend!ChangeAndSum(u, m, Null, TRUE) /\ spending[u].call # "counted"
    <3>1. Spend!NoCall.call # "counted"
      BY DEF Spend!NoCall
    <3> QED
      BY <2>0, <3>1
  <2>2. m \in {Null} \cup Metrics /\ Null \in {Null} \cup Nat /\ TRUE \in BOOLEAN
    OBVIOUS
  <2> QED
    BY <2>1, <2>2, ChangeAndSumKeeps
<1>4. ASSUME NEW u \in Callers, NEW m \in Metrics, NEW amount \in SpendAmounts,
             Spend!AddCampaignMetric(u, m, amount)
      PROVE  SpendInv'
  <2>0. Spend!ChangeAndSum(u, m, amount, TRUE) /\ spending[u] = Spend!NoCall
    BY <1>4 DEF Spend!AddCampaignMetric
  <2>1. Spend!ChangeAndSum(u, m, amount, TRUE) /\ spending[u].call # "counted"
    <3>1. Spend!NoCall.call # "counted"
      BY DEF Spend!NoCall
    <3> QED
      BY <2>0, <3>1
  <2>2. m \in {Null} \cup Metrics /\ amount \in {Null} \cup Nat /\ TRUE \in BOOLEAN
    BY DEF SpendConstants
  <2> QED
    BY <2>1, <2>2, ChangeAndSumKeeps
<1>5. ASSUME NEW u \in Callers, NEW m \in Metrics, Spend!Migrate(u, m)
      PROVE  SpendInv'
  <2>1. PICK amount : amount = spending[u].legacy
    OBVIOUS
  <2>2. PICK alone : alone = spending[u].alone
    OBVIOUS
  <2>3. Spend!ChangeAndSum(u, m, amount, alone) /\ spending[u].call = "counted"
    BY <1>5, <2>1, <2>2 DEF Spend!Migrate
  <2>4. m \in {Null} \cup Metrics /\ amount \in {Null} \cup Nat /\ alone \in BOOLEAN
    BY <1>0, <2>1, <2>2, <2>3, SpendCallTypes DEF SpendType
  <2>5. alone => amount = figure /\ migrations = <<>>
    BY <2>1, <2>2, <2>3 DEF SpendInv, CallStands
  <2> QED
    BY <2>3, <2>4, <2>5, ChangeAndSumKeeps
<1>6. ASSUME NEW u \in Callers, Spend!Rollback(u)
      PROVE  SpendInv'
  <2>1. Spend!NoCall \in SpendCalls
    BY DEF SpendCalls
  <2> QED
    BY <1>6, <2>1, NoCallStands, TakeKeeps DEF Spend!Rollback
<1> QED
  BY <1>1, <1>2, <1>3, <1>4, <1>5, <1>6, ReadFigureKeeps, FindNoneKeeps, CommitKeeps
  DEF Spend!Next

(* The invariant has the parts of SpendIsDerived. *)
LEMMA SpendSafe ==
    ASSUME SpendInv
    PROVE  Spend!SpendIsDerived
BY DEF SpendInv, SpendStands, Spend!SpendIsDerived

-----------------------------------------------------------------------------
(* What is posted once *)

OnceConstants == Null \notin Nat

JournalRow == [source : Once!Sources \cup {"Reversal"}, status : {"posted", "reversed"}, of : Nat]

Posting == [call : {"post"}, source : Once!Sources, fresh : BOOLEAN]

Reversing == [call : {"reverse"}, entry : Nat, source : Once!Sources, fresh : BOOLEAN]

OnceType ==
    /\ expense \in [status : {"pending", "approved", "posted"}, entry : {Null} \cup Nat]
    /\ journal \in Seq(JournalRow)
    /\ preparing \in [Accountants -> {Once!NotPosting} \cup Posting \cup Reversing]
    /\ doubled \subseteq Once!Sources

(* The expense names its last entry. *)
ExpenseStands ==
    /\ expense.entry = Null <=> Once!Entries("Expense") = {}
    /\ expense.entry # Null => expense.status = "posted"
    /\ \A k \in Once!Entries("Expense") : k <= expense.entry

(* A reversal has an entry of a source; of a source at most one stands and *)
(* every other one has its reversal, unless calls overlapped.              *)
JournalStands ==
    /\ \A k \in Once!Entries("Reversal") : journal[k].of \in 1 .. Len(journal)
    /\ "Expense" \notin doubled => \A j, k \in Once!Entries("Expense") : j = k
    /\ \A source \in Once!Sources \ doubled :
          /\ \A j, k \in Once!Standing(source) : j = k
          /\ Cardinality(Once!Entries(source)) =
                Cardinality(Once!Standing(source)) + Cardinality(Once!Reversals(source))

(* What an attempt has seen is so still, unless others have written. *)
AttemptStands(p) ==
    /\ p.call = "post" /\ p.fresh /\ p.source = "Expense" => Once!Entries("Expense") = {}
    /\ p.call = "post" /\ p.fresh => Once!Standing(p.source) = {}
    /\ p.call = "reverse" => p.entry \in Once!Entries(p.source)
    /\ p.call = "reverse" /\ p.fresh => p.entry \in Once!Standing(p.source)

OnceInv ==
    /\ OnceType
    /\ ExpenseStands
    /\ JournalStands
    /\ \A c \in Accountants : AttemptStands(preparing[c])

(* The postings are counted as everything is. *)
LEMMA OnceCardinality == \A S : Once!Cardinality(S) = Cardinality(S)
BY DEF Once!Cardinality, Cardinality

(* The kind of an attempt tells what it carries. *)
LEMMA AttemptTypes ==
    ASSUME NEW p \in {Once!NotPosting} \cup Posting \cup Reversing
    PROVE  /\ p.call = "none" \/ p.call = "post" \/ p.call = "reverse"
           /\ p.call = "none" => p = Once!NotPosting
           /\ p.call = "post" => p \in Posting
           /\ p.call = "reverse" => p \in Reversing
BY DEF Once!NotPosting, Posting, Reversing

(* Who prepares nothing has seen nothing. *)
LEMMA NotPostingStands ==
    /\ AttemptStands(Once!NotPosting)
    /\ Once!NotPosting.call = "none"
BY DEF AttemptStands, Once!NotPosting

(* The sets of entries are finite. *)
LEMMA EntriesFinite ==
    ASSUME OnceType, NEW source
    PROVE  /\ IsFiniteSet(Once!Entries(source))
           /\ IsFiniteSet(Once!Standing(source))
           /\ IsFiniteSet(Once!Reversals(source))
<1>1. IsFiniteSet(1 .. Len(journal)) /\ DOMAIN journal = 1 .. Len(journal)
  <2>1. Len(journal) \in Int /\ 1 \in Int /\ DOMAIN journal = 1 .. Len(journal)
    BY DEF OnceType
  <2> QED
    BY <2>1, FS_Interval
<1>2. /\ Once!Entries(source) \in SUBSET (1 .. Len(journal))
      /\ Once!Standing(source) \in SUBSET (1 .. Len(journal))
      /\ Once!Reversals(source) \in SUBSET (1 .. Len(journal))
  BY <1>1 DEF Once!Entries, Once!Standing, Once!Reversals
<1> QED
  BY <1>1, <1>2, FS_Subset

(* An empty journal: the invariant of what is posted once holds. *)
LEMMA OnceInit ==
    ASSUME Once!Init
    PROVE  OnceInv
<1> USE DEF Once!Init
<1>1. \A source : /\ Once!Entries(source) = {} /\ Once!Standing(source) = {}
                  /\ Once!Reversals(source) = {}
  BY DEF Once!Entries, Once!Standing, Once!Reversals
<1>2. OnceType
  <2>1. journal \in Seq(JournalRow)
    OBVIOUS
  <2>2. preparing \in [Accountants -> {Once!NotPosting} \cup Posting \cup Reversing]
    OBVIOUS
  <2> QED
    BY <2>1, <2>2 DEF OnceType
<1>3. ExpenseStands
  <2>1. expense.entry = Null
    OBVIOUS
  <2> QED
    BY <1>1, <2>1 DEF ExpenseStands
<1>4. JournalStands
  <2>1. Cardinality({}) = 0 + 0 /\ Once!Sources \ doubled = Once!Sources
    BY FS_EmptySet
  <2>2. \A k \in Once!Entries("Reversal") : journal[k].of \in 1 .. Len(journal)
    BY <1>1
  <2>3. \A j, k \in Once!Entries("Expense") : j = k
    BY <1>1
  <2>4. ASSUME NEW s \in Once!Sources
        PROVE  /\ \A j, k \in Once!Standing(s) : j = k
               /\ Cardinality(Once!Entries(s)) =
                     Cardinality(Once!Standing(s)) + Cardinality(Once!Reversals(s))
    <3>1. Once!Entries(s) = {} /\ Once!Standing(s) = {} /\ Once!Reversals(s) = {}
      BY <1>1
    <3> QED
      BY <2>1, <3>1
  <2> QED
    BY <2>2, <2>3, <2>4 DEF JournalStands
<1>5. \A c \in Accountants : AttemptStands(preparing[c])
  BY NotPostingStands
<1> QED
  BY <1>2, <1>3, <1>4, <1>5 DEF OnceInv

(* A call begins, or gives up. *)
LEMMA PreparingKeeps ==
    ASSUME OnceInv, NEW c \in Accountants,
           NEW p \in {Once!NotPosting} \cup Posting \cup Reversing, AttemptStands(p),
           preparing' = [preparing EXCEPT ![c] = p], UNCHANGED <<expense, journal, doubled>>
    PROVE  OnceInv'
<1>1. OnceType'
  BY DEF OnceInv, OnceType
<1>2. \A source : /\ Once!Entries(source)' = Once!Entries(source)
                  /\ Once!Standing(source)' = Once!Standing(source)
                  /\ Once!Reversals(source)' = Once!Reversals(source)
  BY DEF Once!Entries, Once!Standing, Once!Reversals
<1>3. ExpenseStands' /\ JournalStands'
  BY <1>2 DEF OnceInv, ExpenseStands, JournalStands
<1>4. ASSUME NEW d \in Accountants PROVE AttemptStands(preparing[d])'
  <2>1. PICK q : q = preparing'[d]
    OBVIOUS
  <2>2. AttemptStands(q)
    BY <2>1 DEF OnceInv, OnceType
  <2> QED
    BY <1>2, <2>1, <2>2 DEF AttemptStands
<1> QED
  BY <1>1, <1>3, <1>4 DEF OnceInv

(* An expense without an entry has none in the journal                     *)
(* (domain/accounting/expenses-gl.ts:41-88).                               *)
LEMMA ReadExpenseKeeps ==
    ASSUME OnceInv, NEW c \in Accountants, Once!ReadExpense(c)
    PROVE  OnceInv'
<1>1. PICK p : p = Once!Attempt("post", "Expense")
  OBVIOUS
<1>2. p \in Posting /\ p.call = "post" /\ p.source = "Expense"
  BY <1>1 DEF Once!Attempt, Posting, Once!Sources
<1>3. Once!Entries("Expense") = {}
  BY DEF Once!ReadExpense, OnceInv, ExpenseStands
<1>4. AttemptStands(p)
  BY <1>2, <1>3 DEF AttemptStands, Once!Standing
<1>5. preparing' = [preparing EXCEPT ![c] = p] /\ UNCHANGED <<expense, journal, doubled>>
  BY <1>1 DEF Once!ReadExpense, Once!Begin
<1> QED
  BY <1>2, <1>4, <1>5, PreparingKeeps

(* Opening balances are prepared while no entry of them stands             *)
(* (domain/accounting/opening-balances.ts:32-95).                          *)
LEMMA ReadOpeningKeeps ==
    ASSUME OnceInv, NEW c \in Accountants, Once!ReadOpening(c)
    PROVE  OnceInv'
<1>1. PICK p : p = Once!Attempt("post", "OpeningBalance")
  OBVIOUS
<1>2. p \in Posting /\ p.call = "post" /\ p.source = "OpeningBalance"
  BY <1>1 DEF Once!Attempt, Posting, Once!Sources
<1>3. Once!Standing("OpeningBalance") = {}
  BY DEF Once!ReadOpening
<1>4. AttemptStands(p)
  BY <1>2, <1>3 DEF AttemptStands
<1>5. preparing' = [preparing EXCEPT ![c] = p] /\ UNCHANGED <<expense, journal, doubled>>
  BY <1>1 DEF Once!ReadOpening, Once!Begin
<1> QED
  BY <1>2, <1>4, <1>5, PreparingKeeps

(* An entry is reversed that stood when it was read. *)
LEMMA ReadEntryKeeps ==
    ASSUME OnceInv, NEW c \in Accountants, NEW k \in 1 .. MaxEntries, Once!ReadEntry(c, k)
    PROVE  OnceInv'
<1>1. PICK source : source = journal[k].source
  OBVIOUS
<1>2. PICK p : p = [call |-> "reverse", entry |-> k, source |-> source, fresh |-> TRUE]
  OBVIOUS
<1>3. source \in Once!Sources /\ k \in DOMAIN journal /\ journal[k].status = "posted"
  BY <1>1 DEF Once!ReadEntry
<1>4. k \in Nat
  BY <1>3 DEF OnceInv, OnceType
<1>5. p \in Reversing /\ p.call = "reverse" /\ p.source = source /\ p.entry = k
  BY <1>2, <1>3, <1>4 DEF Reversing
<1>6. k \in Once!Standing(source)
  BY <1>1, <1>3 DEF Once!Standing, Once!Entries
<1>7. AttemptStands(p)
  BY <1>5, <1>6 DEF AttemptStands, Once!Standing
<1>8. preparing' = [preparing EXCEPT ![c] = p] /\ UNCHANGED <<expense, journal, doubled>>
  BY <1>1, <1>2 DEF Once!ReadEntry, Once!Begin
<1> QED
  BY <1>5, <1>7, <1>8, PreparingKeeps

(* An entry of a source, and nothing else, is added. *)
LEMMA EntryAdded ==
    ASSUME OnceInv, NEW source \in Once!Sources, journal' = Append(journal, Once!Post(source))
    PROVE  /\ Len(journal) + 1 \notin Once!Entries(source)
           /\ Len(journal) + 1 \notin Once!Standing(source)
           /\ Once!Entries(source)' = Once!Entries(source) \cup {Len(journal) + 1}
           /\ Once!Standing(source)' = Once!Standing(source) \cup {Len(journal) + 1}
           /\ \A s \in Once!Sources : s # source =>
                 /\ Once!Entries(s)' = Once!Entries(s)
                 /\ Once!Standing(s)' = Once!Standing(s)
           /\ \A s \in Once!Sources : Once!Reversals(s)' = Once!Reversals(s)
           /\ Once!Entries("Reversal")' = Once!Entries("Reversal")
           /\ \A k \in Once!Entries("Reversal") : journal'[k] = journal[k]
           /\ journal' \in Seq(JournalRow) /\ Len(journal') = Len(journal) + 1
<1>1. PICK n \in Nat : n = Len(journal) + 1
  BY DEF OnceInv, OnceType
<1>2. PICK rec \in JournalRow :
         rec = Once!Post(source) /\ rec.source = source /\ rec.status = "posted"
  BY DEF Once!Post, JournalRow
<1>3. /\ journal' = Append(journal, rec) /\ journal \in Seq(JournalRow)
      /\ DOMAIN journal = 1 .. Len(journal)
  BY <1>2 DEF OnceInv, OnceType
<1>4. /\ journal' \in Seq(JournalRow) /\ Len(journal') = n
      /\ DOMAIN journal' = DOMAIN journal \cup {n} /\ n \notin DOMAIN journal
      /\ journal'[n] = rec /\ \A k \in DOMAIN journal : journal'[k] = journal[k]
  BY <1>1, <1>3
<1>5. \A s : Once!Entries(s)' = Once!Entries(s) \cup (IF s = source THEN {n} ELSE {})
  BY <1>2, <1>4 DEF Once!Entries
<1>6. \A s : Once!Standing(s)' = Once!Standing(s) \cup (IF s = source THEN {n} ELSE {})
  BY <1>2, <1>4 DEF Once!Standing, Once!Entries
<1>7. source # "Reversal" /\ Once!Entries("Reversal") \subseteq DOMAIN journal
  BY DEF Once!Sources, Once!Entries
<1>8. \A k \in Once!Entries("Reversal") : journal'[k] = journal[k] /\ journal[k].of \in DOMAIN journal
  BY <1>3, <1>4, <1>7 DEF OnceInv, JournalStands
<1>9. Once!Entries("Reversal")' = Once!Entries("Reversal")
  BY <1>5, <1>7
<1>10. ASSUME NEW s \in Once!Sources PROVE Once!Reversals(s)' = Once!Reversals(s)
  <2>1. Once!Reversals(s)' =
           {k \in Once!Entries("Reversal") : journal'[journal'[k].of].source = s}
    BY <1>9 DEF Once!Reversals
  <2>2. \A k \in Once!Entries("Reversal") :
           journal'[journal'[k].of].source = journal[journal[k].of].source
    BY <1>4, <1>8
  <2> QED
    BY <2>1, <2>2 DEF Once!Reversals
<1>11. n \notin Once!Entries(source) /\ n \notin Once!Standing(source)
  BY <1>4 DEF Once!Entries, Once!Standing
<1> QED
  BY <1>1, <1>4, <1>5, <1>6, <1>8, <1>9, <1>10, <1>11

(* The calls of others on the same source are behind, those on the other   *)
(* source are where they were.                                             *)
LEMMA OthersFallBehind ==
    ASSUME OnceInv, NEW c \in Accountants, NEW source \in Once!Sources,
           Once!Finish(c, source), preparing[c] \in Posting \cup Reversing,
           \A s \in Once!Sources : s # source =>
              Once!Entries(s)' = Once!Entries(s) /\ Once!Standing(s)' = Once!Standing(s),
           Once!Entries(source) \subseteq Once!Entries(source)'
    PROVE  /\ preparing' \in [Accountants -> {Once!NotPosting} \cup Posting \cup Reversing]
           /\ \A d \in Accountants : AttemptStands(preparing[d])'
           /\ doubled \subseteq doubled' /\ doubled' \subseteq Once!Sources
           /\ source \notin doubled' => preparing[c].fresh /\ source \notin doubled
           /\ \A s \in Once!Sources \ doubled' : s \notin doubled
<1>0. OnceType
  BY DEF OnceInv
<1>1. preparing' = [d \in Accountants |->
          IF d = c THEN Once!NotPosting
          ELSE IF Once!Doing(d) /\ preparing[d].source = source
               THEN [preparing[d] EXCEPT !.fresh = FALSE] ELSE preparing[d]]
  BY DEF Once!Finish
<1>2. ASSUME NEW d \in Accountants
      PROVE  /\ preparing'[d] \in {Once!NotPosting} \cup Posting \cup Reversing
             /\ AttemptStands(preparing[d])'
  <2>1. PICK q : q = preparing'[d]
    OBVIOUS
  <2>2. PICK p : p = preparing[d]
    OBVIOUS
  <2>3. p \in {Once!NotPosting} \cup Posting \cup Reversing /\ AttemptStands(p)
    BY <1>0, <2>2 DEF OnceInv, OnceType
  <2>4. CASE d = c \/ p = Once!NotPosting
    <3>1. q = Once!NotPosting
      BY <1>1, <2>1, <2>2, <2>4, NotPostingStands DEF Once!Doing
    <3> QED
      BY <2>1, <3>1 DEF AttemptStands, Once!NotPosting
  <2>5. CASE d # c /\ p # Once!NotPosting /\ p.source = source
    <3>1. q = [p EXCEPT !.fresh = FALSE]
      BY <1>1, <2>1, <2>2, <2>3, <2>5, AttemptTypes DEF Once!Doing
    <3>2. /\ q \in Posting \cup Reversing /\ q.call = p.call /\ q.source = source
          /\ q.fresh = FALSE /\ (p.call = "reverse" => q.entry = p.entry)
      BY <2>3, <2>5, <3>1 DEF Posting, Reversing
    <3>3. q.call = "reverse" => q.entry \in Once!Entries(q.source)'
      BY <2>3, <2>5, <3>2 DEF AttemptStands
    <3> QED
      BY <2>1, <3>2, <3>3 DEF AttemptStands
  <2>6. CASE d # c /\ p # Once!NotPosting /\ p.source # source
    <3>1. q = p
      BY <1>1, <2>1, <2>2, <2>6
    <3>2. p.source \in Once!Sources
      BY <2>3, <2>6 DEF Posting, Reversing
    <3>3. /\ Once!Entries(p.source)' = Once!Entries(p.source)
          /\ Once!Standing(p.source)' = Once!Standing(p.source)
      BY <2>6, <3>2
    <3>4. p.source = "Expense" => Once!Entries("Expense")' = Once!Entries("Expense")
      BY <3>3
    <3> QED
      BY <2>1, <2>3, <3>1, <3>3, <3>4 DEF AttemptStands
  <2> QED
    BY <2>4, <2>5, <2>6
<1>3. doubled' = IF preparing[c].fresh THEN doubled ELSE doubled \cup {source}
  BY DEF Once!Finish
<1>4. doubled \subseteq Once!Sources
  BY <1>0 DEF OnceType
<1> QED
  BY <1>1, <1>2, <1>3, <1>4

(* An entry is written. *)
LEMMA PostKeeps ==
    ASSUME OnceInv, NEW c \in Accountants, NEW source \in Once!Sources,
           preparing[c].call = "post", preparing[c].source = source,
           journal' = Append(journal, Once!Post(source)), Once!Finish(c, source)
    PROVE  /\ journal' \in Seq(JournalRow)
           /\ JournalStands'
           /\ preparing' \in [Accountants -> {Once!NotPosting} \cup Posting \cup Reversing]
           /\ doubled' \subseteq Once!Sources
           /\ \A d \in Accountants : AttemptStands(preparing[d])'
<1>0. OnceType /\ JournalStands
  BY DEF OnceInv
<1>1. preparing[c] \in Posting /\ AttemptStands(preparing[c])
  BY <1>0, AttemptTypes DEF OnceInv, OnceType
<1>2. PICK n : n = Len(journal) + 1
  OBVIOUS
<1>3. /\ n \notin Once!Entries(source) /\ n \notin Once!Standing(source)
      /\ Once!Entries(source)' = Once!Entries(source) \cup {n}
      /\ Once!Standing(source)' = Once!Standing(source) \cup {n}
      /\ \A s \in Once!Sources : s # source =>
            /\ Once!Entries(s)' = Once!Entries(s) /\ Once!Standing(s)' = Once!Standing(s)
      /\ \A s \in Once!Sources : Once!Reversals(s)' = Once!Reversals(s)
      /\ Once!Entries("Reversal")' = Once!Entries("Reversal")
      /\ \A k \in Once!Entries("Reversal") : journal'[k] = journal[k]
      /\ journal' \in Seq(JournalRow) /\ Len(journal') = Len(journal) + 1
  BY <1>2, EntryAdded
<1>4. /\ preparing' \in [Accountants -> {Once!NotPosting} \cup Posting \cup Reversing]
      /\ \A d \in Accountants : AttemptStands(preparing[d])'
      /\ doubled \subseteq doubled' /\ doubled' \subseteq Once!Sources
      /\ source \notin doubled' => preparing[c].fresh /\ source \notin doubled
      /\ \A s \in Once!Sources \ doubled' : s \notin doubled
  <2>1. Once!Entries(source) \subseteq Once!Entries(source)'
    BY <1>3
  <2>2. preparing[c] \in Posting \cup Reversing
    BY <1>1
  <2> QED
    BY <1>3, <2>1, <2>2, OthersFallBehind
<1>5. source \notin doubled' =>
         /\ Once!Standing(source) = {}
         /\ source = "Expense" => Once!Entries("Expense") = {}
  BY <1>1, <1>4 DEF AttemptStands
<1>6. \A k \in Once!Entries("Reversal")' : journal'[k].of \in 1 .. Len(journal')
  <2>1. \A k \in Once!Entries("Reversal") : journal[k].of \in 1 .. Len(journal)
    BY <1>0 DEF JournalStands
  <2>2. PICK len \in Nat : len = Len(journal)
    BY <1>0 DEF OnceType
  <2>3. \A k \in Once!Entries("Reversal") : journal'[k].of \in 1 .. len
    BY <1>3, <2>1, <2>2
  <2>4. Once!Entries("Reversal")' = Once!Entries("Reversal") /\ Len(journal') = len + 1
    BY <1>3, <2>2
  <2>5. 1 .. len \subseteq 1 .. Len(journal')
    BY <2>2, <2>4
  <2> QED
    BY <2>3, <2>4, <2>5
<1>7. "Expense" \notin doubled' => \A j, k \in Once!Entries("Expense")' : j = k
  <2>1. CASE source = "Expense"
    BY <1>3, <1>5, <2>1
  <2>2. CASE source # "Expense"
    BY <1>0, <1>3, <1>4, <2>2 DEF JournalStands, Once!Sources
  <2> QED
    BY <2>1, <2>2
<1>8. ASSUME NEW s \in Once!Sources \ doubled'
      PROVE  /\ \A j, k \in Once!Standing(s)' : j = k
             /\ Cardinality(Once!Entries(s)') =
                   Cardinality(Once!Standing(s)') + Cardinality(Once!Reversals(s)')
  <2>1. /\ \A j, k \in Once!Standing(s) : j = k
        /\ Cardinality(Once!Entries(s)) =
              Cardinality(Once!Standing(s)) + Cardinality(Once!Reversals(s))
    BY <1>0, <1>4, <1>8 DEF JournalStands
  <2>2. CASE s # source
    <3>1. /\ Once!Entries(s)' = Once!Entries(s) /\ Once!Standing(s)' = Once!Standing(s)
          /\ Once!Reversals(s)' = Once!Reversals(s)
      BY <1>3, <2>2
    <3> QED
      BY <2>1, <3>1
  <2>3. CASE s = source
    <3>1. /\ IsFiniteSet(Once!Entries(s)) /\ IsFiniteSet(Once!Standing(s))
          /\ IsFiniteSet(Once!Reversals(s))
      BY <1>0, EntriesFinite
    <3>2. /\ Cardinality(Once!Entries(s)) \in Nat /\ Cardinality(Once!Standing(s)) \in Nat
          /\ Cardinality(Once!Reversals(s)) \in Nat
      BY <3>1, FS_CardinalityType
    <3>a. /\ n \notin Once!Entries(s) /\ Once!Entries(s)' = Once!Entries(s) \cup {n}
          /\ n \notin Once!Standing(s) /\ Once!Standing(s)' = Once!Standing(s) \cup {n}
      BY <1>3, <2>3
    <3>3. Cardinality(Once!Entries(s)') = Cardinality(Once!Entries(s)) + 1
      BY <3>a, <3>1, FS_AddElement
    <3>4. Cardinality(Once!Standing(s)') = Cardinality(Once!Standing(s)) + 1
      BY <3>a, <3>1, FS_AddElement
    <3>5. Once!Reversals(s)' = Once!Reversals(s)
      BY <1>3
    <3>6. \A j, k \in Once!Standing(s)' : j = k
      BY <1>3, <1>5, <1>8, <2>3
    <3> QED
      BY <2>1, <3>2, <3>3, <3>4, <3>5, <3>6
  <2> QED
    BY <2>2, <2>3
<1>9. JournalStands'
  <2>1. \A s \in Once!Sources \ doubled' :
           Cardinality(Once!Entries(s))' =
              Cardinality(Once!Standing(s))' + Cardinality(Once!Reversals(s))'
    BY <1>8
  <2> QED
    BY <1>6, <1>7, <1>8, <2>1 DEF JournalStands
<1> QED
  BY <1>3, <1>4, <1>9

(* The entry of the expense is the last one, and the expense names it. *)
LEMMA PostExpenseKeeps ==
    ASSUME OnceConstants, OnceInv, NEW c \in Accountants, Once!PostExpense(c)
    PROVE  OnceInv'
<1>0. OnceType /\ "Expense" \in Once!Sources
  BY DEF OnceInv, Once!Sources
<1>1. /\ preparing[c].call = "post" /\ preparing[c].source = "Expense"
      /\ journal' = Append(journal, Once!Post("Expense")) /\ Once!Finish(c, "Expense")
  BY DEF Once!PostExpense
<1>2. /\ journal' \in Seq(JournalRow)
      /\ JournalStands'
      /\ preparing' \in [Accountants -> {Once!NotPosting} \cup Posting \cup Reversing]
      /\ doubled' \subseteq Once!Sources
      /\ \A d \in Accountants : AttemptStands(preparing[d])'
  BY <1>0, <1>1, PostKeeps
<1>3. PICK n \in Nat : n = Len(journal) + 1
  BY <1>0 DEF OnceType
<1>4. expense' = [status |-> "posted", entry |-> n]
  BY <1>3 DEF Once!PostExpense
<1>5. expense' \in [status : {"pending", "approved", "posted"}, entry : {Null} \cup Nat]
  BY <1>4
<1>6. ExpenseStands'
  <2>1. Once!Entries("Expense")' = Once!Entries("Expense") \cup {n}
    BY <1>0, <1>1, <1>3, EntryAdded
  <2>2. \A k \in Once!Entries("Expense") : k <= n
    BY <1>0, <1>3 DEF OnceType, Once!Entries
  <2>3. n <= n /\ n # Null
    BY DEF OnceConstants
  <2> QED
    BY <1>4, <2>1, <2>2, <2>3 DEF ExpenseStands
<1> QED
  BY <1>2, <1>5, <1>6 DEF OnceInv, OnceType

(* An opening entry leaves the expense alone. *)
LEMMA PostOpeningKeeps ==
    ASSUME OnceInv, NEW c \in Accountants, Once!PostOpeningBalances(c)
    PROVE  OnceInv'
<1>0. OnceType /\ "OpeningBalance" \in Once!Sources /\ "Expense" \in Once!Sources
  BY DEF OnceInv, Once!Sources
<1>1. /\ preparing[c].call = "post" /\ preparing[c].source = "OpeningBalance"
      /\ journal' = Append(journal, Once!Post("OpeningBalance"))
      /\ Once!Finish(c, "OpeningBalance") /\ expense' = expense
  BY DEF Once!PostOpeningBalances
<1>2. /\ journal' \in Seq(JournalRow)
      /\ JournalStands'
      /\ preparing' \in [Accountants -> {Once!NotPosting} \cup Posting \cup Reversing]
      /\ doubled' \subseteq Once!Sources
      /\ \A d \in Accountants : AttemptStands(preparing[d])'
  BY <1>0, <1>1, PostKeeps
<1>3. Once!Entries("Expense")' = Once!Entries("Expense")
  BY <1>0, <1>1, EntryAdded
<1>4. ExpenseStands'
  BY <1>1, <1>3 DEF OnceInv, ExpenseStands
<1> QED
  BY <1>0, <1>1, <1>2, <1>4 DEF OnceInv, OnceType

(* A reversal takes its entry from those that stand and is one more        *)
(* reversal of its source.                                                 *)
LEMMA ReverseKeeps ==
    ASSUME OnceInv, NEW c \in Accountants, Once!ReverseEntry(c)
    PROVE  OnceInv'
<1>0. OnceType /\ JournalStands
  BY DEF OnceInv
<1>1. preparing[c] \in Reversing /\ AttemptStands(preparing[c])
  BY <1>0, AttemptTypes DEF OnceInv, OnceType, Once!ReverseEntry
<1>2. PICK k : k = preparing[c].entry
  OBVIOUS
<1>3. PICK source \in Once!Sources : source = preparing[c].source
  BY <1>1 DEF Reversing
<1>4. k \in Once!Entries(source) /\ (preparing[c].fresh => k \in Once!Standing(source))
  BY <1>1, <1>2, <1>3 DEF AttemptStands, Once!ReverseEntry
<1>5. PICK n \in Nat : n = Len(journal) + 1
  BY <1>0 DEF OnceType
<1>6. k \in DOMAIN journal /\ journal[k].source = source /\ k \in Nat
  BY <1>0, <1>4 DEF Once!Entries, OnceType
<1>7. PICK rec \in JournalRow :
         rec = Once!Reversal(k) /\ rec.source = "Reversal" /\ rec.of = k
  <2>1. PICK r : r = [source |-> "Reversal", status |-> "posted", of |-> k]
    OBVIOUS
  <2>2. r \in JournalRow /\ r.source = "Reversal" /\ r.of = k
    BY <1>6, <2>1 DEF JournalRow
  <2> QED
    BY <2>1, <2>2 DEF Once!Reversal
<1>8. PICK reversed \in JournalRow :
         reversed = [journal[k] EXCEPT !.status = "reversed"]
  <2>1. journal[k] \in JournalRow
    BY <1>0, <1>6 DEF OnceType
  <2> QED
    BY <2>1 DEF JournalRow
<1>9. reversed.source = source /\ reversed.status = "reversed" /\ reversed.of = journal[k].of
  <2>1. journal[k] \in JournalRow
    BY <1>0, <1>6 DEF OnceType
  <2> QED
    BY <1>6, <1>8, <2>1 DEF JournalRow
<1>10. PICK marked : marked = [journal EXCEPT ![k] = reversed]
  OBVIOUS
<1>11. marked \in Seq(JournalRow) /\ Len(marked) = Len(journal) /\ marked[k] = reversed
       /\ \A j \in DOMAIN journal : j # k => marked[j] = journal[j]
  <2>1. journal \in Seq(JournalRow) /\ reversed \in JournalRow
    BY <1>0 DEF OnceType
  <2> QED
    BY <1>6, <1>10, <2>1
<1>12. journal' = Append(marked, rec)
  <2>1. marked = [journal EXCEPT ![k].status = "reversed"]
    BY <1>8, <1>10
  <2> QED
    BY <1>2, <1>7, <2>1 DEF Once!ReverseEntry
<1>13. /\ journal' \in Seq(JournalRow) /\ Len(journal') = n
       /\ DOMAIN journal = 1 .. Len(journal)
       /\ DOMAIN journal' = DOMAIN journal \cup {n} /\ n \notin DOMAIN journal
       /\ journal'[n] = rec /\ journal'[k] = reversed
       /\ \A j \in DOMAIN journal : j # k => journal'[j] = journal[j]
  <2>1. Len(journal) \in Nat /\ DOMAIN journal = 1 .. Len(journal)
    BY <1>0 DEF OnceType
  <2> QED
    BY <1>5, <1>6, <1>11, <1>12, <2>1
<1>14. source # "Reversal"
  BY DEF Once!Sources
<1>15. \A j \in DOMAIN journal : journal'[j].source = journal[j].source
                                 /\ journal'[j].of = journal[j].of
  BY <1>6, <1>9, <1>13
<1>16. \A s : Once!Entries(s)' = Once!Entries(s) \cup (IF s = "Reversal" THEN {n} ELSE {})
  BY <1>7, <1>13, <1>15 DEF Once!Entries
<1>17. \A s \in Once!Sources : Once!Entries(s)' = Once!Entries(s)
  BY <1>16 DEF Once!Sources
<1>18. \A s \in Once!Sources : Once!Standing(s)' = Once!Standing(s) \ {k}
  <2>1. \A s \in Once!Sources :
           Once!Standing(s)' = {j \in Once!Entries(s) : journal'[j].status = "posted"}
    BY <1>17 DEF Once!Standing
  <2>2. \A s : \A j \in Once!Entries(s) : journal'[j].status = "posted" <=>
           j # k /\ journal[j].status = "posted"
    BY <1>9, <1>13 DEF Once!Entries
  <2> QED
    BY <2>1, <2>2 DEF Once!Standing
<1>19. \A s \in Once!Sources :
          Once!Reversals(s)' = Once!Reversals(s) \cup (IF s = source THEN {n} ELSE {})
  <2>1. \A s : Once!Reversals(s)' =
           {j \in Once!Entries("Reversal") \cup {n} : journal'[journal'[j].of].source = s}
    BY <1>16 DEF Once!Reversals
  <2>2. \A j \in Once!Entries("Reversal") :
           journal'[journal'[j].of].source = journal[journal[j].of].source
    BY <1>0, <1>13, <1>15 DEF JournalStands, Once!Entries
  <2>3. journal'[journal'[n].of].source = source
    BY <1>7, <1>9, <1>13
  <2> QED
    BY <2>1, <2>2, <2>3 DEF Once!Reversals
<1>20. \A s \in Once!Sources : s # source => k \notin Once!Standing(s)
  BY <1>6 DEF Once!Standing, Once!Entries
<1>21. /\ preparing' \in [Accountants -> {Once!NotPosting} \cup Posting \cup Reversing]
       /\ \A d \in Accountants : AttemptStands(preparing[d])'
       /\ doubled \subseteq doubled' /\ doubled' \subseteq Once!Sources
       /\ source \notin doubled' => preparing[c].fresh /\ source \notin doubled
       /\ \A s \in Once!Sources \ doubled' : s \notin doubled
  <2>1. Once!Entries(source) \subseteq Once!Entries(source)'
    BY <1>17
  <2>2. preparing[c] \in Posting \cup Reversing
    BY <1>1
  <2>3. Once!Finish(c, source)
    BY <1>3 DEF Once!ReverseEntry
  <2>4. \A s \in Once!Sources : s # source =>
           Once!Entries(s)' = Once!Entries(s) /\ Once!Standing(s)' = Once!Standing(s)
    BY <1>17, <1>18, <1>20
  <2> QED
    BY <2>1, <2>2, <2>3, <2>4, OthersFallBehind
<1>22. \A j \in Once!Entries("Reversal")' : journal'[j].of \in 1 .. Len(journal')
  <2>1. \A j \in Once!Entries("Reversal") : j \in DOMAIN journal /\ journal[j].of \in 1 .. Len(journal)
    BY <1>0 DEF JournalStands, Once!Entries
  <2>2. Len(journal) \in Nat
    BY <1>0 DEF OnceType
  <2> QED
    BY <1>5, <1>6, <1>7, <1>13, <1>15, <1>16, <2>1, <2>2
<1>23. ASSUME NEW s \in Once!Sources \ doubled'
       PROVE  /\ \A i, j \in Once!Standing(s)' : i = j
              /\ Cardinality(Once!Entries(s)') =
                    Cardinality(Once!Standing(s)') + Cardinality(Once!Reversals(s)')
  <2>1. /\ \A i, j \in Once!Standing(s) : i = j
        /\ Cardinality(Once!Entries(s)) =
              Cardinality(Once!Standing(s)) + Cardinality(Once!Reversals(s))
    BY <1>0, <1>21, <1>23 DEF JournalStands
  <2>2. Once!Entries(s)' = Once!Entries(s) /\ Once!Standing(s)' = Once!Standing(s) \ {k}
    BY <1>17, <1>18
  <2>3. \A i, j \in Once!Standing(s)' : i = j
    BY <2>1, <2>2
  <2>4. CASE s # source
    <3>1. Once!Standing(s)' = Once!Standing(s) /\ Once!Reversals(s)' = Once!Reversals(s)
      BY <1>19, <1>20, <2>2, <2>4
    <3> QED
      BY <2>1, <2>2, <2>3, <3>1
  <2>5. CASE s = source
    <3>1. k \in Once!Standing(s)
      BY <1>4, <1>21, <1>23, <2>5
    <3>2. IsFiniteSet(Once!Standing(s)) /\ IsFiniteSet(Once!Reversals(s))
      BY <1>0, EntriesFinite
    <3>3. Cardinality(Once!Standing(s)) \in Nat /\ Cardinality(Once!Reversals(s)) \in Nat
      BY <3>2, FS_CardinalityType
    <3>4. Cardinality(Once!Standing(s)') = Cardinality(Once!Standing(s)) - 1
      BY <2>2, <3>1, <3>2, FS_RemoveElement
    <3>5. Once!Reversals(s)' = Once!Reversals(s) \cup {n} /\ n \notin Once!Reversals(s)
      BY <1>13, <1>19, <2>5 DEF Once!Reversals, Once!Entries
    <3>6. Cardinality(Once!Reversals(s)') = Cardinality(Once!Reversals(s)) + 1
      BY <3>2, <3>5, FS_AddElement
    <3> QED
      BY <2>1, <2>2, <2>3, <3>3, <3>4, <3>6
  <2> QED
    BY <2>4, <2>5
<1>24. JournalStands'
  <2>1. "Expense" \notin doubled' => \A i, j \in Once!Entries("Expense")' : i = j
    BY <1>0, <1>17, <1>21 DEF JournalStands, Once!Sources
  <2>2. \A s \in Once!Sources \ doubled' :
           Cardinality(Once!Entries(s))' =
              Cardinality(Once!Standing(s))' + Cardinality(Once!Reversals(s))'
    BY <1>23
  <2> QED
    BY <1>22, <1>23, <2>1, <2>2 DEF JournalStands
<1>25. ExpenseStands' /\ expense' = expense
  <2>1. Once!Entries("Expense")' = Once!Entries("Expense")
    BY <1>17 DEF Once!Sources
  <2>2. expense' = expense
    BY DEF Once!ReverseEntry
  <2> QED
    BY <2>1, <2>2 DEF OnceInv, ExpenseStands
<1> QED
  BY <1>0, <1>13, <1>21, <1>24, <1>25 DEF OnceInv, OnceType

(* Every step of the postings keeps their invariant. *)
LEMMA OnceStep ==
    ASSUME OnceConstants, OnceInv, [Once!Next]_oncevars
    PROVE  OnceInv'
<1>1. CASE UNCHANGED oncevars
  <2>1. UNCHANGED <<expense, journal, preparing, doubled>>
    BY <1>1 DEF oncevars
  <2>2. \A source : /\ Once!Entries(source)' = Once!Entries(source)
                    /\ Once!Standing(source)' = Once!Standing(source)
                    /\ Once!Reversals(source)' = Once!Reversals(source)
    BY <2>1 DEF Once!Entries, Once!Standing, Once!Reversals
  <2> QED
    BY <2>1, <2>2 DEF OnceInv, OnceType, ExpenseStands, JournalStands, AttemptStands
<1>2. ASSUME NEW c \in Accountants, Once!Fail(c)
      PROVE  OnceInv'
  <2>1. Once!NotPosting \in {Once!NotPosting} \cup Posting \cup Reversing
    OBVIOUS
  <2>2. preparing' = [preparing EXCEPT ![c] = Once!NotPosting]
        /\ UNCHANGED <<expense, journal, doubled>>
    BY <1>2 DEF Once!Fail
  <2> QED
    BY <2>1, <2>2, NotPostingStands, PreparingKeeps
<1> QED
  BY <1>1, <1>2, ReadExpenseKeeps, ReadOpeningKeeps, ReadEntryKeeps, PostExpenseKeeps,
     PostOpeningKeeps, ReverseKeeps DEF Once!Next

(* The invariant is what PostedOnce says, with the sets counted. *)
LEMMA OnceSafe ==
    ASSUME OnceConstants, OnceInv
    PROVE  Once!PostedOnce
<1>1. expense.entry # Null <=> Once!Entries("Expense") # {}
  BY DEF OnceInv, ExpenseStands
<1>2. expense.entry # Null =>
         /\ expense.status = "posted"
         /\ \A k \in Once!Entries("Expense") : k <= expense.entry
  BY DEF OnceInv, ExpenseStands
<1>3. "Expense" \notin doubled => Cardinality(Once!Entries("Expense")) <= 1
  BY AtMostOne DEF OnceInv, JournalStands
<1>4. \A source \in Once!Sources \ doubled :
         /\ Cardinality(Once!Standing(source)) <= 1
         /\ Cardinality(Once!Entries(source)) =
               Cardinality(Once!Standing(source)) + Cardinality(Once!Reversals(source))
  BY AtMostOne DEF OnceInv, JournalStands
<1> QED
  BY <1>1, <1>2, <1>3, <1>4, OnceCardinality DEF Once!PostedOnce

-----------------------------------------------------------------------------
(* Rate limits *)

LimitConstants ==
    /\ IsFiniteSet(Callers)
    /\ Limit \in Nat /\ Window \in Nat \ {0} /\ MaxTime \in Nat \ {0}
    /\ Null \notin MemoryWindow \cup RedisCounter

(* What passed, by server and time; and the times of a stretch. *)
Tables == [Callers -> [1 .. MaxTime -> Nat]]

Times(from, to) == (from .. to) \cap (1 .. MaxTime)

(* What passed at some servers in a stretch of time, by a table of it. *)
Served(table, servers, from, to) ==
    Sum([p \in servers |-> Sum(table[p], Times(from, to))], servers)

(* What the properties add up by folds is that sum of sums. *)
LEMMA PassedIsServed ==
    ASSUME LimitConstants, NEW servers, IsFiniteSet(servers), NEW from, NEW to
    PROVE  Limits!PassedIn(servers, from, to) = Served(passed, servers, from, to)
<1>1. PICK T : T = Times(from, to)
  OBVIOUS
<1>2. PICK f : f = [p \in servers |-> Sum(passed[p], T)]
  OBVIOUS
<1>3. PICK r : r = CHOOSE g : g = [s \in SUBSET servers |->
        IF s = {} THEN 0
        ELSE Sum(passed[CHOOSE x \in s : TRUE], T) + g[s \ {CHOOSE x \in s : TRUE}]]
  OBVIOUS
<1>4. Limits!PassedIn(servers, from, to) = r[servers]
  BY <1>1, <1>3
  DEF Limits!PassedIn, Limits!MapThenSumSet, Limits!MapThenFoldSet, Times,
      Sum, SumsOver, First
<1>7. \A s \in SUBSET servers : s # {} =>
         f[First(s)] = Sum(passed[CHOOSE x \in s : TRUE], T)
  BY <1>2 DEF First
<1>8. PICK h : SumsOver(f, servers, h)
  BY SumsExist
<1>9. h = [s \in SUBSET servers |->
        IF s = {} THEN 0
        ELSE Sum(passed[CHOOSE x \in s : TRUE], T) + h[s \ {CHOOSE x \in s : TRUE}]]
  BY <1>7, <1>8 DEF SumsOver, First
<1>10. r = [s \in SUBSET servers |->
        IF s = {} THEN 0
        ELSE Sum(passed[CHOOSE x \in s : TRUE], T) + r[s \ {CHOOSE x \in s : TRUE}]]
  <2>1. \E k : k = [s \in SUBSET servers |->
          IF s = {} THEN 0
          ELSE Sum(passed[CHOOSE x \in s : TRUE], T) + k[s \ {CHOOSE x \in s : TRUE}]]
    BY <1>9
  <2> QED
    BY <1>3, <2>1
<1>11. SumsOver(f, servers, r)
  BY <1>7, <1>10 DEF SumsOver, First
<1> QED
  BY <1>1, <1>2, <1>4, <1>11, SumOfRecursion DEF Served

(* A stretch of time may be split in two, and what did not pass is not     *)
(* counted.                                                                *)
LEMMA ServedFacts ==
    ASSUME LimitConstants, NEW table \in Tables, NEW servers \in SUBSET Callers
    PROVE  /\ \A a, b \in Int : Served(table, servers, a, b) \in Nat
           /\ \A a, b, c \in Int : a <= c /\ c <= b + 1 =>
                 Served(table, servers, a, b) =
                     Served(table, servers, a, c - 1) + Served(table, servers, c, b)
           /\ \A a, b \in Int :
                 (\A q \in servers : \A t \in 1 .. MaxTime : a <= t => table[q][t] = 0) =>
                     Served(table, servers, a, b) = 0
<1>a. IsFiniteSet(servers) /\ MaxTime \in Nat
  BY FS_Subset DEF LimitConstants
<1>b. \A a, b \in Int : IsFiniteSet(Times(a, b)) /\ Times(a, b) \in SUBSET (1 .. MaxTime)
  BY <1>a, FS_Interval, FS_Subset DEF Times
<1>c. \A p \in servers : \A t \in 1 .. MaxTime : table[p][t] \in Nat
  BY DEF Tables
<1>d. \A p \in servers : \A a, b \in Int : Sum(table[p], Times(a, b)) \in Nat
  <2> TAKE p \in servers
  <2> TAKE a, b \in Int
  <2>1. \A t \in Times(a, b) : table[p][t] \in Nat
    BY <1>b, <1>c
  <2> QED
    BY <1>b, <2>1, SumNat
<1>1. ASSUME NEW a \in Int, NEW b \in Int PROVE Served(table, servers, a, b) \in Nat
  <2>1. PICK f : f = [p \in servers |-> Sum(table[p], Times(a, b))]
    OBVIOUS
  <2>2. \A p \in servers : f[p] \in Nat
    BY <1>d, <2>1
  <2>3. Sum(f, servers) \in Nat
    BY <1>a, <2>2, SumNat
  <2> QED
    BY <2>1, <2>3 DEF Served
<1>2. ASSUME NEW a \in Int, NEW b \in Int, NEW c \in Int, a <= c, c <= b + 1
      PROVE  Served(table, servers, a, b) =
                 Served(table, servers, a, c - 1) + Served(table, servers, c, b)
  <2>1. PICK f : f = [p \in servers |-> Sum(table[p], Times(a, c - 1))]
    OBVIOUS
  <2>2. PICK e : e = [p \in servers |-> Sum(table[p], Times(c, b))]
    OBVIOUS
  <2>3. PICK g : g = [p \in servers |-> Sum(table[p], Times(a, b))]
    OBVIOUS
  <2>4. ASSUME NEW p \in servers
        PROVE  f[p] \in Int /\ e[p] \in Int /\ g[p] = f[p] + e[p]
    <3>1. PICK S : S = Times(a, c - 1)
      OBVIOUS
    <3>2. PICK T : T = Times(c, b)
      OBVIOUS
    <3>3. PICK k : k = table[p]
      OBVIOUS
    <3>4. S \cap T = {} /\ S \cup T = Times(a, b)
      BY <1>2, <1>a, <3>1, <3>2 DEF Times
    <3>5. IsFiniteSet(S) /\ IsFiniteSet(T) /\ S \cup T \in SUBSET (1 .. MaxTime)
      BY <1>b, <3>1, <3>2, <3>4
    <3>6. \A t \in S \cup T : k[t] \in Int
      BY <1>c, <3>3, <3>5
    <3>7. Sum(k, S \cup T) = Sum(k, S) + Sum(k, T)
      BY <3>4, <3>5, <3>6, SumUnion
    <3>8. f[p] = Sum(k, S) /\ e[p] = Sum(k, T) /\ g[p] = Sum(k, S \cup T)
      BY <2>1, <2>2, <2>3, <3>1, <3>2, <3>3, <3>4
    <3>9. f[p] \in Nat /\ e[p] \in Nat
      BY <1>d, <2>1, <2>2
    <3> QED
      BY <3>7, <3>8, <3>9
  <2>5. Sum(g, servers) = Sum(f, servers) + Sum(e, servers)
    BY <1>a, <2>4, SumPlus
  <2> QED
    BY <2>1, <2>2, <2>3, <2>5 DEF Served
<1>3. ASSUME NEW a \in Int, NEW b \in Int,
             \A q \in servers : \A t \in 1 .. MaxTime : a <= t => table[q][t] = 0
      PROVE  Served(table, servers, a, b) = 0
  <2>1. PICK f : f = [p \in servers |-> Sum(table[p], Times(a, b))]
    OBVIOUS
  <2>2. ASSUME NEW p \in servers PROVE f[p] = 0
    <3>1. \A t \in Times(a, b) : table[p][t] = 0
      BY <1>3 DEF Times
    <3>2. Sum(table[p], Times(a, b)) = 0
      BY <1>b, <3>1, SumZero
    <3> QED
      BY <2>1, <3>2
  <2>3. Sum(f, servers) = 0
    BY <1>a, <2>2, SumZero
  <2> QED
    BY <2>1, <2>3 DEF Served
<1> QED
  BY <1>1, <1>2, <1>3

(* A table with k more hits at a server and a time. *)
OneMore(table, p, n, k) == [table EXCEPT ![p][n] = @ + k]

(* Hits at a server and a time add to what has passed in each stretch that holds it. *)
LEMMA ServedChange ==
    ASSUME LimitConstants, NEW table \in Tables, NEW servers \in SUBSET Callers,
           NEW p \in Callers, NEW n \in 1 .. MaxTime, NEW k \in Nat,
           NEW next, next = OneMore(table, p, n, k)
    PROVE  /\ next \in Tables
           /\ \A a, b \in Int :
                 Served(next, servers, a, b) = Served(table, servers, a, b)
                     + (IF p \in servers /\ a <= n /\ n <= b THEN k ELSE 0)
<1>a. IsFiniteSet(servers) /\ MaxTime \in Nat
  BY FS_Subset DEF LimitConstants
<1>b. \A a, b \in Int : IsFiniteSet(Times(a, b)) /\ Times(a, b) \in SUBSET (1 .. MaxTime)
  BY <1>a, FS_Interval, FS_Subset DEF Times
<1>c. table[p] \in [1 .. MaxTime -> Nat] /\ table[p][n] \in Nat
  BY DEF Tables
<1>d. next \in Tables
  <2>1. [table[p] EXCEPT ![n] = @ + k] \in [1 .. MaxTime -> Nat]
    BY <1>c
  <2> QED
    BY <2>1 DEF Tables, OneMore
<1>e. /\ \A q \in Callers : q # p => next[q] = table[q]
      /\ next[p][n] = table[p][n] + k
      /\ \A t \in 1 .. MaxTime : t # n => next[p][t] = table[p][t]
  BY <1>c DEF Tables, OneMore
<1>f. \A q \in Callers : \A t \in 1 .. MaxTime : table[q][t] \in Nat /\ next[q][t] \in Nat
  <2>1. \A q \in Callers : table[q] \in [1 .. MaxTime -> Nat] /\ next[q] \in [1 .. MaxTime -> Nat]
    BY <1>d DEF Tables
  <2> QED
    BY <2>1
<1>1. ASSUME NEW a \in Int, NEW b \in Int
      PROVE  Served(next, servers, a, b) = Served(table, servers, a, b)
                 + (IF p \in servers /\ a <= n /\ n <= b THEN k ELSE 0)
  <2>1. PICK T : T = Times(a, b)
    OBVIOUS
  <2>2. PICK f : f = [q \in servers |-> Sum(table[q], T)]
    OBVIOUS
  <2>3. PICK e : e = [q \in servers |-> Sum(next[q], T)]
    OBVIOUS
  <2>4. IsFiniteSet(T) /\ T \in SUBSET (1 .. MaxTime) /\ (n \in T <=> a <= n /\ n <= b)
    BY <1>b, <2>1 DEF Times
  <2>5. \A q \in servers : f[q] \in Int /\ e[q] \in Int
    <3> TAKE q \in servers
    <3>1. \A t \in T : table[q][t] \in Int /\ next[q][t] \in Int
      BY <1>f, <2>4
    <3>2. Sum(table[q], T) \in Int /\ Sum(next[q], T) \in Int
      BY <2>4, <3>1, SumInt
    <3> QED
      BY <2>2, <2>3, <3>2
  <2>6. \A q \in servers \ {p} : e[q] = f[q]
    BY <1>e, <2>2, <2>3
  <2>7. ASSUME p \in servers PROVE e[p] = f[p] + (IF n \in T THEN k ELSE 0)
    <3>1. PICK x : x = table[p]
      OBVIOUS
    <3>2. PICK y : y = next[p]
      OBVIOUS
    <3>3. \A t \in T : x[t] \in Int /\ y[t] \in Int
      BY <1>f, <2>4, <3>1, <3>2
    <3>4. CASE n \in T
      <4>1. \A t \in T \ {n} : y[t] = x[t]
        BY <1>e, <2>4, <3>1, <3>2
      <4>2. Sum(y, T) = Sum(x, T) + (y[n] - x[n])
        BY <2>4, <3>3, <3>4, <4>1, SumChange
      <4>3. y[n] - x[n] = k
        BY <1>c, <1>e, <3>1, <3>2
      <4> QED
        BY <2>2, <2>3, <2>7, <3>1, <3>2, <3>4, <4>2, <4>3
    <3>5. CASE n \notin T
      <4>1. \A t \in T : y[t] = x[t]
        BY <1>e, <2>4, <3>1, <3>2, <3>5
      <4>2. Sum(y, T) = Sum(x, T)
        BY <2>4, <4>1, SumSame
      <4>3. f[p] \in Int
        BY <2>5, <2>7
      <4> QED
        BY <2>2, <2>3, <2>7, <3>1, <3>2, <3>5, <4>2, <4>3
    <3> QED
      BY <3>4, <3>5
  <2>8. Sum(f, servers) \in Int
    BY <1>a, <2>5, SumInt
  <2>9. Served(table, servers, a, b) = Sum(f, servers)
        /\ Served(next, servers, a, b) = Sum(e, servers)
    BY <2>1, <2>2, <2>3 DEF Served
  <2>10. CASE p \in servers
    <3>1. Sum(e, servers) = Sum(f, servers) + (e[p] - f[p])
      BY <1>a, <2>5, <2>6, <2>10, SumChange
    <3>2. f[p] \in Int
      BY <2>5, <2>10
    <3>3. e[p] - f[p] = IF n \in T THEN k ELSE 0
      BY <2>7, <2>10, <3>2
    <3> QED
      BY <2>4, <2>9, <2>10, <3>1, <3>3
  <2>11. CASE p \notin servers
    <3>1. \A q \in servers : e[q] = f[q]
      BY <2>6, <2>11
    <3>2. Sum(e, servers) = Sum(f, servers)
      BY <1>a, <3>1, SumSame
    <3> QED
      BY <2>8, <2>9, <2>11, <3>2
  <2> QED
    BY <2>10, <2>11
<1> QED
  BY <1>1, <1>d

(* A window that begins at start: what passes from then on is within the   *)
(* limit, and so is what passed in any stretch before it that could still  *)
(* fall in a window's length together with it.                             *)
Spaced(table, servers, start) ==
    /\ Served(table, servers, start, MaxTime) <= Limit
    /\ \A t \in start - Window + 1 .. start - 1 : Served(table, servers, t, start - 1) <= Limit

TwiceAtMost(table, servers) ==
    \A t \in 1 .. MaxTime : Served(table, servers, t, t + Window - 1) <= 2 * Limit

(* Nothing passes from some time on. *)
LEMMA ServedUpTo ==
    ASSUME LimitConstants, NEW table \in Tables, NEW servers \in SUBSET Callers,
           NEW a \in Int, NEW b \in Int
    PROVE  Served(table, servers, a, b) <= Served(table, servers, a, MaxTime)
<1>a. MaxTime \in Nat
  BY DEF LimitConstants
<1>i. \A x, y \in Int : Served(table, servers, x, y) \in Nat
  BY ServedFacts
<1>b. /\ Served(table, servers, a, b) \in Nat
      /\ Served(table, servers, b + 1, MaxTime) \in Nat
      /\ Served(table, servers, a, MaxTime) \in Nat
  <2>1. a \in Int /\ b \in Int /\ b + 1 \in Int /\ MaxTime \in Int
    BY <1>a
  <2> QED
    BY <1>i, <2>1
<1>1. CASE b > MaxTime
  <2>1. Times(a, b) = Times(a, MaxTime)
    BY <1>1, <1>a DEF Times
  <2> QED
    BY <1>b, <2>1 DEF Served
<1>2. CASE b <= MaxTime /\ a <= b + 1
  <2>1. PICK c \in Int : c = b + 1
    OBVIOUS
  <2>2. Served(table, servers, a, MaxTime) =
            Served(table, servers, a, c - 1) + Served(table, servers, c, MaxTime)
    BY <1>2, <1>a, <2>1, ServedFacts
  <2>3. c - 1 = b
    BY <2>1
  <2> QED
    BY <1>b, <2>1, <2>2, <2>3
<1>3. CASE b <= MaxTime /\ a > b + 1
  <2>1. Times(a, b) = {}
    BY <1>3 DEF Times
  <2>2. Times(1, 0) = {}
    BY DEF Times
  <2>3. Served(table, servers, a, b) = Served(table, servers, 1, 0)
    BY <2>1, <2>2 DEF Served
  <2>4. Served(table, servers, 1, 0) = 0
    <3>1. \A x, y, z \in Int : x <= z /\ z <= y + 1 =>
             Served(table, servers, x, y) =
                 Served(table, servers, x, z - 1) + Served(table, servers, z, y)
      BY ServedFacts
    <3>2. PICK o \in Int : o = 1
      OBVIOUS
    <3>3. PICK z \in Int : z = 0
      OBVIOUS
    <3>4. o - 1 = z /\ o <= o /\ o <= z + 1
      BY <3>2, <3>3
    <3>5. Served(table, servers, o, z) = Served(table, servers, o, o - 1) + Served(table, servers, o, z)
      BY <3>1, <3>4
    <3>6. Served(table, servers, o, z) \in Nat
      BY <1>i
    <3>7. Served(table, servers, o, z) = 0
      BY <3>4, <3>5, <3>6
    <3> QED
      BY <3>2, <3>3, <3>7
  <2> QED
    BY <1>b, <2>3, <2>4
<1> QED
  BY <1>1, <1>2, <1>3, <1>a

(* A hit in the window, within its limit. *)
LEMMA HitInWindow ==
    ASSUME LimitConstants, NEW table \in Tables, NEW servers \in SUBSET Callers,
           NEW p \in servers, NEW n \in 1 .. MaxTime, NEW k \in Nat,
           NEW next, next = OneMore(table, p, n, k),
           NEW start \in Int, start <= n, Spaced(table, servers, start),
           Served(table, servers, start, MaxTime) + k <= Limit,
           TwiceAtMost(table, servers)
    PROVE  /\ Spaced(next, servers, start) /\ TwiceAtMost(next, servers)
           /\ Served(next, servers, start, MaxTime)
                  = Served(table, servers, start, MaxTime) + k
<1>a. MaxTime \in Nat /\ Window \in Nat /\ Limit \in Nat /\ p \in Callers
  BY DEF LimitConstants
<1>1. /\ next \in Tables
      /\ \A a, b \in Int :
            Served(next, servers, a, b) = Served(table, servers, a, b)
                + (IF a <= n /\ n <= b THEN k ELSE 0)
  <2>1. /\ next \in Tables
        /\ \A a, b \in Int :
              Served(next, servers, a, b) = Served(table, servers, a, b)
                  + (IF p \in servers /\ a <= n /\ n <= b THEN k ELSE 0)
    BY <1>a, ServedChange
  <2> QED
    BY <2>1
<1>b. \A a, b \in Int : Served(table, servers, a, b) \in Nat
  BY ServedFacts
<1>c. \A a, b \in Int : Served(next, servers, a, b) \in Nat
  BY <1>1, ServedFacts
<1>d. MaxTime \in Int /\ n <= MaxTime
  BY <1>a
<1>2. Served(next, servers, start, MaxTime) = Served(table, servers, start, MaxTime) + k
  BY <1>1, <1>d
<1>3. ASSUME NEW t \in Int, t < start
      PROVE  Served(next, servers, t, start - 1) = Served(table, servers, t, start - 1)
  <2>1. PICK b \in Int : b = start - 1
    OBVIOUS
  <2>2. Served(table, servers, t, b) \in Nat
    BY <1>b
  <2>3. ~(n <= b)
    BY <2>1
  <2>4. Served(next, servers, t, b) = Served(table, servers, t, b) + 0
    BY <1>1, <2>3
  <2> QED
    BY <2>1, <2>2, <2>4
<1>4. Spaced(next, servers, start)
  <2>1. ASSUME NEW t \in start - Window + 1 .. start - 1
        PROVE  Served(next, servers, t, start - 1) <= Limit
    <3>1. Served(table, servers, t, start - 1) <= Limit
      BY <2>1 DEF Spaced
    <3>2. t \in Int /\ t < start
      BY <1>a
    <3> QED
      BY <1>3, <3>1, <3>2
  <2> QED
    BY <1>2, <2>1 DEF Spaced
<1>5. ASSUME NEW t \in 1 .. MaxTime
      PROVE  Served(next, servers, t, t + Window - 1) <= 2 * Limit
  <2>1. PICK b \in Int : b = t + Window - 1
    BY <1>a
  <2>2. Served(table, servers, t, b) <= 2 * Limit /\ Served(table, servers, t, b) \in Nat
    BY <1>b, <2>1 DEF TwiceAtMost
  <2>3. CASE ~(t <= n /\ n <= b)
    <3>1. t \in Int
      OBVIOUS
    <3>2. Served(next, servers, t, b) = Served(table, servers, t, b) + 0
      BY <1>1, <2>3, <3>1
    <3> QED
      BY <2>1, <2>2, <3>2
  <2>4. CASE t <= n /\ n <= b /\ t >= start
    <3>1. Served(next, servers, t, b) <= Served(next, servers, t, MaxTime)
      BY <1>1, ServedUpTo
    <3>2. Served(next, servers, start, MaxTime) =
              Served(next, servers, start, t - 1) + Served(next, servers, t, MaxTime)
      BY <1>1, <1>a, <2>4, ServedFacts
    <3>3. /\ Served(next, servers, t, b) \in Nat /\ Served(next, servers, t, MaxTime) \in Nat
          /\ Served(next, servers, start, t - 1) \in Nat
          /\ Served(next, servers, start, MaxTime) \in Nat
      <4>1. t \in Int /\ t - 1 \in Int /\ start - 1 \in Int
        OBVIOUS
      <4> QED
        BY <1>c, <1>d, <4>1
    <3>4. Served(next, servers, start, MaxTime) <= Limit
      BY <1>2
    <3>5. Served(next, servers, t, b) <= Limit
      BY <1>a, <3>1, <3>2, <3>3, <3>4
    <3> QED
      BY <1>a, <2>1, <3>3, <3>5
  <2>5. CASE t <= n /\ n <= b /\ t < start
    <3>1. Served(next, servers, t, b) =
              Served(next, servers, t, start - 1) + Served(next, servers, start, b)
      BY <1>1, <2>5, ServedFacts
    <3>2. Served(next, servers, t, start - 1) <= Limit
      <4>1. t \in start - Window + 1 .. start - 1
        BY <1>a, <2>1, <2>5
      <4> QED
        BY <1>4, <4>1 DEF Spaced
    <3>3. Served(next, servers, start, b) <= Served(next, servers, start, MaxTime)
      BY <1>1, ServedUpTo
    <3>4. /\ Served(next, servers, t, start - 1) \in Nat
          /\ Served(next, servers, start, b) \in Nat
          /\ Served(next, servers, start, MaxTime) \in Nat
      <4>1. t \in Int /\ t - 1 \in Int /\ start - 1 \in Int
        OBVIOUS
      <4> QED
        BY <1>c, <1>d, <4>1
    <3>5. Served(next, servers, start, MaxTime) <= Limit
      BY <1>2
    <3> QED
      BY <1>a, <2>1, <3>1, <3>2, <3>3, <3>4, <3>5
  <2> QED
    BY <2>3, <2>4, <2>5
<1> QED
  BY <1>2, <1>4, <1>5 DEF TwiceAtMost

(* The first hit of a new window, after the last one has ended. *)
LEMMA HitAfterWindow ==
    ASSUME LimitConstants, NEW table \in Tables, NEW servers \in SUBSET Callers,
           NEW n \in 1 .. MaxTime, NEW start \in Int, start + Window <= n,
           Spaced(table, servers, start), Served(table, servers, n, MaxTime) = 0
    PROVE  Spaced(table, servers, n)
<1>a. MaxTime \in Nat /\ Window \in Nat /\ Limit \in Nat
  BY DEF LimitConstants
<1>1. ASSUME NEW t \in n - Window + 1 .. n - 1
      PROVE  Served(table, servers, t, n - 1) <= Limit
  <2>1. Served(table, servers, t, n - 1) <= Served(table, servers, t, MaxTime)
    BY ServedUpTo
  <2>2. start <= t /\ t <= MaxTime + 1
    BY <1>a
  <2>3. Served(table, servers, start, MaxTime) =
            Served(table, servers, start, t - 1) + Served(table, servers, t, MaxTime)
    BY <1>a, <2>2, ServedFacts
  <2>4. /\ Served(table, servers, t, n - 1) \in Nat
        /\ Served(table, servers, t, MaxTime) \in Nat
        /\ Served(table, servers, start, t - 1) \in Nat
        /\ Served(table, servers, start, MaxTime) \in Nat
    <3>1. \A x, y \in Int : Served(table, servers, x, y) \in Nat
      BY ServedFacts
    <3>2. t \in Int /\ t - 1 \in Int /\ n - 1 \in Int /\ MaxTime \in Int
      BY <1>a
    <3> QED
      BY <3>1, <3>2
  <2>5. Served(table, servers, start, MaxTime) <= Limit
    BY DEF Spaced
  <2> QED
    BY <1>a, <2>1, <2>3, <2>4, <2>5
<1> QED
  BY <1>a, <1>1 DEF Spaced

(* What is allowed of so many hits. *)
Capped(count) == IF Limits!Allowed(count) THEN count ELSE Limit

(* A server's window has seen Limit of its hits pass at most, and none     *)
(* since it ended.                                                         *)
ServerKept(table, now, w, p) ==
    /\ TwiceAtMost(table, {p})
    /\ w = Null => \A t \in 1 .. MaxTime : table[p][t] = 0
    /\ w # Null =>
          /\ w.resetAt - Window \in 1 .. now
          /\ Spaced(table, {p}, w.resetAt - Window)
          /\ Served(table, {p}, w.resetAt - Window, MaxTime) = Capped(w.count)
          /\ w.resetAt <= now => Served(table, {p}, now, MaxTime) = 0

(* The counter began at start, or the last one did, which has ended. *)
FleetKept(table, now, c, start) ==
    /\ Spaced(table, Callers, start) /\ start <= now
    /\ c = Null => start + Window <= now /\ Served(table, Callers, now, MaxTime) = 0
    /\ c # Null => c.since = start /\ Served(table, Callers, start, MaxTime) <= c.count

LimitType ==
    /\ backend \in {"memory", "upstash"} /\ time \in 1 .. MaxTime
    /\ window \in [Callers -> {Null} \cup MemoryWindow]
    /\ counter \in {Null} \cup RedisCounter
    /\ hitting \in [Callers -> {"none", "expire"}]
    /\ passed \in Tables /\ unended \in BOOLEAN

NothingYet(table, now) == \A q \in Callers : \A t \in now + 1 .. MaxTime : table[q][t] = 0

(* The counter comes to an end, or somebody is about to see to that. *)
CounterEnds ==
    counter # Null =>
        /\ counter.expires # 0 =>
              counter.expires \in time + 1 .. time + Window
              /\ counter.since + Window <= counter.expires
        /\ counter.expires = 0 => unended \/ \E p \in Callers : hitting[p] = "expire"

LimitInv ==
    /\ LimitType /\ NothingYet(passed, time) /\ CounterEnds
    /\ backend = "memory" =>
          counter = Null /\ \A p \in Callers : ServerKept(passed, time, window[p], p)
    /\ backend = "upstash" =>
          /\ \A p \in Callers : window[p] = Null
          /\ TwiceAtMost(passed, Callers)
          /\ \E start \in Int : FleetKept(passed, time, counter, start)

(* Nothing has passed in the time to come. *)
LEMMA NothingServed ==
    ASSUME LimitConstants, NEW table \in Tables, NEW servers \in SUBSET Callers,
           NEW now \in Nat, NothingYet(table, now)
    PROVE  Served(table, servers, now + 1, MaxTime) = 0
<1>1. MaxTime \in Int /\ now + 1 \in Int
  BY DEF LimitConstants
<1>2. \A q \in servers : \A t \in 1 .. MaxTime : now + 1 <= t => table[q][t] = 0
  BY <1>1 DEF NothingYet
<1> QED
  BY <1>1, <1>2, ServedFacts

(* Where nothing has passed at all, any window may begin. *)
LEMMA NobodyServed ==
    ASSUME LimitConstants, NEW table \in Tables, NEW servers \in SUBSET Callers,
           \A q \in servers : \A t \in 1 .. MaxTime : table[q][t] = 0
    PROVE  /\ \A a, b \in Int : Served(table, servers, a, b) = 0
           /\ \A start \in Int : Spaced(table, servers, start)
           /\ TwiceAtMost(table, servers)
<1>1. ASSUME NEW a \in Int, NEW b \in Int PROVE Served(table, servers, a, b) = 0
  <2>1. \A q \in servers : \A t \in 1 .. MaxTime : a <= t => table[q][t] = 0
    OBVIOUS
  <2> QED
    BY <2>1, ServedFacts
<1>2. MaxTime \in Int /\ Window \in Int /\ Limit \in Nat
  BY DEF LimitConstants
<1>3. \A start \in Int : Spaced(table, servers, start)
  <2> TAKE start \in Int
  <2>1. Served(table, servers, start, MaxTime) <= Limit
    BY <1>1, <1>2
  <2>2. ASSUME NEW t \in start - Window + 1 .. start - 1
        PROVE  Served(table, servers, t, start - 1) <= Limit
    <3>1. t \in Int /\ start - 1 \in Int
      BY <1>2
    <3> QED
      BY <1>1, <1>2, <3>1
  <2> QED
    BY <2>1, <2>2 DEF Spaced
<1>4. TwiceAtMost(table, servers)
  <2>1. ASSUME NEW t \in 1 .. MaxTime
        PROVE  Served(table, servers, t, t + Window - 1) <= 2 * Limit
    <3>1. t \in Int /\ t + Window - 1 \in Int
      BY <1>2
    <3> QED
      BY <1>1, <1>2, <3>1
  <2> QED
    BY <2>1 DEF TwiceAtMost
<1> QED
  BY <1>1, <1>3, <1>4

(* Nobody has called yet: the invariant of the limits holds. *)
LEMMA LimitInit ==
    ASSUME LimitConstants, Limits!Init
    PROVE  LimitInv
<1>a. MaxTime \in Nat \ {0} /\ Window \in Nat /\ Limit \in Nat
  BY DEF LimitConstants
<1>1. LimitType
  <2>1. [t \in 1 .. MaxTime |-> 0] \in [1 .. MaxTime -> Nat]
    OBVIOUS
  <2>2. passed \in Tables
    BY <2>1 DEF Limits!Init, Tables
  <2>3. /\ window \in [Callers -> {Null} \cup MemoryWindow]
        /\ hitting \in [Callers -> {"none", "expire"}]
    BY DEF Limits!Init
  <2>4. backend \in {"memory", "upstash"} /\ counter = Null /\ time = 1 /\ unended = FALSE
    BY DEF Limits!Init
  <2>5. unended \in BOOLEAN
    BY DEF Limits!Init
  <2>6. time \in 1 .. MaxTime
    BY <1>a, <2>4
  <2> QED
    BY <2>2, <2>3, <2>4, <2>5, <2>6 DEF LimitType
<1>2. \A q \in Callers : \A t \in 1 .. MaxTime : passed[q][t] = 0
  BY DEF Limits!Init
<1>3. passed \in Tables /\ time = 1 /\ counter = Null /\ \A p \in Callers : window[p] = Null
  BY <1>1 DEF Limits!Init, LimitType
<1>4. NothingYet(passed, time)
  BY <1>2, <1>3, <1>a DEF NothingYet
<1>5. \A p \in Callers : ServerKept(passed, time, window[p], p)
  <2> TAKE p \in Callers
  <2>1. TwiceAtMost(passed, {p})
    BY <1>2, <1>3, NobodyServed
  <2> QED
    BY <1>2, <1>3, <2>1 DEF ServerKept
<1>6. PICK start \in Int : start = 1 - Window
  BY <1>a
<1>7. TwiceAtMost(passed, Callers) /\ FleetKept(passed, time, counter, start)
  <2>1. /\ TwiceAtMost(passed, Callers) /\ Spaced(passed, Callers, start)
        /\ Served(passed, Callers, time, MaxTime) = 0
    BY <1>2, <1>3, <1>a, NobodyServed
  <2> QED
    BY <1>3, <1>6, <1>a, <2>1 DEF FleetKept
<1> QED
  BY <1>1, <1>3, <1>4, <1>5, <1>7 DEF LimitInv, CounterEnds

(* The table after a hit that was counted. *)
LEMMA PassCounts ==
    ASSUME LimitConstants, LimitInv, NEW p \in Callers, NEW count \in Nat,
           Limits!Pass(p, count), NEW n, n = time
    PROVE  \E k \in {0, 1} :
              /\ k = IF Limits!Allowed(count) THEN 1 ELSE 0
              /\ passed' = OneMore(passed, p, n, k)
              /\ passed' \in Tables /\ NothingYet(passed', n)
<1>a. passed \in Tables /\ n \in 1 .. MaxTime /\ NothingYet(passed, n)
  BY DEF LimitInv, LimitType
<1>1. PICK k \in {0, 1} : k = IF Limits!Allowed(count) THEN 1 ELSE 0
  OBVIOUS
<1>2. passed' = OneMore(passed, p, n, k)
  BY <1>1 DEF Limits!Pass, OneMore
<1>3. k \in Nat
  OBVIOUS
<1>4. passed' \in Tables
  <2>1. Callers \in SUBSET Callers
    OBVIOUS
  <2> QED
    BY <1>a, <1>2, <1>3, <2>1, ServedChange
<1>5. \A q \in Callers : \A t \in 1 .. MaxTime : t # n => passed'[q][t] = passed[q][t]
  BY <1>a, <1>2 DEF OneMore, Tables
<1>6. NothingYet(passed', n)
  BY <1>a, <1>5 DEF NothingYet
<1> QED
  BY <1>1, <1>2, <1>4, <1>6

(* What other servers have let pass stays as it was. *)
LEMMA OtherServerKept ==
    ASSUME LimitConstants, NEW table \in Tables, NEW p \in Callers, NEW n \in 1 .. MaxTime,
           NEW k \in Nat, NEW next, next = OneMore(table, p, n, k),
           NEW now \in Nat, NEW w \in {Null} \cup MemoryWindow,
           NEW q \in Callers, q # p, ServerKept(table, now, w, q)
    PROVE  ServerKept(next, now, w, q)
<1>a. MaxTime \in Int /\ Window \in Int
  BY DEF LimitConstants
<1>1. \A a, b \in Int : Served(next, {q}, a, b) = Served(table, {q}, a, b)
  <2>1. PICK S : S = {q}
    OBVIOUS
  <2>2. S \in SUBSET Callers /\ p \notin S
    BY <2>1
  <2>3. \A a, b \in Int : Served(table, S, a, b) \in Nat
    BY <2>2, ServedFacts
  <2>4. \A a, b \in Int : Served(next, S, a, b) = Served(table, S, a, b)
           + (IF p \in S /\ a <= n /\ n <= b THEN k ELSE 0)
    BY <2>2, ServedChange
  <2>5. \A a, b \in Int : Served(next, S, a, b) = Served(table, S, a, b) + 0
    BY <2>2, <2>4
  <2>6. \A a, b \in Int : Served(next, S, a, b) = Served(table, S, a, b)
    BY <2>3, <2>5
  <2> QED
    BY <2>1, <2>6
<1>2. \A t \in 1 .. MaxTime : next[q][t] = table[q][t]
  BY DEF OneMore, Tables
<1>3. TwiceAtMost(next, {q})
  <2>1. \A t \in 1 .. MaxTime : t \in Int /\ t + Window - 1 \in Int
    BY <1>a
  <2> QED
    BY <1>1, <2>1 DEF TwiceAtMost, ServerKept
<1>4. ASSUME w # Null
      PROVE  /\ Spaced(next, {q}, w.resetAt - Window)
             /\ Served(next, {q}, w.resetAt - Window, MaxTime) = Capped(w.count)
             /\ w.resetAt <= now => Served(next, {q}, now, MaxTime) = 0
  <2>1. PICK start : start = w.resetAt - Window
    OBVIOUS
  <2>2. start \in Int
    BY <1>4, <1>a, <2>1 DEF MemoryWindow
  <2>3. Spaced(table, {q}, start) /\ Served(table, {q}, start, MaxTime) = Capped(w.count)
    BY <1>4, <2>1 DEF ServerKept
  <2>4. \A t \in start - Window + 1 .. start - 1 : t \in Int /\ start - 1 \in Int
    BY <1>a, <2>2
  <2>5. Spaced(next, {q}, start)
    BY <1>1, <1>a, <2>2, <2>3, <2>4 DEF Spaced
  <2>6. Served(next, {q}, start, MaxTime) = Capped(w.count)
    BY <1>1, <1>a, <2>2, <2>3
  <2>7. w.resetAt <= now => Served(next, {q}, now, MaxTime) = 0
    BY <1>1, <1>4, <1>a DEF ServerKept
  <2> QED
    BY <2>1, <2>5, <2>6, <2>7
<1> QED
  BY <1>2, <1>3, <1>4 DEF ServerKept

(* A hit begins a window at its server, or counts in the one that is open  *)
(* (lib/ratelimit).                                                        *)
LEMMA MemoryHitKeeps ==
    ASSUME LimitConstants, LimitInv, NEW p \in Callers, Limits!MemoryHit(p)
    PROVE  LimitInv'
<1>a. MaxTime \in Nat \ {0} /\ Window \in Nat \ {0} /\ Limit \in Nat
  BY DEF LimitConstants
<1>b. PICK w : w = window[p]
  OBVIOUS
<1>c. PICK n : n = time
  OBVIOUS
<1>d. n \in 1 .. MaxTime /\ n \in Nat /\ passed \in Tables /\ w \in {Null} \cup MemoryWindow
  BY <1>b, <1>c, <1>a DEF LimitInv, LimitType
<1>1. backend = "memory" /\ counter = Null
      /\ \A q \in Callers : ServerKept(passed, n, window[q], q)
  BY <1>c DEF LimitInv, Limits!MemoryHit
<1>2. PICK open \in BOOLEAN : open <=> (w # Null /\ w.resetAt > n)
  OBVIOUS
<1>3. PICK new : new = IF open THEN [w EXCEPT !.count = @ + 1]
                               ELSE [count |-> 1, resetAt |-> n + Window]
  OBVIOUS
<1>4. new \in MemoryWindow /\ new # Null
  <2>1. open => w \in MemoryWindow
    BY <1>2, <1>d
  <2>2. new \in MemoryWindow
    BY <1>3, <1>a, <1>d, <2>1 DEF MemoryWindow
  <2> QED
    BY <2>2 DEF LimitConstants
<1>5. /\ window' = [window EXCEPT ![p] = new] /\ Limits!Pass(p, new.count)
      /\ UNCHANGED <<backend, time, counter, hitting, unended>>
  BY <1>b, <1>c, <1>2, <1>3 DEF Limits!MemoryHit
<1>6. new.count \in Nat
  BY <1>4 DEF MemoryWindow
<1>7. PICK k \in {0, 1} :
         /\ k = IF Limits!Allowed(new.count) THEN 1 ELSE 0
         /\ passed' = OneMore(passed, p, n, k)
         /\ passed' \in Tables /\ NothingYet(passed', n)
  BY <1>c, <1>5, <1>6, PassCounts
<1>8. \A q \in Callers : q # p => ServerKept(passed', n, window[q], q)
  <2> TAKE q \in Callers
  <2>1. PICK v : v = window[q]
    OBVIOUS
  <2>2. v \in {Null} \cup MemoryWindow
    BY <2>1 DEF LimitInv, LimitType
  <2>3. k \in Nat
    BY <1>7
  <2> QED
    BY <1>1, <1>7, <1>d, <2>1, <2>2, <2>3, OtherServerKept
<1>9. ServerKept(passed', n, new, p)
  <2>a. ServerKept(passed, n, w, p)
    BY <1>1, <1>b
  <2>b. PICK S : S = {p}
    OBVIOUS
  <2>c. S \in SUBSET Callers /\ p \in S /\ k \in Nat
    BY <2>b, <1>7
  <2>1. PICK start \in Int :
           /\ start = new.resetAt - Window /\ start \in 1 .. n
           /\ Spaced(passed, S, start)
           /\ Served(passed, S, start, MaxTime) + k = Capped(new.count)
    <3>1. CASE open
      <4>0. w # Null /\ w \in MemoryWindow /\ w.resetAt \in Nat
        BY <1>2, <1>d, <3>1 DEF MemoryWindow
      <4>1. PICK start \in Int : start = w.resetAt - Window
        BY <1>a, <4>0
      <4>2. start \in 1 .. n /\ Spaced(passed, S, start)
            /\ Served(passed, S, start, MaxTime) = Capped(w.count)
        BY <1>2, <2>a, <2>b, <3>1, <4>1 DEF ServerKept
      <4>3. w \in MemoryWindow
        BY <1>2, <1>d, <3>1
      <4>4. w.count \in Nat /\ new.count = w.count + 1 /\ new.resetAt = w.resetAt
        BY <1>3, <3>1, <4>3 DEF MemoryWindow
      <4>5. Capped(w.count) + k = Capped(new.count)
        BY <1>7, <1>a, <4>4 DEF Capped, Limits!Allowed
      <4> QED
        BY <4>1, <4>2, <4>4, <4>5
    <3>2. CASE ~open
      <4>1. new.count = 1 /\ new.resetAt = n + Window
        BY <1>3, <3>2
      <4>2. Spaced(passed, S, n) /\ Served(passed, S, n, MaxTime) = 0
        <5>1. CASE w = Null
          <6>1. \A q \in S : \A t \in 1 .. MaxTime : passed[q][t] = 0
            BY <2>a, <2>b, <5>1 DEF ServerKept
          <6>2. n \in Int /\ MaxTime \in Int
            BY <1>d, <1>a
          <6> QED
            BY <1>d, <2>c, <6>1, <6>2, NobodyServed
        <5>2. CASE w # Null
          <6>1. w \in MemoryWindow
            BY <1>d, <5>2
          <6>2. PICK start \in Int : start = w.resetAt - Window
            BY <1>a, <6>1 DEF MemoryWindow
          <6>3. w.resetAt <= n
            <7>1. ~(w.resetAt > n)
              BY <1>2, <3>2, <5>2
            <7>2. w.resetAt \in Nat
              BY <6>1 DEF MemoryWindow
            <7> QED
              BY <1>d, <7>1, <7>2
          <6>4. start + Window <= n
            BY <1>a, <1>d, <6>1, <6>2, <6>3 DEF MemoryWindow
          <6>5. Spaced(passed, S, start) /\ Served(passed, S, n, MaxTime) = 0
            BY <2>a, <2>b, <5>2, <6>2, <6>3 DEF ServerKept
          <6>6. Spaced(passed, S, n)
            BY <1>d, <2>c, <6>4, <6>5, HitAfterWindow
          <6> QED
            BY <6>5, <6>6
        <5> QED
          BY <5>1, <5>2
      <4>3. 0 + k = Capped(1)
        BY <1>7, <1>a, <4>1 DEF Capped, Limits!Allowed
      <4>4. n = new.resetAt - Window /\ n \in Int /\ n \in 1 .. n
        BY <1>a, <1>d, <4>1
      <4> QED
        BY <4>1, <4>2, <4>3, <4>4
    <3> QED
      BY <3>1, <3>2
  <2>2. Capped(new.count) <= Limit
    BY <1>6, <1>a DEF Capped, Limits!Allowed
  <2>3. TwiceAtMost(passed, S) /\ start <= n
    BY <2>1, <2>a, <2>b DEF ServerKept
  <2>4. Served(passed, S, start, MaxTime) + k <= Limit
    BY <2>1, <2>2
  <2>5. /\ Spaced(passed', S, start) /\ TwiceAtMost(passed', S)
        /\ Served(passed', S, start, MaxTime) = Served(passed, S, start, MaxTime) + k
    <3>1. PICK next : next = passed'
      OBVIOUS
    <3>2. next = OneMore(passed, p, n, k)
      BY <1>7, <3>1
    <3>3. /\ Spaced(next, S, start) /\ TwiceAtMost(next, S)
          /\ Served(next, S, start, MaxTime) = Served(passed, S, start, MaxTime) + k
      BY <1>d, <2>1, <2>3, <2>4, <2>c, <3>2, HitInWindow
    <3> QED
      BY <3>1, <3>3
  <2>6. Served(passed', S, start, MaxTime) = Capped(new.count)
    BY <2>1, <2>5
  <2>7. ~(new.resetAt <= n)
    <3>1. CASE open
      <4>1. w \in MemoryWindow /\ w.resetAt > n
        BY <1>2, <1>d, <3>1
      <4>2. new.resetAt = w.resetAt
        BY <1>3, <3>1, <4>1 DEF MemoryWindow
      <4> QED
        BY <1>d, <4>1, <4>2 DEF MemoryWindow
    <3>2. CASE ~open
      BY <1>3, <1>a, <1>d, <3>2
    <3> QED
      BY <3>1, <3>2
  <2> QED
    BY <1>4, <2>1, <2>5, <2>6, <2>7, <2>b DEF ServerKept
<1>10. LimitType'
  <2>1. window' \in [Callers -> {Null} \cup MemoryWindow]
    BY <1>4, <1>5 DEF LimitInv, LimitType
  <2> QED
    BY <1>5, <1>7, <2>1 DEF LimitInv, LimitType
<1>11. \A q \in Callers : ServerKept(passed', n, window'[q], q)
  <2> TAKE q \in Callers
  <2>1. window'[q] = IF q = p THEN new ELSE window[q]
    BY <1>5 DEF LimitInv, LimitType
  <2> QED
    BY <1>8, <1>9, <2>1
<1> QED
  BY <1>1, <1>5, <1>7, <1>10, <1>11, <1>c DEF LimitInv, CounterEnds

(* What a counter is after one more hit. *)
LEMMA IncrementedCounter ==
    ASSUME LimitConstants, LimitInv
    PROVE  /\ Limits!Incremented \in RedisCounter /\ Limits!Incremented # Null
           /\ counter = Null =>
                 /\ Limits!Incremented.count = 1 /\ Limits!Incremented.expires = 0
                 /\ Limits!Incremented.since = time
           /\ counter # Null =>
                 /\ counter \in RedisCounter
                 /\ Limits!Incremented.count = counter.count + 1
                 /\ Limits!Incremented.expires = counter.expires
                 /\ Limits!Incremented.since = counter.since
<1>a. PICK new : new = Limits!Incremented
  OBVIOUS
<1>b. counter \in {Null} \cup RedisCounter /\ time \in Nat
  BY DEF LimitInv, LimitType, LimitConstants
<1>1. CASE counter = Null
  <2>1. new = [count |-> 1, expires |-> 0, since |-> time]
    BY <1>a, <1>1 DEF Limits!Incremented
  <2>2. new \in RedisCounter
    BY <1>b, <2>1 DEF RedisCounter
  <2> QED
    BY <1>1, <1>a, <2>1, <2>2 DEF LimitConstants
<1>2. CASE counter # Null
  <2>1. new = [counter EXCEPT !.count = counter.count + 1] /\ counter \in RedisCounter
    BY <1>a, <1>b, <1>2 DEF Limits!Incremented
  <2>2. /\ new \in RedisCounter /\ new.count = counter.count + 1
        /\ new.expires = counter.expires /\ new.since = counter.since
    BY <2>1 DEF RedisCounter
  <2> QED
    BY <1>2, <1>a, <2>1, <2>2 DEF LimitConstants
<1> QED
  BY <1>1, <1>2

(* A counter that counts a hit which passes or not is that of a window in  *)
(* which what passes is within its limit.                                  *)
LEMMA CountedInWindow ==
    ASSUME LimitConstants, LimitInv, backend = "upstash", NEW n, n = time
    PROVE  \E start \in Int :
              /\ FleetKept(passed, n, Limits!Incremented, start)
              /\ Served(passed, Callers, start, MaxTime) + 1 <= Limits!Incremented.count
<1>a. MaxTime \in Nat /\ Window \in Nat /\ Limit \in Nat /\ n \in 1 .. MaxTime
      /\ passed \in Tables
  BY DEF LimitConstants, LimitInv, LimitType
<1>b. PICK start \in Int : FleetKept(passed, n, counter, start)
  BY DEF LimitInv
<1>c. PICK new : new = Limits!Incremented
  OBVIOUS
<1>d. Callers \in SUBSET Callers
  OBVIOUS
<1>1. CASE counter = Null
  <2>1. new.count = 1 /\ new.since = n /\ new # Null
    BY <1>1, <1>c, IncrementedCounter
  <2>2. /\ start + Window <= n /\ Served(passed, Callers, n, MaxTime) = 0
        /\ Spaced(passed, Callers, start)
    BY <1>1, <1>b DEF FleetKept
  <2>3. Spaced(passed, Callers, n)
    BY <1>a, <1>d, <2>2, HitAfterWindow
  <2>4. FleetKept(passed, n, new, n)
    BY <1>a, <2>1, <2>2, <2>3 DEF FleetKept
  <2>5. n \in Int /\ Served(passed, Callers, n, MaxTime) + 1 <= new.count
    BY <1>a, <2>1, <2>2
  <2> QED
    BY <1>c, <2>4, <2>5
<1>2. CASE counter # Null
  <2>1. /\ new.count = counter.count + 1 /\ new.since = counter.since /\ new # Null
        /\ counter \in RedisCounter
    BY <1>2, <1>c, IncrementedCounter
  <2>2. /\ Spaced(passed, Callers, start) /\ start <= n /\ counter.since = start
        /\ Served(passed, Callers, start, MaxTime) <= counter.count
    BY <1>2, <1>b DEF FleetKept
  <2>3. counter.count \in Nat
    BY <2>1 DEF RedisCounter
  <2>4. Served(passed, Callers, start, MaxTime) \in Nat
    <3>1. MaxTime \in Int
      BY <1>a
    <3> QED
      BY <1>a, <1>d, <3>1, ServedFacts
  <2>5. Served(passed, Callers, start, MaxTime) + 1 <= new.count
    BY <2>1, <2>2, <2>3, <2>4
  <2>6. Served(passed, Callers, start, MaxTime) <= new.count
    BY <2>1, <2>2, <2>3, <2>4
  <2>7. FleetKept(passed, n, new, start)
    BY <2>1, <2>2, <2>6 DEF FleetKept
  <2> QED
    BY <1>c, <2>5, <2>7
<1> QED
  BY <1>1, <1>2

(* INCR counts a hit, which passes within the limit. *)
LEMMA IncrementKeeps ==
    ASSUME LimitConstants, LimitInv, NEW p \in Callers, Limits!Increment(p)
    PROVE  LimitInv'
<1>a. MaxTime \in Nat /\ Window \in Nat /\ Limit \in Nat /\ passed \in Tables
  BY DEF LimitConstants, LimitInv, LimitType
<1>b. PICK n : n = time
  OBVIOUS
<1>c. PICK new : new = Limits!Incremented
  OBVIOUS
<1>d. Callers \in SUBSET Callers /\ n \in 1 .. MaxTime
  BY <1>b DEF LimitInv, LimitType
<1>1. /\ backend = "upstash" /\ hitting[p] = "none" /\ counter' = new
      /\ hitting' = [hitting EXCEPT ![p] = IF new.count = 1 THEN "expire" ELSE "none"]
      /\ Limits!Pass(p, new.count) /\ UNCHANGED <<backend, time, window, unended>>
  BY <1>c DEF Limits!Increment
<1>2. new \in RedisCounter /\ new # Null /\ new.count \in Nat
  BY <1>c, IncrementedCounter DEF RedisCounter
<1>3. PICK k \in {0, 1} :
         /\ k = IF Limits!Allowed(new.count) THEN 1 ELSE 0
         /\ passed' = OneMore(passed, p, n, k)
         /\ passed' \in Tables /\ NothingYet(passed', n)
  BY <1>b, <1>1, <1>2, PassCounts
<1>4. PICK start \in Int :
         /\ FleetKept(passed, n, new, start)
         /\ Served(passed, Callers, start, MaxTime) + 1 <= new.count
  BY <1>b, <1>c, <1>1, CountedInWindow
<1>5. /\ Spaced(passed, Callers, start) /\ start <= n /\ new.since = start
      /\ Served(passed, Callers, start, MaxTime) <= Limit
  BY <1>2, <1>4 DEF FleetKept, Spaced
<1>6. Served(passed, Callers, start, MaxTime) \in Nat
  <2>1. MaxTime \in Int
    BY <1>a
  <2> QED
    BY <1>a, <1>d, <2>1, ServedFacts
<1>7. Served(passed, Callers, start, MaxTime) + k <= Limit
  <2>1. CASE k = 0
    BY <1>5, <1>6, <2>1
  <2>2. CASE k = 1
    <3>1. new.count <= Limit
      BY <1>3, <2>2 DEF Limits!Allowed
    <3> QED
      BY <1>2, <1>4, <1>6, <1>a, <2>2, <3>1
  <2> QED
    BY <2>1, <2>2
<1>8. TwiceAtMost(passed, Callers)
  BY <1>1 DEF LimitInv
<1>9. /\ Spaced(passed', Callers, start) /\ TwiceAtMost(passed', Callers)
      /\ Served(passed', Callers, start, MaxTime)
             = Served(passed, Callers, start, MaxTime) + k
  <2>1. PICK next : next = passed'
    OBVIOUS
  <2>2. next = OneMore(passed, p, n, k) /\ k \in Nat
    BY <1>3, <2>1
  <2>3. /\ Spaced(next, Callers, start) /\ TwiceAtMost(next, Callers)
        /\ Served(next, Callers, start, MaxTime) = Served(passed, Callers, start, MaxTime) + k
    BY <1>a, <1>d, <1>5, <1>7, <1>8, <2>2, HitInWindow
  <2> QED
    BY <2>1, <2>3
<1>10. FleetKept(passed', n, new, start)
  <2>1. Served(passed', Callers, start, MaxTime) <= new.count
    BY <1>2, <1>3, <1>4, <1>6, <1>9
  <2> QED
    BY <1>2, <1>5, <1>9, <2>1 DEF FleetKept
<1>11. CounterEnds'
  <2>1. CASE counter = Null
    <3>1. new.expires = 0 /\ new.count = 1
      BY <1>c, <2>1, IncrementedCounter
    <3>2. hitting'[p] = "expire"
      BY <1>1, <3>1 DEF LimitInv, LimitType
    <3> QED
      BY <1>1, <3>1, <3>2 DEF CounterEnds
  <2>2. CASE counter # Null
    <3>1. new.expires = counter.expires /\ new.since = counter.since
      BY <1>c, <2>2, IncrementedCounter
    <3>2. \A q \in Callers : hitting[q] = "expire" => hitting'[q] = "expire"
      BY <1>1 DEF LimitInv, LimitType
    <3>3. /\ counter.expires # 0 =>
                counter.expires \in n + 1 .. n + Window
                /\ counter.since + Window <= counter.expires
          /\ counter.expires = 0 => unended \/ \E q \in Callers : hitting[q] = "expire"
      BY <2>2, <1>b DEF LimitInv, CounterEnds
    <3> QED
      BY <1>1, <1>b, <3>1, <3>2, <3>3 DEF CounterEnds
  <2> QED
    BY <2>1, <2>2
<1>12. LimitType'
  <2>1. hitting' \in [Callers -> {"none", "expire"}]
    BY <1>1 DEF LimitInv, LimitType
  <2> QED
    BY <1>1, <1>2, <1>3, <2>1 DEF LimitInv, LimitType
<1>13. \A q \in Callers : window'[q] = Null
  BY <1>1 DEF LimitInv
<1> QED
  BY <1>b, <1>1, <1>3, <1>9, <1>10, <1>11, <1>12, <1>13 DEF LimitInv

(* A hit whose INCR fails passes, counted or not. *)
LEMMA FailOpenKeeps ==
    ASSUME LimitConstants, LimitInv, NEW p \in Callers, NEW counted \in BOOLEAN,
           Limits!FailOpen(p, counted)
    PROVE  LimitInv'
<1>b. PICK n : n = time
  OBVIOUS
<1>c. PICK new : new = Limits!Incremented
  OBVIOUS
<1>1. /\ backend = "upstash" /\ counter' = IF counted THEN new ELSE counter
      /\ unended' = (unended \/ (counted /\ counter = Null))
      /\ UNCHANGED <<backend, time, window, hitting, passed>>
  BY <1>c DEF Limits!FailOpen
<1>2. new \in RedisCounter /\ new # Null
  BY <1>c, IncrementedCounter
<1>3. \E start \in Int : FleetKept(passed, n, counter', start)
  <2>1. CASE counted
    BY <1>1, <1>b, <1>c, <2>1, CountedInWindow
  <2>2. CASE ~counted
    BY <1>1, <1>b, <2>2 DEF LimitInv
  <2> QED
    BY <2>1, <2>2
<1>4. CounterEnds'
  <2>1. CASE counted /\ counter = Null
    <3>1. new.expires = 0 /\ unended'
      BY <1>1, <1>c, <2>1, IncrementedCounter
    <3> QED
      BY <1>1, <2>1, <3>1 DEF CounterEnds
  <2>2. CASE counted /\ counter # Null
    <3>1. new.expires = counter.expires /\ new.since = counter.since
      BY <1>c, <2>2, IncrementedCounter
    <3>2. unended' = unended
      BY <1>1, <2>2 DEF LimitInv, LimitType
    <3>3. CounterEnds
      BY DEF LimitInv
    <3> QED
      BY <1>1, <2>2, <3>1, <3>2, <3>3 DEF CounterEnds
  <2>3. CASE ~counted
    <3>1. unended' = unended /\ counter' = counter
      BY <1>1, <2>3 DEF LimitInv, LimitType
    <3>2. CounterEnds
      BY DEF LimitInv
    <3> QED
      BY <1>1, <3>1, <3>2 DEF CounterEnds
  <2> QED
    BY <2>1, <2>2, <2>3
<1>5. LimitType'
  <2>1. unended' \in BOOLEAN
    BY <1>1
  <2>2. counter' \in {Null} \cup RedisCounter
    BY <1>1, <1>2 DEF LimitInv, LimitType
  <2> QED
    BY <1>1, <2>1, <2>2 DEF LimitInv, LimitType
<1> QED
  BY <1>b, <1>1, <1>3, <1>4, <1>5 DEF LimitInv

(* The counter is given its end, one window from now. *)
LEMMA ExpireKeeps ==
    ASSUME LimitConstants, LimitInv, NEW p \in Callers, Limits!Expire(p)
    PROVE  LimitInv'
<1>a. Window \in Nat \ {0} /\ time \in Nat
  BY DEF LimitConstants, LimitInv, LimitType
<1>1. /\ hitting' = [hitting EXCEPT ![p] = "none"]
      /\ UNCHANGED <<backend, time, window, passed, unended>>
      /\ counter' = IF counter # Null /\ counter.expires = 0
                      THEN [counter EXCEPT !.expires = time + Window] ELSE counter
  BY DEF Limits!Expire
<1>2. hitting' \in [Callers -> {"none", "expire"}]
  BY <1>1 DEF LimitInv, LimitType
<1>3. CASE counter = Null
  <2>1. counter' = counter
    BY <1>1, <1>3
  <2> QED
    BY <1>1, <1>2, <1>3, <2>1 DEF LimitInv, LimitType, CounterEnds
<1>4. CASE counter # Null
  <2>a. backend = "upstash" /\ counter \in RedisCounter
    BY <1>4 DEF LimitInv, LimitType
  <2>b. PICK start \in Int : FleetKept(passed, time, counter, start)
    BY <2>a DEF LimitInv
  <2>c. PICK new : new = counter'
    OBVIOUS
  <2>1. /\ new \in RedisCounter /\ new.count = counter.count /\ new.since = counter.since
        /\ new.expires = IF counter.expires = 0 THEN time + Window ELSE counter.expires
    BY <1>1, <1>4, <1>a, <2>a, <2>c DEF RedisCounter
  <2>2. new # Null
    BY <2>1 DEF LimitConstants
  <2>3. FleetKept(passed, time, new, start)
    BY <1>4, <2>1, <2>2, <2>b DEF FleetKept
  <2>4. counter.since <= time /\ counter.since \in Nat /\ counter.expires \in Nat
    BY <1>4, <2>a, <2>b DEF FleetKept, RedisCounter
  <2>5. /\ new.expires \in time + 1 .. time + Window
        /\ new.since + Window <= new.expires /\ new.expires # 0
    <3>1. CASE counter.expires = 0
      BY <1>a, <2>1, <2>4, <3>1
    <3>2. CASE counter.expires # 0
      <4>1. counter.expires \in time + 1 .. time + Window
            /\ counter.since + Window <= counter.expires
        BY <1>4, <3>2 DEF LimitInv, CounterEnds
      <4> QED
        BY <2>1, <3>2, <4>1
    <3> QED
      BY <3>1, <3>2
  <2>6. CounterEnds'
    BY <1>1, <2>5, <2>c DEF CounterEnds
  <2>7. LimitType'
    BY <1>1, <1>2, <2>1, <2>c DEF LimitInv, LimitType
  <2> QED
    BY <1>1, <2>3, <2>6, <2>7, <2>a, <2>c DEF LimitInv
<1> QED
  BY <1>3, <1>4

(* Losing the request that gives the counter its end is noted. *)
LEMMA LoseExpiryKeeps ==
    ASSUME LimitConstants, LimitInv, NEW p \in Callers, Limits!LoseExpiry(p)
    PROVE  LimitInv'
<1>1. /\ hitting' = [hitting EXCEPT ![p] = "none"] /\ unended' = TRUE
      /\ UNCHANGED <<backend, time, window, counter, passed>>
  BY DEF Limits!LoseExpiry
<1>2. LimitType'
  BY <1>1 DEF LimitInv, LimitType
<1>3. CounterEnds'
  BY <1>1 DEF LimitInv, CounterEnds
<1> QED
  BY <1>1, <1>2, <1>3 DEF LimitInv

(* Time passes: what has ended no longer counts. *)
LEMMA PassTimeKeeps ==
    ASSUME LimitConstants, LimitInv, Limits!PassTime
    PROVE  LimitInv'
<1>a. MaxTime \in Nat /\ Window \in Nat \ {0} /\ Limit \in Nat
  BY DEF LimitConstants
<1>b. PICK n : n = time
  OBVIOUS
<1>c. n \in 1 .. MaxTime /\ n < MaxTime /\ n + 1 \in 1 .. MaxTime /\ passed \in Tables
      /\ n \in Nat
  BY <1>a, <1>b DEF LimitInv, LimitType, Limits!PassTime
<1>1. /\ time' = n + 1 /\ UNCHANGED <<backend, window, hitting, passed, unended>>
      /\ counter' = IF counter # Null /\ counter.expires = n + 1 THEN Null ELSE counter
  BY <1>b DEF Limits!PassTime
<1>2. NothingYet(passed, n) /\ NothingYet(passed, n + 1)
  BY <1>b, <1>c DEF LimitInv, NothingYet
<1>3. \A servers \in SUBSET Callers : Served(passed, servers, n + 1, MaxTime) = 0
  BY <1>2, <1>c, NothingServed
<1>4. LimitType'
  BY <1>1, <1>c DEF LimitInv, LimitType
<1>5. CounterEnds'
  <2> SUFFICES ASSUME counter' # Null PROVE CounterEnds'
    BY DEF CounterEnds
  <2>1. counter' = counter /\ counter # Null /\ counter.expires # n + 1
    BY <1>1
  <2>2. /\ counter.expires # 0 =>
              counter.expires \in n + 1 .. n + Window
              /\ counter.since + Window <= counter.expires
        /\ counter.expires = 0 => unended \/ \E p \in Callers : hitting[p] = "expire"
    BY <1>b, <2>1 DEF LimitInv, CounterEnds
  <2>3. counter.expires # 0 => counter.expires \in (n + 1) + 1 .. (n + 1) + Window
    BY <1>a, <1>c, <2>1, <2>2
  <2> QED
    BY <1>1, <2>1, <2>2, <2>3 DEF CounterEnds
<1>6. ASSUME backend = "memory", NEW p \in Callers
      PROVE  ServerKept(passed, n + 1, window[p], p)
  <2>1. ServerKept(passed, n, window[p], p)
    BY <1>6, <1>b DEF LimitInv
  <2>2. {p} \in SUBSET Callers
    OBVIOUS
  <2>3. Served(passed, {p}, n + 1, MaxTime) = 0
    BY <1>3, <2>2
  <2>4. 1 .. n \subseteq 1 .. n + 1
    BY <1>c
  <2> QED
    BY <2>1, <2>3, <2>4 DEF ServerKept
<1>7. ASSUME backend = "upstash"
      PROVE  \E start \in Int : FleetKept(passed, n + 1, counter', start)
  <2>1. PICK start \in Int : FleetKept(passed, n, counter, start)
    BY <1>7, <1>b DEF LimitInv
  <2>2. Served(passed, Callers, n + 1, MaxTime) = 0
    BY <1>3
  <2>3. Spaced(passed, Callers, start) /\ start <= n + 1
    BY <1>c, <2>1 DEF FleetKept
  <2>4. CASE counter = Null
    <3>1. counter' = Null /\ start + Window <= n + 1
      BY <1>1, <1>a, <1>c, <2>1, <2>4 DEF FleetKept
    <3> QED
      BY <2>2, <2>3, <3>1 DEF FleetKept
  <2>5. CASE counter # Null /\ counter.expires = n + 1
    <3>1. counter' = Null
      BY <1>1, <2>5
    <3>2. counter.since = start /\ counter.since + Window <= counter.expires
      BY <1>c, <2>1, <2>5 DEF FleetKept, LimitInv, CounterEnds
    <3> QED
      BY <2>2, <2>3, <2>5, <3>1, <3>2 DEF FleetKept
  <2>6. CASE counter # Null /\ counter.expires # n + 1
    <3>1. counter' = counter
      BY <1>1, <2>6
    <3> QED
      BY <2>1, <2>3, <2>6, <3>1 DEF FleetKept
  <2> QED
    BY <2>4, <2>5, <2>6
<1>8. backend = "memory" => counter' = Null
  BY <1>1 DEF LimitInv
<1> QED
  BY <1>1, <1>2, <1>4, <1>5, <1>6, <1>7, <1>8 DEF LimitInv

(* Every step of the rate limits keeps their invariant. *)
LEMMA LimitStep ==
    ASSUME LimitConstants, LimitInv, [Limits!Next]_limitvars
    PROVE  LimitInv'
<1>1. CASE Limits!Next
  BY <1>1, MemoryHitKeeps, IncrementKeeps, ExpireKeeps, LoseExpiryKeeps, FailOpenKeeps,
     PassTimeKeeps DEF Limits!Next
<1>2. CASE UNCHANGED limitvars
  BY <1>2 DEF limitvars, LimitInv, LimitType, CounterEnds
<1> QED
  BY <1>1, <1>2

(* The invariant says what WindowsHold says. *)
LEMMA LimitSafe ==
    ASSUME LimitConstants, LimitInv
    PROVE  Limits!WindowsHold
<1>a. /\ MaxTime \in Nat /\ Window \in Nat \ {0} /\ Limit \in Nat
      /\ time \in 1 .. MaxTime /\ passed \in Tables /\ NothingYet(passed, time)
      /\ IsFiniteSet(Callers) /\ Callers \in SUBSET Callers
  BY DEF LimitConstants, LimitInv, LimitType
<1>1. ASSUME NEW p \in Callers, window[p] # Null, window[p].resetAt > time
      PROVE  Limits!PassedIn({p}, window[p].resetAt - Window, time)
                 = (IF Limits!Allowed(window[p].count) THEN window[p].count ELSE Limit)
  <2>1. PICK S : S = {p}
    OBVIOUS
  <2>2. S \in SUBSET Callers /\ IsFiniteSet(S)
    BY <2>1, FS_Singleton
  <2>3. backend = "memory" /\ ServerKept(passed, time, window[p], p)
    BY <1>1 DEF LimitInv, LimitType
  <2>4. PICK start \in 1 .. time : start = window[p].resetAt - Window
    BY <1>1, <2>3 DEF ServerKept
  <2>5. Served(passed, S, start, MaxTime) = Capped(window[p].count)
    BY <1>1, <2>1, <2>3, <2>4 DEF ServerKept
  <2>6. Served(passed, S, start, MaxTime) = Served(passed, S, start, time)
    <3>1. PICK c \in Int : c = time + 1
      BY <1>a
    <3>2. start \in Int /\ start <= c /\ c <= MaxTime + 1 /\ MaxTime \in Int /\ time \in Int
      BY <1>a, <3>1
    <3>3. Served(passed, S, start, MaxTime) =
              Served(passed, S, start, c - 1) + Served(passed, S, c, MaxTime)
      BY <1>a, <2>2, <3>2, ServedFacts
    <3>4. Served(passed, S, c, MaxTime) = 0
      <4>1. time \in Nat
        BY <1>a
      <4> QED
        BY <1>a, <2>2, <3>1, <4>1, NothingServed
    <3>5. c - 1 = time
      BY <1>a, <3>1
    <3>6. Served(passed, S, start, time) \in Nat
      BY <1>a, <2>2, <3>2, ServedFacts
    <3> QED
      BY <3>3, <3>4, <3>5, <3>6
  <2>7. Limits!PassedIn(S, start, time) = Served(passed, S, start, time)
    BY <2>2, PassedIsServed
  <2> QED
    BY <2>1, <2>4, <2>5, <2>6, <2>7 DEF Capped
<1>2. Limits!ServersKeepWindows
  BY <1>1 DEF Limits!ServersKeepWindows
<1>3. Limits!FleetKeepsWindow
  <2> SUFFICES ASSUME counter # Null
               PROVE  /\ Limits!PassedIn(Callers, counter.since, time) <= Limit
                      /\ counter.expires # 0 => counter.expires \in time + 1 .. time + Window
                      /\ counter.expires = 0 =>
                            unended \/ \E p \in Callers : hitting[p] = "expire"
    BY DEF Limits!FleetKeepsWindow
  <2>1. backend = "upstash"
    BY DEF LimitInv, LimitType
  <2>2. PICK start \in Int : FleetKept(passed, time, counter, start)
    BY <2>1 DEF LimitInv
  <2>3. counter.since = start /\ Served(passed, Callers, start, MaxTime) <= Limit
    BY <2>2 DEF FleetKept, Spaced
  <2>4. Served(passed, Callers, start, time) <= Served(passed, Callers, start, MaxTime)
    <3>1. time \in Int
      BY <1>a
    <3> QED
      BY <1>a, <3>1, ServedUpTo
  <2>5. /\ Served(passed, Callers, start, time) \in Nat
        /\ Served(passed, Callers, start, MaxTime) \in Nat
    <3>1. \A x, y \in Int : Served(passed, Callers, x, y) \in Nat
      BY <1>a, ServedFacts
    <3>2. time \in Int /\ MaxTime \in Int
      BY <1>a
    <3> QED
      BY <3>1, <3>2
  <2>6. Limits!PassedIn(Callers, start, time) = Served(passed, Callers, start, time)
    BY <1>a, PassedIsServed
  <2>7. Limits!PassedIn(Callers, counter.since, time) <= Limit
    BY <1>a, <2>3, <2>4, <2>5, <2>6
  <2> QED
    BY <2>7 DEF LimitInv, CounterEnds
<1>4. Limits!NoMoreThanTwice
  <2> SUFFICES ASSUME NEW t \in 1 .. time,
                      NEW servers \in IF backend = "memory" THEN {{p} : p \in Callers}
                                       ELSE {Callers}
               PROVE  Limits!PassedIn(servers, t, t + Window - 1) <= 2 * Limit
    BY DEF Limits!NoMoreThanTwice
  <2>1. IsFiniteSet(servers)
    <3>1. \A p : IsFiniteSet({p})
      BY FS_Singleton
    <3> QED
      BY <1>a, <3>1
  <2>2. TwiceAtMost(passed, servers)
    <3>1. CASE backend = "memory"
      <4>1. PICK p \in Callers : servers = {p}
        BY <3>1
      <4> QED
        BY <3>1, <4>1 DEF LimitInv, ServerKept
    <3>2. CASE backend # "memory"
      <4>1. backend = "upstash" /\ servers = Callers
        BY <3>2 DEF LimitInv, LimitType
      <4> QED
        BY <4>1 DEF LimitInv
    <3> QED
      BY <3>1, <3>2
  <2>3. t \in 1 .. MaxTime
    BY <1>a
  <2>4. Limits!PassedIn(servers, t, t + Window - 1) = Served(passed, servers, t, t + Window - 1)
    BY <2>1, PassedIsServed
  <2> QED
    BY <2>2, <2>3, <2>4 DEF TwiceAtMost
<1> QED
  BY <1>2, <1>3, <1>4 DEF Limits!WindowsHold

-----------------------------------------------------------------------------
(* When jobs come due *)

(* A quotient and its remainder are the only ones. *)
LEMMA QuotientIs ==
    ASSUME NEW n \in Nat, NEW d \in Nat \ {0}, NEW q \in Nat, NEW m \in 0 .. d - 1,
           n = d * q + m
    PROVE  n \div d = q /\ n % d = m
<1>1. PICK p \in Nat : p = n \div d
  BY SMTT(30)
<1>2. PICK l \in 0 .. d - 1 : l = n % d
  BY SMTT(30)
<1>3. n = d * p + l
  BY <1>1, <1>2, SMTT(30)
<1>4. ASSUME NEW a \in Nat, NEW b \in Nat, NEW i \in 0 .. d - 1, NEW k \in 0 .. d - 1,
             a < b, d * a + i = d * b + k
      PROVE  FALSE
  <2>1. PICK c \in Nat : b = a + 1 + c
    <3>1. b - (a + 1) \in Nat /\ b = a + 1 + (b - (a + 1))
      BY <1>4
    <3> QED
      BY <3>1
  <2>2. d * b = d * a + d + d * c /\ d * a \in Nat /\ d * c \in Nat
    BY <2>1, SMTT(30)
  <2> QED
    BY <1>4, <2>2
<1>5. p = q
  BY <1>3, <1>4
<1>6. d * q \in Nat
  OBVIOUS
<1> QED
  BY <1>1, <1>2, <1>3, <1>5, <1>6

(* Any number has them. *)
LEMMA Quotient ==
    ASSUME NEW n \in Nat, NEW d \in Nat \ {0}
    PROVE  n \div d \in Nat /\ n % d \in 0 .. d - 1 /\ n = d * (n \div d) + (n % d)
  BY SMTT(30)

(* Multiples grow. *)
LEMMA TimesGrows ==
    ASSUME NEW a \in Nat, NEW b \in Nat, NEW d \in Nat, a <= b
    PROVE  a * d <= b * d /\ a * d \in Nat /\ b * d \in Nat
<1>1. PICK c \in Nat : b = a + c
  <2>1. b - a \in Nat /\ b = a + (b - a)
    OBVIOUS
  <2> QED
    BY <2>1
<1>2. b * d = a * d + c * d /\ a * d \in Nat /\ c * d \in Nat
  BY <1>1, SMTT(30)
<1> QED
  BY <1>2

(* Days, hours and minutes make up a time of the year in one way. *)
LEMMA TimeParts ==
    ASSUME NEW n \in Nat, NEW d \in Nat, NEW h \in 0 .. Hours - 1, NEW m \in 0 .. Minutes - 1
    PROVE  /\ Minutes * Hours \in Nat \ {0}
           /\ n \div (Minutes * Hours) = d /\ (n \div Minutes) % Hours = h /\ n % Minutes = m
              <=> n = (d * Hours + h) * Minutes + m
<1>1. Minutes \in Nat \ {0} /\ Hours \in Nat \ {0}
  BY CalendarAssumption
<1>2. PICK D \in Nat \ {0} : D = Minutes * Hours
  <2>1. Minutes * Hours \in Nat /\ Minutes * Hours # 0
    BY <1>1, SMTT(30)
  <2> QED
    BY <2>1
<1>3. ASSUME NEW e \in Nat, NEW g \in 0 .. Hours - 1, NEW k \in 0 .. Minutes - 1,
             n = (e * Hours + g) * Minutes + k
      PROVE  n \div D = e /\ (n \div Minutes) % Hours = g /\ n % Minutes = k
  <2>1. PICK a \in Nat : a = e * Hours + g
    BY <1>1
  <2>2. n = Minutes * a + k
    BY <1>1, <1>3, <2>1
  <2>3. n \div Minutes = a /\ n % Minutes = k
    BY <1>1, <2>2, QuotientIs
  <2>4. a = Hours * e + g
    BY <1>1, <2>1
  <2>5. a \div Hours = e /\ a % Hours = g
    BY <1>1, <2>4, QuotientIs
  <2>6. PICK r \in Nat : r = Minutes * g + k
    BY <1>1
  <2>7. r < D
    <3>1. g + 1 <= Hours /\ g + 1 \in Nat
      BY <1>1
    <3>2. (g + 1) * Minutes <= Hours * Minutes
      BY <1>1, <3>1, TimesGrows
    <3>3. (g + 1) * Minutes = Minutes * g + Minutes /\ Minutes * g \in Nat
      BY <1>1, SMTT(30)
    <3>4. Hours * Minutes = D
      BY <1>1, <1>2
    <3> QED
      BY <1>1, <2>6, <3>2, <3>3, <3>4
  <2>8. n = D * e + r
    <3>1. Minutes * (Hours * e + g) = Minutes * Hours * e + Minutes * g
      BY <1>1, SMTT(30)
    <3>2. Minutes * Hours * e = D * e /\ D * e \in Nat /\ Minutes * g \in Nat
      BY <1>1, <1>2
    <3> QED
      BY <1>1, <2>2, <2>4, <2>6, <3>1, <3>2
  <2>9. n \div D = e
    BY <2>7, <2>8, QuotientIs
  <2> QED
    BY <2>3, <2>5, <2>9
<1>4. ASSUME n \div D = d, (n \div Minutes) % Hours = h, n % Minutes = m
      PROVE  n = (d * Hours + h) * Minutes + m
  <2>1. PICK a \in Nat : a = n \div Minutes
    BY <1>1, Quotient
  <2>2. n = Minutes * a + m
    BY <1>1, <1>4, <2>1, Quotient
  <2>3. PICK e \in Nat : e = a \div Hours
    BY <1>1, Quotient
  <2>4. a = Hours * e + h
    BY <1>1, <1>4, <2>1, <2>3, Quotient
  <2>5. n = (e * Hours + h) * Minutes + m
    BY <1>1, <2>2, <2>4, SMTT(30)
  <2>6. n \div D = e
    BY <1>3, <2>5
  <2> QED
    BY <1>4, <2>5, <2>6
<1> QED
  BY <1>2, <1>3, <1>4

(* Months have up to 31 days. *)
LEMMA MonthLengths ==
    /\ Len(MonthDays) \in Nat /\ Len(MonthDays) >= 1
    /\ DOMAIN MonthDays = 1 .. Len(MonthDays)
    /\ \A m \in 1 .. Len(MonthDays) :
          MonthDays[m] \in Nat /\ 1 <= MonthDays[m] /\ MonthDays[m] <= 31
<1>1. PICK S : S = 1 .. 31
  OBVIOUS
<1>2. MonthDays \in Seq(S) /\ MonthDays # <<>>
  BY <1>1, CalendarAssumption
<1>3. \A m \in 1 .. Len(MonthDays) : MonthDays[m] \in S
  BY <1>2
<1>4. \A x \in S : x \in Nat /\ 1 <= x /\ x <= 31
  BY <1>1
<1>5. Len(MonthDays) \in Nat /\ Len(MonthDays) >= 1 /\ DOMAIN MonthDays = 1 .. Len(MonthDays)
  BY <1>2
<1> QED
  BY <1>3, <1>4, <1>5

(* The beginning of a month is where the one before ends. *)
LEMMA MonthStarts ==
    /\ Jobs!MonthStart(1) = 0
    /\ \A m \in 1 .. Len(MonthDays) :
          /\ Jobs!MonthStart(m) \in Nat /\ Jobs!MonthStart(m + 1) \in Nat
          /\ Jobs!MonthStart(m + 1) = Jobs!MonthStart(m) + MonthDays[m]
<1>1. \A m : Jobs!MonthStart(m) = Sum(MonthDays, 1 .. m - 1)
  BY DEF Jobs!MonthStart, Jobs!SumFunctionOnSet, Jobs!FoldFunctionOnSet, Jobs!MapThenFoldSet,
         Sum, SumsOver, First
<1>2. Jobs!MonthStart(1) = 0
  <2>1. 1 .. 1 - 1 = {}
    OBVIOUS
  <2>2. Sum(MonthDays, {}) = 0
    BY SumFirst, FS_EmptySet
  <2> QED
    BY <1>1, <2>1, <2>2
<1>3. ASSUME NEW n \in Nat, n + 1 <= Len(MonthDays)
      PROVE  /\ Sum(MonthDays, 1 .. n) \in Nat /\ MonthDays[n + 1] \in Nat
             /\ Sum(MonthDays, 1 .. n + 1) = Sum(MonthDays, 1 .. n) + MonthDays[n + 1]
  <2>1. \A k \in 1 .. n + 1 : k \in 1 .. Len(MonthDays)
    BY <1>3, MonthLengths
  <2>2. \A k \in 1 .. n + 1 : MonthDays[k] \in Nat
    BY <2>1, MonthLengths
  <2>3. \A k \in 1 .. n + 1 : MonthDays[k] \in Int
    BY <2>2
  <2>4. Sum(MonthDays, 1 .. n + 1) = Sum(MonthDays, 1 .. n) + MonthDays[n + 1]
    BY <2>3, SumNext
  <2>5. IsFiniteSet(1 .. n) /\ \A k \in 1 .. n : MonthDays[k] \in Nat
    BY <2>2, FS_Interval
  <2>6. Sum(MonthDays, 1 .. n) \in Nat
    BY <2>5, SumNat
  <2> QED
    BY <2>2, <2>4, <2>6
<1>4. ASSUME NEW m \in 1 .. Len(MonthDays)
      PROVE  /\ Jobs!MonthStart(m) \in Nat /\ Jobs!MonthStart(m + 1) \in Nat
             /\ Jobs!MonthStart(m + 1) = Jobs!MonthStart(m) + MonthDays[m]
  <2>1. PICK n \in Nat : n + 1 = m
    <3>1. m - 1 \in Nat /\ (m - 1) + 1 = m
      OBVIOUS
    <3> QED
      BY <3>1
  <2>2. m - 1 = n /\ (m + 1) - 1 = n + 1 /\ n + 1 <= Len(MonthDays)
    BY <2>1, MonthLengths
  <2>3. Jobs!MonthStart(m) = Sum(MonthDays, 1 .. n)
    BY <1>1, <2>2
  <2>4. Jobs!MonthStart(m + 1) = Sum(MonthDays, 1 .. n + 1)
    BY <1>1, <2>2
  <2>5. MonthDays[n + 1] = MonthDays[m]
    BY <2>1
  <2> QED
    BY <1>3, <2>2, <2>3, <2>4, <2>5
<1> QED
  BY <1>2, <1>4

(* What the clock shows. *)
ShiftFits ==
    /\ shift \in Int /\ shift <= ClockChange
    /\ -(Minutes * Hours) < shift /\ shift < Minutes * Hours

LEMMA ShownIs ==
    ASSUME ShiftFits, NEW t \in Nat
    PROVE  /\ Jobs!Shown(t) \in Nat
           /\ t < ClockChange => Jobs!Shown(t) = t
           /\ t >= ClockChange => Jobs!Shown(t) = t - shift
  BY CalendarAssumption DEF ShiftFits, Jobs!Shown

(* Every day is in a month, and has a date. *)
LEMMA DatesAre ==
    ASSUME ShiftFits, NEW t \in Nat
    PROVE  Jobs!Month(t) \in 1 .. Len(MonthDays) /\ Jobs!Date(t) \in 1 .. 31
<1>1. PICK L \in Nat : L = Len(MonthDays) /\ L >= 1 /\ DOMAIN MonthDays = 1 .. L
  BY MonthLengths
<1>2. PICK year \in Nat \ {0} : year = Jobs!MonthStart(L + 1)
  <2>1. L \in 1 .. L
    BY <1>1
  <2> QED
    BY <1>1, <2>1, MonthStarts, MonthLengths
<1>3. Jobs!Day(t) \in Nat
  <2>1. Minutes * Hours \in Nat \ {0}
    BY CalendarAssumption, SMTT(30)
  <2> QED
    BY <2>1, ShownIs, Quotient DEF Jobs!Day
<1>4. PICK y \in 0 .. year - 1 : y = Jobs!DayOfYear(t)
  <2>1. Jobs!Day(t) % year \in 0 .. year - 1
    BY <1>3, Quotient
  <2> QED
    BY <1>1, <1>2, <2>1 DEF Jobs!DayOfYear
<1>5. \E m \in 1 .. L : y \in Jobs!MonthStart(m) .. Jobs!MonthStart(m + 1) - 1
  <2>1. PICK S : S = {m \in Nat : m \in 1 .. L /\ y < Jobs!MonthStart(m + 1)}
    OBVIOUS
  <2>2. L \in S
    BY <1>1, <1>2, <1>4, <2>1
  <2>3. PICK m \in S : \A k \in S : m <= k
    <3>1. S \subseteq Nat /\ S # {}
      BY <2>1, <2>2
    <3> QED
      BY <3>1, LeastNatural
  <2>4. m \in 1 .. L /\ y < Jobs!MonthStart(m + 1)
    BY <2>1, <2>3
  <2>5. Jobs!MonthStart(m) \in Nat /\ Jobs!MonthStart(m + 1) \in Nat
    BY <1>1, <2>4, MonthStarts
  <2>6. Jobs!MonthStart(m) <= y
    <3>1. CASE m = 1
      BY <1>4, <3>1, MonthStarts
    <3>2. CASE m # 1
      <4>1. PICK k \in 1 .. L : m = k + 1
        <5>1. m - 1 \in 1 .. L /\ m = (m - 1) + 1
          BY <2>4, <3>2
        <5> QED
          BY <5>1
      <4>2. k \notin S
        BY <2>3, <4>1
      <4>3. ~(y < Jobs!MonthStart(k + 1))
        BY <2>1, <4>1, <4>2
      <4> QED
        BY <1>4, <2>5, <4>1, <4>3
    <3> QED
      BY <3>1, <3>2
  <2> QED
    BY <1>4, <2>4, <2>5, <2>6
<1>6. /\ Jobs!Month(t) \in 1 .. L
      /\ y \in Jobs!MonthStart(Jobs!Month(t)) .. Jobs!MonthStart(Jobs!Month(t) + 1) - 1
  BY <1>1, <1>4, <1>5 DEF Jobs!Month
<1>7. PICK m \in 1 .. L : m = Jobs!Month(t)
  BY <1>6
<1>8. /\ Jobs!MonthStart(m) \in Nat
      /\ Jobs!MonthStart(m + 1) = Jobs!MonthStart(m) + MonthDays[m]
      /\ MonthDays[m] \in Nat /\ MonthDays[m] <= 31
  BY <1>1, MonthStarts, MonthLengths
<1>9. Jobs!Date(t) = 1 + y - Jobs!MonthStart(m)
  BY <1>4, <1>7 DEF Jobs!Date
<1>10. y \in Jobs!MonthStart(m) .. Jobs!MonthStart(m + 1) - 1
  BY <1>6, <1>7
<1>11. PICK s \in Nat : s = Jobs!MonthStart(m)
  BY <1>8
<1>12. PICK l \in Nat : l = MonthDays[m] /\ l <= 31
  BY <1>8
<1>13. y \in s .. (s + l) - 1
  BY <1>8, <1>10, <1>11, <1>12
<1>14. 1 + y - s \in 1 .. 31
  BY <1>11, <1>12, <1>13
<1> QED
  BY <1>1, <1>7, <1>9, <1>11, <1>14


(* The walk goes from minute to minute, and skips what is shown twice. *)
Walked(a, k) == IF a < ClockChange /\ a + k >= ClockChange /\ shift > 0 THEN a + k + shift ELSE a + k

LEMMA WalkedGoesOn ==
    ASSUME ShiftFits, NEW a \in Nat, a \notin Jobs!Again, NEW k \in Nat
    PROVE  /\ Walked(a, 0) = a /\ Walked(a, k) \in Nat
           /\ Jobs!MinuteLater(Walked(a, k)) = Walked(a, k + 1)
<1>1. ClockChange \in Nat \ {0}
  BY CalendarAssumption
<1>2. a < ClockChange \/ a >= ClockChange + shift \/ shift <= 0
  BY <1>1 DEF ShiftFits, Jobs!Again
<1>3. Walked(a, 0) = a /\ Walked(a, k) \in Nat
  BY <1>1 DEF ShiftFits, Walked
<1>4. PICK w \in Nat : w = Walked(a, k)
  BY <1>3
<1>5. Jobs!MinuteLater(w) = IF w = ClockChange - 1 /\ shift > 0 THEN w + 1 + shift ELSE w + 1
  <2>1. w < ClockChange \/ w >= ClockChange + shift \/ shift <= 0
    BY <1>1, <1>2, <1>4 DEF ShiftFits, Walked
  <2> QED
    BY <1>1, <2>1 DEF ShiftFits, Jobs!MinuteLater, Jobs!InstantOf, Jobs!Shown
<1>6. Walked(a, k + 1) = IF w = ClockChange - 1 /\ shift > 0 THEN w + 1 + shift ELSE w + 1
  BY <1>1, <1>2, <1>4 DEF ShiftFits, Walked
<1> QED
  BY <1>3, <1>4, <1>5, <1>6

(* The recursion of the walk has no other solution. *)
LEMMA WalkIs ==
    ASSUME ShiftFits, NEW a \in Nat, a \notin Jobs!Again
    PROVE  \A k \in 0 .. Horizon : Jobs!Walk(a)[k] = Walked(a, k)
<1> DEFINE Follows(w) ==
      w = [k \in 0 .. Horizon |-> IF k = 0 THEN a ELSE Jobs!MinuteLater(w[k - 1])]
<1>1. PICK w : w = [k \in 0 .. Horizon |-> Walked(a, k)]
  OBVIOUS
<1>2. \A k \in 0 .. Horizon :
         Walked(a, k) = IF k = 0 THEN a ELSE Jobs!MinuteLater(w[k - 1])
  <2> SUFFICES ASSUME NEW k \in 0 .. Horizon
               PROVE  Walked(a, k) = IF k = 0 THEN a ELSE Jobs!MinuteLater(w[k - 1])
    OBVIOUS
  <2>1. CASE k = 0
    BY <2>1, WalkedGoesOn
  <2>2. CASE k # 0
    <3>1. PICK l \in 0 .. Horizon : k = l + 1 /\ k - 1 = l
      <4>1. k - 1 \in 0 .. Horizon /\ k = (k - 1) + 1
        BY <2>2, CalendarAssumption
      <4> QED
        BY <4>1
    <3>2. l \in Nat
      BY <3>1
    <3>3. Jobs!MinuteLater(Walked(a, l)) = Walked(a, l + 1)
      BY <3>2, WalkedGoesOn
    <3> QED
      BY <1>1, <2>2, <3>1, <3>3
  <2> QED
    BY <2>1, <2>2
<1>3. Follows(w)
  BY <1>1, <1>2
<1>4. PICK v : v = Jobs!Walk(a)
  OBVIOUS
<1>5. v = CHOOSE u : Follows(u)
  BY <1>4 DEF Jobs!Walk
<1>6. Follows(v)
  BY <1>3, <1>5
<1>7. \A k \in 0 .. Horizon : v[k] = IF k = 0 THEN a ELSE Jobs!MinuteLater(v[k - 1])
  BY <1>6
<1> HIDE DEF Follows
<1> DEFINE Agrees(k) == k <= Horizon => v[k] = Walked(a, k)
<1>8. Agrees(0)
  <2>1. 0 \in 0 .. Horizon
    BY CalendarAssumption
  <2>2. Walked(a, 0) = a
    BY WalkedGoesOn
  <2> QED
    BY <1>7, <2>1, <2>2
<1>9. ASSUME NEW k \in Nat, Agrees(k)
      PROVE  Agrees(k + 1)
  <2> SUFFICES ASSUME k + 1 <= Horizon
               PROVE  v[k + 1] = Walked(a, k + 1)
    OBVIOUS
  <2>1. k + 1 \in 0 .. Horizon /\ k + 1 # 0 /\ (k + 1) - 1 = k /\ k <= Horizon
    BY CalendarAssumption
  <2>2. v[k + 1] = Jobs!MinuteLater(v[k])
    BY <1>7, <2>1
  <2>3. v[k] = Walked(a, k)
    BY <1>9, <2>1
  <2> QED
    BY <2>2, <2>3, WalkedGoesOn
<1>10. \A k \in Nat : Agrees(k)
  <2> HIDE DEF Agrees
  <2> DEFINE S == {k \in Nat : Agrees(k)}
  <2>1. 0 \in S
    BY <1>8
  <2>2. \A k \in Nat : k \in S => k + 1 \in S
    BY <1>9
  <2>3. \A k \in Nat : k \in S
    <3> HIDE DEF S
    <3> QED
      BY <2>1, <2>2, AllNaturals
  <2> QED
    BY <2>3
<1> QED
  BY <1>4, <1>10, CalendarAssumption

LEMMA WalkedGrows ==
    ASSUME ShiftFits, NEW a \in Nat, NEW j \in Nat, NEW k \in Nat, j <= k
    PROVE  Walked(a, j) <= Walked(a, k) /\ (j # 0 => Walked(a, j) > a)
  BY CalendarAssumption DEF ShiftFits, Walked

(* It comes to every later time that is not shown twice. *)
LEMMA WalkedCovers ==
    ASSUME ShiftFits, NEW a \in Nat, a \notin Jobs!Again,
           NEW t \in Nat, t > a, t \notin Jobs!Again
    PROVE  \E k \in Nat \ {0} : t = Walked(a, k) /\ k <= t - a
<1>1. ClockChange \in Nat \ {0} /\ shift \in Int
  BY CalendarAssumption DEF ShiftFits
<1>2. CASE a < ClockChange /\ t >= ClockChange /\ shift > 0
  <2>1. t >= ClockChange + shift
    BY <1>1, <1>2 DEF Jobs!Again
  <2>2. PICK k \in Nat \ {0} : k = t - a - shift /\ k <= t - a /\ a + k >= ClockChange
    BY <1>1, <1>2, <2>1
  <2>3. t = Walked(a, k)
    BY <1>1, <1>2, <2>2 DEF Walked
  <2> QED
    BY <2>2, <2>3
<1>3. CASE ~(a < ClockChange /\ t >= ClockChange /\ shift > 0)
  <2>1. PICK k \in Nat \ {0} : k = t - a
    OBVIOUS
  <2>2. t = Walked(a, k)
    BY <1>1, <1>3, <2>1 DEF Walked
  <2> QED
    BY <2>1, <2>2
<1> QED
  BY <1>2, <1>3

(* The first time after a at which the job is due is r, as far as that is  *)
(* within the horizon and not shown twice.                                 *)
NextFits(a, r) ==
    /\ r # Null =>
         /\ r \in Nat /\ r > a /\ Jobs!CronMatches(cron, r)
         /\ \A t \in Nat \ Jobs!Again : t > a /\ Jobs!CronMatches(cron, t) => t >= r
    /\ r = Null =>
         \A t \in Nat \ Jobs!Again : t > a /\ Jobs!CronMatches(cron, t) => t > a + Horizon

(* What the walk finds is the first. *)
LEMMA NextRunFits ==
    ASSUME ShiftFits, NEW a \in Nat, a \notin Jobs!Again
    PROVE  NextFits(a, Jobs!NextRun(cron, a))
<1>1. PICK w : w = Jobs!Walk(a)
  OBVIOUS
<1>2. PICK found : found = {k \in 1 .. Horizon : Jobs!CronMatches(cron, w[k])}
  OBVIOUS
<1>3. PICK r : r = Jobs!NextRun(cron, a)
  OBVIOUS
<1>4. r = Jobs!Earliest(w, found)
  BY <1>1, <1>2, <1>3 DEF Jobs!NextRun
<1>5. \A k \in 1 .. Horizon : w[k] = Walked(a, k) /\ k \in Nat \ {0}
  BY <1>1, WalkIs, CalendarAssumption
<1>6. ASSUME NEW t \in Nat \ Jobs!Again, t > a, Jobs!CronMatches(cron, t)
      PROVE  \E k \in Nat \ {0} :
                t = Walked(a, k) /\ k <= t - a /\ (k <= Horizon => k \in found)
  <2>1. PICK k \in Nat \ {0} : t = Walked(a, k) /\ k <= t - a
    BY <1>6, WalkedCovers
  <2>2. ASSUME k <= Horizon
        PROVE  k \in found
    <3>1. k \in 1 .. Horizon
      BY <2>2, CalendarAssumption
    <3> QED
      BY <1>2, <1>5, <1>6, <2>1, <3>1
  <2> QED
    BY <2>1, <2>2
<1>7. CASE found = {}
  <2>1. r = Null
    BY <1>4, <1>7 DEF Jobs!Earliest
  <2>2. ASSUME NEW t \in Nat \ Jobs!Again, t > a, Jobs!CronMatches(cron, t)
        PROVE  t > a + Horizon
    <3>1. PICK k \in Nat \ {0} : k <= t - a /\ ~(k <= Horizon)
      BY <1>6, <1>7, <2>2
    <3> QED
      BY <3>1, CalendarAssumption
  <2> QED
    BY <1>3, <2>1, <2>2 DEF NextFits
<1>8. CASE found # {}
  <2>1. \E k \in found : \A l \in found : k <= l
    <3>1. found \subseteq Nat
      BY <1>2
    <3> QED
      BY <1>8, <3>1, LeastNatural
  <2>2. PICK k \in found : r = w[k] /\ \A l \in found : k <= l
    BY <1>4, <1>8, <2>1 DEF Jobs!Earliest
  <2>3. k \in Nat \ {0} /\ k <= Horizon /\ r = Walked(a, k) /\ Jobs!CronMatches(cron, r)
    <3>1. k \in 1 .. Horizon /\ Jobs!CronMatches(cron, w[k])
      BY <1>2, <2>2
    <3> QED
      BY <1>5, <2>2, <3>1, CalendarAssumption
  <2>4. r \in Nat /\ r > a
    BY <2>3, WalkedGoesOn, WalkedGrows
  <2>5. r # Null
    BY <2>4, MissingAssumption
  <2>6. ASSUME NEW t \in Nat \ Jobs!Again, t > a, Jobs!CronMatches(cron, t)
        PROVE  t >= r
    <3>1. PICK l \in Nat \ {0} : t = Walked(a, l) /\ (l <= Horizon => l \in found)
      BY <1>6, <2>6
    <3>2. k <= l
      BY <2>2, <2>3, <3>1, CalendarAssumption
    <3>3. Walked(a, k) <= Walked(a, l)
      BY <2>3, <3>1, <3>2, WalkedGrows
    <3> QED
      BY <2>3, <2>4, <3>1, <3>3
  <2> QED
    BY <1>3, <2>3, <2>4, <2>5, <2>6 DEF NextFits
<1> QED
  BY <1>7, <1>8

(* What matches depends on nothing but the expression and the clock. *)
LEMMA MatchesStay ==
    ASSUME UNCHANGED <<cron, shift>>, NEW t
    PROVE  /\ Jobs!CronMatches(cron, t)' = Jobs!CronMatches(cron, t)
           /\ Jobs!Again' = Jobs!Again
<1>1. Jobs!Shown(t)' = Jobs!Shown(t)
  BY DEF Jobs!Shown
<1>2. Jobs!Day(t)' = Jobs!Day(t)
  BY <1>1 DEF Jobs!Day
<1>3. Jobs!DayOfYear(t)' = Jobs!DayOfYear(t)
  BY <1>2 DEF Jobs!DayOfYear
<1>4. Jobs!Month(t)' = Jobs!Month(t)
  BY <1>3 DEF Jobs!Month
<1>5. Jobs!Date(t)' = Jobs!Date(t)
  BY <1>3, <1>4 DEF Jobs!Date
<1>6. Jobs!DayMatches(cron, t)' = Jobs!DayMatches(cron, t)
  BY <1>2, <1>5 DEF Jobs!DayMatches
<1>7. Jobs!CronMatches(cron, t)' = Jobs!CronMatches(cron, t)
  BY <1>1, <1>4, <1>6 DEF Jobs!CronMatches
<1>8. Jobs!Again' = Jobs!Again
  BY DEF Jobs!Again
<1> QED
  BY <1>7, <1>8

(* Quotients grow with what is divided, by one at most over a divisor.     *)
LEMMA QuotientGrows ==
    ASSUME NEW d \in Nat \ {0}, NEW a \in Nat, NEW b \in Nat
    PROVE  /\ a <= b => a \div d <= b \div d
           /\ b <= a + d => b \div d <= a \div d + 1
<1> DEFINE p == a \div d
           q == b \div d
<1>1. p \in Nat /\ q \in Nat
  BY Quotient
<1>2. d * p <= a /\ a < d * p + d /\ d * p \in Nat
  BY <1>1, Quotient
<1>3. d * q <= b /\ b < d * q + d /\ d * q \in Nat
  BY <1>1, Quotient
<1> HIDE DEF p, q
<1>4. ASSUME q + 1 <= p
      PROVE  b < a
  <2>1. (q + 1) * d <= p * d
    BY <1>1, <1>4, TimesGrows
  <2>2. (q + 1) * d = d * q + d /\ p * d = d * p
    BY <1>1, SMTT(30)
  <2> QED
    BY <1>2, <1>3, <2>1, <2>2
<1>5. ASSUME p + 2 <= q
      PROVE  b > a + d
  <2>1. (p + 2) * d <= q * d
    BY <1>1, <1>5, TimesGrows
  <2>2. (p + 2) * d = d * p + d + d /\ q * d = d * q
    BY <1>1, SMTT(30)
  <2> QED
    BY <1>2, <1>3, <2>1, <2>2
<1>6. (a <= b => p <= q) /\ (b <= a + d => q <= p + 1)
  BY <1>1, <1>4, <1>5
<1> QED
  BY <1>6 DEF p, q

(* What fields take: a star everything, a single number itself.            *)
LEMMA StarTakesAll ==
    ASSUME NEW min \in Nat, NEW max \in Nat, NEW v \in min .. max
    PROVE  v \in Jobs!ParseField(Jobs!Star, min, max)
<1>1. PICK n \in Nat : n = v - min
  OBVIOUS
<1>2. n % 1 = 0
  BY <1>1, Quotient
<1> QED
  BY <1>1, <1>2 DEF Jobs!ParseField, Jobs!Star

LEMMA NumberTakesItself ==
    ASSUME NEW part, ~part.whole, part.lo = part.hi, part.step \in Nat \ {0},
           NEW min \in Nat, NEW max \in Nat, part.lo \in min .. max
    PROVE  Jobs!ParseField({part}, min, max) = {part.lo}
<1>1. PICK l \in min .. max : l = part.lo /\ l = part.hi
  OBVIOUS
<1>2. PICK s \in Nat \ {0} : s = part.step
  OBVIOUS
<1>3. \A v \in min .. max :
         v \in Jobs!ParseField({part}, min, max) <=> v \in l .. l /\ (v - l) % s = 0
  BY <1>1, <1>2 DEF Jobs!ParseField
<1>4. \A v \in l .. l : v = l
  BY <1>1
<1>5. (l - l) % s = 0
  <2>1. l - l = 0 /\ 0 = s * 0 + 0 /\ 0 \in 0 .. s - 1
    BY <1>1, <1>2
  <2>2. 0 % s = 0
    BY <1>2, <2>1, QuotientIs
  <2> QED
    BY <2>1, <2>2
<1>6. l \in l .. l
  BY <1>1
<1>7. \A v : v \in Jobs!ParseField({part}, min, max) => v \in min .. max
  BY DEF Jobs!ParseField
<1> QED
  BY <1>1, <1>3, <1>4, <1>5, <1>6, <1>7

(* A daily job is due at one time of the day. *)
LEMMA DailyIs ==
    ASSUME cron \in Crons, Jobs!Daily
    PROVE  \E hour, mins :
              /\ cron.hour = {hour} /\ cron.minute = {mins}
              /\ hour.lo \in 0 .. Hours - 1 /\ mins.lo \in 0 .. Minutes - 1
              /\ Jobs!ParseField(cron.hour, 0, Hours - 1) = {hour.lo}
              /\ Jobs!ParseField(cron.minute, 0, Minutes - 1) = {mins.lo}
<1>1. /\ IsFiniteSet(cron.minute) /\ cron.minute # {} /\ IsFiniteSet(cron.hour) /\ cron.hour # {}
      /\ \A part \in cron.minute : part.step \in Nat \ {0} /\ part.lo \in 0 .. Minutes - 1
      /\ \A part \in cron.hour : part.step \in Nat \ {0} /\ part.lo \in 0 .. Hours - 1
  BY CronsAssumption
<1>2. \A field \in {cron.minute, cron.hour} : \A part \in field :
          Cardinality(field) = 1 /\ ~part.whole /\ part.lo = part.hi
  BY DEF Jobs!Daily, Jobs!Cardinality, Cardinality
<1>3. ASSUME NEW field \in {cron.minute, cron.hour}
      PROVE  \E part : field = {part}
  <2>1. IsFiniteSet(field) /\ Cardinality(field) = 1
    BY <1>1, <1>2, <1>3
  <2> QED
    BY <2>1, FS_Singleton
<1>4. PICK hour : cron.hour = {hour}
  BY <1>3
<1>5. PICK mins : cron.minute = {mins}
  BY <1>3
<1>6. 0 \in Nat /\ Hours - 1 \in Nat /\ Minutes - 1 \in Nat
  BY CalendarAssumption
<1>7. /\ hour.step \in Nat \ {0} /\ hour.lo \in 0 .. Hours - 1
      /\ ~hour.whole /\ hour.lo = hour.hi
  BY <1>1, <1>2, <1>4
<1>8. /\ mins.step \in Nat \ {0} /\ mins.lo \in 0 .. Minutes - 1
      /\ ~mins.whole /\ mins.lo = mins.hi
  BY <1>1, <1>2, <1>5
<1>9. Jobs!ParseField({hour}, 0, Hours - 1) = {hour.lo}
  BY <1>6, <1>7, NumberTakesItself
<1>10. Jobs!ParseField({mins}, 0, Minutes - 1) = {mins.lo}
  BY <1>6, <1>8, NumberTakesItself
<1> QED
  BY <1>4, <1>5, <1>7, <1>8, <1>9, <1>10

(* The days are all the same to it. *)
LEMMA DailyMatches ==
    ASSUME ShiftFits, Jobs!Daily, NEW t \in Nat
    PROVE  Jobs!CronMatches(cron, t) <=>
              /\ Jobs!Shown(t) % Minutes \in Jobs!ParseField(cron.minute, 0, Minutes - 1)
              /\ (Jobs!Shown(t) \div Minutes) % Hours \in Jobs!ParseField(cron.hour, 0, Hours - 1)
<1>1. cron.dom = Jobs!Star /\ cron.month = Jobs!Star /\ cron.dow = Jobs!Star
  BY DEF Jobs!Daily
<1>2. Jobs!Month(t) \in Jobs!ParseField(cron.month, 1, Len(MonthDays))
  <2>1. Jobs!Month(t) \in 1 .. Len(MonthDays) /\ Len(MonthDays) \in Nat
    BY DatesAre, MonthLengths
  <2> QED
    BY <1>1, <2>1, StarTakesAll
<1>3. Jobs!Date(t) \in Jobs!ParseField(cron.dom, 1, 31)
  BY <1>1, DatesAre, StarTakesAll
<1>4. Jobs!Day(t) % WeekDays \in Jobs!ParseField(cron.dow, 0, WeekDays - 1)
  <2>1. WeekDays \in Nat \ {0} /\ WeekDays - 1 \in Nat
    BY CalendarAssumption
  <2>2. Jobs!Day(t) \in Nat
    <3>1. Minutes * Hours \in Nat \ {0}
      BY CalendarAssumption, SMTT(30)
    <3> QED
      BY <3>1, ShownIs, Quotient DEF Jobs!Day
  <2>3. Jobs!Day(t) % WeekDays \in 0 .. WeekDays - 1
    BY <2>1, <2>2, Quotient
  <2> QED
    BY <1>1, <2>1, <2>3, StarTakesAll
<1>5. Jobs!DayMatches(cron, t)
  BY <1>1, <1>3, <1>4 DEF Jobs!DayMatches
<1> QED
  BY <1>2, <1>5 DEF Jobs!CronMatches

(* The clock, and when the next run was announced last.                    *)
JobsTyped ==
    /\ cron \in Crons /\ shift \in Shifts
    /\ clock \in Nat /\ asOf \in Nat /\ asOf <= clock

(* What was announced fits what it was announced for.                      *)
AnnouncedFits ==
    \A a \in Nat : \A r : asOf = a /\ nextRunAt = r => a \in Jobs!Again \/ NextFits(a, r)

JobsInv == JobsTyped /\ AnnouncedFits

LEMMA ShiftsFit ==
    ASSUME shift \in Shifts
    PROVE  ShiftFits
  BY CalendarAssumption DEF ShiftFits

LEMMA NextFitsStays ==
    ASSUME UNCHANGED <<cron, shift>>, NEW a \in Nat, NEW r, a \in Jobs!Again \/ NextFits(a, r)
    PROVE  a \in Jobs!Again' \/ NextFits(a, r)'
<1>1. \A t : Jobs!CronMatches(cron, t)' = Jobs!CronMatches(cron, t)
  BY MatchesStay
<1>2. Jobs!Again' = Jobs!Again
  BY MatchesStay
<1> QED
  BY <1>1, <1>2 DEF NextFits

LEMMA JobsInit == Jobs!Init => JobsInv
<1> SUFFICES ASSUME Jobs!Init PROVE JobsInv
  OBVIOUS
<1>1. cron \in Crons /\ shift \in Shifts /\ clock = 0 /\ asOf = 0
      /\ nextRunAt = Jobs!NextRun(cron, 0)
  BY DEF Jobs!Init
<1>2. JobsTyped
  BY <1>1 DEF JobsTyped
<1>3. 0 \notin Jobs!Again
  BY <1>1, CalendarAssumption DEF Jobs!Again
<1>4. NextFits(0, Jobs!NextRun(cron, 0))
  BY <1>1, <1>3, ShiftsFit, NextRunFits
<1>5. AnnouncedFits
  BY <1>1, <1>4 DEF AnnouncedFits
<1> QED
  BY <1>2, <1>5 DEF JobsInv

LEMMA JobsStep ==
    ASSUME JobsInv, [Jobs!Next]_cronvars
    PROVE  JobsInv'
<1>1. UNCHANGED <<cron, shift>>
  BY DEF Jobs!Next, Jobs!Announce, Jobs!PassMinute, cronvars
<1>2. JobsTyped'
  BY <1>1 DEF JobsInv, JobsTyped, Jobs!Next, Jobs!Announce, Jobs!PassMinute, cronvars
<1>3. CASE Jobs!Announce
  <2>1. asOf' = clock /\ nextRunAt' = Jobs!NextRun(cron, clock) /\ clock \in Nat
    BY <1>3 DEF Jobs!Announce, JobsInv, JobsTyped
  <2>2. PICK now \in Nat : now = clock
    BY <2>1
  <2>3. PICK next : next = Jobs!NextRun(cron, now)
    OBVIOUS
  <2>4. now \in Jobs!Again \/ NextFits(now, next)
    BY <2>3, ShiftsFit, NextRunFits DEF JobsInv, JobsTyped
  <2>5. now \in Jobs!Again' \/ NextFits(now, next)'
    BY <1>1, <2>4, NextFitsStays
  <2>6. asOf' = now /\ nextRunAt' = next
    BY <2>1, <2>2, <2>3
  <2>7. AnnouncedFits'
    BY <2>5, <2>6 DEF AnnouncedFits
  <2> QED
    BY <1>2, <2>7 DEF JobsInv
<1>4. CASE UNCHANGED <<asOf, nextRunAt>>
  <2>1. ASSUME NEW a \in Nat, NEW r, asOf' = a, nextRunAt' = r
        PROVE  a \in Jobs!Again' \/ NextFits(a, r)'
    <3>1. a \in Jobs!Again \/ NextFits(a, r)
      BY <1>4, <2>1 DEF JobsInv, AnnouncedFits
    <3> QED
      BY <1>1, <3>1, NextFitsStays
  <2>2. AnnouncedFits'
    BY <2>1 DEF AnnouncedFits
  <2> QED
    BY <1>2, <2>2 DEF JobsInv
<1>5. Jobs!Announce \/ UNCHANGED <<asOf, nextRunAt>>
  BY DEF Jobs!Next, Jobs!PassMinute, cronvars
<1> QED
  BY <1>3, <1>4, <1>5

(* The invariant says what AnnouncedIsNext says. *)
LEMMA AnnouncedSafe ==
    ASSUME JobsInv
    PROVE  Jobs!AnnouncedIsNext
<1>1. PICK a \in Nat : a = asOf
  BY DEF JobsInv, JobsTyped
<1>2. PICK now \in Nat : now = clock
  BY DEF JobsInv, JobsTyped
<1>3. PICK r : r = nextRunAt
  OBVIOUS
<1>4. a \in Jobs!Again \/ NextFits(a, r)
  BY <1>1, <1>3 DEF JobsInv, AnnouncedFits
<1>5. PICK due : due = Jobs!DueIn(a + 1 .. now)
  OBVIOUS
<1>6. \A t : t \in due <=> t \in a + 1 .. now /\ Jobs!CronMatches(cron, t)
  BY <1>5 DEF Jobs!DueIn
<1>7. ASSUME NextFits(a, r), due \cap Jobs!Again = {}
      PROVE  /\ r # Null =>
                  /\ r > a
                  /\ \A t \in due : t >= r
                  /\ now >= r => r \in due
             /\ r = Null => \A t \in due : t > a + Horizon
  <2>1. ASSUME NEW t \in due
        PROVE  t \in Nat \ Jobs!Again /\ t > a /\ Jobs!CronMatches(cron, t)
    <3>1. t \in a + 1 .. now /\ Jobs!CronMatches(cron, t)
      BY <1>6, <2>1
    <3>2. t \notin Jobs!Again
      BY <1>7, <2>1
    <3> QED
      BY <3>1, <3>2
  <2>2. ASSUME r # Null
        PROVE  /\ r > a
               /\ \A t \in due : t >= r
               /\ now >= r => r \in due
    <3>1. r \in Nat /\ r > a /\ Jobs!CronMatches(cron, r)
      BY <1>7, <2>2 DEF NextFits
    <3>2. \A t \in due : t >= r
      BY <1>7, <2>1, <2>2 DEF NextFits
    <3>3. now >= r => r \in a + 1 .. now
      BY <3>1
    <3> QED
      BY <1>6, <3>1, <3>2, <3>3
  <2>3. ASSUME r = Null, NEW t \in due
        PROVE  t > a + Horizon
    BY <1>7, <2>1, <2>3 DEF NextFits
  <2> QED
    BY <2>2, <2>3
<1>8. a \in Jobs!Again \/ due \cap Jobs!Again # {} \/
        /\ r # Null =>
             /\ r > a
             /\ \A t \in due : t >= r
             /\ now >= r => r \in due
        /\ r = Null => \A t \in due : t > a + Horizon
  BY <1>4, <1>7
<1> QED
  BY <1>1, <1>2, <1>3, <1>5, <1>8 DEF Jobs!AnnouncedIsNext

(* A time of day that is neither repeated nor left out comes at one        *)
(* instant, before the clock shows a later day.                            *)
LEMMA OneInstant ==
    ASSUME ShiftFits, NEW now \in Nat, NEW wanted \in Nat,
           Jobs!Shown(now) > wanted,
           shift > 0 => ~(ClockChange - shift <= wanted /\ wanted < ClockChange),
           shift < 0 => ~(ClockChange <= wanted /\ wanted < ClockChange - shift)
    PROVE  \E t : {s \in 0 .. now : Jobs!Shown(s) = wanted} = {t}
<1>1. ClockChange \in Nat \ {0} /\ shift \in Int
  BY CalendarAssumption DEF ShiftFits
<1>2. PICK t : t = IF wanted < ClockChange THEN wanted ELSE wanted + shift
  OBVIOUS
<1>3. t \in Nat /\ Jobs!Shown(t) = wanted
  BY <1>1, <1>2 DEF Jobs!Shown
<1>4. t <= now
  BY <1>1, <1>2 DEF Jobs!Shown
<1>5. ASSUME NEW s \in 0 .. now, Jobs!Shown(s) = wanted
      PROVE  s = t
  BY <1>1, <1>2, <1>5 DEF Jobs!Shown
<1>6. t \in 0 .. now
  BY <1>3, <1>4
<1> QED
  BY <1>3, <1>5, <1>6

(* Local time jumps within a day or from one to the next, so that only     *)
(* these two can lack a time or have it twice.                             *)
LEMMA DailySafe ==
    ASSUME JobsInv
    PROVE  Jobs!DailyIsOnceADay
<1> SUFFICES ASSUME Jobs!Daily, NEW d \in 0 .. Jobs!Day(clock) - 1
             PROVE  LET due == {t \in Jobs!DueIn(0 .. clock) : Jobs!Day(t) = d}
                        hour == CHOOSE part \in cron.hour : TRUE
                        mins == CHOOSE part \in cron.minute : TRUE
                        wanted == (d * Hours + hour.lo) * Minutes + mins.lo
                        times == {t \in 0 .. clock : Jobs!Shown(t) = wanted}
                    IN due = times /\ (Cardinality(times) = 1 \/ d = Jobs!Day(ClockChange)
                                          \/ d = Jobs!Day(ClockChange - 1))
  BY DEF Jobs!DailyIsOnceADay, Jobs!Cardinality, Cardinality
<1>1. ShiftFits /\ cron \in Crons
  BY ShiftsFit DEF JobsInv, JobsTyped
<1>2. PICK now \in Nat : now = clock
  BY DEF JobsInv, JobsTyped
<1>3. PICK D \in Nat \ {0} : D = Minutes * Hours
  <2>1. Minutes * Hours \in Nat \ {0}
    BY CalendarAssumption, SMTT(30)
  <2> QED
    BY <2>1
<1>a. -D < shift /\ shift < D /\ shift \in Int
  BY <1>1, <1>3 DEF ShiftFits
<1>4. \A t \in Nat : Jobs!Day(t) = Jobs!Shown(t) \div D /\ Jobs!Day(t) \in Nat
  BY <1>1, <1>3, ShownIs, Quotient DEF Jobs!Day
<1>5. d \in Nat /\ d < Jobs!Day(now)
  BY <1>2, <1>4
<1>6. PICK hour, mins :
         /\ cron.hour = {hour} /\ cron.minute = {mins}
         /\ hour.lo \in 0 .. Hours - 1 /\ mins.lo \in 0 .. Minutes - 1
         /\ Jobs!ParseField(cron.hour, 0, Hours - 1) = {hour.lo}
         /\ Jobs!ParseField(cron.minute, 0, Minutes - 1) = {mins.lo}
  BY <1>1, DailyIs
<1>7. PICK h \in 0 .. Hours - 1, m \in 0 .. Minutes - 1 : h = hour.lo /\ m = mins.lo
  BY <1>6
<1>8. PICK wanted \in Nat : wanted = (d * Hours + h) * Minutes + m
  BY <1>5, CalendarAssumption
<1>9. wanted \div D = d
  BY <1>3, <1>5, <1>8, TimeParts
<1>10. PICK times : times = {t \in 0 .. now : Jobs!Shown(t) = wanted}
  OBVIOUS
<1>11. {t \in Jobs!DueIn(0 .. now) : Jobs!Day(t) = d} = times
  <2>1. ASSUME NEW t \in 0 .. now
        PROVE  Jobs!CronMatches(cron, t) /\ Jobs!Day(t) = d <=> Jobs!Shown(t) = wanted
    <3>1. t \in Nat
      BY <2>1
    <3>2. PICK n \in Nat : n = Jobs!Shown(t)
      BY <1>1, <3>1, ShownIs
    <3>3. Jobs!CronMatches(cron, t) <=> n % Minutes = m /\ (n \div Minutes) % Hours = h
      BY <1>1, <1>6, <1>7, <3>1, <3>2, DailyMatches
    <3>4. Jobs!Day(t) = n \div D
      BY <1>4, <3>1, <3>2
    <3>5. n \div D = d /\ (n \div Minutes) % Hours = h /\ n % Minutes = m <=> n = wanted
      BY <1>3, <1>5, <1>8, TimeParts
    <3> QED
      BY <3>2, <3>3, <3>4, <3>5
  <2> QED
    BY <1>10, <2>1 DEF Jobs!DueIn
<1>12. ASSUME d # Jobs!Day(ClockChange), d # Jobs!Day(ClockChange - 1)
       PROVE  Cardinality(times) = 1
  <2>1. ClockChange \in Nat \ {0} /\ ClockChange - 1 \in Nat
    BY CalendarAssumption
  <2>2. PICK before \in Nat, after \in Nat :
           before = ClockChange - 1 /\ after = ClockChange - shift
    BY <1>1, <2>1 DEF ShiftFits
  <2>3. before \div D # d /\ after \div D # d
    <3>1. Jobs!Shown(ClockChange - 1) = before /\ Jobs!Shown(ClockChange) = after
      BY <1>1, <2>1, <2>2 DEF ShiftFits, Jobs!Shown
    <3> QED
      BY <1>4, <1>12, <2>1, <3>1
  <2>4. before \div D \in Nat /\ after \div D \in Nat /\ wanted \div D \in Nat
    BY Quotient
  <2>5. ASSUME shift > 0, after <= wanted, wanted <= before
        PROVE  FALSE
    <3>1. before <= after + D
      BY <1>a, <2>1, <2>2
    <3>2. after \div D <= wanted \div D /\ wanted \div D <= before \div D
      BY <2>5, QuotientGrows
    <3>3. before \div D <= after \div D + 1
      BY <3>1, QuotientGrows
    <3> QED
      BY <1>5, <1>9, <2>3, <2>4, <3>2, <3>3
  <2>6. ASSUME shift < 0, before <= wanted, wanted <= after
        PROVE  FALSE
    <3>1. after <= before + D
      BY <1>a, <2>1, <2>2
    <3>2. before \div D <= wanted \div D /\ wanted \div D <= after \div D
      BY <2>6, QuotientGrows
    <3>3. after \div D <= before \div D + 1
      BY <3>1, QuotientGrows
    <3> QED
      BY <1>5, <1>9, <2>3, <2>4, <3>2, <3>3
  <2>7. /\ shift > 0 => ~(ClockChange - shift <= wanted /\ wanted < ClockChange)
        /\ shift < 0 => ~(ClockChange <= wanted /\ wanted < ClockChange - shift)
    BY <1>1, <2>1, <2>2, <2>5, <2>6 DEF ShiftFits
  <2>8. PICK shown \in Nat : shown = Jobs!Shown(now)
    BY <1>1, ShownIs
  <2>9. shown > wanted
    <3>1. shown \div D = Jobs!Day(now)
      BY <1>4, <2>8
    <3>2. shown <= wanted => shown \div D <= wanted \div D
      BY <2>8, QuotientGrows
    <3>3. shown \div D \in Nat
      BY <2>8, Quotient
    <3> QED
      BY <1>5, <1>8, <1>9, <2>8, <3>1, <3>2, <3>3
  <2>10. \E t : times = {t}
    <3>1. \E t : {s \in 0 .. now : Jobs!Shown(s) = wanted} = {t}
      BY <1>1, <2>7, <2>8, <2>9, OneInstant
    <3> QED
      BY <1>10, <3>1
  <2> QED
    BY <2>10, FS_Singleton
<1>13. (CHOOSE part \in cron.hour : TRUE) = hour /\ (CHOOSE part \in cron.minute : TRUE) = mins
  BY <1>6
<1> QED
  BY <1>2, <1>7, <1>8, <1>10, <1>11, <1>12, <1>13

-----------------------------------------------------------------------------
(* The properties *)

(* The constants are as the lemmas ask. *)
LEMMA CountConstants ==
    SpendConstants /\ OnceConstants /\ LimitConstants /\ DayConstants
BY BoundsAssumption, PeopleAssumption, MissingAssumption
DEF SpendConstants, OnceConstants, LimitConstants, DayConstants

(* CountedOnce holds in every reachable state: a campaign's spend is the   *)
(* sum of its metrics (domain/campaigns.ts:188-272), and of an expense and *)
(* of the opening balances the ledger holds nothing or one entry           *)
(* (domain/accounting/expenses-gl.ts:41-88, opening-balances.ts:32-95).    *)
THEOREM CountedOnceAlways == ServicesSpec => []CountedOnce
<1> DEFINE Inv == SpendInv /\ OnceInv
<1>1. ServicesInit => Inv
  BY CountConstants, SpendInit, OnceInit DEF ServicesInit
<1>2. Inv /\ [ServicesNext]_services => Inv'
  BY CountConstants, EachServiceSteps, SpendStep, OnceStep
<1>3. Inv => CountedOnce
  BY CountConstants, SpendSafe, OnceSafe DEF CountedOnce, Running
<1> QED
  BY <1>1, <1>2, <1>3, PTL DEF ServicesSpec

(* WindowsHold holds in every reachable state: in a window no more than    *)
(* the limit passes, and in any stretch as long as a window no more than   *)
(* twice the limit (lib/ratelimit/memory.ts, upstash.ts).                  *)
THEOREM WindowsHoldAlways == ServicesSpec => []WindowsHold
<1>1. ServicesInit => LimitInv
  BY CountConstants, LimitInit DEF ServicesInit
<1>2. LimitInv /\ [ServicesNext]_services => LimitInv'
  BY CountConstants, EachServiceSteps, LimitStep
<1>3. LimitInv => WindowsHold
  BY CountConstants, LimitSafe DEF WindowsHold, Running
<1> QED
  BY <1>1, <1>2, <1>3, PTL DEF ServicesSpec

(* DayAddsUp holds in every reachable state: unless writes overlapped, the *)
(* minutes of a day are those of its events and corrections                *)
(* (domain/attendance.ts:53-226).                                          *)
THEOREM DayAddsUpAlways == ServicesSpec => []DayAddsUp
<1>1. ServicesInit => DayInv
  BY CountConstants, DayInit DEF ServicesInit
<1>2. DayInv /\ [ServicesNext]_services => DayInv'
  BY CountConstants, EachServiceSteps, DayStep
<1>3. DayInv => DayAddsUp
  BY DaySafe DEF DayAddsUp, Running
<1> QED
  BY <1>1, <1>2, <1>3, PTL DEF ServicesSpec

(* JobsComeDue holds in every reachable state: what is announced is the    *)
(* first time from then on at which the job is found due, and a daily job  *)
(* is found due once on every day but that of the change                   *)
(* (lib/jobs/cron.ts:9-71).                                                *)
THEOREM JobsComeDueAlways == ServicesSpec => []JobsComeDue
<1>1. ServicesInit => JobsInv
  BY JobsInit DEF ServicesInit
<1>2. JobsInv /\ [ServicesNext]_services => JobsInv'
  BY EachServiceSteps, JobsStep
<1>3. JobsInv => JobsComeDue
  BY AnnouncedSafe, DailySafe DEF JobsComeDue, Running, Jobs!JobsComeDue
<1> QED
  BY <1>1, <1>2, <1>3, PTL DEF ServicesSpec

=============================================================================
