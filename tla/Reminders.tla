----------------------------- MODULE Reminders -----------------------------
(***************************************************************************)
(* Reminders ahead of a renewal (domain/subscriptions.ts; those of         *)
(* documents, domain/documents.ts:211-250, are written alike).  The job    *)
(* reads the subscriptions, reminds the owner of a threshold once, and     *)
(* then writes down what it has sent, from what it read.  Renewals and     *)
(* edits forget what was sent, runs overlap, and a run may die in between. *)
(*                                                                         *)
(* One subscription; a time in days; a term is the time between two        *)
(* renewals or changes of its renewal date.                                *)
(***************************************************************************)
EXTENDS Integers

CONSTANTS
    Runners,    \* processes that run the job, by schedule or by hand
    Thresholds, \* days before the renewal
    MaxDay,     \* bound on the days and the renewal dates
    MaxTerms,   \* bound on the terms
    NoDate      \* null

VARIABLES
    day,
    subscription, \* the row: its date, what was sent, whether it is active
    reminding,    \* what each runner has read, and how far it is
    term,         \* history: the number of the term
    told,         \* history: whether the owner was reminded of a threshold, in
                  \* each term: never, once, or more often (0, 1, 2)
    lateWrite,    \* history: a run wrote although the row had changed since
                  \* it was read
    crashed,      \* history: a run died between reminder and write
    concurrent    \* history: a run started while another was under way

remindervars == <<day, subscription, reminding, term, told, lateWrite, crashed, concurrent>>

Dates == 0 .. MaxDay
Terms == 1 .. MaxTerms
NotRunning == [stage |-> "idle"]

DaysLeft(s, now) == s.renewalDate - now

Reached(s, now) == {t \in Thresholds : t >= DaysLeft(s, now)}

Smallest(S) == CHOOSE t \in S : \A u \in S : t <= u

-----------------------------------------------------------------------------
(* generateSubscriptionReminders *)

(* The rows are read, and the day is that of the start. *)
List(r) ==
    /\ reminding[r].stage = "idle"
    /\ subscription.active /\ subscription.renewalDate # NoDate
    /\ reminding' = [reminding EXCEPT ![r] =
                       [stage |-> "read", row |-> subscription, now |-> day,
                        term |-> term, fresh |-> TRUE]]
    /\ concurrent' = (concurrent \/ \E q \in Runners : reminding[q].stage # "idle")
    /\ UNCHANGED <<day, subscription, term, told, lateWrite, crashed>>

Unsent(r) ==
    IF DaysLeft(reminding[r].row, reminding[r].now) < 0 THEN {}
    ELSE Reached(reminding[r].row, reminding[r].now) \ reminding[r].row.sent

(* One reminder, the most urgent. *)
Remind(r) ==
    LET read == reminding[r] IN
    /\ read.stage = "read" /\ Unsent(r) # {}
    /\ told' = [told EXCEPT ![read.term][Smallest(Reached(read.row, read.now))] =
                                IF @ = 0 THEN 1 ELSE 2]
    /\ reminding' = [reminding EXCEPT ![r].stage = "told"]
    /\ UNCHANGED <<day, subscription, term, lateWrite, crashed, concurrent>>

(* Nothing to send, or the run fails before it has sent anything. *)
Skip(r) ==
    /\ reminding[r].stage = "read"
    /\ reminding' = [reminding EXCEPT ![r] = NotRunning]
    /\ UNCHANGED <<day, subscription, term, told, lateWrite, crashed, concurrent>>

(* What the others have read is out of date with every write of the row.   *)
Outdate(keep) ==
    [q \in Runners |-> IF q \in keep THEN NotRunning
                       ELSE IF reminding[q].stage = "idle" THEN reminding[q]
                       ELSE [reminding[q] EXCEPT !.fresh = FALSE]]

(* Variant: only the threshold it told of is marked. *)
MarkTold(r) ==
    LET read == reminding[r] IN
    /\ read.stage = "told"
    /\ subscription' = [subscription EXCEPT !.sent =
                          read.row.sent \cup {Smallest(Reached(read.row, read.now))}]
    /\ lateWrite' = (lateWrite \/ ~read.fresh)
    /\ reminding' = Outdate({r})
    /\ UNCHANGED <<day, term, told, crashed, concurrent>>

(* All thresholds reached are marked, on top of those it had read. *)
MarkSent(r) ==
    LET read == reminding[r] IN
    /\ read.stage = "told"
    /\ subscription' = [subscription EXCEPT !.sent =
                          read.row.sent \cup Reached(read.row, read.now)]
    /\ lateWrite' = (lateWrite \/ ~read.fresh)
    /\ reminding' = Outdate({r})
    /\ UNCHANGED <<day, term, told, crashed, concurrent>>

Crash(r) ==
    /\ reminding[r].stage = "told"
    /\ reminding' = [reminding EXCEPT ![r] = NotRunning]
    /\ crashed' = TRUE
    /\ UNCHANGED <<day, subscription, term, told, lateWrite, concurrent>>

-----------------------------------------------------------------------------
(* updateSubscription, to another date; renewSubscription, to any; and     *)
(* cancelSubscription, whose archived sibling the job does not see either. *)

Reschedule(date, active) ==
    /\ term < MaxTerms
    /\ subscription' = [renewalDate |-> date, sent |-> {}, active |-> active]
    /\ term' = term + 1
    /\ reminding' = Outdate({})
    /\ UNCHANGED <<day, told, lateWrite, crashed, concurrent>>

UpdateSubscription(date) ==
    date # subscription.renewalDate /\ Reschedule(date, subscription.active)

RenewSubscription(date) == date # NoDate /\ Reschedule(date, TRUE)

CancelSubscription ==
    /\ subscription.active
    /\ subscription' = [subscription EXCEPT !.active = FALSE]
    /\ reminding' = Outdate({})
    /\ UNCHANGED <<day, term, told, lateWrite, crashed, concurrent>>

PassDay ==
    /\ day < MaxDay
    /\ day' = day + 1
    /\ UNCHANGED <<subscription, reminding, term, told, lateWrite, crashed, concurrent>>

-----------------------------------------------------------------------------

Init ==
    /\ day = 0
    /\ subscription \in [renewalDate : Dates \cup {NoDate}, sent : {{}}, active : {TRUE}]
    /\ reminding = [r \in Runners |-> NotRunning]
    /\ term = 1
    /\ told = [n \in Terms |-> [t \in Thresholds |-> 0]]
    /\ lateWrite = FALSE
    /\ crashed = FALSE
    /\ concurrent = FALSE

Next ==
    \/ \E r \in Runners : List(r) \/ Remind(r) \/ Skip(r) \/ MarkSent(r) \/ Crash(r)
    \/ \E date \in Dates \cup {NoDate} : UpdateSubscription(date) \/ RenewSubscription(date)
    \/ CancelSubscription
    \/ PassDay

Spec == Init /\ [][Next]_remindervars

-----------------------------------------------------------------------------

Told(n) == {t \in Thresholds : told[n][t] > 0}

(* A threshold is marked because it, or a more urgent one, was told, and   *)
(* what was told is marked unless its run is yet to write, or died.        *)
MarkedIsTold ==
    \A t \in subscription.sent : \E u \in Told(term) : u <= t

ToldIsMarked ==
    \A u \in Told(term) :
        \/ u \in subscription.sent
        \/ \E r \in Runners : reminding[r].stage = "told" /\ reminding[r].term = term

NeverTwice == \A n \in Terms, t \in Thresholds : told[n][t] <= 1

(* As long as no run wrote down what it sent on a row that had changed, no *)
(* threshold is taken as sent of which the owner was not reminded in this  *)
(* term, even if runs died; if none died, what was told is marked; and if  *)
(* none died and no two overlapped, nobody is reminded twice of one        *)
(* threshold (domain/subscriptions.ts:90-198, domain/documents.ts:150-250).*)
OncePerThreshold ==
    /\ ~lateWrite => MarkedIsTold
    /\ ~lateWrite /\ ~crashed => ToldIsMarked
    /\ ~concurrent /\ ~crashed => NeverTwice

=============================================================================
