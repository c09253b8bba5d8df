----------------------------- MODULE RateLimit -----------------------------
(***************************************************************************)
(* Rate limits in fixed windows (lib/ratelimit).  The counter of a caller  *)
(* is kept by each server in memory, or for all of them in Redis, where it *)
(* takes two requests, any of which may fail: one that counts, and, of the *)
(* first in a window, one that lets the counter expire.  A hit that cannot *)
(* be counted passes.                                                      *)
(*                                                                         *)
(* One caller and one bucket.  The sweep of the memory store removes only  *)
(* windows that the next hit would replace: left out, as is the log of     *)
(* breaches.                                                               *)
(***************************************************************************)
EXTENDS Naturals, FiniteSetsExt

CONSTANTS
    Servers,
    Limit,    \* hits allowed in a window
    Window,   \* its length
    MaxTime,  \* bound on time
    MaxHits,  \* bound on the hits
    Unopened  \* no window, no counter

VARIABLES
    backend,  \* "memory" or "upstash"
    time,
    window,   \* what each server has in memory
    counter,  \* what Redis has; it expires at a time, or not at all (0)
    hitting,  \* what each server has yet to do for the hit under way
    passed,   \* history: how many hits were counted and allowed, by server
              \* and time
    hits,     \* history: the number of hits
    unended   \* history: the request that was to let the counter expire, or
              \* the answer that would have led to it, was lost

limitvars == <<backend, time, window, counter, hitting, passed, hits, unended>>

Allowed(count) == count <= Limit

Hit == hits < MaxHits /\ hits' = hits + 1

Pass(p, count) ==
    passed' = [passed EXCEPT ![p][time] = @ + (IF Allowed(count) THEN 1 ELSE 0)]

-----------------------------------------------------------------------------

(* Variant: every hit prolongs the window. *)
MemoryHitProlonged(p) ==
    LET count == IF window[p] = Unopened \/ window[p].resetAt <= time
                   THEN 1 ELSE window[p].count + 1
    IN /\ backend = "memory" /\ Hit
       /\ window' = [window EXCEPT ![p] = [count |-> count, resetAt |-> time + Window]]
       /\ Pass(p, count)
       /\ UNCHANGED <<backend, time, counter, hitting, unended>>

(* The memory store's hit. *)
MemoryHit(p) ==
    LET open == window[p] # Unopened /\ window[p].resetAt > time
        new  == IF open THEN [window[p] EXCEPT !.count = @ + 1]
                        ELSE [count |-> 1, resetAt |-> time + Window]
    IN /\ backend = "memory" /\ Hit
       /\ window' = [window EXCEPT ![p] = new]
       /\ Pass(p, new.count)
       /\ UNCHANGED <<backend, time, counter, hitting, unended>>

-----------------------------------------------------------------------------
(* The distributed store *)

Incremented ==
    IF counter = Unopened THEN [count |-> 1, expires |-> 0, since |-> time]
                          ELSE [counter EXCEPT !.count = @ + 1]

(* INCR is answered; the first of a window goes on. *)
Increment(p) ==
    /\ backend = "upstash" /\ hitting[p] = "none" /\ Hit
    /\ counter' = Incremented
    /\ hitting' = [hitting EXCEPT ![p] = IF Incremented.count = 1 THEN "expire" ELSE "none"]
    /\ Pass(p, Incremented.count)
    /\ UNCHANGED <<backend, time, window, unended>>

(* INCR fails, before it has counted or after: the hit passes. *)
FailOpen(p, counted) ==
    /\ backend = "upstash" /\ hitting[p] = "none" /\ Hit
    /\ counter' = IF counted THEN Incremented ELSE counter
    /\ unended' = (unended \/ (counted /\ counter = Unopened))
    /\ UNCHANGED <<backend, time, window, hitting, passed>>

(* PEXPIRE with NX. *)
Expire(p) ==
    /\ hitting[p] = "expire"
    /\ counter' = IF counter # Unopened /\ counter.expires = 0
                    THEN [counter EXCEPT !.expires = time + Window] ELSE counter
    /\ hitting' = [hitting EXCEPT ![p] = "none"]
    /\ UNCHANGED <<backend, time, window, passed, hits, unended>>

(* PEXPIRE fails, or the server dies before it. *)
LoseExpiry(p) ==
    /\ hitting[p] = "expire"
    /\ hitting' = [hitting EXCEPT ![p] = "none"]
    /\ unended' = TRUE
    /\ UNCHANGED <<backend, time, window, counter, passed, hits>>

(* Redis drops what has expired. *)
PassTime ==
    /\ time < MaxTime
    /\ time' = time + 1
    /\ counter' = IF counter # Unopened /\ counter.expires = time + 1
                    THEN Unopened ELSE counter
    /\ UNCHANGED <<backend, window, hitting, passed, hits, unended>>

-----------------------------------------------------------------------------

Init ==
    /\ backend \in {"memory", "upstash"}
    /\ time = 1
    /\ window = [p \in Servers |-> Unopened]
    /\ counter = Unopened
    /\ hitting = [p \in Servers |-> "none"]
    /\ passed = [p \in Servers |-> [t \in 1 .. MaxTime |-> 0]]
    /\ hits = 0
    /\ unended = FALSE

Next ==
    \/ \E p \in Servers :
          MemoryHit(p) \/ Increment(p) \/ Expire(p) \/ LoseExpiry(p)
    \/ \E p \in Servers, counted \in BOOLEAN : FailOpen(p, counted)
    \/ PassTime

Spec == Init /\ [][Next]_limitvars

-----------------------------------------------------------------------------
(* Properties *)

(* How many hits passed at servers in a stretch of time. *)
PassedIn(servers, from, to) ==
    MapThenSumSet(LAMBDA p : MapThenSumSet(LAMBDA t : passed[p][t],
                                           from .. to \cap 1 .. MaxTime), servers)

(* In memory: of the hits of a window, Limit pass and the others do not,   *)
(* so that a caller who is refused has been served in it, and is again     *)
(* when it ends.                                                           *)
ServersKeepWindows ==
    \A p \in Servers : window[p] # Unopened /\ window[p].resetAt > time =>
        PassedIn({p}, window[p].resetAt - Window, time)
            = (IF Allowed(window[p].count) THEN window[p].count ELSE Limit)

(* In Redis: no more than Limit of the counted hits pass at all servers    *)
(* together, and the counter comes to an end a window later at most, or    *)
(* somebody is about to see to that - unless that was lost.                *)
FleetKeepsWindow ==
    counter # Unopened =>
        /\ PassedIn(Servers, counter.since, time) <= Limit
        /\ counter.expires # 0 => counter.expires \in time + 1 .. time + Window
        /\ counter.expires = 0 => unended \/ \E p \in Servers : hitting[p] = "expire"

(* No stretch of a window's length sees more than two windows' hits pass,  *)
(* at a server or at all of them.                                          *)
NoMoreThanTwice ==
    \A t \in 1 .. time :
        \A servers \in IF backend = "memory" THEN {{p} : p \in Servers} ELSE {Servers} :
            PassedIn(servers, t, t + Window - 1) <= 2 * Limit

(* Callers are served up to the limit of a window, and from then on when   *)
(* it has come to its end.                                                 *)
WindowsHold == ServersKeepWindows /\ FleetKeepsWindow /\ NoMoreThanTwice

=============================================================================
