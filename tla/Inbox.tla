------------------------------- MODULE Inbox -------------------------------
(***************************************************************************)
(* In-app notifications (domain/mutation.ts:58-108,                        *)
(* domain/notifications.ts).  An event of a record does not add a row to   *)
(* the inbox of a user who has one of that record: it brings that row back *)
(* to the top, unread.  The sender looks, renews what it has found, and    *)
(* adds a row for those who had none; in between, other senders do the     *)
(* same, and the user reads, archives and mutes, from pages that may be    *)
(* old.                                                                    *)
(*                                                                         *)
(* One user, one record and one type: one groupKey.  Notifications without *)
(* a record always get a row of their own and are left out.                *)
(***************************************************************************)
EXTENDS Naturals, Sequences, FiniteSets

CONSTANTS
    Senders,  \* calls that notify
    MaxEvents \* bound on the events

VARIABLES
    rows,      \* Notification, in the order of their creation, each with the
               \* events that it was created or renewed for (history)
    muted,     \* the user's preference
    notifying, \* the call of each sender, with what it has found
    happened,  \* history: the number of events
    pending,   \* history: events of which no sender has come to its end
    silenced,  \* history: events that the preference suppressed
    dismissed, \* history: a row was archived while a sender was under way
    crowded,   \* history: two senders were under way at once
    revived    \* history: an archived row was marked

inboxvars ==
    <<rows, muted, notifying, happened, pending, silenced, dismissed, crowded, revived>>

NotSending == [at |-> "idle"]

Live == {k \in DOMAIN rows : rows[k].state # "archived"}

Finish(s) ==
    /\ notifying' = [notifying EXCEPT ![s] = NotSending]
    /\ pending' = pending \ {notifying[s].event}

-----------------------------------------------------------------------------
(* notify *)

(* recipientsAllowing *)
Notify(s) ==
    /\ notifying[s] = NotSending /\ happened < MaxEvents
    /\ happened' = happened + 1
    /\ IF muted
       THEN silenced' = silenced \cup {happened + 1} /\ UNCHANGED <<notifying, pending>>
       ELSE /\ notifying' = [notifying EXCEPT ![s] = [at |-> "look", event |-> happened + 1]]
            /\ pending' = pending \cup {happened + 1}
            /\ UNCHANGED silenced
    /\ crowded' = (crowded \/ \E r \in Senders : notifying[r] # NotSending)
    /\ UNCHANGED <<rows, muted, dismissed, revived>>

(* Variant: archived rows are found too. *)
LookAtAll(s) ==
    /\ notifying[s].at = "look"
    /\ notifying' = [notifying EXCEPT ![s].at = IF rows # <<>> THEN "renew" ELSE "add"]
    /\ UNCHANGED <<rows, muted, happened, pending, silenced, dismissed, crowded, revived>>

Look(s) ==
    /\ notifying[s].at = "look"
    /\ notifying' = [notifying EXCEPT ![s].at = IF Live # {} THEN "renew" ELSE "add"]
    /\ UNCHANGED <<rows, muted, happened, pending, silenced, dismissed, crowded, revived>>

(* Every row that is not archived by now; if there is none, no row at all. *)
Renew(s) ==
    /\ notifying[s].at = "renew"
    /\ rows' = [k \in DOMAIN rows |->
          IF k \in Live
          THEN [state |-> "unread", events |-> rows[k].events \cup {notifying[s].event}]
          ELSE rows[k]]
    /\ Finish(s)
    /\ UNCHANGED <<muted, happened, silenced, dismissed, crowded, revived>>

Add(s) ==
    /\ notifying[s].at = "add"
    /\ rows' = Append(rows, [state |-> "unread", events |-> {notifying[s].event}])
    /\ Finish(s)
    /\ UNCHANGED <<muted, happened, silenced, dismissed, crowded, revived>>

(* The sender dies: the event is never told. *)
Die(s) ==
    /\ notifying[s] # NotSending
    /\ notifying' = [notifying EXCEPT ![s] = NotSending]
    /\ UNCHANGED <<rows, muted, happened, pending, silenced, dismissed, crowded, revived>>

-----------------------------------------------------------------------------
(* The user *)

(* markRead, by ids: rows archived on another page become read or unread. *)
MarkRead(k, state) ==
    /\ k \in DOMAIN rows
    /\ rows' = [rows EXCEPT ![k].state = state]
    /\ revived' = (revived \/ rows[k].state = "archived")
    /\ UNCHANGED <<muted, notifying, happened, pending, silenced, dismissed, crowded>>

MarkAllRead ==
    /\ rows' = [k \in DOMAIN rows |->
          IF rows[k].state = "unread" THEN [rows[k] EXCEPT !.state = "read"] ELSE rows[k]]
    /\ UNCHANGED <<muted, notifying, happened, pending, silenced, dismissed, crowded, revived>>

ArchiveNotifications(k) ==
    /\ k \in DOMAIN rows
    /\ rows' = [rows EXCEPT ![k].state = "archived"]
    /\ dismissed' = (dismissed \/ \E s \in Senders : notifying[s].at = "renew")
    /\ UNCHANGED <<muted, notifying, happened, pending, silenced, crowded, revived>>

SetPreference ==
    /\ muted' = ~muted
    /\ UNCHANGED <<rows, notifying, happened, pending, silenced, dismissed, crowded, revived>>

-----------------------------------------------------------------------------

Init ==
    /\ rows = <<>>
    /\ muted = FALSE
    /\ notifying = [s \in Senders |-> NotSending]
    /\ happened = 0
    /\ pending = {}
    /\ silenced = {}
    /\ dismissed = FALSE
    /\ crowded = FALSE
    /\ revived = FALSE

Next ==
    \/ \E s \in Senders : Notify(s) \/ Look(s) \/ Renew(s) \/ Add(s) \/ Die(s)
    \/ \E k \in 1 .. MaxEvents :
          \/ MarkRead(k, "read") \/ MarkRead(k, "unread")
          \/ ArchiveNotifications(k)
    \/ MarkAllRead
    \/ SetPreference

Spec == Init /\ [][Next]_inboxvars

-----------------------------------------------------------------------------

Told == UNION {rows[k].events : k \in DOMAIN rows}

(* Every event whose sender came to its end is told by a row, or was       *)
(* suppressed by the preference, unless the user archived what a sender    *)
(* was about to renew, and none is told that was suppressed; and the user  *)
(* sees the record once, unless two senders overlapped or an archived row  *)
(* was marked (domain/mutation.ts:64-108, domain/notifications.ts:97-112). *)
EventsSurface ==
    /\ ~dismissed => 1 .. happened \subseteq Told \cup silenced \cup pending
    /\ Told \cap (silenced \cup pending) = {}
    /\ ~crowded /\ ~revived => Cardinality(Live) <= 1

=============================================================================
