--------------------------- MODULE Confirmations ---------------------------
(***************************************************************************)
(* The two human checkpoints of a publishing item (domain/social.ts): that *)
(* it was scheduled in the platform's own tool, and that it went live.     *)
(* A confirmation writes what it computed from the item it has read, while *)
(* others confirm and set statuses.                                        *)
(*                                                                         *)
(* One item.  Statuses that no guard tells apart are one, "other".         *)
(***************************************************************************)

CONSTANTS
    Editors, \* users; a confirmation is told from others by its user
    Nothing  \* null

VARIABLES
    post,       \* the item
    confirming, \* the call of each editor, with the item it has read
    evidence,   \* history: who confirmed scheduling first, and who captured
                \* the address of the post last
    rushed      \* history: a confirmation was written over evidence that it
                \* had not read

confirmationvars == <<post, confirming, evidence, rushed>>

Statuses == {"other", "approved", "scheduled", "published"}

NotConfirming == [call |-> "none"]

-----------------------------------------------------------------------------

(* From any status to any other. *)
SetPublishingStatus(s) ==
    /\ post' = [post EXCEPT !.status = s]
    /\ UNCHANGED <<confirming, evidence, rushed>>

Begin(c, call) ==
    /\ confirming[c] = NotConfirming
    /\ confirming' = [confirming EXCEPT ![c] = [call |-> call, read |-> post]]
    /\ UNCHANGED <<post, evidence, rushed>>

ReadForScheduled(c) == post.status \in {"approved", "scheduled"} /\ Begin(c, "scheduled")

ReadForPublished(c) == post.scheduled # Nothing /\ Begin(c, "published")

(* The first confirmation stands. *)
ConfirmScheduled(c) ==
    LET read == confirming[c].read IN
    /\ confirming[c].call = "scheduled"
    /\ post' = [post EXCEPT !.status = "scheduled",
                            !.scheduled = IF read.scheduled = Nothing THEN c
                                          ELSE read.scheduled]
    /\ evidence' = [evidence EXCEPT !.scheduled = IF @ = Nothing THEN c ELSE @]
    /\ rushed' = (rushed \/ post.scheduled # read.scheduled)
    /\ confirming' = [confirming EXCEPT ![c] = NotConfirming]

(* With the address of the post, or without one. *)
ConfirmPublished(c, captured) ==
    LET read == confirming[c].read IN
    /\ confirming[c].call = "published"
    /\ post' = [post EXCEPT !.status = "published", !.published = TRUE,
                            !.url = IF captured THEN c ELSE read.url]
    /\ evidence' = [evidence EXCEPT !.url = IF captured THEN c ELSE @]
    /\ rushed' = (rushed \/ (~captured /\ post.url # read.url))
    /\ confirming' = [confirming EXCEPT ![c] = NotConfirming]

Fail(c) ==
    /\ confirming[c] # NotConfirming
    /\ confirming' = [confirming EXCEPT ![c] = NotConfirming]
    /\ UNCHANGED <<post, evidence, rushed>>

-----------------------------------------------------------------------------

Init ==
    /\ post = [status |-> "other", scheduled |-> Nothing,
               published |-> FALSE, url |-> Nothing]
    /\ confirming = [c \in Editors |-> NotConfirming]
    /\ evidence = [scheduled |-> Nothing, url |-> Nothing]
    /\ rushed = FALSE

Next ==
    \/ \E s \in Statuses : SetPublishingStatus(s)
    \/ \E c \in Editors :
          \/ ReadForScheduled(c) \/ ReadForPublished(c) \/ Fail(c)
          \/ ConfirmScheduled(c)
          \/ \E captured \in BOOLEAN : ConfirmPublished(c, captured)

Spec == Init /\ [][Next]_confirmationvars

-----------------------------------------------------------------------------

(* Nothing is confirmed as live that nobody confirmed as scheduled; and    *)
(* unless a confirmation was written over evidence that it had not read,   *)
(* the first confirmation of scheduling and the last captured address      *)
(* stand, however confirmations and statuses follow on each other          *)
(* (domain/social.ts:153-185).                                             *)
EvidenceStands ==
    /\ post.published => post.scheduled # Nothing
    /\ ~rushed => /\ post.scheduled = evidence.scheduled
                  /\ post.url = evidence.url

=============================================================================
