---------------------------- MODULE DesignReview ----------------------------
(***************************************************************************)
(* Creative requests (domain/design.ts).  A request walks a graph of       *)
(* statuses; versions of the artwork are uploaded, approved and rejected,  *)
(* which moves it too.  Approval is exclusive: its transaction takes back  *)
(* the approvals it finds, then approves its version, and two of them do   *)
(* not see each other.  A status is written on the strength of the one     *)
(* that was read.                                                          *)
(*                                                                         *)
(* One request.  Who may do what is left out.                              *)
(***************************************************************************)
EXTENDS Naturals, Sequences, FiniteSets

CONSTANTS
    Reviewers,  \* users with calls under way
    MaxVersions \* bound on the versions

VARIABLES
    design,    \* DesignRequest.status
    artwork,   \* DesignVersion, by number
    reviewing, \* the call of each user
    unaware,   \* history: an approval did not see one that had been given
               \* since it looked
    misplaced  \* history: a status was kept or written on one that had changed

designvars == <<design, artwork, reviewing, unaware, misplaced>>

DESIGN_NEXT ==
    [requested        |-> {"brief_review", "assigned"},
     brief_review     |-> {"assigned", "requested"},
     assigned         |-> {"designing"},
     designing        |-> {"internal_review"},
     internal_review  |-> {"revision", "waiting_approval"},
     revision         |-> {"designing"},
     waiting_approval |-> {"approved", "revision"},
     approved         |-> {"delivered", "revision"},
     delivered        |-> {"published", "approved"},
     published        |-> {},
     archived         |-> {}]

Closed == {"delivered", "published", "archived"}

NotReviewing == [call |-> "none"]

Approved == {n \in DOMAIN artwork : artwork[n].approved}

Take(c, call) ==
    /\ reviewing[c] = NotReviewing
    /\ reviewing' = [reviewing EXCEPT ![c] = call]
    /\ UNCHANGED <<design, artwork, unaware, misplaced>>

Done(c) == reviewing' = [reviewing EXCEPT ![c] = NotReviewing]

-----------------------------------------------------------------------------

ReadForStatus(c, s) ==
    /\ s = design \/ s \in DESIGN_NEXT[design]
    /\ Take(c, [call |-> "status", read |-> design, next |-> s])

SetDesignStatus(c) ==
    /\ reviewing[c].call = "status"
    /\ design' = reviewing[c].next
    /\ misplaced' = (misplaced \/ design # reviewing[c].read)
    /\ Done(c)
    /\ UNCHANGED <<artwork, unaware>>

(* addDesignVersion; addDesignVersionWithFile stores the file in between.  *)
ReadForVersion(c) ==
    /\ design \notin Closed
    /\ Take(c, [call |-> "version", read |-> design])

(* Its number is one more than the last; of two that take the same, the    *)
(* unique key refuses one, which fails.                                    *)
AddDesignVersion(c) ==
    /\ reviewing[c].call = "version" /\ Len(artwork) < MaxVersions
    /\ artwork' = Append(artwork, [approved |-> FALSE, rejected |-> FALSE])
    /\ design' = IF reviewing[c].read \in {"internal_review", "waiting_approval"}
                 THEN design ELSE "internal_review"
    /\ misplaced' = (misplaced \/ design # reviewing[c].read)
    /\ Done(c)
    /\ UNCHANGED unaware

(* The first statement of the transaction sees the approvals committed.    *)
Supersede(c, n) ==
    /\ n \in DOMAIN artwork
    /\ Take(c, [call |-> "approve", version |-> n, seen |-> Approved])

(* Variant: the approvals it has found stand. *)
ApproveBeside(c) ==
    LET tx == reviewing[c] IN
    /\ tx.call = "approve"
    /\ artwork' = [artwork EXCEPT ![tx.version] = [approved |-> TRUE, rejected |-> FALSE]]
    /\ design' = "approved"
    /\ unaware' = (unaware \/ ~(Approved \ {tx.version} \subseteq tx.seen))
    /\ Done(c)
    /\ UNCHANGED misplaced

ApproveDesignVersion(c) ==
    LET tx == reviewing[c] IN
    /\ tx.call = "approve"
    /\ artwork' = [n \in DOMAIN artwork |->
          IF n = tx.version THEN [approved |-> TRUE, rejected |-> FALSE]
          ELSE IF n \in tx.seen THEN [artwork[n] EXCEPT !.approved = FALSE] ELSE artwork[n]]
    /\ design' = "approved"
    /\ unaware' = (unaware \/ ~(Approved \ {tx.version} \subseteq tx.seen))
    /\ Done(c)
    /\ UNCHANGED misplaced

RejectDesignVersion(n) ==
    /\ n \in DOMAIN artwork
    /\ artwork' = [artwork EXCEPT ![n] = [approved |-> FALSE, rejected |-> TRUE]]
    /\ design' = "revision"
    /\ UNCHANGED <<reviewing, unaware, misplaced>>

Fail(c) ==
    /\ reviewing[c] # NotReviewing /\ Done(c)
    /\ UNCHANGED <<design, artwork, unaware, misplaced>>

-----------------------------------------------------------------------------

(* createDesignRequest, with a designer or without. *)
Init ==
    /\ design \in {"assigned", "requested"}
    /\ artwork = <<>>
    /\ reviewing = [c \in Reviewers |-> NotReviewing]
    /\ unaware = FALSE
    /\ misplaced = FALSE

Next ==
    \/ \E c \in Reviewers :
          \/ \E s \in DOMAIN DESIGN_NEXT : ReadForStatus(c, s)
          \/ SetDesignStatus(c)
          \/ ReadForVersion(c) \/ AddDesignVersion(c)
          \/ \E n \in 1 .. MaxVersions : Supersede(c, n)
          \/ ApproveDesignVersion(c) \/ Fail(c)
    \/ \E n \in 1 .. MaxVersions : RejectDesignVersion(n)

Spec == Init /\ [][Next]_designvars

-----------------------------------------------------------------------------

(* No version is approved and rejected; one at most is approved, unless an *)
(* approval did not see one given since it looked; and once there is       *)
(* artwork the request is not being briefed any more, unless a status was  *)
(* kept or written on one that had changed (domain/design.ts:52-253).      *)
ReviewIsExclusive ==
    /\ \A n \in DOMAIN artwork : ~(artwork[n].approved /\ artwork[n].rejected)
    /\ ~unaware => Cardinality(Approved) <= 1
    /\ ~misplaced /\ artwork # <<>> =>
          design \notin {"requested", "brief_review", "assigned"}

=============================================================================
