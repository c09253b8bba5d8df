---------------------------- MODULE DailyChecks ----------------------------
(***************************************************************************)
(* The daily checks of one template and day (domain/daily-checks.ts).  The *)
(* generator makes a checklist for every assigned user; runs of it overlap *)
(* (the job, the button and the API start it).  A user works through the   *)
(* own checklist in several tabs, hands it in, and a manager verifies it.  *)
(* Nothing in the code edits a template, so what it asks for stays.        *)
(***************************************************************************)
EXTENDS Naturals, FiniteSets

CONSTANTS
    Assigned,   \* users with an active assignment
    Filling,    \* of these, the users who fill theirs in (a bound)
    Items,      \* items of the template
    Templates,  \* what a template asks for, item by item: a set of "note",
                \* "link", "attachment"
    Tabs,       \* browser tabs of a user with a call under way
    Generators, \* runs of the generator (a bound on their number)
    Missing     \* null

VARIABLES
    requires,   \* what the template asks for
    instance,   \* ChecklistInstance of each user, Missing before it is made
    item,       \* its ChecklistInstanceItem rows
    editing,    \* the call of each tab, as of what it has checked
    generating, \* the runs of the generator
    jobStatus   \* the status of their BackgroundJob row

checkvars == <<requires, instance, item, editing, generating, jobStatus>>

NewItem == [done |-> FALSE, note |-> FALSE, link |-> FALSE, file |-> FALSE]

NewInstance == [status |-> "pending", completed |-> FALSE, score |-> 0, verified |-> FALSE]

AtRest(stage) == [stage |-> stage, left |-> {}, user |-> Missing]

-----------------------------------------------------------------------------
(* generateDailyChecks *)

(* The row is marked running, then the assignments are listed. *)
StartRun(g) ==
    /\ generating[g].stage = "new"
    /\ generating' = [generating EXCEPT ![g] = [stage |-> "next", left |-> Assigned,
                                                user |-> Missing]]
    /\ jobStatus' = "running"
    /\ UNCHANGED <<requires, instance, item, editing>>

(* Assignment by assignment: skip the user who has a checklist. *)
LookUp(g, u) ==
    /\ generating[g].stage = "next" /\ u \in generating[g].left
    /\ generating' = [generating EXCEPT
                        ![g].left = @ \ {u},
                        ![g].stage = IF instance[u] = Missing THEN "create" ELSE "next",
                        ![g].user = IF instance[u] = Missing THEN u ELSE Missing]
    /\ UNCHANGED <<requires, instance, item, editing, jobStatus>>

CreateInstance(g) ==
    LET u == generating[g].user IN
    /\ generating[g].stage = "create" /\ instance[u] = Missing
    /\ instance' = [instance EXCEPT ![u] = NewInstance]
    /\ item' = [item EXCEPT ![u] = [i \in Items |-> NewItem]]
    /\ generating' = [generating EXCEPT ![g].stage = "next", ![g].user = Missing]
    /\ UNCHANGED <<requires, editing, jobStatus>>

(* The unique key refuses a second checklist, and the run ends there. *)
Collide(g) ==
    /\ generating[g].stage = "create" /\ instance[generating[g].user] # Missing
    /\ generating' = [generating EXCEPT ![g] = AtRest("failed")]
    /\ jobStatus' = "failed"
    /\ UNCHANGED <<requires, instance, item, editing>>

FinishRun(g) ==
    /\ generating[g].stage = "next" /\ generating[g].left = {}
    /\ generating' = [generating EXCEPT ![g] = AtRest("success")]
    /\ jobStatus' = "success"
    /\ UNCHANGED <<requires, instance, item, editing>>

-----------------------------------------------------------------------------
(* Filling in *)

(* The checks of completeChecklistItem, on the file the item has now.      *)
Evidenced(i, note, link, file) ==
    /\ "note" \in requires[i] => note
    /\ "link" \in requires[i] => link \/ file
    /\ "attachment" \in requires[i] => file

BeginItem(t, u, i, done, note, link) ==
    /\ editing[t] = Missing
    /\ instance[u] # Missing
    /\ done => Evidenced(i, note, link, item[u][i].file)
    /\ ~done => ~note /\ ~link  \* what an undone item says is of no interest
    /\ editing' = [editing EXCEPT ![t] = [op |-> "item", user |-> u, item |-> i,
                                          done |-> done, note |-> note, link |-> link]]
    /\ UNCHANGED <<requires, instance, item, generating, jobStatus>>

(* addChecklistItemEvidence refuses a checklist whose status is verified,  *)
(* which no checklist's is, and stores the file.                           *)
BeginEvidence(t, u, i) ==
    /\ editing[t] = Missing
    /\ instance[u] # Missing /\ instance[u].status # "verified"
    /\ editing' = [editing EXCEPT ![t] = [op |-> "evidence", user |-> u, item |-> i]]
    /\ UNCHANGED <<requires, instance, item, generating, jobStatus>>

BeginSubmit(t, u) ==
    /\ editing[t] = Missing
    /\ instance[u] # Missing
    /\ editing' = [editing EXCEPT ![t] =
                     [op |-> "submit", user |-> u,
                      count |-> Cardinality({i \in Items : item[u][i].done})]]
    /\ UNCHANGED <<requires, instance, item, generating, jobStatus>>

Ends(t, op) ==
    /\ editing[t] # Missing /\ editing[t].op = op
    /\ editing' = [editing EXCEPT ![t] = Missing]
    /\ UNCHANGED <<requires, generating, jobStatus>>

(* Variant: its file is written over, too. *)
CompleteItemAfresh(t) ==
    LET e == editing[t] IN
    /\ Ends(t, "item")
    /\ item' = [item EXCEPT ![e.user][e.item] =
                  [done |-> e.done, note |-> e.note, link |-> e.link, file |-> FALSE]]
    /\ UNCHANGED instance

(* The item is written as a whole, but for its file. *)
CompleteItem(t) ==
    LET e == editing[t] IN
    /\ Ends(t, "item")
    /\ item' = [item EXCEPT ![e.user][e.item] =
                  [done |-> e.done, note |-> e.note, link |-> e.link, file |-> @.file]]
    /\ UNCHANGED instance

AddEvidence(t) ==
    /\ Ends(t, "evidence")
    /\ item' = [item EXCEPT ![editing[t].user][editing[t].item].file = TRUE]
    /\ UNCHANGED instance

(* The upload fails, or the process ends after the file was stored. *)
LoseEvidence(t) ==
    /\ Ends(t, "evidence")
    /\ UNCHANGED <<instance, item>>

(* The status of what was done when the items were read, by the end of the *)
(* day or late; a verification does not stand in its way.                  *)
Submit(t, late) ==
    LET all == editing[t].count = Cardinality(Items) IN
    /\ Ends(t, "submit")
    /\ instance' = [instance EXCEPT ![editing[t].user] =
                      [@ EXCEPT !.status = IF late THEN "late"
                                           ELSE IF all THEN "complete" ELSE "pending",
                                !.completed = all,
                                !.score = editing[t].count]]
    /\ UNCHANGED item

(* verifyChecklistInstance: in any status. *)
Verify(u) ==
    /\ instance[u] # Missing
    /\ instance' = [instance EXCEPT ![u].verified = TRUE]
    /\ UNCHANGED <<requires, item, editing, generating, jobStatus>>

-----------------------------------------------------------------------------

Init ==
    /\ requires \in Templates
    /\ instance = [u \in Assigned |-> Missing]
    /\ item = [u \in Assigned |-> [i \in Items |-> NewItem]]
    /\ editing = [t \in Tabs |-> Missing]
    /\ generating = [g \in Generators |-> AtRest("new")]
    /\ jobStatus = "idle"

Next ==
    \/ \E g \in Generators :
        \/ StartRun(g) \/ CreateInstance(g) \/ Collide(g) \/ FinishRun(g)
        \/ \E u \in Assigned : LookUp(g, u)
    \/ \E t \in Tabs :
        \/ \E u \in Filling, i \in Items :
            \/ \E done, note, link \in BOOLEAN : BeginItem(t, u, i, done, note, link)
            \/ BeginEvidence(t, u, i)
        \/ \E u \in Filling : BeginSubmit(t, u)
        \/ CompleteItem(t) \/ AddEvidence(t) \/ LoseEvidence(t)
        \/ \E late \in BOOLEAN : Submit(t, late)
    \/ \E u \in Filling : Verify(u)

Spec == Init /\ [][Next]_checkvars

-----------------------------------------------------------------------------

DoneItemsHaveEvidence ==
    \A u \in Assigned, i \in Items :
        item[u][i].done =>
            Evidenced(i, item[u][i].note, item[u][i].link, item[u][i].file)

SuccessMeansAll ==
    (jobStatus = "success" \/ \E g \in Generators : generating[g].stage = "success")
    => \A u \in Assigned : instance[u] # Missing

NobodyStays ==
    (\A g \in Generators : generating[g].stage \in {"success", "failed"}) =>
    \E g \in Generators : generating[g].stage = "success"

(* However tabs and generator runs overlap: an item marked done has the    *)
(* note, link or file its template asks for; a generator that reports      *)
(* success has left no assigned user without a checklist; and of the runs  *)
(* that collide one comes through (domain/daily-checks.ts:109-188,         *)
(* 233-293).                                                               *)
ChecksAreBacked == DoneItemsHaveEvidence /\ SuccessMeansAll /\ NobodyStays

=============================================================================
