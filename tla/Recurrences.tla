---------------------------- MODULE Recurrences ----------------------------
(***************************************************************************)
(* Recurring posts (domain/social.ts).  A recurrence is materialised into  *)
(* one item a day by whoever creates it and then by the job: a generator   *)
(* looks for an item of each day and creates the missing ones, row by row. *)
(* People move items to other days and change their status meanwhile.      *)
(*                                                                         *)
(* One recurrence.  Two statuses, since the generator sees none.           *)
(***************************************************************************)
EXTENDS Naturals, Sequences, FiniteSets

CONSTANTS
    Generators, \* calls that materialise the recurrence
    Days,       \* number of days of the recurrence
    MaxItems    \* bound on the items

VARIABLES
    recurrence, \* whether the recurrence exists
    planned,    \* its items, in the order of their creation
    generator,  \* where each generator is
    together,   \* history: two generators were under way at once
    moved,      \* history: the day of an item was edited
    covered     \* history: a generator came to its end

recurrencevars ==
    <<recurrence, planned, generator, together, moved, covered>>

Elsewhere == 0 \* a day that is not the recurrence's, or none

NewItem(d) == [day |-> d, status |-> "idea"]

Resting == [at |-> "rest", day |-> 1]

-----------------------------------------------------------------------------
(* generateFromRecurrence *)

Launch(g) ==
    /\ generator[g].at = "rest"
    /\ generator' = [generator EXCEPT ![g].at = "look"]
    /\ together' = (together \/ \E h \in Generators \ {g} : generator[h].at # "rest")
    /\ UNCHANGED <<planned, moved, covered>>

(* createRecurrence generates at once. *)
CreateRecurrence(g) == ~recurrence /\ recurrence' = TRUE /\ Launch(g)

(* generateRecurringPublishing, or the generator of this recurrence. *)
Generate(g) == recurrence /\ UNCHANGED recurrence /\ Launch(g)

NextDay(g) ==
    /\ generator' = [generator EXCEPT ![g] =
                       IF @.day = Days THEN Resting ELSE [at |-> "look", day |-> @.day + 1]]
    /\ covered' = (covered \/ generator[g].day = Days)

LookUp(g) ==
    /\ generator[g].at = "look"
    /\ IF \E k \in DOMAIN planned : planned[k].day = generator[g].day
       THEN NextDay(g)
       ELSE generator' = [generator EXCEPT ![g].at = "create"] /\ UNCHANGED covered
    /\ UNCHANGED <<recurrence, planned, together, moved>>

Materialize(g) ==
    /\ generator[g].at = "create" /\ Len(planned) < MaxItems
    /\ planned' = Append(planned, NewItem(generator[g].day))
    /\ NextDay(g)
    /\ UNCHANGED <<recurrence, together, moved>>

(* The days it did not get to wait for the next run. *)
StopGenerating(g) ==
    /\ generator[g].at # "rest"
    /\ generator' = [generator EXCEPT ![g] = Resting]
    /\ UNCHANGED <<recurrence, planned, together, moved, covered>>

-----------------------------------------------------------------------------
(* People, at the first item (a bound) *)

Edit(row) ==
    /\ planned' = [planned EXCEPT ![1] = row]
    /\ UNCHANGED <<recurrence, generator, together, covered>>

UpdatePublishingItem(d) ==
    /\ planned # <<>>
    /\ Edit([planned[1] EXCEPT !.day = d])
    /\ moved' = (moved \/ d # planned[1].day)

(* From any status to any other. *)
SetPublishingStatus(s) ==
    /\ planned # <<>>
    /\ Edit([planned[1] EXCEPT !.status = s])
    /\ UNCHANGED moved

-----------------------------------------------------------------------------

Init ==
    /\ recurrence = FALSE
    /\ planned = <<>>
    /\ generator = [g \in Generators |-> Resting]
    /\ together = FALSE
    /\ moved = FALSE
    /\ covered = FALSE

Next ==
    \/ \E g \in Generators :
          \/ CreateRecurrence(g) \/ Generate(g)
          \/ LookUp(g) \/ Materialize(g) \/ StopGenerating(g)
    \/ \E d \in Elsewhere .. Days : UpdatePublishingItem(d)
    \/ \E s \in {"idea", "approved"} : SetPublishingStatus(s)

Spec == Init /\ [][Next]_recurrencevars

-----------------------------------------------------------------------------

Of(d) == {k \in DOMAIN planned : planned[k].day = d}

(* As long as no item was moved to another day, a generator that came to   *)
(* its end has left no day empty, however runs stopped or overlapped, and  *)
(* no day has two items unless two generators were under way at once       *)
(* (domain/social.ts:218-248).                                             *)
CalendarIsFilled ==
    /\ ~moved /\ covered => \A d \in 1 .. Days : Of(d) # {}
    /\ ~moved /\ ~together => \A d \in 1 .. Days : Cardinality(Of(d)) <= 1

=============================================================================
