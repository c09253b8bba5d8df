----------------------------- MODULE Attendance -----------------------------
(***************************************************************************)
(* The attendance of an employee on one day (domain/attendance.ts): clock  *)
(* in, breaks, clock out, and the corrections a manager decides.  The      *)
(* clock state is derived from the day's record and its break events.  A   *)
(* call reads them, and writes later; calls from two browser tabs, and a   *)
(* manager's, overlap.  Times are minutes.  Nothing sets the expected      *)
(* times of a record, so lateness and overtime stay at zero: left out, as  *)
(* are the check-in and check-out events, which no state is derived from.  *)
(***************************************************************************)
EXTENDS Integers, Sequences, FiniteSetsExt

CONSTANTS
    Callers,     \* tabs and managers with a call under way
    Corrections, \* correction requests (a bound on their number)
    MaxMinute,   \* bound on the day
    MaxEvents,   \* bound on break events
    Unset        \* null

VARIABLES
    minute,      \* the time of day
    attendance,  \* the AttendanceRecord, Unset while there is none
    events,      \* the break events of the day, in their order
    correction,  \* AttendanceCorrection rows
    visit,       \* the call of each caller, as of what it has read
    overlapped,  \* history: a call wrote on a day, or decided on a request,
                 \* that had changed since it was read
    adjusted,    \* history: the break minutes last set by a correction, and
                 \* the number of events at that time
    amended      \* history: a correction changed a finished day

dayvars == <<minute, attendance, events, correction, visit, overlapped, adjusted, amended>>

DayMinutes == 0 .. MaxMinute

Fields == {"actualStart", "actualEnd", "breakMinutes"}

NewAttendance ==
    [actualStart |-> Unset, actualEnd |-> Unset, breakMinutes |-> 0, totalWorkedMinutes |-> 0]

Mins(later, earlier) == IF later > earlier THEN later - earlier ELSE 0

OnBreak == events # <<>> /\ events[Len(events)].type = "break_start"

(* deriveState *)
ClockState ==
    CASE attendance = Unset -> "out"
      [] attendance # Unset /\ attendance.actualStart = Unset -> "out"
      [] attendance # Unset /\ attendance.actualStart # Unset ->
            IF attendance.actualEnd # Unset THEN "checked_out"
            ELSE IF OnBreak THEN "on_break" ELSE "working"

-----------------------------------------------------------------------------

(* loadToday, and the transitions each call allows. *)
Allowed(op) ==
    CASE op = "checkIn"  -> ClockState = "out"
      [] op = "endBreak" -> ClockState = "on_break"
      [] op \in {"startBreak", "checkOut"} -> ClockState = "working"

Load(c, op) ==
    /\ visit[c] = Unset
    /\ Allowed(op)
    /\ op = "startBreak" => Len(events) < MaxEvents
    /\ visit' = [visit EXCEPT ![c] = [op |-> op, record |-> attendance,
                    count |-> Len(events),
                    lastStart |-> IF op = "endBreak" THEN events[Len(events)].at ELSE Unset]]
    /\ UNCHANGED <<minute, attendance, events, correction, overlapped, adjusted, amended>>

Writes(c, op) == visit[c] # Unset /\ visit[c].op = op

(* A write ends its call. *)
Wrote(c, changed) ==
    /\ visit' = [visit EXCEPT ![c] = Unset]
    /\ overlapped' = (overlapped \/ changed)
    /\ UNCHANGED minute

DayChanged(c) == visit[c].record # attendance \/ visit[c].count # Len(events)

(* An upsert. *)
CheckIn(c) ==
    /\ Writes(c, "checkIn")
    /\ attendance' = IF attendance = Unset
                     THEN [NewAttendance EXCEPT !.actualStart = minute]
                     ELSE [attendance EXCEPT !.actualStart = minute]
    /\ Wrote(c, DayChanged(c))
    /\ UNCHANGED <<events, correction, adjusted, amended>>

StartBreak(c) ==
    /\ Writes(c, "startBreak")
    /\ events' = Append(events, [type |-> "break_start", at |-> minute])
    /\ Wrote(c, FALSE)
    /\ UNCHANGED <<attendance, correction, adjusted, amended>>

(* Variant: only the last break counts. *)
EndBreakAfresh(c) ==
    /\ Writes(c, "endBreak")
    /\ Len(events) < MaxEvents
    /\ events' = Append(events, [type |-> "break_end", at |-> minute])
    /\ attendance' = [attendance EXCEPT !.breakMinutes = Mins(minute, visit[c].lastStart)]
    /\ Wrote(c, DayChanged(c))
    /\ UNCHANGED <<correction, adjusted, amended>>

(* The total is that of the record it read, and the break that had begun.  *)
EndBreak(c) ==
    /\ Writes(c, "endBreak")
    /\ Len(events) < MaxEvents
    /\ events' = Append(events, [type |-> "break_end", at |-> minute])
    /\ attendance' = [attendance EXCEPT !.breakMinutes =
                        visit[c].record.breakMinutes + Mins(minute, visit[c].lastStart)]
    /\ Wrote(c, DayChanged(c))
    /\ UNCHANGED <<correction, adjusted, amended>>

CheckOut(c) ==
    LET read == visit[c].record IN
    /\ Writes(c, "checkOut")
    /\ attendance' = [attendance EXCEPT
                        !.actualEnd = minute,
                        !.totalWorkedMinutes =
                            Mins(Mins(minute, read.actualStart), read.breakMinutes)]
    /\ Wrote(c, DayChanged(c))
    /\ UNCHANGED <<events, correction, adjusted, amended>>

-----------------------------------------------------------------------------
(* Corrections *)

(* requestAttendanceCorrection, of a field: one of none changes nothing. *)
Request(k, field, value) ==
    /\ correction[k] = Unset
    /\ correction' = [correction EXCEPT ![k] =
                        [status |-> "pending", field |-> field, value |-> value,
                         applied |-> FALSE]]
    /\ UNCHANGED <<minute, attendance, events, visit, overlapped, adjusted, amended>>

(* decideAttendanceCorrection sees a pending request ... *)
Review(c, k, decision) ==
    /\ visit[c] = Unset
    /\ correction[k] # Unset /\ correction[k].status = "pending"
    /\ visit' = [visit EXCEPT ![c] = [op |-> "decide", correction |-> k,
                                      decision |-> decision]]
    /\ UNCHANGED <<minute, attendance, events, correction, overlapped, adjusted, amended>>

(* ... and decides it in a transaction.  An approval sets the field, in a  *)
(* new record if there is none; what was computed from it stays.  A        *)
(* request for changes ends like a rejection.                              *)
Apply(k) ==
    LET row == IF attendance = Unset THEN NewAttendance ELSE attendance
        fixed == [row EXCEPT ![correction[k].field] = correction[k].value]
    IN
    /\ attendance' = fixed
    /\ adjusted' = IF correction[k].field = "breakMinutes"
                   THEN <<correction[k].value, Len(events)>> ELSE adjusted
    /\ amended' = (amended \/ fixed.actualEnd # Unset)

Decide(c) ==
    LET k == visit[c].correction
        approved == visit[c].decision = "approved"
    IN
    /\ Writes(c, "decide")
    /\ IF approved THEN Apply(k) ELSE UNCHANGED <<attendance, adjusted, amended>>
    /\ correction' = [correction EXCEPT ![k].status = visit[c].decision,
                                        ![k].applied = @ \/ approved]
    /\ Wrote(c, correction[k].status # "pending")
    /\ UNCHANGED events

PassMinute ==
    /\ minute < MaxMinute
    /\ minute' = minute + 1
    /\ UNCHANGED <<attendance, events, correction, visit, overlapped, adjusted, amended>>

-----------------------------------------------------------------------------

Init ==
    /\ minute = 0
    /\ attendance = Unset
    /\ events = <<>>
    /\ correction = [k \in Corrections |-> Unset]
    /\ visit = [c \in Callers |-> Unset]
    /\ overlapped = FALSE
    /\ adjusted = <<0, 0>>
    /\ amended = FALSE

Next ==
    \/ \E c \in Callers :
        \/ \E op \in {"checkIn", "startBreak", "endBreak", "checkOut"} : Load(c, op)
        \/ CheckIn(c) \/ StartBreak(c) \/ EndBreak(c) \/ CheckOut(c)
        \/ \E k \in Corrections, d \in {"approved", "rejected"} : Review(c, k, d)
        \/ Decide(c)
    \/ \E k \in Corrections, f \in Fields, v \in DayMinutes : Request(k, f, v)
    \/ PassMinute

Spec == Init /\ [][Next]_dayvars

-----------------------------------------------------------------------------

Ended(from) == {i \in from + 1 .. Len(events) : events[i].type = "break_end"}

BreakLengths(from) ==
    MapThenSumSet(LAMBDA i : events[i].at - events[i - 1].at, Ended(from))

BreaksAddUp ==
    attendance # Unset =>
    attendance.breakMinutes = adjusted[1] + BreakLengths(adjusted[2])

WorkAddsUp ==
    attendance # Unset /\ attendance.actualEnd # Unset /\ ~amended =>
    attendance.totalWorkedMinutes =
        Mins(Mins(attendance.actualEnd, attendance.actualStart), attendance.breakMinutes)

DecisionsAreKept ==
    \A k \in Corrections : correction[k] # Unset =>
        (correction[k].applied <=> correction[k].status = "approved")

(* Unless a call wrote on a day that had changed since it was read, and    *)
(* however the starts of breaks overlap with others: the break minutes are *)
(* those of the day's break events, counted from the last correction of    *)
(* them; the total of a finished day is its span less its breaks, until a  *)
(* correction touches the finished day; and a correction has been applied  *)
(* exactly if it stands approved (domain/attendance.ts:53-226).            *)
DayAddsUp == ~overlapped => BreaksAddUp /\ WorkAddsUp /\ DecisionsAreKept

=============================================================================
