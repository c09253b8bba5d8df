-------------------------------- MODULE Cron --------------------------------
(***************************************************************************)
(* When jobs come due (lib/jobs/cron.ts).  Each minute the scheduler asks  *)
(* whether an expression matches the server's local time, and after every  *)
(* run it announces when the job is due next, by walking local time minute *)
(* by minute.  Local time is set forward or back once, so that a stretch   *)
(* of it is left out or comes twice; an expression matches what the clock  *)
(* shows, and the walk goes through what the clock shows.                  *)
(*                                                                         *)
(* Instants and times are counted in minutes, on a small calendar.  An     *)
(* expression is a record of fields, a field a set of parts: ranges with a *)
(* step.  Expressions are well formed, as those of the registry are.       *)
(***************************************************************************)
EXTENDS Integers, Sequences, FiniteSets, Functions

CONSTANTS
    Minutes,   \* minutes of an hour
    Hours,     \* hours of a day
    MonthDays, \* days of each month
    WeekDays,  \* days of a week
    Crons,     \* expressions
    Shifts,    \* by how much the clock is set back (or, if negative, forward)
    Change,    \* ... at this instant
    Horizon,   \* how far nextRun looks: a year
    MaxClock,  \* bound on time
    Never      \* null

VARIABLES
    cron,      \* the expression of the job
    shift,     \* the change of this year
    clock,     \* now
    nextRunAt, \* what was announced last
    asOf       \* history: when it was

cronvars == <<cron, shift, clock, nextRunAt, asOf>>

-----------------------------------------------------------------------------
(* Local time *)

(* What the clock shows at an instant. *)
Shown(t) == IF t < Change THEN t ELSE t - shift

(* The instant at which it shows a time: the first, if it does so twice,   *)
(* and if it never does, what it would have been before the change.        *)
InstantOf(time) ==
    IF time < (IF shift > 0 THEN Change ELSE Change - shift) THEN time ELSE time + shift

(* setMinutes(getMinutes() + 1) *)
MinuteLater(t) == InstantOf(Shown(t) + 1)

Day(t) == Shown(t) \div (Minutes * Hours)

MonthStart(m) == SumFunctionOnSet(MonthDays, 1 .. m - 1)

DayOfYear(t) == Day(t) % MonthStart(Len(MonthDays) + 1)

Month(t) ==
    CHOOSE m \in DOMAIN MonthDays : DayOfYear(t) \in MonthStart(m) .. MonthStart(m + 1) - 1

Date(t) == 1 + DayOfYear(t) - MonthStart(Month(t))

-----------------------------------------------------------------------------
(* Expressions *)

Star == {[whole |-> TRUE, lo |-> 0, hi |-> 0, step |-> 1]}

(* parseField: every step from the lower end of a range, within bounds.    *)
ParseField(field, min, max) ==
    {v \in min .. max : \E part \in field :
        LET lo == IF part.whole THEN min ELSE part.lo
            hi == IF part.whole THEN max ELSE part.hi
        IN v \in lo .. hi /\ (v - lo) % part.step = 0}

(* A restricted day of the month and of the week: either will do. *)
DayMatches(c, t) ==
    LET dom == Date(t) \in ParseField(c.dom, 1, 31)
        dow == Day(t) % WeekDays \in ParseField(c.dow, 0, WeekDays - 1)
    IN IF c.dom # Star /\ c.dow # Star THEN dom \/ dow ELSE dom /\ dow

CronMatches(c, t) ==
    /\ Shown(t) % Minutes \in ParseField(c.minute, 0, Minutes - 1)
    /\ (Shown(t) \div Minutes) % Hours \in ParseField(c.hour, 0, Hours - 1)
    /\ Month(t) \in ParseField(c.month, 1, Len(MonthDays))
    /\ DayMatches(c, t)

(* What is gone through from t on, minute by minute. *)
Walk(t) ==
    LET walk[k \in 0 .. Horizon] == IF k = 0 THEN t ELSE MinuteLater(walk[k - 1]) IN walk

Earliest(walk, found) ==
    IF found = {} THEN Never ELSE walk[CHOOSE k \in found : \A l \in found : k <= l]

(* Variant: the walk starts at the present minute. *)
NextRunInclusive(c, t) ==
    LET walk == Walk(t) IN Earliest(walk, {k \in 0 .. Horizon : CronMatches(c, walk[k])})

(* From the next minute on. *)
NextRun(c, t) ==
    LET walk == Walk(t) IN Earliest(walk, {k \in 1 .. Horizon : CronMatches(c, walk[k])})

-----------------------------------------------------------------------------

(* The scheduler starts, or a run of the job ends. *)
Announce ==
    /\ asOf # clock
    /\ nextRunAt' = NextRun(cron, clock)
    /\ asOf' = clock
    /\ UNCHANGED <<cron, shift, clock>>

PassMinute ==
    /\ clock < MaxClock
    /\ clock' = clock + 1
    /\ UNCHANGED <<cron, shift, nextRunAt, asOf>>

Init ==
    /\ cron \in Crons /\ shift \in Shifts
    /\ clock = 0 /\ asOf = 0
    /\ nextRunAt = NextRun(cron, 0)

Next == Announce \/ PassMinute

Spec == Init /\ [][Next]_cronvars

-----------------------------------------------------------------------------
(* Properties *)

(* When the tick has found the job due. *)
DueIn(instants) == {t \in instants : CronMatches(cron, t)}

(* What the clock shows for the second time. *)
Again == Change .. Change + shift - 1

(* The announcement is the first time from then on that the tick finds the *)
(* job due, and none only if it finds it due within no year - unless one   *)
(* of the two is in the time that comes twice, which the walk leaves out.  *)
AnnouncedIsNext ==
    LET due == DueIn(asOf + 1 .. clock) IN
    asOf \in Again \/ due \cap Again # {} \/
        /\ nextRunAt # Never =>
             /\ nextRunAt > asOf
             /\ \A t \in due : t >= nextRunAt
             /\ clock >= nextRunAt => nextRunAt \in due
        /\ nextRunAt = Never => \A t \in due : t > asOf + Horizon

Daily ==
    /\ cron.dom = Star /\ cron.month = Star /\ cron.dow = Star
    /\ \A field \in {cron.minute, cron.hour} : \A part \in field :
          Cardinality(field) = 1 /\ ~part.whole /\ part.lo = part.hi

(* A daily job is found due once on each day that has passed - twice or    *)
(* not at all on the day of the change, if its time comes twice or is left *)
(* out.                                                                    *)
DailyIsOnceADay ==
    Daily => \A d \in 0 .. Day(clock) - 1 :
        LET due == {t \in DueIn(0 .. clock) : Day(t) = d}
            hour == CHOOSE part \in cron.hour : TRUE
            minute == CHOOSE part \in cron.minute : TRUE
            time == (d * Hours + hour.lo) * Minutes + minute.lo
            times == {t \in 0 .. clock : Shown(t) = time}
        IN due = times /\ (Cardinality(times) = 1 \/ d = Day(Change) \/ d = Day(Change - 1))

(* Jobs are due and announced as the clock on the wall has it. *)
JobsComeDue == AnnouncedIsNext /\ DailyIsOnceADay

=============================================================================
