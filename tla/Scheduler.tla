----------------------------- MODULE Scheduler -----------------------------
(***************************************************************************)
(* The job scheduler (lib/jobs/scheduler.ts) of a fleet of app servers.    *)
(* Every instance ticks each minute; the unique rows of JobRunClaim decide *)
(* which of them runs a job, a set in each process keeps it from running a *)
(* job twice at a time, and every run is recorded in BackgroundJobRun and  *)
(* reflected on the job's BackgroundJob row.  Processes crash and restart, *)
(* and database calls fail.                                                *)
(*                                                                         *)
(* A task is an asynchronous execution inside a process; the code runs it  *)
(* from one await to the next in one step.  Errors of the recording calls  *)
(* are swallowed by the code, so that they are lost.                       *)
(***************************************************************************)
EXTENDS Naturals, Sequences, FiniteSets

CONSTANTS
    Instances,  \* the app servers
    Jobs,       \* the job definitions
    Due,        \* the minutes at which the cron of a job matches
    Hourly,     \* the minutes at which old claims are purged
    KeepFor,    \* how long claims are kept: three days
    Stale,      \* STALE_RUN_MS
    MaxRun,     \* the longest a run takes
    MaxMinute,  \* bound on the clock
    MaxManual,  \* bound on the manual runs
    MaxCrashes, \* bound on the crashes
    MaxLost,    \* bound on the failing database calls
    None        \* null

(* "These jobs finish in seconds", long before their rows count as stale.  *)
ASSUME DurationAssumption ==
    /\ {KeepFor, Stale, MaxRun, MaxMinute, MaxManual, MaxCrashes, MaxLost} \subseteq Nat
    /\ MaxRun <= Stale
    /\ Due \in [Jobs -> SUBSET Nat]

VARIABLES
    clock,   \* the current minute
    up,      \* is the process of an instance alive?
    ticked,  \* the last minute in which it ticked
    reaping, \* the recovery of its startup: what is left to do, since when
    guard,   \* state.running of its process
    tasks,   \* its asynchronous executions
    claims,  \* JobRunClaim
    runs,    \* BackgroundJobRun
    jobRow,  \* BackgroundJob
    manual, crashes, lost, \* how many there have been
    fate,    \* history: what became of the runner of each row of runs
    fired,   \* history: how many scheduled runs a job has had in a minute
    missed   \* history: the claims whose holder gave up

vars == <<clock, up, ticked, reaping, guard, tasks, claims, runs, jobRow,
          manual, crashes, lost, fate, fired, missed>>

process == <<up, ticked, reaping>>

records == <<runs, jobRow, fate>>

counters == <<manual, crashes, lost>>

history == <<fired, missed>>

Minutes == 1 .. MaxMinute

Task == [inst : Instances, job : Jobs, minute : Minutes \cup {None},
         at : {"claiming", "claimed", "recording", "marking", "running",
               "closing", "leaving"},
         started : Nat, row : Nat, outcome : {"running", "success", "failed"}]

Run == [job : Jobs, status : {"running", "success", "failed"}, startedAt : Nat]

JobRow == [status : {"queued", "running", "success", "failed"}, lastRunAt : Nat]

PeriodClaim == [job : Jobs, minute : Minutes, at : Nat]

Recovery == [what : {"runs", "jobs"}, since : Nat]

Fate == {"open", "success", "failed", "died", "lost"}

Lose == lost < MaxLost /\ lost' = lost + 1

Move(t, u) == tasks' = (tasks \ {t}) \cup {u}

(* Past the guard of runJob. *)
Executing(t) == t.at \notin {"claiming", "claimed"}

-----------------------------------------------------------------------------
(* The minute tick *)

(* Variant: claims are purged while their minute may still be claimed. *)
PurgedClaimsEarly(now) == {}

(* Claims older than three days are deleted, once an hour. *)
PurgedClaims(now) ==
    IF now \in Hourly THEN {c \in claims : c.at + KeepFor >= now} ELSE claims

(* tick: one task for every job whose cron matches. *)
Tick(i) ==
    /\ up[i]
    /\ ticked[i] < clock
    /\ ticked' = [ticked EXCEPT ![i] = clock]
    /\ claims' = PurgedClaims(clock)
    /\ tasks' = tasks \cup
          {[inst |-> i, job |-> j, minute |-> clock, at |-> "claiming",
            started |-> 0, row |-> 0, outcome |-> "running"]
             : j \in {k \in Jobs : clock \in Due[k]}}
    /\ UNCHANGED <<clock, up, reaping, guard, records, counters, history>>

Taken(t) == \E c \in claims : c.job = t.job /\ c.minute = t.minute

ClaimOf(t) == [job |-> t.job, minute |-> t.minute, at |-> clock]

(* Variant: the claim is not unique. *)
ClaimAnyway(t) ==
    /\ t.at = "claiming"
    /\ claims' = claims \cup {ClaimOf(t)}
    /\ Move(t, [t EXCEPT !.at = "claimed"])
    /\ UNCHANGED <<clock, process, guard, records, counters, history>>

(* claimPeriod: the first to insert the row of the minute has it. *)
Claim(t) ==
    /\ t.at = "claiming"
    /\ IF Taken(t)
       THEN tasks' = tasks \ {t} /\ UNCHANGED claims
       ELSE /\ claims' = claims \cup {ClaimOf(t)}
            /\ Move(t, [t EXCEPT !.at = "claimed"])
    /\ UNCHANGED <<clock, process, guard, records, counters, history>>

(* ... which fails closed, whether or not the row has been inserted.       *)
ClaimFails(t) ==
    /\ t.at = "claiming"
    /\ Lose
    /\ tasks' = tasks \ {t}
    /\ \/ UNCHANGED <<claims, missed>>
       \/ /\ ~Taken(t)
          /\ claims' = claims \cup {ClaimOf(t)}
          /\ missed' = missed \cup {<<t.job, t.minute>>}
    /\ UNCHANGED <<clock, process, guard, records, manual, crashes, fired>>

-----------------------------------------------------------------------------
(* runJob *)

(* The claim is answered and runJob called: it refuses a job that runs in  *)
(* this process, and then nobody runs it in the minute that was claimed.   *)
StartRun(t) ==
    /\ t.at = "claimed"
    /\ IF t.job \in guard[t.inst]
       THEN /\ tasks' = tasks \ {t}
            /\ missed' = missed \cup {<<t.job, t.minute>>}
            /\ UNCHANGED <<guard, fired>>
       ELSE /\ guard' = [guard EXCEPT ![t.inst] = @ \cup {t.job}]
            /\ Move(t, [t EXCEPT !.at = "recording", !.started = clock])
            /\ fired' = [fired EXCEPT ![t.job][t.minute] = @ + 1]
            /\ UNCHANGED missed
    /\ UNCHANGED <<clock, process, claims, records, counters>>

(* runJobNow: the same without a claim. *)
RunJobNow(i, j) ==
    /\ up[i]
    /\ j \notin guard[i]
    /\ manual < MaxManual
    /\ manual' = manual + 1
    /\ guard' = [guard EXCEPT ![i] = @ \cup {j}]
    /\ tasks' = tasks \cup
          {[inst |-> i, job |-> j, minute |-> None, at |-> "recording",
            started |-> clock, row |-> 0, outcome |-> "running"]}
    /\ UNCHANGED <<clock, process, claims, records, crashes, lost, history>>

(* The row of the run is born running; if it cannot be, the run goes on    *)
(* without one.                                                            *)
RecordRun(t) ==
    /\ t.at = "recording"
    /\ \/ /\ runs' = Append(runs, [job |-> t.job, status |-> "running",
                                   startedAt |-> t.started])
          /\ fate' = Append(fate, "open")
          /\ Move(t, [t EXCEPT !.at = "marking", !.row = Len(runs) + 1])
          /\ UNCHANGED lost
       \/ /\ Lose
          /\ Move(t, [t EXCEPT !.at = "marking"])
          /\ UNCHANGED <<runs, fate>>
    /\ UNCHANGED <<clock, process, guard, claims, jobRow, manual, crashes, history>>

(* The job's row is marked as running. *)
MarkJob(t) ==
    /\ t.at = "marking"
    /\ \/ /\ jobRow' = [jobRow EXCEPT ![t.job] = [status |-> "running",
                                                  lastRunAt |-> t.started]]
          /\ UNCHANGED lost
       \/ Lose /\ UNCHANGED jobRow
    /\ Move(t, [t EXCEPT !.at = "running"])
    /\ UNCHANGED <<clock, process, guard, claims, runs, fate, manual, crashes, history>>

(* The runner returns or throws. *)
EndRunner(t, outcome) ==
    /\ t.at = "running"
    /\ Move(t, [t EXCEPT !.at = "closing", !.outcome = outcome])
    /\ fate' = [k \in DOMAIN fate |-> IF k = t.row THEN outcome ELSE fate[k]]
    /\ UNCHANGED <<clock, process, guard, claims, runs, jobRow, counters, history>>

(* The outcome goes into the row of the run, *)
CloseRun(t) ==
    /\ t.at = "closing"
    /\ \/ /\ runs' = [k \in DOMAIN runs |->
                IF k = t.row THEN [runs[k] EXCEPT !.status = t.outcome] ELSE runs[k]]
          /\ UNCHANGED <<lost, fate>>
       \/ /\ Lose
          /\ fate' = [k \in DOMAIN fate |-> IF k = t.row THEN "lost" ELSE fate[k]]
          /\ UNCHANGED runs
    /\ Move(t, [t EXCEPT !.at = "leaving"])
    /\ UNCHANGED <<clock, process, guard, claims, jobRow, manual, crashes, history>>

(* ... into the job's row, and the job may run again in this process.      *)
Leave(t) ==
    /\ t.at = "leaving"
    /\ \/ /\ jobRow' = [jobRow EXCEPT ![t.job] =
                [status |-> t.outcome,
                 lastRunAt |-> IF t.outcome = "success" THEN t.started ELSE @.lastRunAt]]
          /\ UNCHANGED lost
       \/ Lose /\ UNCHANGED jobRow
    /\ guard' = [guard EXCEPT ![t.inst] = @ \ {t.job}]
    /\ tasks' = tasks \ {t}
    /\ UNCHANGED <<clock, process, claims, runs, fate, manual, crashes, history>>

-----------------------------------------------------------------------------
(* Crashes, restarts and recovery *)

TasksOf(i) == {t \in tasks : t.inst = i}

(* A process dies, and with it whatever it was doing. *)
Crash(i) ==
    /\ up[i]
    /\ crashes < MaxCrashes
    /\ crashes' = crashes + 1
    /\ up' = [up EXCEPT ![i] = FALSE]
    /\ tasks' = tasks \ TasksOf(i)
    /\ guard' = [guard EXCEPT ![i] = {}]
    /\ reaping' = [reaping EXCEPT ![i] = None]
    /\ missed' = missed \cup {<<t.job, t.minute>> : t \in {u \in TasksOf(i) : u.at = "claimed"}}
    /\ fate' = [k \in DOMAIN fate |->
          IF fate[k] # "lost" /\ \E t \in TasksOf(i) : t.row = k /\ t.at # "leaving"
          THEN "died" ELSE fate[k]]
    /\ UNCHANGED <<clock, ticked, claims, runs, jobRow, manual, lost, fired>>

(* startScheduler: recovery starts, the first tick is at the next minute.  *)
StartScheduler(i) ==
    /\ ~up[i]
    /\ up' = [up EXCEPT ![i] = TRUE]
    /\ ticked' = [ticked EXCEPT ![i] = clock]
    /\ reaping' = [reaping EXCEPT ![i] = [what |-> "runs", since |-> clock]]
    /\ UNCHANGED <<clock, guard, tasks, claims, records, counters, history>>

(* Variant: every running row counts as orphaned. *)
OrphanedAny(row, startedAt, now) == row.status = "running"

(* Left running since before the cutoff. *)
Orphaned(row, startedAt, now) == row.status = "running" /\ startedAt + Stale < now

Reaping(i, what) == up[i] /\ reaping[i] # None /\ reaping[i].what = what

(* recoverOrphanedRuns: the rows of runs, *)
ReapRuns(i) ==
    /\ Reaping(i, "runs")
    /\ \/ /\ runs' = [k \in DOMAIN runs |->
                IF Orphaned(runs[k], runs[k].startedAt, reaping[i].since)
                THEN [runs[k] EXCEPT !.status = "failed"] ELSE runs[k]]
          /\ UNCHANGED lost
       \/ Lose /\ UNCHANGED runs
    /\ reaping' = [reaping EXCEPT ![i].what = "jobs"]
    /\ UNCHANGED <<clock, up, ticked, guard, tasks, claims, jobRow, fate, manual,
                   crashes, history>>

(* ... then the rows of jobs.                                              *)
ReapJobs(i) ==
    /\ Reaping(i, "jobs")
    /\ \/ /\ jobRow' = [j \in Jobs |->
                IF Orphaned(jobRow[j], jobRow[j].lastRunAt, reaping[i].since)
                THEN [jobRow[j] EXCEPT !.status = "failed"] ELSE jobRow[j]]
          /\ UNCHANGED lost
       \/ Lose /\ UNCHANGED jobRow
    /\ reaping' = [reaping EXCEPT ![i] = None]
    /\ UNCHANGED <<clock, up, ticked, guard, tasks, claims, runs, fate, manual,
                   crashes, history>>

(* A minute passes; no run lasts longer than MaxRun, and no claim waits    *)
(* for its answer until it could be purged.                                *)
PassMinute ==
    /\ clock < MaxMinute
    /\ \A t \in tasks : IF Executing(t) THEN clock < t.started + MaxRun
                        ELSE clock < t.minute + KeepFor
    /\ clock' = clock + 1
    /\ UNCHANGED <<process, guard, tasks, claims, records, counters, history>>

-----------------------------------------------------------------------------

Init ==
    /\ clock = 0
    /\ up = [i \in Instances |-> TRUE]
    /\ ticked = [i \in Instances |-> 0]
    /\ reaping = [i \in Instances |-> None]
    /\ guard = [i \in Instances |-> {}]
    /\ tasks = {}
    /\ claims = {}
    /\ runs = <<>>
    /\ jobRow = [j \in Jobs |-> [status |-> "queued", lastRunAt |-> 0]]
    /\ manual = 0 /\ crashes = 0 /\ lost = 0
    /\ fate = <<>>
    /\ fired = [j \in Jobs |-> [m \in Minutes |-> 0]]
    /\ missed = {}

Step(t) ==
    \/ Claim(t) \/ ClaimFails(t) \/ StartRun(t)
    \/ RecordRun(t) \/ MarkJob(t)
    \/ \E outcome \in {"success", "failed"} : EndRunner(t, outcome)
    \/ CloseRun(t) \/ Leave(t)

Next ==
    \/ \E i \in Instances :
          \/ Tick(i) \/ Crash(i) \/ StartScheduler(i) \/ ReapRuns(i) \/ ReapJobs(i)
          \/ \E j \in Jobs : RunJobNow(i, j)
    \/ \E t \in tasks : Step(t)
    \/ PassMinute

Spec == Init /\ [][Next]_vars

-----------------------------------------------------------------------------
(* Properties *)

(* Tables and processes hold values of their types, a task that came from  *)
(* a tick knows its minute, and what a process had in memory is gone when  *)
(* it dies.                                                                *)
TypeOK ==
    /\ clock \in 0 .. MaxMinute
    /\ up \in [Instances -> BOOLEAN]
    /\ ticked \in [Instances -> Nat]
    /\ reaping \in [Instances -> Recovery \cup {None}]
    /\ guard \in [Instances -> SUBSET Jobs]
    /\ tasks \subseteq Task
    /\ claims \subseteq PeriodClaim
    /\ runs \in Seq(Run)
    /\ jobRow \in [Jobs -> JobRow]
    /\ {manual, crashes, lost} \subseteq Nat
    /\ fate \in Seq(Fate) /\ Len(fate) = Len(runs)
    /\ fired \in [Jobs -> [Minutes -> Nat]]
    /\ missed \subseteq Jobs \X Minutes
    /\ \A t \in tasks : Executing(t) \/ t.minute \in Minutes
    /\ \A i \in Instances : ~up[i] =>
          guard[i] = {} /\ TasksOf(i) = {} /\ reaping[i] = None

(* "A job fires exactly once per minute across the whole fleet": never     *)
(* more than once, whoever ticks, crashes, restarts or purges old claims;  *)
(* and no process runs a job twice at the same time, by schedule and by    *)
(* hand, or refuses to run it while it does not; one that has died runs    *)
(* nothing, as the types say (lib/jobs/scheduler.ts:25-165).               *)
NeverTwice ==
    /\ TypeOK
    /\ \A j \in Jobs, m \in Minutes : fired[j][m] <= 1
    /\ \A i \in Instances, j \in Jobs :
          Cardinality({t \in tasks : t.inst = i /\ t.job = j /\ Executing(t)})
              = (IF j \in guard[i] THEN 1 ELSE 0)

(* A claimed minute is accounted for exactly once: the job was run in it,  *)
(* the holder is about to run it, or the holder gave it up.                *)
ClaimsAreAccountedFor ==
    \A c \in claims :
        Cardinality({n \in 1 .. 3 :
            \/ n = 1 /\ fired[c.job][c.minute] > 0
            \/ n = 2 /\ <<c.job, c.minute>> \in missed
            \/ n = 3 /\ \E t \in tasks : /\ t.job = c.job /\ t.minute = c.minute
                                         /\ t.at = "claimed"}) = 1

(* "Never shows a false success": a row says success only if its runner    *)
(* returned, and failed only if it threw, died or could not be recorded,   *)
(* never while it is running on another instance; and while nothing        *)
(* crashed or was lost, a job's row says running only if the job is        *)
(* running on some instance, however runs of it overlap.                   *)
RowsTellTheTruth ==
    /\ \A k \in DOMAIN runs :
          /\ runs[k].status = "success" => fate[k] = "success"
          /\ runs[k].status = "failed" => fate[k] \in {"failed", "died", "lost"}
    /\ \A j \in Jobs :
          jobRow[j].status = "running" /\ crashes = 0 /\ lost = 0 =>
              \E t \in tasks : t.job = j /\ Executing(t)

=============================================================================
