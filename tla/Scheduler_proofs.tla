-------------------------- MODULE Scheduler_proofs --------------------------
(***************************************************************************)
(* Proofs about Scheduler, for any fleet, any jobs, schedules and purge    *)
(* times and any number of crashes and lost calls: types, that no job      *)
(* fires twice in a minute and no process runs it twice at a time, that    *)
(* every claim is accounted for, and that the rows tell the truth.         *)
(***************************************************************************)
EXTENDS Scheduler, FiniteSetTheorems, TLAPS

(* A task that has not answered its claim yet is young: the claim of its   *)
(* minute, if there is one, is too recent to be purged.                    *)
TasksAreYoung ==
    \A t \in tasks : ~Executing(t) => t.minute <= clock /\ clock <= t.minute + KeepFor

(* One claim per job and minute, never made before the minute. *)
ClaimsAreUnique ==
    /\ \A c \in claims : c.minute <= c.at /\ c.at <= clock
    /\ \A c, d \in claims : c.job = d.job /\ c.minute = d.minute => c = d

ClaimedMinute(j, m) == \E c \in claims : c.job = j /\ c.minute = m

HeldMinute(j, m) == \E t \in tasks : t.job = j /\ t.minute = m /\ t.at = "claimed"

(* While a minute may still be claimed, its claim is there if the job has  *)
(* been run in it, its holder gave it up, or is about to run it; and only  *)
(* one of these is the case.                                               *)
MinutesAreClaimed ==
    /\ \A j \in Jobs, m \in Minutes : clock <= m + KeepFor =>
          (fired[j][m] > 0 \/ <<j, m>> \in missed => ClaimedMinute(j, m))
    /\ \A j \in Jobs, m \in Minutes :
          /\ fired[j][m] \in {0, 1}
          /\ HeldMinute(j, m) => ClaimedMinute(j, m)
          /\ HeldMinute(j, m) => fired[j][m] = 0 /\ <<j, m>> \notin missed
          /\ fired[j][m] > 0 => <<j, m>> \notin missed
          /\ ClaimedMinute(j, m) => fired[j][m] > 0 \/ <<j, m>> \in missed \/ HeldMinute(j, m)
    /\ \A t, u \in tasks :
          t.at = "claimed" /\ u.at = "claimed" /\ t.job = u.job /\ t.minute = u.minute => t = u

(* state.running of a process is the set of the jobs that it runs, each    *)
(* one of them once.                                                       *)
GuardsHold ==
    /\ \A i \in Instances, j \in Jobs :
          j \in guard[i] <=> \E t \in tasks : t.inst = i /\ t.job = j /\ Executing(t)
    /\ \A t, u \in tasks :
          Executing(t) /\ Executing(u) /\ t.inst = u.inst /\ t.job = u.job => t = u

(* A task has a row of its own, or none, and leaves it running until it    *)
(* closes it.                                                              *)
TaskHasRow(t) ==
    /\ t.row \in 0 .. Len(runs)
    /\ t.at \in {"claiming", "claimed", "recording"} => t.row = 0
    /\ t.at \in {"closing", "leaving"} => t.outcome # "running"
    /\ Executing(t) => t.started <= clock /\ clock <= t.started + MaxRun
    /\ t.row # 0 =>
          /\ runs[t.row].startedAt = t.started
          /\ t.at # "leaving" => runs[t.row].status = "running"
          /\ t.at \in {"marking", "running"} => fate[t.row] = "open"
          /\ t.at = "closing" => fate[t.row] = t.outcome

(* A row that says running belongs to a task that has not closed it, or    *)
(* its runner died or could not be recorded; the others say what became of *)
(* the runner.                                                             *)
RowHasTask(k) ==
    /\ runs[k].status = "running" =>
          \/ fate[k] \in {"died", "lost"}
          \/ \E t \in tasks : t.row = k /\ t.at # "leaving"
    /\ runs[k].status = "success" => fate[k] = "success"
    /\ runs[k].status = "failed" => fate[k] \in {"failed", "died", "lost"}

RowsAndTasks ==
    /\ \A t \in tasks : TaskHasRow(t)
    /\ \A t, u \in tasks : t.row = u.row /\ t.row # 0 => t = u
    /\ \A k \in DOMAIN runs : RowHasTask(k)

(* A recovery works with a time that has come. *)
RecoveriesLookBack == \A i \in Instances : reaping[i] # None => reaping[i].since <= clock

(* A job's row that says running is about a task, if nothing went wrong. *)
JobRowsHaveTasks ==
    \A j \in Jobs : jobRow[j].status = "running" /\ crashes = 0 /\ lost = 0 =>
        \E t \in tasks : t.job = j /\ Executing(t)

-----------------------------------------------------------------------------
(* Type correctness *)

(* What is written into every row of a table by number is a table again.   *)
LEMMA RewrittenTable ==
    ASSUME NEW S, NEW T, NEW s \in Seq(S), NEW f, f = [k \in DOMAIN s |-> f[k]],
           \A k \in DOMAIN s : f[k] \in T
    PROVE  f \in Seq(T) /\ Len(f) = Len(s) /\ DOMAIN f = DOMAIN s
<1>1. DOMAIN s = 1 .. Len(s) /\ Len(s) \in Nat
  OBVIOUS
<1>2. f \in [1 .. Len(s) -> T]
  BY <1>1
<1> QED
  BY <1>1, <1>2

(* A task that moves on within its process leaves the tasks typed. *)
LEMMA MoveTyped ==
    ASSUME TypeOK, NEW t \in tasks, NEW u \in Task, Move(t, u), u.inst = t.inst,
           Executing(u) \/ u.minute \in Minutes
    PROVE  /\ tasks' \subseteq Task
           /\ \A v \in tasks' : Executing(v) \/ v.minute \in Minutes
           /\ \A i \in Instances : ~up[i] => {v \in tasks' : v.inst = i} = {}
<1>1. tasks' = (tasks \ {t}) \cup {u} /\ tasks \subseteq Task
  BY DEF Move, TypeOK
<1>2. \A i \in Instances : ~up[i] => \A v \in tasks : v.inst # i
  BY DEF TypeOK, TasksOf
<1>3. \A v \in tasks : Executing(v) \/ v.minute \in Minutes
  BY DEF TypeOK
<1> QED
  BY <1>1, <1>2, <1>3

(* The same for a task that ends. *)
LEMMA EndTyped ==
    ASSUME TypeOK, NEW t \in tasks, tasks' = tasks \ {t}
    PROVE  /\ tasks' \subseteq Task
           /\ \A v \in tasks' : Executing(v) \/ v.minute \in Minutes
           /\ \A i \in Instances : ~up[i] => {v \in tasks' : v.inst = i} = {}
BY DEF TypeOK, TasksOf

(* A step that keeps the processes up, and their tasks, guards and         *)
(* recoveries typed, keeps dead processes empty.                           *)
LEMMA TickTyped ==
    ASSUME TypeOK, NEW i \in Instances, Tick(i)
    PROVE  TypeOK'
<1>1. clock \in Minutes /\ clock \in Nat
  BY DurationAssumption DEF DurationAssumption, Tick, TypeOK, Minutes
<1> DEFINE new == {[inst |-> i, job |-> j, minute |-> clock, at |-> "claiming",
                    started |-> 0, row |-> 0, outcome |-> "running"]
                      : j \in {k \in Jobs : clock \in Due[k]}}
<1>2. new \subseteq Task /\ \A t \in new : t.minute \in Minutes /\ t.inst = i
  BY <1>1 DEF Task
<1> HIDE DEF new
<1>3. tasks' = tasks \cup new /\ up[i] /\ up' = up
  BY DEF Tick, new, process
<1>4. ticked' \in [Instances -> Nat]
  BY <1>1 DEF Tick, TypeOK
<1>5. claims' \subseteq PeriodClaim
  BY DEF Tick, PurgedClaims, TypeOK
<1>6. \A t \in tasks' : Executing(t) \/ t.minute \in Minutes
  BY <1>2, <1>3 DEF TypeOK
<1>7. \A k \in Instances : ~up'[k] => TasksOf(k)' = {}
  BY <1>2, <1>3 DEF TypeOK, TasksOf
<1> QED
  BY <1>2, <1>3, <1>4, <1>5, <1>6, <1>7
  DEF Tick, TypeOK, records, counters, history, Executing

(* The steps of a task. *)
LEMMA StepTyped ==
    ASSUME TypeOK, NEW t \in tasks, Step(t)
    PROVE  TypeOK'
<1> DEFINE Dead == \A i \in Instances : ~up[i] => {v \in tasks' : v.inst = i} = {}
           Tasked == /\ tasks' \subseteq Task
                     /\ \A v \in tasks' : Executing(v) \/ v.minute \in Minutes
<1>0. t \in Task /\ clock \in Nat
  BY DurationAssumption DEF DurationAssumption, TypeOK
<1>1. up[t.inst]
  BY <1>0 DEF TypeOK, TasksOf, Task
<1>2. CASE Claim(t)
  <2>1. t.minute \in Minutes
    BY <1>2 DEF Claim, TypeOK, Executing
  <2>2. ClaimOf(t) \in PeriodClaim
    BY <1>0, <2>1 DEF ClaimOf, PeriodClaim, Task
  <2>3. [t EXCEPT !.at = "claimed"] \in Task
    BY <1>0 DEF Task
  <2>4. Tasked /\ Dead
    <3>1. CASE Taken(t)
      BY <1>2, <3>1, EndTyped DEF Claim
    <3>2. CASE ~Taken(t)
      <4>1. Move(t, [t EXCEPT !.at = "claimed"])
        BY <1>2, <3>2 DEF Claim
      <4>2. /\ [t EXCEPT !.at = "claimed"].inst = t.inst
            /\ [t EXCEPT !.at = "claimed"].minute = t.minute
        BY <1>0 DEF Task
      <4> QED
        BY <2>1, <2>3, <4>1, <4>2, MoveTyped
    <3> QED
      BY <3>1, <3>2
  <2>5. claims' \subseteq PeriodClaim
    BY <1>2, <2>2 DEF Claim, TypeOK
  <2> QED
    BY <1>2, <2>4, <2>5
    DEF Claim, TypeOK, TasksOf, process, records, counters, history, Executing
<1>3. CASE ClaimFails(t)
  <2>1. t.minute \in Minutes
    BY <1>3 DEF ClaimFails, TypeOK, Executing
  <2>2. ClaimOf(t) \in PeriodClaim /\ <<t.job, t.minute>> \in Jobs \X Minutes
    BY <1>0, <2>1 DEF ClaimOf, PeriodClaim, Task
  <2>3. Tasked /\ Dead
    BY <1>3, EndTyped DEF ClaimFails
  <2>4. claims' \subseteq PeriodClaim /\ missed' \subseteq Jobs \X Minutes
    BY <1>3, <2>2 DEF ClaimFails, TypeOK
  <2> QED
    BY <1>3, <2>3, <2>4
    DEF ClaimFails, TypeOK, TasksOf, process, records, counters, history, Executing, Lose
<1>4. CASE StartRun(t)
  <2> DEFINE u == [t EXCEPT !.at = "recording", !.started = clock]
  <2>1. t.minute \in Minutes /\ t.job \in Jobs /\ t.inst \in Instances
    BY <1>0, <1>4 DEF StartRun, TypeOK, Executing, Task
  <2>2. u \in Task /\ u.inst = t.inst /\ Executing(u)
    BY <1>0 DEF Task, Executing
  <2>3. Tasked /\ Dead
    <3>1. CASE t.job \in guard[t.inst]
      BY <1>4, <3>1, EndTyped DEF StartRun
    <3>2. CASE t.job \notin guard[t.inst]
      <4>1. Move(t, u)
        BY <1>4, <3>2 DEF StartRun
      <4> HIDE DEF u
      <4> QED
        BY <2>2, <4>1, MoveTyped
    <3> QED
      BY <3>1, <3>2
  <2>4. missed' \subseteq Jobs \X Minutes
    BY <1>4, <2>1 DEF StartRun, TypeOK
  <2>5. guard' \in [Instances -> SUBSET Jobs]
    <3>1. guard[t.inst] \cup {t.job} \in SUBSET Jobs /\ guard \in [Instances -> SUBSET Jobs]
      BY <2>1 DEF TypeOK
    <3>2. guard' = guard \/ guard' = [guard EXCEPT ![t.inst] = guard[t.inst] \cup {t.job}]
      BY <1>4 DEF StartRun
    <3> QED
      BY <3>1, <3>2
  <2>6. fired' \in [Jobs -> [Minutes -> Nat]]
    <3>1. fired[t.job] \in [Minutes -> Nat] /\ fired \in [Jobs -> [Minutes -> Nat]]
      BY <2>1 DEF TypeOK
    <3>2. fired[t.job][t.minute] + 1 \in Nat
      BY <2>1, <3>1
    <3>3. [fired[t.job] EXCEPT ![t.minute] = fired[t.job][t.minute] + 1] \in [Minutes -> Nat]
      BY <3>1, <3>2
    <3>4. \/ fired' = fired
          \/ fired' = [fired EXCEPT ![t.job] =
                         [fired[t.job] EXCEPT ![t.minute] = fired[t.job][t.minute] + 1]]
      BY <1>4 DEF StartRun
    <3> QED
      BY <3>1, <3>3, <3>4
  <2>7. \A i \in Instances : ~up[i] => guard'[i] = {}
    BY <1>1, <1>4 DEF StartRun, TypeOK
  <2> QED
    BY <1>4, <2>3, <2>4, <2>5, <2>6, <2>7
    DEF StartRun, TypeOK, TasksOf, process, records, counters, Executing
<1>5. CASE RecordRun(t)
  <2>1. \E n \in Nat : Move(t, [t EXCEPT !.at = "marking", !.row = n])
    <3>1. Len(runs) + 1 \in Nat /\ t.row \in Nat /\ t = [t EXCEPT !.row = t.row]
      BY <1>0 DEF TypeOK, Task
    <3>2. CASE Move(t, [t EXCEPT !.at = "marking", !.row = Len(runs) + 1])
      BY <3>1, <3>2
    <3>3. CASE Move(t, [t EXCEPT !.at = "marking"])
      <4>1. [t EXCEPT !.at = "marking"] = [t EXCEPT !.at = "marking", !.row = t.row]
        BY <1>0 DEF Task
      <4> QED
        BY <3>1, <3>3, <4>1
    <3> QED
      BY <1>5, <3>2, <3>3 DEF RecordRun
  <2>2. Tasked /\ Dead
    <3>1. PICK n \in Nat : Move(t, [t EXCEPT !.at = "marking", !.row = n])
      BY <2>1
    <3> DEFINE u == [t EXCEPT !.at = "marking", !.row = n]
    <3>2. u \in Task /\ u.inst = t.inst /\ Executing(u)
      BY <1>0 DEF Task, Executing
    <3> HIDE DEF u
    <3> QED
      BY <3>1, <3>2, MoveTyped DEF u
  <2>3. runs' \in Seq(Run) /\ fate' \in Seq(Fate) /\ Len(fate') = Len(runs')
    <3>1. [job |-> t.job, status |-> "running", startedAt |-> t.started] \in Run
      BY <1>0 DEF Run, Task
    <3>2. "open" \in Fate
      BY DEF Fate
    <3>3. runs \in Seq(Run) /\ fate \in Seq(Fate) /\ Len(fate) = Len(runs)
      BY DEF TypeOK
    <3>4. \/ runs' = runs /\ fate' = fate
          \/ /\ runs' = Append(runs, [job |-> t.job, status |-> "running",
                                      startedAt |-> t.started])
             /\ fate' = Append(fate, "open")
      BY <1>5 DEF RecordRun
    <3> DEFINE row == [job |-> t.job, status |-> "running", startedAt |-> t.started]
    <3> HIDE DEF row
    <3>5. /\ Append(runs, row) \in Seq(Run) /\ Append(fate, "open") \in Seq(Fate)
          /\ Len(Append(fate, "open")) = Len(fate) + 1
          /\ Len(Append(runs, row)) = Len(runs) + 1
      BY <3>1, <3>2, <3>3 DEF row
    <3> QED
      BY <3>3, <3>4, <3>5 DEF row
  <2> QED
    BY <1>5, <2>2, <2>3
    DEF RecordRun, TypeOK, TasksOf, process, history, Executing, Lose
<1>6. CASE MarkJob(t)
  <2> DEFINE u == [t EXCEPT !.at = "running"]
  <2>1. u \in Task /\ u.inst = t.inst /\ Executing(u)
    BY <1>0 DEF Task, Executing
  <2>2. Tasked /\ Dead
    <3>1. Move(t, u)
      BY <1>6 DEF MarkJob
    <3> HIDE DEF u
    <3> QED
      BY <2>1, <3>1, MoveTyped
  <2>3. jobRow' \in [Jobs -> JobRow]
    <3>1. [status |-> "running", lastRunAt |-> t.started] \in JobRow
      BY <1>0 DEF JobRow, Task
    <3>2. jobRow' = jobRow \/ jobRow' = [jobRow EXCEPT ![t.job] =
                                [status |-> "running", lastRunAt |-> t.started]]
      BY <1>6 DEF MarkJob
    <3> QED
      BY <3>1, <3>2 DEF TypeOK
  <2> QED
    BY <1>6, <2>2, <2>3 DEF MarkJob, TypeOK, TasksOf, process, history, Executing, Lose
<1>7. ASSUME NEW outcome \in {"success", "failed"}, EndRunner(t, outcome) PROVE TypeOK'
  <2> DEFINE u == [t EXCEPT !.at = "closing", !.outcome = outcome]
  <2>1. u \in Task /\ u.inst = t.inst /\ Executing(u)
    BY <1>0 DEF Task, Executing
  <2>2. Tasked /\ Dead
    <3>1. Move(t, u)
      BY <1>7 DEF EndRunner
    <3> HIDE DEF u
    <3> QED
      BY <2>1, <3>1, MoveTyped
  <2>3. fate' \in Seq(Fate) /\ Len(fate') = Len(fate)
    <3>1. fate' = [k \in DOMAIN fate |-> IF k = t.row THEN outcome ELSE fate[k]]
      BY <1>7 DEF EndRunner
    <3>2. \A k \in DOMAIN fate : fate'[k] \in Fate
      BY <3>1 DEF TypeOK, Fate
    <3>3. fate' = [k \in DOMAIN fate |-> fate'[k]]
      BY <3>1
    <3> QED
      BY <3>2, <3>3, RewrittenTable DEF TypeOK
  <2> QED
    BY <1>7, <2>2, <2>3 DEF EndRunner, TypeOK, TasksOf, process, history, counters, Executing
<1>8. CASE CloseRun(t)
  <2> DEFINE u == [t EXCEPT !.at = "leaving"]
  <2>1. u \in Task /\ u.inst = t.inst /\ Executing(u)
    BY <1>0 DEF Task, Executing
  <2>2. Tasked /\ Dead
    <3>1. Move(t, u)
      BY <1>8 DEF CloseRun
    <3> HIDE DEF u
    <3> QED
      BY <2>1, <3>1, MoveTyped
  <2>3. fate' \in Seq(Fate) /\ Len(fate') = Len(fate)
    <3>1. CASE fate' = [k \in DOMAIN fate |-> IF k = t.row THEN "lost" ELSE fate[k]]
      <4>1. \A k \in DOMAIN fate : fate'[k] \in Fate
        BY <3>1 DEF TypeOK, Fate
      <4>2. fate' = [k \in DOMAIN fate |-> fate'[k]]
        BY <3>1
      <4> QED
        BY <4>1, <4>2, RewrittenTable DEF TypeOK
    <3>2. CASE fate' = fate
      BY <3>2 DEF TypeOK
    <3> QED
      BY <1>8, <3>1, <3>2 DEF CloseRun
  <2>4. runs' \in Seq(Run) /\ Len(runs') = Len(runs)
    <3>1. CASE runs' = [k \in DOMAIN runs |->
                  IF k = t.row THEN [runs[k] EXCEPT !.status = t.outcome] ELSE runs[k]]
      <4>1. \A k \in DOMAIN runs : runs[k] \in Run
        BY DEF TypeOK
      <4>2. \A k \in DOMAIN runs : runs'[k] \in Run
        BY <1>0, <3>1, <4>1 DEF Task, Run
      <4>3. runs' = [k \in DOMAIN runs |-> runs'[k]]
        BY <3>1
      <4>4. runs \in Seq(Run)
        BY DEF TypeOK
      <4> QED
        BY <4>2, <4>3, <4>4, RewrittenTable
    <3>2. CASE runs' = runs
      BY <3>2 DEF TypeOK
    <3> QED
      BY <1>8, <3>1, <3>2 DEF CloseRun
  <2> QED
    BY <1>8, <2>2, <2>3, <2>4 DEF CloseRun, TypeOK, TasksOf, process, history, Executing, Lose
<1>9. CASE Leave(t)
  <2>1. Tasked /\ Dead
    BY <1>9, EndTyped DEF Leave
  <2>2. jobRow' \in [Jobs -> JobRow]
    <3> DEFINE row == [status |-> t.outcome,
                       lastRunAt |-> IF t.outcome = "success" THEN t.started
                                     ELSE jobRow[t.job].lastRunAt]
    <3>1. t.job \in Jobs /\ t.outcome \in {"running", "success", "failed"} /\ t.started \in Nat
      BY <1>0 DEF Task
    <3>2. jobRow[t.job] \in JobRow
      BY <3>1 DEF TypeOK
    <3>3. row \in JobRow
      BY <3>1, <3>2 DEF JobRow
    <3>4. jobRow' = jobRow \/ jobRow' = [jobRow EXCEPT ![t.job] = row]
      BY <1>9 DEF Leave
    <3> HIDE DEF row
    <3> QED
      BY <3>3, <3>4 DEF TypeOK
  <2>3. guard' \in [Instances -> SUBSET Jobs] /\ \A i \in Instances : guard'[i] \subseteq guard[i]
    BY <1>9 DEF Leave, TypeOK
  <2> QED
    BY <1>9, <2>1, <2>2, <2>3 DEF Leave, TypeOK, TasksOf, process, history, Executing, Lose
<1> QED
  BY <1>2, <1>3, <1>4, <1>5, <1>6, <1>7, <1>8, <1>9 DEF Step

(* What happens to a whole process: it dies, starts and recovers, or       *)
(* someone runs a job by hand; and a minute passes.                        *)
LEMMA ProcessTyped ==
    ASSUME TypeOK, NEW i \in Instances,
           Crash(i) \/ StartScheduler(i) \/ ReapRuns(i) \/ ReapJobs(i)
              \/ (\E j \in Jobs : RunJobNow(i, j))
    PROVE  TypeOK'
<1>0. clock \in Nat
  BY DurationAssumption DEF DurationAssumption, TypeOK
<1>1. CASE Crash(i)
  <2>1. fate' \in Seq(Fate) /\ Len(fate') = Len(fate)
    <3>1. fate' = [k \in DOMAIN fate |->
              IF fate[k] # "lost" /\ \E t \in TasksOf(i) : t.row = k /\ t.at # "leaving"
              THEN "died" ELSE fate[k]]
      BY <1>1 DEF Crash
    <3>2. \A k \in DOMAIN fate : fate'[k] \in Fate
      BY <3>1 DEF TypeOK, Fate
    <3>3. fate' = [k \in DOMAIN fate |-> fate'[k]]
      BY <3>1
    <3> QED
      BY <3>2, <3>3, RewrittenTable DEF TypeOK
  <2>2. missed' \subseteq Jobs \X Minutes
    <3>1. \A t \in TasksOf(i) : t.at = "claimed" => <<t.job, t.minute>> \in Jobs \X Minutes
      BY DEF TasksOf, TypeOK, Executing, Task
    <3> QED
      BY <1>1, <3>1 DEF Crash, TypeOK
  <2>3. /\ tasks' = {t \in tasks : t.inst # i}
        /\ guard' = [guard EXCEPT ![i] = {}] /\ reaping' = [reaping EXCEPT ![i] = None]
        /\ up' = [up EXCEPT ![i] = FALSE] /\ crashes' = crashes + 1
    BY <1>1 DEF Crash, TasksOf
  <2>4. tasks' \subseteq Task /\ \A t \in tasks' : Executing(t) \/ t.minute \in Minutes
    BY <2>3 DEF TypeOK
  <2>5. \A k \in Instances : ~up'[k] =>
           guard'[k] = {} /\ TasksOf(k)' = {} /\ reaping'[k] = None
    BY <2>3 DEF TypeOK, TasksOf
  <2>6. crashes' \in Nat
    BY <2>3 DEF TypeOK
  <2>7. guard' \in [Instances -> SUBSET Jobs] /\ up' \in [Instances -> BOOLEAN]
        /\ reaping' \in [Instances -> Recovery \cup {None}]
    BY <2>3 DEF TypeOK
  <2> QED
    BY <1>1, <2>1, <2>2, <2>4, <2>5, <2>6, <2>7 DEF Crash, TypeOK, Executing
<1>2. CASE StartScheduler(i)
  <2>1. [what |-> "runs", since |-> clock] \in Recovery
    BY <1>0 DEF Recovery
  <2>2. reaping' \in [Instances -> Recovery \cup {None}]
    BY <1>2, <2>1 DEF StartScheduler, TypeOK
  <2> QED
    BY <1>0, <1>2, <2>2
    DEF StartScheduler, TypeOK, TasksOf, records, counters, history, Executing
<1>3. CASE ReapRuns(i)
  <2>1. runs' \in Seq(Run) /\ Len(runs') = Len(runs)
    <3>1. CASE runs' = [k \in DOMAIN runs |->
                IF Orphaned(runs[k], runs[k].startedAt, reaping[i].since)
                THEN [runs[k] EXCEPT !.status = "failed"] ELSE runs[k]]
      <4>1. \A k \in DOMAIN runs : runs[k] \in Run
        BY DEF TypeOK
      <4>2. \A k \in DOMAIN runs : runs'[k] \in Run
        BY <3>1, <4>1 DEF Run
      <4>3. runs' = [k \in DOMAIN runs |-> runs'[k]]
        BY <3>1
      <4>4. runs \in Seq(Run)
        BY DEF TypeOK
      <4> QED
        BY <4>2, <4>3, <4>4, RewrittenTable
    <3>2. CASE runs' = runs
      BY <3>2 DEF TypeOK
    <3> QED
      BY <1>3, <3>1, <3>2 DEF ReapRuns
  <2>2. reaping[i] \in Recovery /\ up[i] /\ [reaping[i] EXCEPT !.what = "jobs"] \in Recovery
    BY <1>3 DEF ReapRuns, Reaping, TypeOK, Recovery
  <2>3. reaping' \in [Instances -> Recovery \cup {None}]
        /\ \A k \in Instances \ {i} : reaping'[k] = reaping[k]
    BY <1>3, <2>2 DEF ReapRuns, TypeOK
  <2> QED
    BY <1>3, <2>1, <2>2, <2>3 DEF ReapRuns, TypeOK, TasksOf, history, Executing, Lose
<1>4. CASE ReapJobs(i)
  <2>1. jobRow' \in [Jobs -> JobRow]
    BY <1>4 DEF ReapJobs, TypeOK, JobRow
  <2> QED
    BY <1>4, <2>1 DEF ReapJobs, TypeOK, TasksOf, history, Executing, Lose
<1>5. ASSUME NEW j \in Jobs, RunJobNow(i, j) PROVE TypeOK'
  <2> DEFINE u == [inst |-> i, job |-> j, minute |-> None, at |-> "recording",
                   started |-> clock, row |-> 0, outcome |-> "running"]
  <2>1. u \in Task /\ u.inst = i /\ Executing(u)
    BY <1>0 DEF Task, Executing
  <2>2. tasks' = tasks \cup {u} /\ up[i] /\ guard' = [guard EXCEPT ![i] = @ \cup {j}]
    BY <1>5 DEF RunJobNow
  <2> HIDE DEF u
  <2>3. tasks' \subseteq Task /\ \A t \in tasks' : Executing(t) \/ t.minute \in Minutes
    BY <2>1, <2>2 DEF TypeOK
  <2>4. \A k \in Instances : ~up[k] => {t \in tasks' : t.inst = k} = {} /\ guard'[k] = {}
    BY <2>1, <2>2 DEF TypeOK, TasksOf
  <2>5. guard' \in [Instances -> SUBSET Jobs]
    BY <2>2 DEF TypeOK
  <2> QED
    BY <1>5, <2>3, <2>4, <2>5
    DEF RunJobNow, TypeOK, TasksOf, process, records, history, Executing
<1> QED
  BY <1>1, <1>2, <1>3, <1>4, <1>5

(* Tables and processes hold values of their types, and a process that has *)
(* died holds nothing, whatever ticks, runs, crashes, recovers or fails    *)
(* (lib/jobs/scheduler.ts).                                                *)
THEOREM TypeCorrect == Spec => []TypeOK
<1>1. Init => TypeOK
  BY DurationAssumption DEF DurationAssumption, Init, TypeOK, JobRow, TasksOf
<1>2. TypeOK /\ [Next]_vars => TypeOK'
  <2> SUFFICES ASSUME TypeOK, [Next]_vars PROVE TypeOK'
    OBVIOUS
  <2>1. CASE PassMinute
    BY <2>1, DurationAssumption
    DEF DurationAssumption, PassMinute, TypeOK, TasksOf, process, records, counters,
        history, Executing
  <2>2. CASE UNCHANGED vars
    BY <2>2 DEF vars, TypeOK, TasksOf, process, records, counters, history, Executing
  <2> QED
    BY <2>1, <2>2, TickTyped, StepTyped, ProcessTyped DEF Next
<1> QED
  BY <1>1, <1>2, PTL DEF Spec

-----------------------------------------------------------------------------
(* How tasks move *)

(* A task that runs moves on as a running task of its process and job.     *)
LEMMA RunningStep ==
    ASSUME TypeOK, NEW t \in tasks,
           RecordRun(t) \/ MarkJob(t) \/ CloseRun(t)
              \/ \E outcome \in {"success", "failed"} : EndRunner(t, outcome)
    PROVE  \E u : /\ Move(t, u) /\ Executing(t) /\ Executing(u)
                  /\ u.inst = t.inst /\ u.job = t.job
<1> DEFINE Same(u) == Executing(u) /\ u.inst = t.inst /\ u.job = t.job
<1>1. t \in Task
  BY DEF TypeOK
<1>2. CASE RecordRun(t)
  <2>1. Same([t EXCEPT !.at = "marking", !.row = Len(runs) + 1]) /\ Executing(t)
    BY <1>1, <1>2 DEF Task, Executing, RecordRun
  <2>2. Same([t EXCEPT !.at = "marking"])
    BY <1>1 DEF Task, Executing
  <2>3. Move(t, [t EXCEPT !.at = "marking", !.row = Len(runs) + 1])
           \/ Move(t, [t EXCEPT !.at = "marking"])
    BY <1>2 DEF RecordRun
  <2> QED
    BY <2>1, <2>2, <2>3
<1>3. CASE MarkJob(t)
  <2>1. Same([t EXCEPT !.at = "running"]) /\ Executing(t)
    BY <1>1, <1>3 DEF Task, Executing, MarkJob
  <2> QED
    BY <1>3, <2>1 DEF MarkJob
<1>4. CASE CloseRun(t)
  <2>1. Same([t EXCEPT !.at = "leaving"]) /\ Executing(t)
    BY <1>1, <1>4 DEF Task, Executing, CloseRun
  <2> QED
    BY <1>4, <2>1 DEF CloseRun
<1>5. ASSUME NEW outcome \in {"success", "failed"}, EndRunner(t, outcome)
      PROVE  \E u : Move(t, u) /\ Executing(t) /\ Same(u)
  <2>1. Same([t EXCEPT !.at = "closing", !.outcome = outcome]) /\ Executing(t)
    BY <1>1, <1>5 DEF Task, Executing, EndRunner
  <2> QED
    BY <1>5, <2>1 DEF EndRunner
<1> QED
  BY <1>2, <1>3, <1>4, <1>5

-----------------------------------------------------------------------------
(* No process runs a job twice at a time *)

(* What happens before a task runs does not concern state.running. *)
LEMMA IdleTasksKeepGuards ==
    ASSUME GuardsHold, guard' = guard,
           {v \in tasks' : Executing(v)} = {v \in tasks : Executing(v)}
    PROVE  GuardsHold'
<1>1. \A v : v \in tasks' /\ Executing(v) <=> v \in tasks /\ Executing(v)
  OBVIOUS
<1> QED
  BY <1>1 DEF GuardsHold, Executing

(* A job is entered into state.running together with the task that runs it.*)
LEMMA EnteringKeepsGuards ==
    ASSUME GuardsHold, NEW u, u.inst \in Instances, Executing(u),
           guard \in [Instances -> SUBSET Jobs],
           u.job \notin guard[u.inst], u.job \in Jobs,
           guard' = [guard EXCEPT ![u.inst] = @ \cup {u.job}],
           {v \in tasks' : Executing(v)} = {v \in tasks : Executing(v)} \cup {u}
    PROVE  GuardsHold'
<1>1. \A v : v \in tasks' /\ Executing(v) <=> (v \in tasks /\ Executing(v)) \/ v = u
  OBVIOUS
<1>2. \A v \in tasks : Executing(v) /\ v.inst = u.inst => v.job # u.job
  BY DEF GuardsHold
<1>3. \A i \in Instances, j \in Jobs :
         j \in guard'[i] <=> j \in guard[i] \/ (i = u.inst /\ j = u.job)
  OBVIOUS
<1>4. \A i \in Instances, j \in Jobs :
         j \in guard'[i] <=> \E v \in tasks' : v.inst = i /\ v.job = j /\ Executing(v)
  BY <1>1, <1>3 DEF GuardsHold
<1>5. \A v, w \in tasks' :
         Executing(v) /\ Executing(w) /\ v.inst = w.inst /\ v.job = w.job => v = w
  BY <1>1, <1>2 DEF GuardsHold
<1> QED
  BY <1>4, <1>5 DEF GuardsHold, Executing

(* state.running holds what runs, through every step: a job is entered     *)
(* when its run starts and taken out when it ends or its process dies.     *)
LEMMA GuardsPreserved ==
    ASSUME TypeOK, GuardsHold, [Next]_vars
    PROVE  GuardsHold'
<1>0. tasks \subseteq Task /\ guard \in [Instances -> SUBSET Jobs]
  BY DEF TypeOK
<1>1. ASSUME tasks' = tasks, guard' = guard PROVE GuardsHold'
  BY <1>1, IdleTasksKeepGuards
<1>2. ASSUME NEW i \in Instances, Tick(i) PROVE GuardsHold'
  <2>1. guard' = guard /\ \A v : v \in tasks' /\ Executing(v) => v \in tasks
    BY <1>2 DEF Tick, Executing
  <2>2. tasks \subseteq tasks'
    BY <1>2 DEF Tick
  <2> QED
    BY <2>1, <2>2, IdleTasksKeepGuards
<1>3. ASSUME NEW t \in tasks, Claim(t) \/ ClaimFails(t) PROVE GuardsHold'
  <2>1. ~Executing(t) /\ ~Executing([t EXCEPT !.at = "claimed"])
    BY <1>0, <1>3 DEF Claim, ClaimFails, Executing, Task
  <2>2. guard' = guard /\ (tasks' = tasks \ {t} \/ Move(t, [t EXCEPT !.at = "claimed"]))
    BY <1>3 DEF Claim, ClaimFails
  <2> QED
    BY <2>1, <2>2, IdleTasksKeepGuards DEF Move
<1>4. ASSUME NEW t \in tasks, StartRun(t) PROVE GuardsHold'
  <2>1. t \in Task /\ ~Executing(t)
    BY <1>0, <1>4 DEF StartRun, Executing
  <2>2. CASE t.job \in guard[t.inst]
    <3>1. guard' = guard /\ tasks' = tasks \ {t}
      BY <1>4, <2>2 DEF StartRun
    <3> QED
      BY <2>1, <3>1, IdleTasksKeepGuards
  <2>3. CASE t.job \notin guard[t.inst]
    <3> DEFINE u == [t EXCEPT !.at = "recording", !.started = clock]
    <3>1. guard' = [guard EXCEPT ![t.inst] = @ \cup {t.job}] /\ Move(t, u)
      BY <1>4, <2>3 DEF StartRun
    <3>2. u.inst = t.inst /\ u.job = t.job /\ Executing(u)
          /\ u.inst \in Instances /\ u.job \in Jobs
      BY <2>1 DEF Executing, Task
    <3> HIDE DEF u
    <3>3. {v \in tasks' : Executing(v)} = {v \in tasks : Executing(v)} \cup {u}
      BY <2>1, <3>1, <3>2 DEF Move
    <3>4. /\ u.job \notin guard[u.inst]
          /\ guard' = [guard EXCEPT ![u.inst] = @ \cup {u.job}]
      BY <2>3, <3>1, <3>2
    <3> QED
      BY <1>0, <3>2, <3>3, <3>4, EnteringKeepsGuards
  <2> QED
    BY <2>2, <2>3
<1>5. ASSUME NEW i \in Instances, NEW j \in Jobs, RunJobNow(i, j) PROVE GuardsHold'
  <2> DEFINE u == [inst |-> i, job |-> j, minute |-> None, at |-> "recording",
                   started |-> clock, row |-> 0, outcome |-> "running"]
  <2>1. /\ tasks' = tasks \cup {u} /\ j \notin guard[i]
        /\ guard' = [guard EXCEPT ![i] = @ \cup {j}]
    BY <1>5 DEF RunJobNow
  <2>2. u.inst = i /\ u.job = j /\ Executing(u)
    BY DEF Executing
  <2> HIDE DEF u
  <2>3. {v \in tasks' : Executing(v)} = {v \in tasks : Executing(v)} \cup {u}
    BY <2>1, <2>2
  <2> QED
    BY <1>0, <2>1, <2>2, <2>3, EnteringKeepsGuards
<1>6. ASSUME NEW t \in tasks,
             RecordRun(t) \/ MarkJob(t) \/ CloseRun(t)
                \/ \E outcome \in {"success", "failed"} : EndRunner(t, outcome)
      PROVE  GuardsHold'
  <2>1. PICK u : /\ Move(t, u) /\ Executing(t) /\ Executing(u)
                 /\ u.inst = t.inst /\ u.job = t.job
    BY <1>6, RunningStep
  <2>2. guard' = guard
    BY <1>6 DEF RecordRun, MarkJob, CloseRun, EndRunner
  <2>3. tasks' = (tasks \ {t}) \cup {u}
    BY <2>1 DEF Move
  <2> QED
    BY <2>1, <2>2, <2>3 DEF GuardsHold, Executing
<1>7. ASSUME NEW t \in tasks, Leave(t) PROVE GuardsHold'
  <2>1. tasks' = tasks \ {t} /\ guard' = [guard EXCEPT ![t.inst] = @ \ {t.job}] /\ Executing(t)
    BY <1>7 DEF Leave, Executing
  <2>2. t.inst \in Instances
    BY <1>0 DEF Task
  <2>3. \A i \in Instances, j \in Jobs :
           j \in guard'[i] <=> j \in guard[i] /\ ~(i = t.inst /\ j = t.job)
    BY <1>0, <2>1, <2>2
  <2> QED
    BY <2>1, <2>3 DEF GuardsHold, Executing
<1>8. ASSUME NEW i \in Instances, Crash(i) PROVE GuardsHold'
  <2>1. /\ \A v : v \in tasks' <=> v \in tasks /\ v.inst # i
        /\ guard' = [guard EXCEPT ![i] = {}]
    BY <1>8 DEF Crash, TasksOf
  <2>2. \A k \in Instances, j \in Jobs : j \in guard'[k] <=> j \in guard[k] /\ k # i
    BY <1>0, <2>1
  <2> QED
    BY <2>1, <2>2 DEF GuardsHold, Executing
<1>9. CASE PassMinute \/ UNCHANGED vars
         \/ \E i \in Instances : StartScheduler(i) \/ ReapRuns(i) \/ ReapJobs(i)
  BY <1>1, <1>9 DEF PassMinute, vars, StartScheduler, ReapRuns, ReapJobs
<1> QED
  BY <1>2, <1>3, <1>4, <1>5, <1>6, <1>7, <1>8, <1>9 DEF Next, Step

(* When state.running holds what runs, as many tasks of a process run a    *)
(* job as it says: one or none.                                            *)
LEMMA GuardsCount ==
    ASSUME TypeOK, GuardsHold, NEW i \in Instances, NEW j \in Jobs
    PROVE  Cardinality({t \in tasks : t.inst = i /\ t.job = j /\ Executing(t)})
              = (IF j \in guard[i] THEN 1 ELSE 0)
<1> DEFINE run == {t \in tasks : t.inst = i /\ t.job = j /\ Executing(t)}
<1>1. CASE j \in guard[i]
  <2>1. PICK t \in tasks : t.inst = i /\ t.job = j /\ Executing(t)
    BY <1>1 DEF GuardsHold
  <2>2. run = {t}
    BY <2>1 DEF GuardsHold
  <2>3. Cardinality({t}) = 1
    BY FS_Singleton
  <2> QED
    BY <1>1, <2>2, <2>3
<1>2. CASE j \notin guard[i]
  <2>1. run = {}
    BY <1>2 DEF GuardsHold
  <2>2. Cardinality({}) = 0
    BY FS_EmptySet
  <2> QED
    BY <1>2, <2>1, <2>2
<1> QED
  BY <1>1, <1>2

-----------------------------------------------------------------------------
(* No job fires twice in a minute *)

ClaimInv == TasksAreYoung /\ ClaimsAreUnique /\ MinutesAreClaimed

(* What happens after the claim was answered, and to anything else, does   *)
(* not concern the claims.                                                 *)
LEMMA OtherStepsKeepClaims ==
    ASSUME ClaimInv, clock' = clock, claims' = claims, history' = history,
           {v \in tasks' : ~Executing(v)} = {v \in tasks : ~Executing(v)}
    PROVE  ClaimInv'
<1>1. \A v : v \in tasks' /\ ~Executing(v) <=> v \in tasks /\ ~Executing(v)
  OBVIOUS
<1>2. \A v : v \in tasks' /\ v.at = "claimed" <=> v \in tasks /\ v.at = "claimed"
  BY <1>1 DEF Executing
<1>3. TasksAreYoung'
  BY <1>1 DEF ClaimInv, TasksAreYoung, Executing
<1>4. ClaimsAreUnique'
  BY DEF ClaimInv, ClaimsAreUnique
<1>5. \A j, m : HeldMinute(j, m)' <=> HeldMinute(j, m)
  BY <1>2 DEF HeldMinute
<1>6. \A j, m : ClaimedMinute(j, m)' <=> ClaimedMinute(j, m)
  BY DEF ClaimedMinute
<1>7. MinutesAreClaimed'
  BY <1>2, <1>5, <1>6 DEF ClaimInv, MinutesAreClaimed, history
<1> QED
  BY <1>3, <1>4, <1>7 DEF ClaimInv

(* The purge of a tick takes no claim of a minute that is still waiting.   *)
LEMMA PurgeSparesMinutes ==
    ASSUME TypeOK, ClaimInv, NEW c \in claims, clock <= c.minute + KeepFor
    PROVE  c \in PurgedClaims(clock)
<1>1. c.minute \in Nat /\ c.at \in Nat /\ clock \in Nat /\ KeepFor \in Nat
  BY DurationAssumption DEF DurationAssumption, TypeOK, PeriodClaim, Minutes
<1>2. c.minute <= c.at
  BY DEF ClaimInv, ClaimsAreUnique
<1> QED
  BY <1>1, <1>2 DEF PurgedClaims

(* A tick adds tasks of the current minute and purges old claims. *)
LEMMA TickKeepsClaims ==
    ASSUME TypeOK, ClaimInv, NEW i \in Instances, Tick(i)
    PROVE  ClaimInv'
<1>0. clock \in Nat /\ KeepFor \in Nat /\ \A m \in Minutes : m \in Nat
  BY DurationAssumption DEF DurationAssumption, TypeOK, Minutes
<1>1. /\ claims' = PurgedClaims(clock) /\ claims' \subseteq claims
      /\ clock' = clock /\ fired' = fired /\ missed' = missed
  BY DEF Tick, PurgedClaims, history
<1>2. /\ \A v \in tasks' : v \in tasks \/ (v.minute = clock /\ v.at = "claiming")
      /\ tasks \subseteq tasks'
  BY DEF Tick
<1>3. TasksAreYoung'
  BY <1>0, <1>1, <1>2 DEF ClaimInv, TasksAreYoung, Executing
<1>4. ClaimsAreUnique'
  BY <1>1 DEF ClaimInv, ClaimsAreUnique
<1>5. \A j, m : HeldMinute(j, m)' <=> HeldMinute(j, m)
  BY <1>2 DEF HeldMinute
<1>6. \A j, m : ClaimedMinute(j, m)' => ClaimedMinute(j, m)
  BY <1>1 DEF ClaimedMinute
<1>7. ASSUME NEW j, NEW m, clock <= m + KeepFor, ClaimedMinute(j, m)
      PROVE  ClaimedMinute(j, m)'
  <2>1. PICK c \in claims : c.job = j /\ c.minute = m
    BY <1>7 DEF ClaimedMinute
  <2>2. c \in claims'
    BY <1>1, <1>7, <2>1, PurgeSparesMinutes
  <2> QED
    BY <2>1, <2>2 DEF ClaimedMinute
<1>8. ASSUME NEW j \in Jobs, NEW m \in Minutes, HeldMinute(j, m)
      PROVE  clock <= m + KeepFor /\ ClaimedMinute(j, m)
  <2>1. PICK t \in tasks : t.job = j /\ t.minute = m /\ t.at = "claimed"
    BY <1>8 DEF HeldMinute
  <2> QED
    BY <1>8, <2>1 DEF ClaimInv, TasksAreYoung, MinutesAreClaimed, Executing
<1>9. \A t, u \in tasks' :
         t.at = "claimed" /\ u.at = "claimed" /\ t.job = u.job /\ t.minute = u.minute => t = u
  BY <1>2 DEF ClaimInv, MinutesAreClaimed
<1>10. MinutesAreClaimed'
  BY <1>1, <1>5, <1>6, <1>7, <1>8, <1>9 DEF ClaimInv, MinutesAreClaimed
<1> QED
  BY <1>3, <1>4, <1>10 DEF ClaimInv

(* Whoever finds no claim of its minute knows that the job was not run in  *)
(* it, that nobody gave it up and that nobody else holds it.               *)
LEMMA UntakenMinute ==
    ASSUME TypeOK, ClaimInv, NEW t \in tasks, t.at = "claiming", ~Taken(t)
    PROVE  /\ t.job \in Jobs /\ t.minute \in Minutes /\ t.minute <= clock
           /\ clock <= t.minute + KeepFor
           /\ ~ClaimedMinute(t.job, t.minute)
           /\ fired[t.job][t.minute] = 0 /\ <<t.job, t.minute>> \notin missed
           /\ ~HeldMinute(t.job, t.minute)
<1>1. t.job \in Jobs /\ t.minute \in Minutes /\ ~Executing(t)
  BY DEF TypeOK, Task, Executing
<1>2. ~ClaimedMinute(t.job, t.minute)
  BY DEF Taken, ClaimedMinute
<1>3. t.minute <= clock /\ clock <= t.minute + KeepFor
  BY <1>1 DEF ClaimInv, TasksAreYoung
<1>4. fired[t.job][t.minute] \in {0, 1}
  BY <1>1 DEF ClaimInv, MinutesAreClaimed
<1> QED
  BY <1>1, <1>2, <1>3, <1>4 DEF ClaimInv, MinutesAreClaimed

(* A new claim leaves one claim per job and minute. *)
LEMMA NewClaimIsUnique ==
    ASSUME TypeOK, ClaimInv, NEW t \in tasks, t.at = "claiming", ~Taken(t),
           claims' = claims \cup {ClaimOf(t)}, clock' = clock
    PROVE  /\ ClaimsAreUnique'
           /\ \A j, m : ClaimedMinute(j, m)'
                           <=> ClaimedMinute(j, m) \/ (j = t.job /\ m = t.minute)
<1>1. /\ ClaimOf(t).job = t.job /\ ClaimOf(t).minute = t.minute /\ ClaimOf(t).at = clock
  BY DEF ClaimOf
<1>2. t.minute <= clock /\ \A c \in claims : ~(c.job = t.job /\ c.minute = t.minute)
  BY UntakenMinute DEF ClaimedMinute
<1>3. clock \in Nat
  BY DurationAssumption DEF DurationAssumption, TypeOK
<1> HIDE DEF ClaimOf
<1>4. ClaimsAreUnique'
  BY <1>1, <1>2, <1>3 DEF ClaimInv, ClaimsAreUnique
<1>5. \A j, m : ClaimedMinute(j, m)' <=> ClaimedMinute(j, m) \/ (j = t.job /\ m = t.minute)
  BY <1>1 DEF ClaimedMinute
<1> QED
  BY <1>4, <1>5

(* The claim is answered: another instance has it, this one has it, or the *)
(* answer is lost.                                                         *)
LEMMA ClaimKeepsClaims ==
    ASSUME TypeOK, ClaimInv, NEW t \in tasks, Claim(t) \/ ClaimFails(t)
    PROVE  ClaimInv'
<1>0. /\ t \in Task /\ t.at = "claiming" /\ clock' = clock /\ fired' = fired
      /\ ~Executing(t) /\ t.job \in Jobs /\ t.minute \in Minutes
  BY DEF Claim, ClaimFails, TypeOK, history, Executing, Task
<1>1. CASE tasks' = tasks \ {t} /\ claims' = claims /\ missed' = missed
  <2>1. \A j, m : HeldMinute(j, m)' <=> HeldMinute(j, m)
    BY <1>0, <1>1 DEF HeldMinute
  <2>2. \A j, m : ClaimedMinute(j, m)' <=> ClaimedMinute(j, m)
    BY <1>1 DEF ClaimedMinute
  <2>3. \A v \in tasks' : v \in tasks
    BY <1>1
  <2>4. MinutesAreClaimed'
    BY <1>0, <1>1, <2>1, <2>2, <2>3 DEF ClaimInv, MinutesAreClaimed
  <2> QED
    BY <1>0, <1>1, <2>3, <2>4
    DEF ClaimInv, TasksAreYoung, ClaimsAreUnique, Executing
<1>2. CASE ~Taken(t) /\ claims' = claims \cup {ClaimOf(t)} /\ missed' = missed
           /\ Move(t, [t EXCEPT !.at = "claimed"])
  <2> DEFINE u == [t EXCEPT !.at = "claimed"]
  <2>1. u.at = "claimed" /\ u.job = t.job /\ u.minute = t.minute
    BY <1>0 DEF Task
  <2>2. tasks' = (tasks \ {t}) \cup {u}
    BY <1>2 DEF Move
  <2> HIDE DEF u
  <2>3. /\ t.minute <= clock /\ clock <= t.minute + KeepFor
        /\ fired[t.job][t.minute] = 0 /\ <<t.job, t.minute>> \notin missed
        /\ ~HeldMinute(t.job, t.minute)
    BY <1>0, <1>2, UntakenMinute
  <2>4. /\ ClaimsAreUnique'
        /\ \A j, m : ClaimedMinute(j, m)'
                        <=> ClaimedMinute(j, m) \/ (j = t.job /\ m = t.minute)
    BY <1>0, <1>2, NewClaimIsUnique
  <2>5. \A j, m : HeldMinute(j, m)' <=> HeldMinute(j, m) \/ (j = t.job /\ m = t.minute)
    BY <1>0, <2>1, <2>2 DEF HeldMinute
  <2>6. \A v, w \in tasks' :
           v.at = "claimed" /\ w.at = "claimed" /\ v.job = w.job /\ v.minute = w.minute => v = w
    BY <2>1, <2>2, <2>3 DEF HeldMinute, ClaimInv, MinutesAreClaimed
  <2>7. MinutesAreClaimed'
    BY <1>0, <1>2, <2>3, <2>4, <2>5, <2>6 DEF ClaimInv, MinutesAreClaimed
  <2>8. TasksAreYoung'
    BY <1>0, <2>1, <2>2, <2>3 DEF ClaimInv, TasksAreYoung, Executing
  <2> QED
    BY <2>4, <2>7, <2>8 DEF ClaimInv
<1>3. CASE /\ ~Taken(t) /\ claims' = claims \cup {ClaimOf(t)}
           /\ missed' = missed \cup {<<t.job, t.minute>>} /\ tasks' = tasks \ {t}
  <2>1. /\ fired[t.job][t.minute] = 0 /\ ~HeldMinute(t.job, t.minute)
    BY <1>0, <1>3, UntakenMinute
  <2>2. /\ ClaimsAreUnique'
        /\ \A j, m : ClaimedMinute(j, m)'
                        <=> ClaimedMinute(j, m) \/ (j = t.job /\ m = t.minute)
    BY <1>0, <1>3, NewClaimIsUnique
  <2>3. \A j, m : HeldMinute(j, m)' <=> HeldMinute(j, m)
    BY <1>0, <1>3 DEF HeldMinute
  <2>4. \A j, m : <<j, m>> \in missed' <=> <<j, m>> \in missed \/ (j = t.job /\ m = t.minute)
    BY <1>3
  <2>5. \A v \in tasks' : v \in tasks
    BY <1>3
  <2>6. MinutesAreClaimed'
    BY <1>0, <2>1, <2>2, <2>3, <2>4, <2>5 DEF ClaimInv, MinutesAreClaimed
  <2>7. TasksAreYoung'
    BY <1>0, <2>5 DEF ClaimInv, TasksAreYoung, Executing
  <2> QED
    BY <2>2, <2>6, <2>7 DEF ClaimInv
<1> QED
  BY <1>1, <1>2, <1>3 DEF Claim, ClaimFails, history

(* The holder of a claim runs the job or gives the minute up. *)
LEMMA StartKeepsClaims ==
    ASSUME TypeOK, ClaimInv, NEW t \in tasks, StartRun(t)
    PROVE  ClaimInv'
<1>0. /\ t \in Task /\ t.at = "claimed" /\ clock' = clock /\ claims' = claims
      /\ t.job \in Jobs /\ t.minute \in Minutes /\ ~Executing(t)
  BY DEF StartRun, TypeOK, Executing, Task
<1>1. HeldMinute(t.job, t.minute)
  BY <1>0 DEF HeldMinute
<1>2. /\ fired[t.job][t.minute] = 0 /\ <<t.job, t.minute>> \notin missed
      /\ ClaimedMinute(t.job, t.minute)
  BY <1>0, <1>1 DEF ClaimInv, MinutesAreClaimed
<1>3. \A v \in tasks' : ~Executing(v) => v \in tasks \ {t}
  <2> DEFINE u == [t EXCEPT !.at = "recording", !.started = clock]
  <2>1. Executing(u)
    BY <1>0 DEF Executing, Task
  <2>2. tasks' = tasks \ {t} \/ tasks' = (tasks \ {t}) \cup {u}
    BY DEF StartRun, Move
  <2> HIDE DEF u
  <2> QED
    BY <2>1, <2>2
<1>4. \A v \in tasks \ {t} : v \in tasks'
  BY DEF StartRun, Move
<1>5. \A j \in Jobs, m \in Minutes :
         HeldMinute(j, m)' <=> HeldMinute(j, m) /\ ~(j = t.job /\ m = t.minute)
  <2>1. \A v \in tasks \ {t} : v.at = "claimed" => ~(v.job = t.job /\ v.minute = t.minute)
    BY <1>0 DEF ClaimInv, MinutesAreClaimed
  <2>2. \A v \in tasks' : v.at = "claimed" => v \in tasks \ {t}
    BY <1>3 DEF Executing
  <2> QED
    BY <1>0, <1>4, <2>1, <2>2 DEF HeldMinute
<1>6. \A j, m : ClaimedMinute(j, m)' <=> ClaimedMinute(j, m)
  BY <1>0 DEF ClaimedMinute
<1>7. \A v, w \in tasks' :
         v.at = "claimed" /\ w.at = "claimed" /\ v.job = w.job /\ v.minute = w.minute => v = w
  BY <1>3 DEF Executing, ClaimInv, MinutesAreClaimed
<1>8. TasksAreYoung' /\ ClaimsAreUnique'
  BY <1>0, <1>3 DEF ClaimInv, TasksAreYoung, ClaimsAreUnique, Executing
<1>9. CASE fired' = fired /\ missed' = missed \cup {<<t.job, t.minute>>}
  <2>1. \A j, m : <<j, m>> \in missed' <=> <<j, m>> \in missed \/ (j = t.job /\ m = t.minute)
    BY <1>9
  <2>2. MinutesAreClaimed'
    BY <1>0, <1>2, <1>5, <1>6, <1>7, <1>9, <2>1 DEF ClaimInv, MinutesAreClaimed
  <2> QED
    BY <1>8, <2>2 DEF ClaimInv
<1>10. CASE fired' = [fired EXCEPT ![t.job][t.minute] = @ + 1] /\ missed' = missed
  <2>1. fired \in [Jobs -> [Minutes -> Nat]]
    BY DEF TypeOK
  <2>2. \A j \in Jobs, m \in Minutes :
           fired'[j][m] = IF j = t.job /\ m = t.minute THEN 1 ELSE fired[j][m]
    BY <1>0, <1>2, <1>10, <2>1
  <2>3. MinutesAreClaimed'
    BY <1>0, <1>2, <1>5, <1>6, <1>7, <1>10, <2>2 DEF ClaimInv, MinutesAreClaimed
  <2> QED
    BY <1>8, <2>3 DEF ClaimInv
<1> QED
  BY <1>9, <1>10 DEF StartRun

(* A process that dies gives up the minutes that it held. *)
LEMMA CrashKeepsClaims ==
    ASSUME TypeOK, ClaimInv, NEW i \in Instances, Crash(i)
    PROVE  ClaimInv'
<1>0. /\ clock' = clock /\ claims' = claims /\ fired' = fired
      /\ \A v : v \in tasks' <=> v \in tasks /\ v.inst # i
  BY DEF Crash, TasksOf
<1> DEFINE Lost(j, m) == \E t \in tasks : t.inst = i /\ t.at = "claimed" /\ t.job = j /\ t.minute = m
<1>1. \A j, m : <<j, m>> \in missed' <=> <<j, m>> \in missed \/ Lost(j, m)
  BY DEF Crash, TasksOf
<1>2. \A j, m : HeldMinute(j, m)' <=> HeldMinute(j, m) /\ ~Lost(j, m)
  BY <1>0 DEF HeldMinute, ClaimInv, MinutesAreClaimed
<1>3. \A j, m : Lost(j, m) => HeldMinute(j, m)
  BY DEF HeldMinute
<1>4. \A j, m : ClaimedMinute(j, m)' <=> ClaimedMinute(j, m)
  BY <1>0 DEF ClaimedMinute
<1>5. TasksAreYoung' /\ ClaimsAreUnique'
  BY <1>0 DEF ClaimInv, TasksAreYoung, ClaimsAreUnique, Executing
<1> HIDE DEF Lost
<1>6. MinutesAreClaimed'
  BY <1>0, <1>1, <1>2, <1>3, <1>4 DEF ClaimInv, MinutesAreClaimed
<1> QED
  BY <1>5, <1>6 DEF ClaimInv

(* Time passes, but not for long while a claim is not answered. *)
LEMMA MinuteKeepsClaims ==
    ASSUME TypeOK, ClaimInv, PassMinute
    PROVE  ClaimInv'
<1>0. /\ clock \in Nat /\ KeepFor \in Nat /\ \A m \in Minutes : m \in Nat
      /\ clock' = clock + 1 /\ claims' = claims /\ tasks' = tasks
      /\ fired' = fired /\ missed' = missed
  BY DurationAssumption
  DEF DurationAssumption, TypeOK, Minutes, PassMinute, history
<1>1. TasksAreYoung'
  <2> SUFFICES ASSUME NEW t \in tasks, ~Executing(t)
               PROVE  t.minute <= clock + 1 /\ clock + 1 <= t.minute + KeepFor
    BY <1>0 DEF TasksAreYoung, Executing
  <2>1. t.minute \in Nat
    BY <1>0 DEF TypeOK
  <2>2. t.minute <= clock /\ clock < t.minute + KeepFor
    BY DEF ClaimInv, TasksAreYoung, PassMinute
  <2> QED
    BY <1>0, <2>1, <2>2
<1>2. ClaimsAreUnique'
  <2>1. \A c \in claims : c.at \in Nat
    BY DEF TypeOK, PeriodClaim
  <2> QED
    BY <1>0, <2>1 DEF ClaimInv, ClaimsAreUnique
<1>3. \A j, m : /\ HeldMinute(j, m)' <=> HeldMinute(j, m)
                /\ ClaimedMinute(j, m)' <=> ClaimedMinute(j, m)
  BY <1>0 DEF HeldMinute, ClaimedMinute
<1>4. \A m \in Minutes : clock' <= m + KeepFor => clock <= m + KeepFor
  BY <1>0
<1>5. MinutesAreClaimed'
  BY <1>0, <1>3, <1>4 DEF ClaimInv, MinutesAreClaimed
<1> QED
  BY <1>1, <1>2, <1>5 DEF ClaimInv

(* Every step keeps the claims in order. *)
LEMMA ClaimsPreserved ==
    ASSUME TypeOK, ClaimInv, [Next]_vars
    PROVE  ClaimInv'
<1>1. ASSUME NEW t \in tasks,
             RecordRun(t) \/ MarkJob(t) \/ CloseRun(t)
                \/ \E outcome \in {"success", "failed"} : EndRunner(t, outcome)
      PROVE  ClaimInv'
  <2>1. PICK u : Move(t, u) /\ Executing(t) /\ Executing(u)
    BY <1>1, RunningStep
  <2>2. clock' = clock /\ claims' = claims /\ history' = history
    BY <1>1 DEF RecordRun, MarkJob, CloseRun, EndRunner, history
  <2> QED
    BY <2>1, <2>2, OtherStepsKeepClaims DEF Move
<1>2. ASSUME NEW t \in tasks, Leave(t) PROVE ClaimInv'
  <2>1. /\ Executing(t) /\ tasks' = tasks \ {t}
        /\ clock' = clock /\ claims' = claims /\ history' = history
    BY <1>2 DEF Leave, Executing, history
  <2> QED
    BY <2>1, OtherStepsKeepClaims
<1>3. ASSUME NEW i \in Instances, NEW j \in Jobs, RunJobNow(i, j) PROVE ClaimInv'
  <2> DEFINE u == [inst |-> i, job |-> j, minute |-> None, at |-> "recording",
                   started |-> clock, row |-> 0, outcome |-> "running"]
  <2>1. tasks' = tasks \cup {u} /\ Executing(u)
    BY <1>3 DEF RunJobNow, Executing
  <2> HIDE DEF u
  <2>2. clock' = clock /\ claims' = claims /\ history' = history
    BY <1>3 DEF RunJobNow, history
  <2> QED
    BY <2>1, <2>2, OtherStepsKeepClaims
<1>4. CASE UNCHANGED vars
           \/ \E i \in Instances : StartScheduler(i) \/ ReapRuns(i) \/ ReapJobs(i)
  BY <1>4, OtherStepsKeepClaims DEF vars, StartScheduler, ReapRuns, ReapJobs, history
<1> QED
  BY <1>1, <1>2, <1>3, <1>4, TickKeepsClaims, ClaimKeepsClaims, StartKeepsClaims,
     CrashKeepsClaims, MinuteKeepsClaims
  DEF Next, Step

-----------------------------------------------------------------------------
(* The rows of runs tell the truth *)

RowInv == RowsAndTasks /\ RecoveriesLookBack

(* A task that moves on may write its own row and leaves the others alone. *)
LEMMA MoveKeepsRows ==
    ASSUME TypeOK, RowInv, NEW t \in tasks, NEW u, Move(t, u), u.row = t.row,
           clock' = clock, Len(runs') = Len(runs), DOMAIN runs' = DOMAIN runs,
           \A k \in DOMAIN runs : k # t.row => runs'[k] = runs[k] /\ fate'[k] = fate[k],
           TaskHasRow(u)', t.row # 0 => RowHasTask(t.row)'
    PROVE  RowsAndTasks'
<1>1. /\ \A v : v \in tasks' <=> (v \in tasks /\ v # t) \/ v = u
      /\ DOMAIN runs = 1 .. Len(runs) /\ Len(runs) \in Nat
  BY DEF Move, TypeOK
<1>2. ASSUME NEW v \in tasks, v # t PROVE TaskHasRow(v)'
  <2>1. TaskHasRow(v) /\ v.row \in 0 .. Len(runs)
    BY DEF RowInv, RowsAndTasks, TaskHasRow
  <2>2. v.row # 0 => v.row # t.row /\ v.row \in DOMAIN runs
    BY <1>1, <1>2, <2>1 DEF RowInv, RowsAndTasks
  <2>3. v.row # 0 => runs'[v.row] = runs[v.row] /\ fate'[v.row] = fate[v.row]
    BY <2>2
  <2> QED
    BY <2>1, <2>3 DEF TaskHasRow, Executing
<1>3. \A v, w \in tasks' : v.row = w.row /\ v.row # 0 => v = w
  BY <1>1 DEF RowInv, RowsAndTasks
<1>4. ASSUME NEW k \in DOMAIN runs, k # t.row PROVE RowHasTask(k)'
  <2>1. RowHasTask(k) /\ runs'[k] = runs[k] /\ fate'[k] = fate[k]
    BY <1>4 DEF RowInv, RowsAndTasks
  <2>2. \A v \in tasks : v.row = k => v \in tasks'
    BY <1>1, <1>4
  <2> QED
    BY <2>1, <2>2 DEF RowHasTask
<1>5. \A k \in DOMAIN runs' : RowHasTask(k)'
  <2> SUFFICES ASSUME NEW k \in DOMAIN runs PROVE RowHasTask(k)'
    OBVIOUS
  <2>1. CASE k # t.row
    BY <1>4, <2>1
  <2>2. CASE k = t.row
    <3>1. t.row # 0
      BY <1>1, <2>2
    <3> QED
      BY <2>2, <3>1
  <2> QED
    BY <2>1, <2>2
<1> QED
  BY <1>1, <1>2, <1>3, <1>5 DEF RowsAndTasks

(* Tasks that have no row, or have closed it, may end. *)
LEMMA EndKeepsRows ==
    ASSUME TypeOK, RowInv, clock' = clock, runs' = runs, fate' = fate, tasks' \subseteq tasks,
           \A t \in tasks \ tasks' : t.row = 0 \/ t.at = "leaving"
    PROVE  RowsAndTasks'
<1>1. \A t \in tasks' : TaskHasRow(t)'
  <2> SUFFICES ASSUME NEW t \in tasks' PROVE TaskHasRow(t)'
    OBVIOUS
  <2>1. TaskHasRow(t)
    BY DEF RowInv, RowsAndTasks
  <2> QED
    BY <2>1 DEF TaskHasRow, Executing
<1>2. ASSUME NEW k \in DOMAIN runs PROVE RowHasTask(k)'
  <2>1. k # 0 /\ RowHasTask(k)
    BY DEF TypeOK, RowInv, RowsAndTasks
  <2>2. \A t \in tasks : t.row = k /\ t.at # "leaving" => t \in tasks'
    BY <2>1
  <2> QED
    BY <2>1, <2>2 DEF RowHasTask
<1> QED
  BY <1>1, <1>2 DEF RowInv, RowsAndTasks

(* New tasks have no row. *)
LEMMA NewTasksKeepRows ==
    ASSUME TypeOK, RowInv, clock' = clock, runs' = runs, fate' = fate, tasks \subseteq tasks',
           \A t \in tasks' \ tasks : TaskHasRow(t) /\ t.row = 0
    PROVE  RowsAndTasks'
<1>1. \A t \in tasks' : TaskHasRow(t)'
  <2> SUFFICES ASSUME NEW t \in tasks' PROVE TaskHasRow(t)'
    OBVIOUS
  <2>1. TaskHasRow(t)
    BY DEF RowInv, RowsAndTasks
  <2> QED
    BY <2>1 DEF TaskHasRow, Executing
<1>2. ASSUME NEW k \in DOMAIN runs PROVE RowHasTask(k)'
  <2>1. RowHasTask(k)
    BY DEF RowInv, RowsAndTasks
  <2> QED
    BY <2>1 DEF RowHasTask
<1>3. \A t, u \in tasks' : t.row = u.row /\ t.row # 0 => t = u
  BY DEF RowInv, RowsAndTasks
<1> QED
  BY <1>1, <1>2, <1>3 DEF RowsAndTasks

(* A task that starts, records, marks or ends its runner, or closes its    *)
(* row, in this order, leaves the rows truthful.                           *)
LEMMA StepKeepsRows ==
    ASSUME TypeOK, RowInv, NEW t \in tasks, Step(t)
    PROVE  RowsAndTasks'
<1>0. /\ t \in Task /\ TaskHasRow(t) /\ clock \in Nat /\ MaxRun \in Nat
      /\ DOMAIN runs = 1 .. Len(runs) /\ DOMAIN fate = 1 .. Len(runs) /\ Len(runs) \in Nat
      /\ runs \in Seq(Run) /\ fate \in Seq(Fate)
  BY DurationAssumption DEF DurationAssumption, TypeOK, RowInv, RowsAndTasks
<1>1. t.row # 0 => t.row \in DOMAIN runs /\ RowHasTask(t.row)
  BY <1>0 DEF TaskHasRow, RowInv, RowsAndTasks
<1>2. ASSUME t.at \in {"claiming", "claimed"}, tasks' = tasks \ {t},
             clock' = clock, records' = records
      PROVE  RowsAndTasks'
  <2>1. t.row = 0
    BY <1>0, <1>2 DEF TaskHasRow
  <2> QED
    BY <1>2, <2>1, EndKeepsRows DEF records
<1>3. CASE Claim(t) \/ ClaimFails(t)
  <2>1. t.at = "claiming" /\ clock' = clock /\ records' = records
    BY <1>3 DEF Claim, ClaimFails, records
  <2>2. CASE tasks' = tasks \ {t}
    BY <1>2, <2>1, <2>2
  <2>3. CASE Move(t, [t EXCEPT !.at = "claimed"])
    <3> DEFINE u == [t EXCEPT !.at = "claimed"]
    <3>1. u.at = "claimed" /\ u.row = t.row /\ t.row = 0
      BY <1>0, <2>1 DEF Task, TaskHasRow
    <3>2. Move(t, u)
      BY <2>3
    <3> HIDE DEF u
    <3>3. TaskHasRow(u)'
      BY <1>0, <2>1, <3>1 DEF TaskHasRow, Executing, records
    <3> QED
      BY <2>1, <3>1, <3>2, <3>3, MoveKeepsRows DEF records
  <2> QED
    BY <1>3, <2>2, <2>3 DEF Claim, ClaimFails
<1>4. CASE StartRun(t)
  <2>1. t.at = "claimed" /\ clock' = clock /\ records' = records
    BY <1>4 DEF StartRun, records
  <2>2. CASE tasks' = tasks \ {t}
    BY <1>2, <2>1, <2>2
  <2>3. CASE Move(t, [t EXCEPT !.at = "recording", !.started = clock])
    <3>0. PICK u : u = [t EXCEPT !.at = "recording", !.started = clock]
      OBVIOUS
    <3>1. u.at = "recording" /\ u.row = t.row /\ t.row = 0 /\ u.started = clock
      BY <1>0, <2>1, <3>0 DEF Task, TaskHasRow
    <3>2. Move(t, u)
      BY <2>3, <3>0
    <3>3. TaskHasRow(u)'
      BY <1>0, <2>1, <3>1 DEF TaskHasRow, Executing, records
    <3> QED
      BY <2>1, <3>1, <3>2, <3>3, MoveKeepsRows DEF records
  <2> QED
    BY <1>4, <2>2, <2>3 DEF StartRun
<1>5. CASE RecordRun(t)
  <2>1. /\ t.at = "recording" /\ t.row = 0 /\ clock' = clock
        /\ t.started <= clock /\ clock <= t.started + MaxRun
    BY <1>0, <1>5 DEF RecordRun, TaskHasRow, Executing
  <2>2. CASE /\ Move(t, [t EXCEPT !.at = "marking"]) /\ runs' = runs /\ fate' = fate
    <3> DEFINE u == [t EXCEPT !.at = "marking"]
    <3>1. u.at = "marking" /\ u.row = 0 /\ u.started = t.started
      BY <1>0, <2>1 DEF Task
    <3>2. Move(t, u)
      BY <2>2
    <3> HIDE DEF u
    <3>3. TaskHasRow(u)'
      BY <1>0, <2>1, <2>2, <3>1 DEF TaskHasRow, Executing
    <3> QED
      BY <2>1, <2>2, <3>1, <3>2, <3>3, MoveKeepsRows
  <2>3. CASE /\ runs' = Append(runs, [job |-> t.job, status |-> "running",
                                      startedAt |-> t.started])
             /\ fate' = Append(fate, "open")
             /\ Move(t, [t EXCEPT !.at = "marking", !.row = Len(runs) + 1])
    <3>0. PICK n \in Nat : n = Len(runs) + 1
      BY <1>0
    <3> DEFINE u == [t EXCEPT !.at = "marking", !.row = n]
               row == [job |-> t.job, status |-> "running", startedAt |-> t.started]
    <3>1. u.at = "marking" /\ u.row = n /\ u.started = t.started
      BY <1>0 DEF Task
    <3>2. tasks' = (tasks \ {t}) \cup {u}
      BY <2>3, <3>0 DEF Move
    <3>3. row.status = "running" /\ row.startedAt = t.started
      OBVIOUS
    <3>4. row \in Run
      BY <1>0 DEF Run, Task
    <3> HIDE DEF row, u
    <3>5. /\ Len(runs') = n /\ DOMAIN runs' = 1 .. n /\ Len(fate) = Len(runs)
          /\ runs'[n] = row /\ \A k \in 1 .. Len(runs) : runs'[k] = runs[k]
      BY <1>0, <2>3, <3>0, <3>4 DEF row, TypeOK
    <3>6. fate'[n] = "open" /\ \A k \in 1 .. Len(runs) : fate'[k] = fate[k]
      BY <1>0, <2>3, <3>0, <3>5
    <3>7. TaskHasRow(u)'
      BY <1>0, <2>1, <3>0, <3>1, <3>3, <3>5, <3>6 DEF TaskHasRow, Executing
    <3>8. ASSUME NEW v \in tasks, v # t PROVE TaskHasRow(v)' /\ v.row \in 0 .. Len(runs)
      <4>1. TaskHasRow(v) /\ v.row \in 0 .. Len(runs)
        BY DEF RowInv, RowsAndTasks, TaskHasRow
      <4>2. v.row \in 0 .. n
        BY <1>0, <3>0, <4>1
      <4>3. v.row # 0 => runs'[v.row] = runs[v.row] /\ fate'[v.row] = fate[v.row]
        BY <1>0, <3>5, <3>6, <4>1
      <4> QED
        BY <2>1, <3>5, <4>1, <4>2, <4>3 DEF TaskHasRow, Executing
    <3>9. \A v, w \in tasks' : v.row = w.row /\ v.row # 0 => v = w
      BY <1>0, <3>0, <3>1, <3>2, <3>8 DEF RowInv, RowsAndTasks
    <3>10. ASSUME NEW k \in 1 .. Len(runs) PROVE RowHasTask(k)'
      <4>1. RowHasTask(k) /\ runs'[k] = runs[k] /\ fate'[k] = fate[k]
        BY <1>0, <3>5, <3>6 DEF RowInv, RowsAndTasks
      <4>2. \A v \in tasks : v.row = k => v \in tasks'
        BY <1>0, <2>1, <3>2
      <4> QED
        BY <4>1, <4>2 DEF RowHasTask
    <3>11. RowHasTask(n)'
      <4>1. u \in tasks' /\ u.row = n /\ u.at # "leaving"
        BY <3>1, <3>2
      <4> QED
        BY <3>0, <3>3, <3>5, <4>1 DEF RowHasTask
    <3>12. \A k \in DOMAIN runs' : RowHasTask(k)'
      BY <1>0, <3>0, <3>5, <3>10, <3>11
    <3> QED
      BY <3>2, <3>7, <3>8, <3>9, <3>12 DEF RowsAndTasks
  <2> QED
    BY <1>5, <2>2, <2>3 DEF RecordRun
<1>6. CASE MarkJob(t)
  <2> DEFINE u == [t EXCEPT !.at = "running"]
  <2>1. u.at = "running" /\ u.row = t.row /\ u.started = t.started
    BY <1>0 DEF Task
  <2>2. t.at = "marking" /\ Move(t, u) /\ clock' = clock /\ runs' = runs /\ fate' = fate
    BY <1>6 DEF MarkJob
  <2> HIDE DEF u
  <2>3. TaskHasRow(u)'
    BY <1>0, <2>1, <2>2 DEF TaskHasRow, Executing
  <2>4. t.row # 0 => RowHasTask(t.row)'
    <3>1. u \in tasks'
      BY <2>2 DEF Move
    <3> QED
      BY <1>1, <2>1, <2>2, <3>1 DEF RowHasTask
  <2> QED
    BY <2>1, <2>2, <2>3, <2>4, MoveKeepsRows
<1>7. ASSUME NEW outcome \in {"success", "failed"}, EndRunner(t, outcome) PROVE RowsAndTasks'
  <2> DEFINE u == [t EXCEPT !.at = "closing", !.outcome = outcome]
  <2>1. u.at = "closing" /\ u.row = t.row /\ u.started = t.started /\ u.outcome = outcome
    BY <1>0 DEF Task
  <2>2. /\ t.at = "running" /\ Move(t, u) /\ clock' = clock /\ runs' = runs
        /\ fate' = [k \in DOMAIN fate |-> IF k = t.row THEN outcome ELSE fate[k]]
    BY <1>7 DEF EndRunner
  <2> HIDE DEF u
  <2>3. /\ t.row # 0 => fate'[t.row] = outcome
        /\ \A k \in DOMAIN runs : k # t.row => fate'[k] = fate[k]
    BY <1>0, <1>1, <2>2
  <2>4. TaskHasRow(u)'
    BY <1>0, <2>1, <2>2, <2>3 DEF TaskHasRow, Executing
  <2>5. t.row # 0 => RowHasTask(t.row)'
    <3>1. u \in tasks'
      BY <2>2 DEF Move
    <3>2. t.row # 0 => runs'[t.row].status = "running"
      BY <1>0, <2>2 DEF TaskHasRow
    <3> QED
      BY <2>1, <3>1, <3>2 DEF RowHasTask
  <2> QED
    BY <2>1, <2>2, <2>3, <2>4, <2>5, MoveKeepsRows
<1>8. CASE CloseRun(t)
  <2> DEFINE u == [t EXCEPT !.at = "leaving"]
  <2>1. /\ u.at = "leaving" /\ u.row = t.row /\ u.started = t.started
        /\ u.outcome = t.outcome
    BY <1>0 DEF Task
  <2>2. /\ t.at = "closing" /\ Move(t, u) /\ clock' = clock
        /\ t.outcome \in {"success", "failed"}
        /\ t.row # 0 => fate[t.row] = t.outcome /\ runs[t.row].status = "running"
    BY <1>0, <1>8 DEF CloseRun, TaskHasRow, Task
  <2> HIDE DEF u
  <2>3. CASE /\ runs' = [k \in DOMAIN runs |->
                   IF k = t.row THEN [runs[k] EXCEPT !.status = t.outcome] ELSE runs[k]]
             /\ fate' = fate
    <3>1. /\ DOMAIN runs' = DOMAIN runs
          /\ \A k \in DOMAIN runs : k # t.row => runs'[k] = runs[k]
          /\ t.row # 0 => runs'[t.row] = [runs[t.row] EXCEPT !.status = t.outcome]
      BY <1>1, <2>3
    <3>2. t.row # 0 => /\ runs'[t.row].status = t.outcome
                       /\ runs'[t.row].startedAt = runs[t.row].startedAt
      <4>1. t.row # 0 => runs[t.row] \in Run
        BY <1>0, <1>1
      <4> QED
        BY <3>1, <4>1 DEF Run
    <3>3. Len(runs') = Len(runs)
      <4>1. runs' = [k \in 1 .. Len(runs) |-> runs'[k]]
        BY <1>0, <2>3
      <4> QED
        BY <1>0, <4>1
    <3>4. TaskHasRow(u)'
      BY <1>0, <2>1, <2>2, <2>3, <3>2, <3>3 DEF TaskHasRow, Executing
    <3>5. t.row # 0 => RowHasTask(t.row)'
      BY <2>2, <2>3, <3>2 DEF RowHasTask
    <3> QED
      BY <2>1, <2>2, <2>3, <3>1, <3>3, <3>4, <3>5, MoveKeepsRows
  <2>4. CASE /\ runs' = runs
             /\ fate' = [k \in DOMAIN fate |-> IF k = t.row THEN "lost" ELSE fate[k]]
    <3>1. /\ t.row # 0 => fate'[t.row] = "lost"
          /\ \A k \in DOMAIN runs : k # t.row => fate'[k] = fate[k]
      BY <1>0, <1>1, <2>4
    <3>2. TaskHasRow(u)'
      BY <1>0, <2>1, <2>2, <2>4 DEF TaskHasRow, Executing
    <3>3. t.row # 0 => RowHasTask(t.row)'
      BY <2>2, <2>4, <3>1 DEF RowHasTask
    <3> QED
      BY <2>1, <2>2, <2>4, <3>1, <3>2, <3>3, MoveKeepsRows
  <2> QED
    BY <1>8, <2>3, <2>4 DEF CloseRun
<1>9. CASE Leave(t)
  <2>1. /\ t.at = "leaving" /\ tasks' = tasks \ {t} /\ clock' = clock
        /\ runs' = runs /\ fate' = fate
    BY <1>9 DEF Leave
  <2> QED
    BY <2>1, EndKeepsRows
<1> QED
  BY <1>3, <1>4, <1>5, <1>6, <1>7, <1>8, <1>9 DEF Step

(* The runners of a process that dies die with it, and nobody else's. *)
LEMMA CrashKeepsRows ==
    ASSUME TypeOK, RowInv, NEW i \in Instances, Crash(i)
    PROVE  RowsAndTasks'
<1> DEFINE Dies(k) == fate[k] # "lost" /\ \E t \in TasksOf(i) : t.row = k /\ t.at # "leaving"
<1>0. /\ clock' = clock /\ runs' = runs /\ DOMAIN fate = DOMAIN runs /\ DOMAIN runs = 1 .. Len(runs)
      /\ Len(runs) \in Nat
      /\ \A v : v \in tasks' <=> v \in tasks /\ v.inst # i
      /\ \A k \in DOMAIN runs : fate'[k] = IF Dies(k) THEN "died" ELSE fate[k]
  BY DEF Crash, TasksOf, TypeOK
<1>1. \A k : Dies(k) <=> fate[k] # "lost"
                /\ \E t \in tasks : t.inst = i /\ t.row = k /\ t.at # "leaving"
  BY DEF TasksOf
<1> HIDE DEF Dies
<1>2. ASSUME NEW v \in tasks, v.inst # i PROVE TaskHasRow(v)'
  <2>1. TaskHasRow(v) /\ v.row \in 0 .. Len(runs)
    BY DEF RowInv, RowsAndTasks, TaskHasRow
  <2>2. v.row # 0 => ~Dies(v.row) /\ v.row \in DOMAIN runs
    BY <1>0, <1>1, <1>2, <2>1 DEF RowInv, RowsAndTasks
  <2>3. v.row # 0 => fate'[v.row] = fate[v.row]
    BY <1>0, <2>2
  <2> QED
    BY <1>0, <2>1, <2>3 DEF TaskHasRow, Executing
<1>3. ASSUME NEW k \in DOMAIN runs PROVE RowHasTask(k)'
  <2>1. RowHasTask(k) /\ k # 0
    BY <1>0 DEF RowInv, RowsAndTasks
  <2>2. Dies(k) => runs[k].status = "running"
    <3> SUFFICES ASSUME Dies(k) PROVE runs[k].status = "running"
      OBVIOUS
    <3>1. PICK t \in tasks : t.row = k /\ t.at # "leaving"
      BY <1>1
    <3>2. TaskHasRow(t)
      BY DEF RowInv, RowsAndTasks
    <3> QED
      BY <2>1, <3>1, <3>2 DEF TaskHasRow
  <2>3. \A t \in tasks : t.row = k /\ t.at # "leaving" =>
           t \in tasks' \/ Dies(k) \/ fate[k] = "lost"
    BY <1>0, <1>1
  <2> QED
    BY <1>0, <2>1, <2>2, <2>3 DEF RowHasTask
<1>4. \A v, w \in tasks' : v.row = w.row /\ v.row # 0 => v = w
  BY <1>0 DEF RowInv, RowsAndTasks
<1> QED
  BY <1>0, <1>2, <1>3, <1>4 DEF RowsAndTasks

(* A recovery fails no row of a run that is alive anywhere: such a row is  *)
(* never as old as Stale, because runs do not last that long.              *)
LEMMA ReaperSparesTheLiving ==
    ASSUME TypeOK, RowInv, NEW i \in Instances, Reaping(i, "runs"), NEW k \in DOMAIN runs,
           Orphaned(runs[k], runs[k].startedAt, reaping[i].since)
    PROVE  fate[k] \in {"died", "lost"}
<1>1. /\ MaxRun \in Nat /\ Stale \in Nat /\ MaxRun <= Stale /\ clock \in Nat
      /\ runs[k].startedAt \in Nat /\ k # 0
  <2>1. runs[k] \in Run /\ k # 0
    BY DEF TypeOK
  <2> QED
    BY <2>1, DurationAssumption DEF DurationAssumption, TypeOK, Run
<1>2. reaping[i].since \in Nat /\ reaping[i].since <= clock
  BY DEF Reaping, TypeOK, Recovery, RowInv, RecoveriesLookBack
<1>3. ASSUME NEW t \in tasks, t.row = k, t.at # "leaving" PROVE FALSE
  <2>1. TaskHasRow(t)
    BY DEF RowInv, RowsAndTasks
  <2>2. Executing(t) /\ runs[k].startedAt = t.started /\ clock <= t.started + MaxRun
    BY <1>1, <1>3, <2>1 DEF TaskHasRow, Executing
  <2>3. runs[k].startedAt + Stale < reaping[i].since
    BY DEF Orphaned
  <2> QED
    BY <1>1, <1>2, <2>2, <2>3
<1>4. RowHasTask(k) /\ runs[k].status = "running"
  BY DEF RowInv, RowsAndTasks, Orphaned
<1> QED
  BY <1>3, <1>4 DEF RowHasTask

LEMMA ReapingKeepsRows ==
    ASSUME TypeOK, RowInv, NEW i \in Instances, ReapRuns(i)
    PROVE  RowsAndTasks'
<1>0. /\ clock' = clock /\ tasks' = tasks /\ fate' = fate /\ Reaping(i, "runs")
      /\ runs \in Seq(Run) /\ DOMAIN runs = 1 .. Len(runs) /\ Len(runs) \in Nat
  BY DEF ReapRuns, TypeOK
<1>1. CASE runs' = runs
  BY <1>0, <1>1, EndKeepsRows
<1>2. CASE runs' = [k \in DOMAIN runs |->
              IF Orphaned(runs[k], runs[k].startedAt, reaping[i].since)
              THEN [runs[k] EXCEPT !.status = "failed"] ELSE runs[k]]
  <2> DEFINE Dead(k) == Orphaned(runs[k], runs[k].startedAt, reaping[i].since)
  <2>1. \A k \in DOMAIN runs : Dead(k) => fate[k] \in {"died", "lost"}
    BY <1>0, ReaperSparesTheLiving
  <2>2. /\ DOMAIN runs' = DOMAIN runs /\ Len(runs') = Len(runs)
        /\ \A k \in DOMAIN runs :
              runs'[k] = IF Dead(k) THEN [runs[k] EXCEPT !.status = "failed"] ELSE runs[k]
    <3>1. runs' = [k \in 1 .. Len(runs) |-> runs'[k]]
      BY <1>0, <1>2
    <3> QED
      BY <1>0, <1>2, <3>1
  <2> HIDE DEF Dead
  <2>3. \A k \in DOMAIN runs :
           /\ runs'[k].startedAt = runs[k].startedAt
           /\ runs'[k].status = IF Dead(k) THEN "failed" ELSE runs[k].status
    <3>1. \A k \in DOMAIN runs : runs[k] \in Run
      BY <1>0
    <3> QED
      BY <2>2, <3>1 DEF Run
  <2>4. ASSUME NEW t \in tasks PROVE TaskHasRow(t)'
    <3>1. TaskHasRow(t) /\ t.row \in 0 .. Len(runs)
      BY DEF RowInv, RowsAndTasks, TaskHasRow
    <3>2. t.row # 0 /\ t.at # "leaving" => ~Dead(t.row)
      <4> SUFFICES ASSUME t.row # 0, t.at # "leaving", Dead(t.row) PROVE FALSE
        OBVIOUS
      <4>1. t.row \in DOMAIN runs
        BY <1>0, <3>1
      <4>2. fate[t.row] \in {"open", "success", "failed"}
        BY <3>1 DEF TaskHasRow, TypeOK, Task
      <4> QED
        BY <2>1, <4>1, <4>2
    <3>3. t.row # 0 => t.row \in DOMAIN runs
      BY <1>0, <3>1
    <3> QED
      BY <1>0, <2>2, <2>3, <3>1, <3>2, <3>3 DEF TaskHasRow, Executing
  <2>5. ASSUME NEW k \in DOMAIN runs PROVE RowHasTask(k)'
    <3>1. RowHasTask(k)
      BY DEF RowInv, RowsAndTasks
    <3> QED
      BY <1>0, <2>1, <2>3, <3>1 DEF RowHasTask
  <2> QED
    BY <1>0, <2>2, <2>4, <2>5 DEF RowsAndTasks, RowInv
<1> QED
  BY <1>1, <1>2 DEF ReapRuns, Reaping, Lose

(* Every step keeps the rows of runs truthful. *)
LEMMA RowsPreserved ==
    ASSUME TypeOK, RowInv, [Next]_vars
    PROVE  RowInv'
<1>0. clock \in Nat /\ MaxRun \in Nat
  BY DurationAssumption DEF DurationAssumption, TypeOK
<1>1. RowsAndTasks'
  <2>1. ASSUME NEW i \in Instances, Tick(i) PROVE RowsAndTasks'
    <3>1. /\ clock' = clock /\ runs' = runs /\ fate' = fate /\ tasks \subseteq tasks'
          /\ \A t \in tasks' \ tasks : t.at = "claiming" /\ t.row = 0
      BY <2>1 DEF Tick, records
    <3>2. Len(runs) \in Nat
      BY DEF TypeOK
    <3> QED
      BY <3>1, <3>2, NewTasksKeepRows DEF TaskHasRow, Executing
  <2>2. ASSUME NEW i \in Instances, NEW j \in Jobs, RunJobNow(i, j) PROVE RowsAndTasks'
    <3> DEFINE u == [inst |-> i, job |-> j, minute |-> None, at |-> "recording",
                     started |-> clock, row |-> 0, outcome |-> "running"]
    <3>1. clock' = clock /\ runs' = runs /\ fate' = fate /\ tasks' = tasks \cup {u}
      BY <2>2 DEF RunJobNow, records
    <3>2. Len(runs) \in Nat
      BY DEF TypeOK
    <3>3. TaskHasRow(u) /\ u.row = 0
      BY <1>0, <3>2 DEF TaskHasRow, Executing
    <3> HIDE DEF u
    <3> QED
      BY <3>1, <3>3, NewTasksKeepRows
  <2>3. CASE PassMinute
    <3>1. clock' = clock + 1 /\ tasks' = tasks /\ runs' = runs /\ fate' = fate
      BY <2>3 DEF PassMinute, records
    <3>2. ASSUME NEW t \in tasks PROVE TaskHasRow(t)'
      <4>1. TaskHasRow(t) /\ t.started \in Nat
        BY DEF RowInv, RowsAndTasks, TypeOK, Task
      <4>2. Executing(t) => clock < t.started + MaxRun
        BY <2>3 DEF PassMinute
      <4> QED
        BY <1>0, <3>1, <4>1, <4>2 DEF TaskHasRow, Executing
    <3> QED
      BY <3>1, <3>2 DEF RowInv, RowsAndTasks, RowHasTask
  <2>4. CASE UNCHANGED vars \/ \E i \in Instances : StartScheduler(i) \/ ReapJobs(i)
    BY <2>4, EndKeepsRows DEF vars, StartScheduler, ReapJobs, records
  <2> QED
    BY <2>1, <2>2, <2>3, <2>4, StepKeepsRows, CrashKeepsRows, ReapingKeepsRows DEF Next
<1>2. RecoveriesLookBack'
  <2>1. \A k \in Instances : reaping[k] # None =>
           reaping[k].since <= clock /\ reaping[k] \in Recovery
    BY DEF RowInv, RecoveriesLookBack, TypeOK
  <2>2. clock' = clock \/ clock' = clock + 1
    BY DEF Next, PassMinute, Tick, Crash, StartScheduler, ReapRuns, ReapJobs, RunJobNow, Step,
       Claim, ClaimFails, StartRun, RecordRun, MarkJob, EndRunner, CloseRun, Leave, vars
  <2>3. ASSUME reaping' = reaping PROVE RecoveriesLookBack'
    BY <1>0, <2>1, <2>2, <2>3 DEF RecoveriesLookBack, Recovery
  <2>4. ASSUME NEW i \in Instances, Crash(i) \/ StartScheduler(i) \/ ReapRuns(i) \/ ReapJobs(i)
        PROVE  RecoveriesLookBack'
    <3>1. reaping \in [Instances -> Recovery \cup {None}] /\ clock' = clock
      BY <2>4 DEF TypeOK, Crash, StartScheduler, ReapRuns, ReapJobs
    <3>2. ReapRuns(i) => [reaping[i] EXCEPT !.what = "jobs"].since = reaping[i].since
                         /\ reaping[i].since <= clock
      BY <2>1 DEF ReapRuns, Reaping, Recovery
    <3>3. \A k \in Instances \ {i} : reaping'[k] = reaping[k]
      BY <2>4, <3>1 DEF Crash, StartScheduler, ReapRuns, ReapJobs
    <3>4. reaping'[i] # None => reaping'[i].since <= clock
      <4>1. CASE ReapRuns(i)
        BY <1>0, <3>1, <3>2, <4>1 DEF ReapRuns
      <4>2. CASE StartScheduler(i)
        <5>1. reaping'[i].since = clock
          BY <3>1, <4>2 DEF StartScheduler
        <5> QED
          BY <1>0, <5>1
      <4>3. CASE Crash(i) \/ ReapJobs(i)
        BY <3>1, <4>3 DEF Crash, ReapJobs
      <4> QED
        BY <2>4, <4>1, <4>2, <4>3
    <3> QED
      BY <2>1, <3>1, <3>3, <3>4 DEF RecoveriesLookBack
  <2> QED
    BY <2>3, <2>4
    DEF Next, PassMinute, Tick, RunJobNow, Step, Claim, ClaimFails, StartRun, RecordRun,
        MarkJob, EndRunner, CloseRun, Leave, vars, process
<1> QED
  BY <1>1, <1>2 DEF RowInv

-----------------------------------------------------------------------------
(* The rows of jobs *)

(* A step that leaves a job's row alone and its runs running leaves the    *)
(* row as truthful as it was.                                              *)
LEMMA UnwrittenJobRows ==
    ASSUME JobRowsHaveTasks, jobRow' = jobRow, crashes' = crashes,
           lost' = lost \/ lost' # 0,
           \A t \in tasks : Executing(t) => \E u \in tasks' : u.job = t.job /\ Executing(u)
    PROVE  JobRowsHaveTasks'
BY DEF JobRowsHaveTasks, Executing

(* While nothing crashes and no call is lost, a job's row says running     *)
(* only as long as a run of the job is under way.                          *)
LEMMA JobRowsPreserved ==
    ASSUME TypeOK, RowInv, JobRowsHaveTasks, [Next]_vars
    PROVE  JobRowsHaveTasks'
<1>0. lost \in Nat /\ crashes \in Nat /\ tasks \subseteq Task
      /\ jobRow \in [Jobs -> JobRow]
  BY DEF TypeOK
<1>1. Lose => lost' # 0
  BY <1>0 DEF Lose
<1>2. ASSUME NEW t \in tasks,
             RecordRun(t) \/ CloseRun(t)
                \/ \E outcome \in {"success", "failed"} : EndRunner(t, outcome)
      PROVE  JobRowsHaveTasks'
  <2>1. PICK u : Move(t, u) /\ Executing(t) /\ Executing(u) /\ u.job = t.job
    BY <1>2, RunningStep
  <2>2. jobRow' = jobRow /\ crashes' = crashes /\ (lost' = lost \/ lost' # 0)
    BY <1>1, <1>2 DEF RecordRun, CloseRun, EndRunner, counters
  <2>3. \A v \in tasks : Executing(v) => \E w \in tasks' : w.job = v.job /\ Executing(w)
    BY <2>1 DEF Move
  <2> QED
    BY <2>2, <2>3, UnwrittenJobRows
<1>3. ASSUME NEW t \in tasks, MarkJob(t) PROVE JobRowsHaveTasks'
  <2>1. PICK u : Move(t, u) /\ Executing(t) /\ Executing(u) /\ u.job = t.job
    BY <1>3, RunningStep
  <2>2. \A v \in tasks : Executing(v) => \E w \in tasks' : w.job = v.job /\ Executing(w)
    BY <2>1 DEF Move
  <2>3. crashes' = crashes
    BY <1>3 DEF MarkJob
  <2>4. CASE jobRow' = jobRow
    BY <1>1, <1>3, <2>2, <2>3, <2>4, UnwrittenJobRows DEF MarkJob
  <2>5. CASE jobRow' = [jobRow EXCEPT ![t.job] = [status |-> "running",
                                                lastRunAt |-> t.started]] /\ lost' = lost
    <3>1. \A j \in Jobs \ {t.job} : jobRow'[j] = jobRow[j]
      BY <1>0, <2>5
    <3>2. u \in tasks'
      BY <2>1 DEF Move
    <3>3. ASSUME NEW j \in Jobs, jobRow'[j].status = "running", crashes' = 0, lost' = 0
          PROVE  \E w \in tasks' : w.job = j /\ Executing(w)
      <4>1. CASE j = t.job
        BY <2>1, <3>2, <4>1
      <4>2. CASE j # t.job
        <5>1. \E v \in tasks : v.job = j /\ Executing(v)
          BY <2>3, <2>5, <3>1, <3>3, <4>2 DEF JobRowsHaveTasks
        <5> QED
          BY <2>2, <5>1
      <4> QED
        BY <4>1, <4>2
    <3> QED
      BY <3>3 DEF JobRowsHaveTasks, Executing
  <2> QED
    BY <1>3, <2>4, <2>5 DEF MarkJob
<1>4. ASSUME NEW t \in tasks, Leave(t) PROVE JobRowsHaveTasks'
  <2>1. /\ t.at = "leaving" /\ tasks' = tasks \ {t} /\ crashes' = crashes /\ t \in Task
    BY <1>0, <1>4 DEF Leave
  <2>2. CASE lost' # 0
    BY <2>2 DEF JobRowsHaveTasks
  <2>3. CASE /\ jobRow' = [jobRow EXCEPT ![t.job] =
                  [status |-> t.outcome,
                   lastRunAt |-> IF t.outcome = "success" THEN t.started ELSE @.lastRunAt]]
             /\ lost' = lost
    <3>1. \A j \in Jobs \ {t.job} : jobRow'[j] = jobRow[j]
      BY <1>0, <2>3
    <3>2. t.job \in Jobs /\ t.outcome # "running"
      BY <2>1 DEF Task, RowInv, RowsAndTasks, TaskHasRow
    <3>3. jobRow'[t.job].status # "running"
      BY <1>0, <2>3, <3>2
    <3> QED
      BY <2>1, <2>3, <3>1, <3>3 DEF JobRowsHaveTasks, Executing
  <2> QED
    BY <1>1, <1>4, <2>2, <2>3 DEF Leave
<1>5. ASSUME NEW t \in tasks, Claim(t) \/ ClaimFails(t) \/ StartRun(t) PROVE JobRowsHaveTasks'
  <2>1. jobRow' = jobRow /\ crashes' = crashes /\ (lost' = lost \/ lost' # 0)
    BY <1>1, <1>5 DEF Claim, ClaimFails, StartRun, records, counters
  <2>2. ~Executing(t) /\ tasks \ {t} \subseteq tasks'
    BY <1>5 DEF Claim, ClaimFails, StartRun, Executing, Move
  <2> QED
    BY <2>1, <2>2, UnwrittenJobRows
<1>6. ASSUME NEW i \in Instances, Crash(i) PROVE JobRowsHaveTasks'
  <2>1. crashes' # 0
    BY <1>0, <1>6 DEF Crash
  <2> QED
    BY <2>1 DEF JobRowsHaveTasks
<1>7. ASSUME NEW i \in Instances, ReapJobs(i) PROVE JobRowsHaveTasks'
  <2>1. tasks' = tasks /\ crashes' = crashes
    BY <1>7 DEF ReapJobs
  <2>2. CASE lost' # 0
    BY <2>2 DEF JobRowsHaveTasks
  <2>3. CASE /\ lost' = lost
             /\ jobRow' = [j \in Jobs |->
                    IF Orphaned(jobRow[j], jobRow[j].lastRunAt, reaping[i].since)
                    THEN [jobRow[j] EXCEPT !.status = "failed"] ELSE jobRow[j]]
    <3>1. \A j \in Jobs : jobRow'[j].status = "running" => jobRow[j].status = "running"
      <4>1. \A j \in Jobs : jobRow[j] \in JobRow
        BY <1>0
      <4> QED
        BY <2>3, <4>1 DEF JobRow
    <3> QED
      BY <2>1, <2>3, <3>1 DEF JobRowsHaveTasks, Executing
  <2> QED
    BY <1>1, <1>7, <2>2, <2>3 DEF ReapJobs
<1>8. ASSUME NEW i \in Instances,
             Tick(i) \/ StartScheduler(i) \/ ReapRuns(i) \/ \E j \in Jobs : RunJobNow(i, j)
      PROVE  JobRowsHaveTasks'
  <2>1. tasks \subseteq tasks'
    BY <1>8 DEF Tick, StartScheduler, ReapRuns, RunJobNow
  <2>2. jobRow' = jobRow /\ crashes' = crashes /\ (lost' = lost \/ lost' # 0)
    BY <1>1, <1>8 DEF Tick, StartScheduler, ReapRuns, RunJobNow, records, counters
  <2> QED
    BY <2>1, <2>2, UnwrittenJobRows
<1>9. CASE PassMinute \/ UNCHANGED vars
  BY <1>9, UnwrittenJobRows DEF PassMinute, vars, records, counters
<1> QED
  BY <1>2, <1>3, <1>4, <1>5, <1>6, <1>7, <1>8, <1>9 DEF Next, Step

-----------------------------------------------------------------------------
(* The theorems *)

IInv == TypeOK /\ GuardsHold /\ ClaimInv /\ RowInv /\ JobRowsHaveTasks

(* The inductive invariant: types, state.running, the claims and the rows. *)
LEMMA SchedulerInvariant == Spec => []IInv
<1>1. Init => IInv
  <2> SUFFICES ASSUME Init PROVE IInv
    OBVIOUS
  <2>1. TypeOK
    BY DurationAssumption DEF DurationAssumption, Init, TypeOK, JobRow, TasksOf
  <2>2. GuardsHold /\ TasksAreYoung /\ ClaimsAreUnique
    BY DEF Init, GuardsHold, TasksAreYoung, ClaimsAreUnique
  <2>3. MinutesAreClaimed
    BY DEF Init, MinutesAreClaimed, HeldMinute, ClaimedMinute
  <2>4. RowInv /\ JobRowsHaveTasks
    BY DEF Init, RowInv, RowsAndTasks, RecoveriesLookBack, JobRowsHaveTasks
  <2> QED
    BY <2>1, <2>2, <2>3, <2>4 DEF IInv, ClaimInv
<1>2. IInv /\ TypeOK' /\ [Next]_vars => IInv'
  BY GuardsPreserved, ClaimsPreserved, RowsPreserved, JobRowsPreserved DEF IInv
<1> QED
  BY <1>1, <1>2, TypeCorrect, PTL DEF Spec

(* However many instances tick, crash, restart, lose calls and purge old   *)
(* claims, a job fires at most once in a minute, and each process runs a   *)
(* job once or not at all, as its state.running says                       *)
(* (lib/jobs/scheduler.ts:25-165).                                         *)
THEOREM NeverFiresTwice == Spec => []NeverTwice
<1>1. IInv => NeverTwice
  <2> SUFFICES ASSUME IInv PROVE NeverTwice
    OBVIOUS
  <2>1. \A j \in Jobs, m \in Minutes : fired[j][m] <= 1
    <3>1. \A j \in Jobs, m \in Minutes : fired[j][m] \in {0, 1}
      BY DEF IInv, ClaimInv, MinutesAreClaimed
    <3> QED
      BY <3>1
  <2> QED
    BY <2>1, GuardsCount DEF IInv, NeverTwice
<1> QED
  BY <1>1, SchedulerInvariant, PTL

(* Of three facts, one holds exactly if the set of their numbers has one   *)
(* member.                                                                 *)
LEMMA OneOfThree ==
    ASSUME NEW A \in BOOLEAN, NEW B \in BOOLEAN, NEW C \in BOOLEAN,
           A \/ B \/ C, ~(A /\ B), ~(A /\ C), ~(B /\ C)
    PROVE  Cardinality({n \in 1 .. 3 : (n = 1 /\ A) \/ (n = 2 /\ B) \/ (n = 3 /\ C)}) = 1
<1> DEFINE holds == {n \in 1 .. 3 : (n = 1 /\ A) \/ (n = 2 /\ B) \/ (n = 3 /\ C)}
<1>1. \E k : holds = {k}
  <2>1. A => holds = {1}
    OBVIOUS
  <2>2. B => holds = {2}
    OBVIOUS
  <2>3. C => holds = {3}
    OBVIOUS
  <2> QED
    BY <2>1, <2>2, <2>3
<1> HIDE DEF holds
<1> QED
  BY <1>1, FS_Singleton DEF holds

(* Every claimed minute has one account: the job was run in it, its holder *)
(* gave it up (or died with it), or is about to run the job (claimPeriod,  *)
(* runJob).                                                                *)
THEOREM EveryClaimIsAccountedFor == Spec => []ClaimsAreAccountedFor
<1>1. IInv => ClaimsAreAccountedFor
  <2> SUFFICES ASSUME IInv, NEW c \in claims
               PROVE  Cardinality({n \in 1 .. 3 :
                          \/ n = 1 /\ fired[c.job][c.minute] > 0
                          \/ n = 2 /\ <<c.job, c.minute>> \in missed
                          \/ n = 3 /\ \E t \in tasks : /\ t.job = c.job /\ t.minute = c.minute
                                                       /\ t.at = "claimed"}) = 1
    BY DEF ClaimsAreAccountedFor
  <2> DEFINE A == fired[c.job][c.minute] > 0
             B == <<c.job, c.minute>> \in missed
             C == \E t \in tasks : t.job = c.job /\ t.minute = c.minute /\ t.at = "claimed"
  <2>1. c.job \in Jobs /\ c.minute \in Minutes
    BY DEF IInv, TypeOK, PeriodClaim
  <2>2. ClaimedMinute(c.job, c.minute) /\ (C <=> HeldMinute(c.job, c.minute))
    BY DEF ClaimedMinute, HeldMinute
  <2>3. (A \/ B \/ C) /\ ~(A /\ B) /\ ~(A /\ C) /\ ~(B /\ C)
    BY <2>1, <2>2 DEF IInv, ClaimInv, MinutesAreClaimed
  <2> HIDE DEF A, B, C
  <2>4. A \in BOOLEAN /\ B \in BOOLEAN /\ C \in BOOLEAN
    BY DEF A, B, C
  <2>5. Cardinality({n \in 1 .. 3 : (n = 1 /\ A) \/ (n = 2 /\ B) \/ (n = 3 /\ C)}) = 1
    BY <2>3, <2>4, OneOfThree
  <2> QED
    BY <2>5 DEF A, B, C
<1> QED
  BY <1>1, SchedulerInvariant, PTL

(* A row of a run says success only if its runner returned and failed only *)
(* if it threw, died or could not be recorded, whoever recovers what and   *)
(* when; and a job's row says running only while the job runs somewhere,   *)
(* if nothing crashed or was lost (runJob, recoverOrphanedRuns).           *)
THEOREM RowsAreTruthful == Spec => []RowsTellTheTruth
<1>1. IInv => RowsTellTheTruth
  BY DEF IInv, RowInv, RowsAndTasks, RowHasTask, JobRowsHaveTasks, RowsTellTheTruth
<1> QED
  BY <1>1, SchedulerInvariant, PTL

=============================================================================
