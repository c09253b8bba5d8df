------------------------------ MODULE Services ------------------------------
(***************************************************************************)
(* The services that share no state with the books or with each other,     *)
(* side by side: a behaviour is one of any of them.  Each property speaks  *)
(* of one service, so nothing is lost by running one at a time.  The       *)
(* parameters are those of the services; who calls is the same everywhere, *)
(* and so is what stands for null.                                         *)
(***************************************************************************)
EXTENDS Integers, Sequences, FiniteSets

CONSTANTS
    Callers, \* users, tabs, runs and servers with a call under way
    Null,
    Streams, Channels, MaxChannels, MaxChanges, MaxPolls, MaxStops,
    Texts, MaxContentVersions,
    Corrections, MaxMinute, MaxBreakEvents,
    Assigned, Filling, Items, Templates,
    Thresholds, MaxDay, MaxTerms,
    Bodies, MaxKeys, ScanLimit,
    Days, MaxItems,
    Metrics, SpendAmounts, Figures, MaxMigrations,
    Accountants, Managers, MaxEntries,
    MaxArtwork,
    MaxNotices,
    Minutes, Hours, MonthDays, WeekDays, Crons, Shifts, ClockChange, Horizon, MaxClock,
    Limit, Window, MaxTime, MaxHits

VARIABLES
    focus,  \* the service of this behaviour
    posted, hub, entry, stream, polls,
    kind, content, version, edits, outdated,
    minute, attendance, events, correction, visit, overlapped, adjusted, amended,
    requires, instance, item, editing, generating, jobStatus,
    day, subscription, reminding, term, told, lateWrite, crashed, concurrent,
    file, fileVersion, blob, issued, uploads, scan, damaged, unreachable,
    recurrence, planned, generator, together, moved, covered,
    post, confirming, evidence, rushed,
    metric, actualSpend, spending, figure, outsummed, migrations, disturbed,
    expense, journal, preparing, doubled,
    design, artwork, reviewing, unaware, misplaced,
    rows, muted, notifying, happened, pending, silenced, dismissed, crowded, revived,
    cron, shift, clock, nextRunAt, asOf,
    backend, time, window, counter, hitting, passed, hits, unended

hubvars == <<posted, hub, entry, stream, polls>>
contentvars == <<kind, content, version, edits, outdated>>
dayvars == <<minute, attendance, events, correction, visit, overlapped, adjusted, amended>>
checkvars == <<requires, instance, item, editing, generating, jobStatus>>
remindervars == <<day, subscription, reminding, term, told, lateWrite, crashed, concurrent>>
filevars == <<file, fileVersion, blob, issued, uploads, scan, damaged, unreachable>>
recurrencevars == <<recurrence, planned, generator, together, moved, covered>>
confirmationvars == <<post, confirming, evidence, rushed>>
spendvars ==
    <<metric, actualSpend, spending, figure, outsummed, migrations, disturbed>>
oncevars == <<expense, journal, preparing, doubled>>
designvars == <<design, artwork, reviewing, unaware, misplaced>>
inboxvars ==
    <<rows, muted, notifying, happened, pending, silenced, dismissed, crowded, revived>>
cronvars == <<cron, shift, clock, nextRunAt, asOf>>
limitvars == <<backend, time, window, counter, hitting, passed, hits, unended>>

Hub == INSTANCE ChannelHub WITH Nobody <- Null

Content == INSTANCE VersionedContent WITH Editors <- Callers, MaxVersions <- MaxContentVersions,
    Blank <- Null

Day == INSTANCE Attendance WITH MaxEvents <- MaxBreakEvents, Unset <- Null

Checks == INSTANCE DailyChecks WITH Tabs <- Callers, Generators <- Callers, Missing <- Null

Remind == INSTANCE Reminders WITH Runners <- Callers, NoDate <- Null

Files == INSTANCE FileVersions WITH Uploaders <- Callers, Absent <- Null

Recur == INSTANCE Recurrences WITH Generators <- Callers

Confirm == INSTANCE Confirmations WITH Editors <- Callers, Nothing <- Null

Spend == INSTANCE CampaignSpend WITH Users <- Callers, Amounts <- SpendAmounts, NoMetric <- Null

Once == INSTANCE OncePosted WITH Unposted <- Null

Design == INSTANCE DesignReview WITH Reviewers <- Callers, MaxVersions <- MaxArtwork

Told == INSTANCE Inbox WITH Senders <- Callers, MaxEvents <- MaxNotices

Jobs == INSTANCE Cron WITH Never <- Null, Change <- ClockChange

Limits == INSTANCE RateLimit WITH Servers <- Callers, Unopened <- Null

-----------------------------------------------------------------------------
(* Rows and calls of the services that may be missing, which is null. *)

HubEntry ==
    [channel : Channels, signal : Nat, listeners : SUBSET Streams, timer : BOOLEAN,
     prime : {"asked", "read", "done"}, read : Nat]

VersionRow == [status : Content!AllStatuses, text : Texts \cup {Null}]

ContentRow ==
    [status : Content!AllStatuses \cup {"archived"}, shown : Texts \cup {Null},
     current : Content!Numbers]

EditCall ==
    [op : {"update", "revise", "submit", "approve", "end"}, number : Content!Numbers,
     status : Content!AllStatuses, row : VersionRow, text : Texts \cup {Null}]

InstanceRow ==
    [status : {"pending", "complete", "late"}, completed : BOOLEAN, score : Nat, verified : BOOLEAN]

ItemCall ==
    [op : {"item"}, user : Filling, item : Items, done : BOOLEAN, note : BOOLEAN, link : BOOLEAN]

EvidenceCall == [op : {"evidence"}, user : Filling, item : Items]

SubmitCall == [op : {"submit"}, user : Filling, count : Nat]

FileRow == [current : 1 .. MaxKeys, key : 1 .. MaxKeys, archived : BOOLEAN]

FileVersionRow == [key : 1 .. MaxKeys, checksum : Bodies]

Upload ==
    [step : {"put", "create", "number", "commit"}, first : BOOLEAN, body : Bodies,
     key : 1 .. MaxKeys, number : Nat]

MemoryWindow == [count : Nat, resetAt : Nat]

RedisCounter == [count : Nat, expires : Nat, since : Nat]

AttendanceRow ==
    [actualStart : {Null} \cup Nat, actualEnd : {Null} \cup Nat, breakMinutes : Nat,
     totalWorkedMinutes : Nat]

CorrectionRow ==
    [status : {"pending", "approved", "rejected"}, field : Day!Fields, value : Nat,
     applied : BOOLEAN]

ClockCall ==
    [op : {"checkIn", "startBreak", "endBreak", "checkOut"},
     record : {Null} \cup AttendanceRow, count : Nat, lastStart : {Null} \cup Nat]

DecideCall ==
    [op : {"decide"}, correction : Corrections, decision : {"approved", "rejected"}]

(* The bounds of the model, and what is counted. *)
ASSUME BoundsAssumption ==
    /\ MaxChannels \in Nat /\ MaxContentVersions \in Nat \ {0}
    /\ MaxDay \in Nat /\ MaxTerms \in Nat \ {0} /\ Thresholds \subseteq Nat
    /\ MaxKeys \in Nat /\ ScanLimit \in Nat /\ Days \in Nat \ {0}
    /\ SpendAmounts \subseteq Nat /\ Figures \subseteq Nat
    /\ Limit \in Nat /\ Window \in Nat \ {0}
    /\ MaxTime \in Nat \ {0} /\ MaxMinute \in Nat

(* Days have minutes, months days.  The clock is changed by less than a    *)
(* day, and not back to before the first.  Expressions are those that the  *)
(* parser accepts.                                                         *)
ASSUME CalendarAssumption ==
    /\ Minutes \in Nat \ {0} /\ Hours \in Nat \ {0} /\ WeekDays \in Nat \ {0}
    /\ MonthDays \in Seq(1 .. 31) /\ MonthDays # <<>>
    /\ ClockChange \in Nat \ {0} /\ Horizon \in Nat /\ MaxClock \in Nat
    /\ Shifts \subseteq Int /\ Shifts # {}
    /\ \A s \in Shifts : s <= ClockChange /\ -(Minutes * Hours) < s /\ s < Minutes * Hours

ASSUME CronsAssumption ==
    /\ Crons # {}
    /\ \A c \in Crons :
          /\ IsFiniteSet(c.minute) /\ c.minute # {} /\ IsFiniteSet(c.hour) /\ c.hour # {}
          /\ \A part \in c.minute : part.step \in Nat \ {0} /\ part.lo \in 0 .. Minutes - 1
          /\ \A part \in c.hour : part.step \in Nat \ {0} /\ part.lo \in 0 .. Hours - 1

(* Somebody calls, and finitely many at a time; users fill in checklists   *)
(* that are assigned to them; a template and a campaign have finitely many *)
(* items and metrics.                                                      *)
ASSUME PeopleAssumption ==
    /\ Callers # {} /\ IsFiniteSet(Callers) /\ Filling \subseteq Assigned
    /\ IsFiniteSet(Items) /\ IsFiniteSet(Metrics)

(* Null is none of the values that it stands in for. *)
ASSUME MissingAssumption ==
    /\ Null \notin Nat /\ Null \notin Callers
    /\ Null \notin Streams \cup HubEntry
    /\ Null \notin VersionRow \cup ContentRow \cup EditCall
    /\ Null \notin InstanceRow \cup ItemCall \cup EvidenceCall \cup SubmitCall
    /\ Null \notin FileRow \cup FileVersionRow \cup Upload \cup Bodies
    /\ Null \notin AttendanceRow \cup CorrectionRow \cup ClockCall \cup DecideCall
    /\ Null \notin MemoryWindow \cup RedisCounter

-----------------------------------------------------------------------------

(* Where a service that does not run might begin anywhere. *)
Some(S) == CHOOSE x \in S : TRUE

ServicesInit ==
    /\ focus \in {"hub", "content", "day", "checks", "reminders", "files", "recurrences",
                  "confirmations", "spend", "postings", "design", "inbox", "cron", "limits"}
    /\ Hub!Init
    /\ Content!Init /\ (focus # "content" => kind = "answer")
    /\ Day!Init
    /\ Checks!Init
    /\ Remind!Init /\ (focus # "reminders" => subscription.renewalDate = 1)
    /\ Files!Init
    /\ Recur!Init
    /\ Confirm!Init
    /\ Spend!Init /\ (focus # "spend" => figure = Some(Figures))
    /\ Once!Init /\ (focus # "postings" => expense.status = "approved")
    /\ Design!Init /\ (focus # "design" => design = "requested")
    /\ Told!Init
    /\ Jobs!Init /\ (focus # "cron" => shift = Some(Shifts) /\ cron = Some(Crons))
    /\ Limits!Init /\ (focus # "limits" => backend = "memory")

(* One service takes its steps, the others rest. *)
ServicesNext ==
    /\ UNCHANGED focus
    /\ IF focus = "hub" THEN Hub!Next ELSE UNCHANGED hubvars
    /\ IF focus = "content" THEN Content!Next ELSE UNCHANGED contentvars
    /\ IF focus = "day" THEN Day!Next ELSE UNCHANGED dayvars
    /\ IF focus = "checks" THEN Checks!Next ELSE UNCHANGED checkvars
    /\ IF focus = "reminders" THEN Remind!Next ELSE UNCHANGED remindervars
    /\ IF focus = "files" THEN Files!Next ELSE UNCHANGED filevars
    /\ IF focus = "recurrences" THEN Recur!Next ELSE UNCHANGED recurrencevars
    /\ IF focus = "confirmations" THEN Confirm!Next ELSE UNCHANGED confirmationvars
    /\ IF focus = "spend" THEN Spend!Next ELSE UNCHANGED spendvars
    /\ IF focus = "postings" THEN Once!Next ELSE UNCHANGED oncevars
    /\ IF focus = "design" THEN Design!Next ELSE UNCHANGED designvars
    /\ IF focus = "inbox" THEN Told!Next ELSE UNCHANGED inboxvars
    /\ IF focus = "cron" THEN Jobs!Next ELSE UNCHANGED cronvars
    /\ IF focus = "limits" THEN Limits!Next ELSE UNCHANGED limitvars

services ==
    <<focus, hubvars, contentvars, dayvars, checkvars, remindervars, filevars,
      recurrencevars, confirmationvars, spendvars, oncevars, designvars, inboxvars,
      cronvars, limitvars>>

ServicesSpec == ServicesInit /\ [][ServicesNext]_services

(* A service that does not run rests in one of its initial states, which   *)
(* are also initial states of the behaviours in which it runs.             *)
Running(service, property) == focus = service => property

-----------------------------------------------------------------------------

(* A poller runs exactly while somebody listens, each open stream that is  *)
(* not deaf has been told what the hub has learnt since it subscribed      *)
(* (lib/realtime/channel-hub.ts:42-95), and what happened to a record is   *)
(* told or was suppressed, once, unless the user archives under a sender,  *)
(* senders overlap or an archived row is marked (domain/mutation.ts:64-    *)
(* 108, domain/notifications.ts).                                          *)
PeopleAreTold == Running("hub", Hub!HubServesStreams) /\ Running("inbox", Told!EventsSurface)

(* Breaks and worked time are those of the day's events and corrections,   *)
(* unless a call wrote on a day that had changed since it read it          *)
(* (domain/attendance.ts:53-226).                                          *)
DayAddsUp == Running("day", Day!DayAddsUp)

(* What is done has the evidence asked for, a generator that succeeds has  *)
(* left nobody out, and of runs that collide one comes through             *)
(* (domain/daily-checks.ts:109-188, 233-293).                              *)
ChecksAreBacked == Running("checks", Checks!ChecksAreBacked)

(* No threshold is marked of which nobody was reminded, what was told is   *)
(* marked, and nobody is told twice, each under the least conditions on    *)
(* crashes, overlaps and late writes (domain/subscriptions.ts:90-198).     *)
OncePerThreshold == Running("reminders", Remind!OncePerThreshold)

(* Versions are numbered without gaps and backed by their own bytes, and a *)
(* scan reports damage and nothing else (domain/files.ts:137-212,          *)
(* domain/storage-integrity.ts:16-58).                                     *)
VersionsAreBacked == Running("files", Files!VersionsAreBacked)

(* An answer or article that is live shows its single live version, word   *)
(* for word (domain/answers.ts:88-182, domain/knowledge.ts:81-169), a      *)
(* design has one approved version (domain/design.ts:52-253), recurrences  *)
(* fill their days once, and the evidence of publishing stands             *)
(* (domain/social.ts:133-248), each under the least conditions on calls    *)
(* that overlap.                                                           *)
ContentWorkIsKept ==
    /\ Running("content", Content!OneLiveVersion)
    /\ Running("recurrences", Recur!CalendarIsFilled)
    /\ Running("confirmations", Confirm!EvidenceStands)
    /\ Running("design", Design!ReviewIsExclusive)

(* A campaign's spend is the sum of its metrics unless what was summed is  *)
(* behind, with the figure of before kept once (domain/campaigns.ts:188-   *)
(* 272); of an expense and of the opening balances the ledger holds        *)
(* nothing or one entry, as they say (domain/accounting/expenses-gl.ts:41- *)
(* 88, opening-balances.ts:32-95) - unless calls on them overlapped.       *)
CountedOnce == Running("spend", Spend!SpendIsDerived) /\ Running("postings", Once!PostedOnce)

(* A job is announced for the first time at which the tick finds it due,   *)
(* and a daily one is due once a day, but for the time that the change of  *)
(* local time leaves out or repeats (lib/jobs/cron.ts:9-71).               *)
JobsComeDue == Running("cron", Jobs!JobsComeDue)

(* Callers are served up to the limit of a window and again when it has    *)
(* ended, and no more than two windows' worth in the time of one, unless   *)
(* the request that ends a window is lost (lib/ratelimit).                 *)
WindowsHold == Running("limits", Limits!WindowsHold)

=============================================================================
