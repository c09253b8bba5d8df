# Formal model of NEXORA OS

NEXORA OS is a company operating system: a Next.js application (TypeScript) over PostgreSQL
through Prisma, with object storage, an optional Redis for rate limits, and jobs that run inside
the app servers. Paths below are relative to the repository's root (`src/domain/...`,
`src/lib/...`, `prisma/schema.prisma`, `docs/...`); in `PROJECT.json` they carry the prefix of
the directory the repository is checked out in.

Contents: 1 the system, 2 the inventory, 3 the modules, 4 the runs, 5 the proofs, 6 where code
and documents disagree, 7 what is left out, 8 the plan.

## 1. The system, and what is hard about it

Every change of state is made by a *service* in `src/domain`: a function that gets the acting
user, parses its input, checks a permission against the record's company, reads what it needs,
writes - in one `prisma.$transaction` where it writes more than one row - and then appends to the
audit log and notifies people. Server actions, API routes and jobs all call these services.

Three facts decide what the models look like.

* **Handlers interleave at every `await`.** A service is one asynchronous function; two users'
  calls overlap freely, on one app server or on several. What a handler read before its
  transaction may be stale in it.
* **Transactions are READ COMMITTED** (no isolation level is ever asked for, so PostgreSQL's
  default applies), with no `SELECT ... FOR UPDATE`. A transaction's reads see whatever is
  committed at that statement; its `UPDATE` waits for the row lock of an open transaction and
  then *overwrites*: most updates are by id, with values computed from an earlier read. The
  exceptions are the number sequences (`{ increment: 1 }`, which locks the row until the
  transaction ends) and unique keys.
* **A process may die between any two statements**, and a failed notification or audit write is
  swallowed. Transactions roll back; what follows a commit may never happen.

## 2. Inventory

Modelled now:

| Component (source) | State | Operations | Hard behaviours | What makes it correct |
|---|---|---|---|---|
| General ledger (`domain/accounting/posting.ts`, `numbering.ts`) | `JournalEntry`, `JournalLine`, `NumberSequence` | post a journal, reverse an entry, allocate a number | check outside the transaction, row lock of the sequence, rounding of foreign lines, crash before the audit record | unique gapless numbers, every entry balances, reversed entries are netted, history is immutable, audit tells the truth |
| Fiscal control (`fiscal.ts`, `settings.ts`) | `AccountingPeriod.status`, lock date, account flags | open, close, lock and reopen a period; set the lock date; block an account | changes under a posting that already passed its check | nothing posted into a closed period, reopening needs its permission |
| Receivables (`ar.ts`) | `SalesInvoice`, `CreditNote`, `CustomerReceipt` and their allocations | create, edit, issue, void, credit, apply, receive, allocate | two allocations of one invoice, void in two transactions, lists of allocations | no over-allocation, columns agree with rows, sub-ledger ties out with the ledger |
| Approvals (`approvals.ts`) | `ApprovalRequest`, `ApprovalStep` | submit, decide, cancel | stale decisions, notification after commit | steps in order, decisions final, outcome has its decision |
| Workflow (`workflows.ts`, `lib/workflow/spec.ts`) | definition, versions, instances, transition log | author, activate, archive, start, move, escalate | versions change while records run; evidence comes and goes; crash of the job | versions frozen, log is a walk of the bound version, evidence required, one escalation per stage entry |
| Job scheduler (`lib/jobs/scheduler.ts`) | `JobRunClaim`, `BackgroundJobRun`, `BackgroundJob`, a set per process | tick, claim, run, record, recover, purge | a fleet of servers, crashes, lost calls, overlapping runs | at most one run a minute, rows never lie, every claim accounted for |
| Permission engine (`lib/permissions/engine.ts`, `load.ts`, `domain/permissions-admin.ts`) | roles, assignments with scope, module and expiry; the principal loaded per request | `can`, `scopeWhereFor`, `accessibleScopeIds`, `assertRecordInScope`; create and edit roles, assign, remove | four evaluations written apart; authority checked on a stale principal | they agree; delegation stays within what super admins handed out |
| Webhooks (`webhooks.ts`) | webhooks, deliveries, a cache per process | create, switch, delete; emit, attempt, retry, dead-letter, job | attempt and jobs race; success that cannot be recorded; stale cache | outcomes are earned, nobody is forgotten, every delivery settles |
| Payables (`ap.ts`) | bills, supplier credits, payments and their allocations | as receivables, with one-step posting of bills | absolute writes of sums, void in two transactions | tables and payable account agree |
| Reconciliation (`bank.ts`, `statement-import.ts`) | reconciliations, ledger lines, matches | create, tick, untick, match, complete | three writes without a transaction, lines taken from another reconciliation | cleared balance is the sum of the lines, completed ones balance |
| Expenses and opening balances (`expenses-gl.ts`, `opening-balances.ts`) | one entry per expense or opening | post, reverse | the once-only check is read before the transaction | posted once |
| Daily checks (`daily-checks.ts`) | instances, items, evidence | generate, complete an item, attach, submit, verify | overlapping generators, several tabs, failure between item and evidence | done means evidenced; a successful run left nobody out |
| Attendance (`attendance.ts`) | record, events, corrections of a day | check in and out, breaks, request and decide corrections | derived state, totals from an earlier read | totals agree with the events |
| Reminders (`subscriptions.ts`, `documents.ts`) | list of sent thresholds | the job, renewal, edit, cancellation | crash between notice and list, renewal in between | once per threshold and term, told iff marked |
| Versioned content (`answers.ts`, `knowledge.ts`) | identity and versions | create, edit, revise, submit, approve, retire, archive | overlapping writes on a stale status | one live version, and it is what is shown |
| Design review (`design.ts`) | status, versions of the artwork | set status, upload, approve, reject | two approvals do not see each other | one approved version; statuses follow the graph |
| Publishing (`social.ts`) | recurrences, items, confirmations | generate, edit, set status, confirm | overlapping generators, evidence written back | each day planned once; first evidence stands |
| Campaign spend (`campaigns.ts`) | metrics, derived total | add, delete, backfill | each transaction sums without the other's metric | the total is the sum; old figures migrate once |
| Files (`files.ts`, `storage-integrity.ts`) | blobs and rows, versions numbered max + 1 | upload, add a version, archive, scan | blob and row apart, equal numbers | every version has its own bytes; the scan reports damage only |
| Live updates (`lib/realtime/channel-hub.ts`) | pollers shared by streams | open, subscribe, poll, stop | double stop, late joiners, late polls | a poller runs iff somebody listens; streams hear what it learns |
| Notifications (`domain/mutation.ts`, `notifications.ts`) | inbox rows grouped by record, preferences | notify, read, archive, mute | look, renew and add are separate steps | each event surfaces or was muted; one row per record |
| Cron (`lib/jobs/cron.ts`) | the announced next run | match a minute, find the next run | months that lack a day, fields that alternate, a change of local time | the announcement is the next match; a daily job runs once a day |
| Rate limits (`lib/ratelimit`) | a window per server, or a counter in Redis | count a hit | several servers, two requests of which either may be lost | a window admits its limit, ends, and is not prolonged |
| Money (`lib/money.ts`, `lib/accounting-math.ts`, `computeLines`, `prepare`, `createTransfer`) | rounding policy, lines of a document and of its entry | price, convert, plug, transfer | roundings one by one, under policies that change in between | tax fits the net, entries balance, rounding refuses no document |

Not modelled, and what a module would have to show:

| Component (source) | State and operations | Properties |
|---|---|---|
| Sessions, MFA, API tokens (`sessions.ts`, `mfa.ts`, `api-tokens.ts`) | revocation, single-use recovery codes | no use after revocation, no code used twice |

Components that hold no protocol (plain row edits, reports, imports, user interface) are listed
with their reasons in `PROJECT.json`. The `hazards` of that file name, line by line, what is hard
to test in this code, each with the properties that would show it going wrong.

How the parts interact: receivables (and payables, expenses, bank) post and reverse through the
ledger's `prepareForPost`, `writePostedEntry` and `reverseEntry` and take numbers from the same sequences; workflow
transitions count the documents of `files.ts` and the approved requests of `approvals.ts` as
evidence; the scheduler runs the escalation, reminder, generation and webhook jobs; everybody
writes the audit log.

## 3. The modules

In each module a client is a handler slot: `pc[c]` says where its handler is, `req[c]` what it
works on and what it has read. An action is what a handler does from one await to the next where
others can tell the difference; a transaction whose only effect is its commit is one action. `Fail`
stands for everything that ends a handler before its commit: a later check, a database error, the
death of the process. Definitions introduced by "Variant:" are not part of the specification: each
is the action or operator after it with one plausible mistake, and shows that some property
depends on that line.

### `Ledger.tla` (posting.ts, numbering.ts, fiscal.ts, settings.ts, accounts.ts)

| Code | Model |
|---|---|
| `postJournalEntry`: parse and `prepare` | `PrepareJournal`: `Postable` (active accounts, one side per line, balance in the journal's currency), `Prepared` (conversion line by line with half-up rounding, rounding line within the tolerance) |
| `reverseEntry`: read and check the original | `ReadOriginal`, with the swapped lines of `Contra` |
| `assertOpenPeriod` | `CheckPeriod`, `RefusePeriod` over `OpenForPosting` |
| `allocateNumber` | `AllocateNumber`: waits for the sequence row, takes `nextValue`, keeps the lock |
| the transaction's create and commit | `CommitPost`, `CommitReversal` (flips the original by id, whatever it is by now) |
| `audit` after the commit, or its loss | `WriteAudit`, `LoseAudit` |
| `setPeriodStatus` | `ReadPeriod`, `WritePeriod`: the reopening permission is decided on the status read |
| lock date, blocking an account | `SetLockDate`, `SetAccountActive` |

The row lock is `holder`; `nextValue` is the committed value, so a rollback gives the number back.
A rate is in tenths and amounts are minor units; rounding modes other than half-up are left out.

### `Receivables.tla` (ar.ts over posting.ts)

One customer and one currency; periods are open and accounts postable, since `Ledger` covers those
checks. The general ledger is the sequence `gl` of entries on the receivable account, so that
`TieOut` can compare it with the sub-ledger.

* Drafts: `CreateInvoice`, `ReadForUpdate`/`CommitUpdate`, `ReadForIssue`/`CommitIssue`,
  `CreateCreditNote`, `ReadDraftCredit`/`CommitCredit`.
* Voids: a draft by `ReadDraftForVoid`/`CommitVoidDraft`; an issued one by `ReadForVoid`, then
  `CommitReversal` and `CommitVoid`, two transactions with a possible death between them
  (`FailBetween`).
* `RequestReversal`/`ReadEntry`/`CommitReversal`: somebody reverses the document's entry from the
  journal (`app/actions/accounting.ts`).
* Allocations: `ReadCredit`, `ReadReceipt` or `PrepareReceipt`, then `BeginAllocation` or
  `BeginReceipt` (a receipt first takes its number and thereby the lock of its year),
  `ReadForAllocation` and `WriteAllocation` once per line of the list, `EndTransaction`, then
  `FinishApply`, `FinishAllocate` or `FinishReceipt`. `writes` holds the rows written and not yet
  committed, `lock` the row locks. A deadlock is resolved by `Fail`: the database aborts one.

### `Approvals.tla` (approvals.ts)

`CreateApprovalRequest`; `ReadForDecision` (pending, the turn of the approver or a manager's right)
and `CommitDecision`, which applies `Decided` to the row as it is then; `ReadForCancel` and
`CommitCancel`; `Notify`, after the commit, or `Fail`. A handler carries the row it has read, as the code
does, and the history variable `overtaken` records the requests that one wrote although they had changed
since: a decision on a row that is no longer the one read, a cancellation of a request that is no longer
pending. The audit record is left out.

### `WorkflowSpec.tla`, `Workflow.tla` (lib/workflow/spec.ts, workflows.ts, files.ts)

`WorkflowSpec` is the pure part: `StageByKey`, `TransitionsFrom`, `CanReachTerminal`, `Valid`.
Reachability is stated through closed sets, not by recursion, so that it stays within the reach of
the prover. `Workflow` has three groups of actions, as the code has three groups of services:

* `Authoring`: create, save into the draft or into a new version, open a revision, activate
  (retiring the others), archive.
* `Running`: start an instance of the active version; `ReadForTransition` (the edge exists, the
  fields are present), `CheckEvidence`, `CommitTransition`.
* `Escalating`: `FindOverdue`, `NotifyEscalation`, `MarkEscalated`, or a crash between the two.

`FileEvidence` is what happens elsewhere: a document is attached or detached, an approval is granted.
`PassDeadline` lets the deadline of a stage pass. Permissions, names and the audit log are left out.

### `Scheduler.tla` (lib/jobs/scheduler.ts)

`Tick` creates a task per due job; `Claim`/`ClaimFails` is the insert into `JobRunClaim`;
`StartRun` consults `state.running`; `RecordRun`, `MarkJob`, `EndRunner`, `CloseRun` and `Leave`
are the awaits of `runJob`; `RunJobNow` is the manual run. `Crash` and `StartScheduler` lose
and restart a process, whose recovery is `ReapRuns` and `ReapJobs`. `PassMinute` advances a
bounded clock and waits for what the code's timing guarantees (a run ends within `MaxRun`). `fate`,
`fired` and `missed` are history variables for the properties.

### `GeneralLedger.tla`, refined by `Ledger`

The abstract ledger is one variable, `book`: entries come in balanced and under the next number of
their sequence, never change, and may be marked reversed by an entry that undoes them.
`Ledger!Promise` instantiates it with the rows as they are committed; requests, locks, periods and
audit records disappear. `KeepsPromise == Promise!Spec` is checked with two handlers and proved for any number.

### `Permissions.tla` (lib/permissions, domain/permissions-admin.ts)

`Can`, `ScopeWhereFor` (a set of conditions, read by `Selects` as Prisma reads a `where`),
`AccessibleScopeIds` and `RecordInScope` are translations of the four evaluations. `Arrive` loads a
principal; `CreateRole`, `UpdateRole`, `AssignRole` and `RemoveAssignment` use it, however old it
is by then. `handed` is the history of the scopes that super admins have handed out.

### `Webhooks.tla` (webhooks.ts)

`Emit` writes a delivery per active webhook and starts an attempt at each; `StartJob`/`TakeNext`
are the job of a process. An attempt is `ReadDelivery`, `Post` (accepted or not, known or not),
then `RecordSuccess`, `ScheduleRetry` or `Refuse`. `cache` is the 30-second answer to "does anybody
listen", per process. `Crash` and `LoseCall` are the faults; `Tick` is a minute.

### The services: `Services.tla` and `Books.tla`

Each is a module of its own, with a slot per caller that carries what the call has read. Reading
and writing are separate actions wherever the code awaits in between; a transaction is its commit.
`Attendance`, `DailyChecks`, `Reminders`, `Payables`, `Reconciliation`, `FileVersions`,
`Recurrences`, `Confirmations`, `CampaignSpend`, `OncePosted`, `DesignReview`, `VersionedContent`,
`Inbox`, `ChannelHub`, `Cron`, `RateLimit` and `DocumentAmounts` name their actions after the functions of the code. What the code does
wrong when calls overlap in one particular way is recorded in a history variable (`overwritten`,
`outdated`, `astray`, `doubled`, `unaware` ...), set by exactly the step that relied on something
stale, and the property is stated up to it: everything else that overlaps must do no harm.
`Cron` has a small calendar (2 minutes to the hour, 3 hours to the day) and changes local time once;
its walk goes through local time as `Date.setMinutes` does, by library definitions that `map` marks
as external. `DocumentAmounts` counts minor units and tenths of them; it has one tax account, and a
bill is an invoice with its sides swapped. `MaxStops` of `ChannelHub`, `MaxKeys`, `MaxItems` and the like are bounds, named where they are declared.

They share no state with each other, so `Services` puts fourteen of them side by side under a variable
`focus`, chosen at the start: one service runs, the others rest in an initial state, and
`Running(service, property)` states the property of that service. `Books` does the same under `book` with
the three that keep the money of suppliers and banks: `Payables`, `Reconciliation` and `DocumentAmounts`.
Nothing is lost by running one at a time, because no action reads or writes the variables of two.
`MCServices` runs either for TLC. `CONSTRAINT Relevant` ends a
behaviour where the history variable that its property excuses is set.

### Composition

`Receivables` contains the part of the ledger it uses, at the grain its own races need;
`Workflow` contains the approvals and files it counts as the numbers on file. `Reconciliation` and
`OncePosted` take the reversal of an entry from the journal as an action of somebody else.

## 4. The runs

`MC*.tla` gives each module its small data; the `.cfg` its bounds.

| Run | Bounds | What it shows |
|---|---|---|
| `ledger_serial` | one handler, 3 entries, 2 dates in two calendar years, 1 period, 4 journals (balanced, unbalanced, empty sides, foreign and in need of a rounding line) | with failures between any two steps: `ReversalIsReciprocal`, `NoPostIntoClosed` hold when handlers do not overlap |
| `ledger_concurrent` | two handlers, 3 entries, 1 date, the journals without the plain one | what the lock and the transaction protect under every overlap: `LedgerBalances`, `ReversedIsNetted`, `AuditIsTruthful`, and the refinement `KeepsPromise` |
| `ledger_liveness` | two handlers, 2 entries, one journal, no symmetry | `RequestsFinish` under `FairSpec` |
| `receivables_serial` | one handler; 1 invoice, 1 credit note, 1 receipt, totals 0 to 2, lists of one or two lines, 5 entries | `TieOut` (columns against rows, sub-ledger against ledger), `DocumentsMatchEntries`, `SettledIsFinal` without overlap |
| `receivables_concurrent` | two handlers; 2 invoices, 2 receipts in one year, 4 entries, crashes, reversals from the journal | `NoOverAllocation`: receipts of one year are serialised by their number |
| `receivables_over_allocation` | two handlers; 1 invoice, 1 credit note, 1 receipt | violates `NoOverAllocation` |
| `approvals_concurrent` | two handlers, 1 request, 3 users, chains of 1 to 3 with one person twice, failures anywhere | under every overlap of decisions and cancellations: `OutcomeHasItsDecision` without exception; `EarlierStepsComplete`, `ToldTheTruth` and `DecisionsAreFinal` for requests that are not `overtaken` |
| `workflow_serial` | one handler, 2 records, 2 versions, 4 log entries, 1 piece of evidence, 1 crash; specifications: with review and evidence, with a wildcard, with a dead end, unreadable | `VersionsAreFrozen`, `RecordsAreGoverned`, `LogIsAWalk`, `EvidenceOnFile`, `EscalatedOnce` |
| `scheduler_fleet` | 2 interchangeable instances, 1 job, 2 minutes, 1 manual run, 1 crash, 1 lost call | `NeverTwice`, `ClaimsAreAccountedFor`, `RowsTellTheTruth` |
| `permissions` | two handlers, an administrator and a super admin, 2 roles, 2 assignments, 2 dimensions of 2 values, 3 offers (one expires, one is for a module, one has both dimensions) | `EvaluationsAgree` for every principal in use, key, record and set of columns; `DelegationStaysWithin` |
| `webhooks` | 2 app servers, 1 webhook, 1 event, 2 attempts, 1 fault | `OutcomesAreEarned`, `NothingMissed`, and `EverySettles` under `FairSpec` |
| `services` | see below | one property per service |

Why these bounds are enough to be of use: an overlap needs two handlers, a reversal of a reversal
three entries, a change of year two dates, a stale step a chain of two, a list two lines. Two
minutes with `KeepFor = 0` are the shortest history in which a claim can be purged and a minute run again.
`Stale = 1` and `MaxRun = 1` keep the code's order (a run is over before its row counts as
stale). A delegation that goes wrong needs two assignments, one of them made by a principal loaded
before its own was revoked. A delivery needs two attempts to be retried and given up, and one fault
to be delivered without being recorded. The properties of the serial runs are those that overlapping
handlers can break: section 6 lists by what.

The `services` run (about 1.2 million distinct states, some two minutes with two workers), each
service with two interchangeable callers and the smallest data that makes them meet:

| Property | Data | What it says |
|---|---|---|
| `PeopleAreTold` | 3 streams, 2 channels of which 1 may be watched, one stream stopped twice; 2 senders, 3 events | a poller runs iff somebody listens, and an open stream hangs on the entry polled for its channel and has heard what the hub learnt since it came; what happened to a record is notified or was muted, in one row |
| `DayAddsUp` | 1 correction, 3 minutes, 4 break events | breaks and worked time are those of events and corrections |
| `ChecksAreBacked` | 2 users, 1 item that asks for a note and a link or file, 2 tabs, 2 generators | done means evidenced; who succeeds left nobody out; of colliding runs one comes through |
| `OncePerThreshold` | 2 thresholds, 2 terms, 3 days | told iff marked, and once, up to a crash or a late write |
| `PayablesTieOut` | 2 bills, 1 credit, 1 payment, lists of 1 and 2 | columns, rows and the payable account agree |
| `ReconciliationsBalance` | 2 reconciliations, 2 lines, 1 statement line | a reconciliation has cleared the sum of its lines and balanced when completed |
| `VersionsAreBacked` | 2 bodies, 3 uploads, a scan of 2 | numbers without gaps, own bytes, and a scan that reports damage and nothing else |
| `ContentWorkIsKept` | 3 versions, 2 texts, answers and articles; 2 days, 4 items; 2 confirmations; 2 versions of artwork | a live identity shows its single live version, each day is planned once, first evidence stands, one version of a design is approved |
| `CountedOnce` | 2 metrics, figures 0 and 3, 2 migrations; 3 accountants, 4 entries | spend is the sum of its metrics and the old figure is kept once; an expense, or the opening balances, have no or one standing entry |
| `JobsComeDue` | 7 expressions (daily at each hour, hourly and restricted ones), local time unchanged, set back or set forward, 25 minutes in months of 1 and 3 days | the announced run is the first minute at which the tick finds the job due, and a daily job is due once a day, but for the time that is left out or repeated |
| `WindowsHold` | 2 servers, limit 1, windows of 2, 5 hits in 5 units of time | in memory and in Redis, a caller is served up to the limit of a window and again after it, and no stretch of a window's length serves more than two limits |
| `AmountsAddUp` | 4 policies, 5 kinds of line (inclusive, discounted, below zero), 2 lines, 2 rates, 3 transfers | tax fits the net, entries balance to the unit, and no document is refused for what rounding did |

Deadlock is checked in the runs of the ledger, permissions and webhooks. The others may stop once
their identifiers, versions, log entries, days or minutes are used up, and say `CHECK_DEADLOCK FALSE`.

**Fairness.** `Ledger!FairSpec` assumes weak fairness of the steps
of a started handler - the event loop runs a resolved promise on and the database answers - and
strong fairness of `AllocateNumber`, because PostgreSQL grants a contended row lock in the order
of its wait queue, so that a waiter whose row is released again and again gets it. Nothing is assumed
of failures (`Fail`, `LoseAudit`) nor of new requests. `RequestsFinish` then depends on every
transaction that fails releasing its row. `Webhooks!FairSpec` assumes that time passes, that each
process starts the job when something is due and works off its list (the scheduler runs it every
minute), and that a started attempt goes on (a request has a timeout). Nothing is assumed of the
endpoint, of crashes or of administrators. `EverySettles` then depends on the count of attempts
growing although several workers write it.

## 5. The proofs

**`Ledger_proofs.tla`**, for any clients, entries, accounts, journals, rates and calendar:

* `TypeCorrect`, `NumberingCorrect` (unique and gapless), `TrialBalance`, `ReversalsNet`,
  `AuditTruth` as invariants, `HistoryImmutable` as an action property, and `Refinement`: the
  ledger implements `GeneralLedger`. Types, numbering and history need no run of their own: they are
  proved for every instance.
* They follow from `Invariance`: `Spec => []IInv`. The properties alone are not inductive. `IInv`
  adds: `RequestInv`, what a handler carries at each place (a posting's lines balance, a reversal's
  are the contra lines of an existing original); `LockInv`, a numbered handler holds its sequence
  row, carries its `nextValue`, and nobody else holds that row; `NumbersBelow` and `NumbersUsed`,
  which give gaplessness without counting; `ContraLinked`, a reversed entry's lines are undone by
  those of the entry it names; `AuditPending`, an audit record on its way tells of something already
  on the books.
* The argument: entries change only in `CommitPost` and `CommitReversal`. There the
  lock makes the number new, `RequestInv` makes the lines balance, and the flip of the original
  keeps everything but status and link (`StepKeeps`). A second reversal overwrites the link with
  another entry with the same contra lines, which is why `ReversedIsNetted` survives the race that
  breaks `ReversalIsReciprocal`.
* `Refinement` needs no new invariant. `NoCommit` makes every step but the two commits a stutter
  of the book; `CommitWrites` gets the next number from the lock (`NumbersOf` is `1 .. n - 1` by
  `NumbersBelow` and `NumbersUsed`) and the balance from `RequestInv`; `ReversalReverses` adds that
  the original is marked and its lines undone in the same step.
* `PreparedType` and `ToBaseType` prove that conversion stays in the naturals;
  balance of the converted lines comes from the check `prepare` makes at its end.

* `ReversalsPairUp` and `ClosedStaysClosed` say what the serial run checks, under the weakest
  condition the code needs: no two handlers reverse the *same* entry at a time (`ReversedAlone`), and no
  control is changed between a posting's check and its commit (`ControlsAlone`). Everything else may
  overlap, fail and crash. The invariants are `LinkedBack` (a reversal on its way is of an entry that names
  none yet) and `CheckedOpen` (what a handler found open is open still). `OneHandler` is the case of the run.

The same module proves the three invariants of `Books`, for any rows, lists, amounts, clerks and policies:

* `PayablesTieOutAlways`. `PayInv` holds until a write has gone over another one's (`~overwritten`): a bill adds
  up and its entry is its own and of its total (`BillFits`); what is paid of it is the sum of what is applied to it,
  what is left of a credit or payment is what is not (`CreditFits`, `PaymentFits`); the sub-ledger is the balance
  of the account; *what a call has read* satisfies the checks it made (`PayCallFits`); and one call at a time posts a
  payment (`PaidOnce`). `overwritten` is raised where the row or allocations written have changed since they were
  read, so that a step that does not raise it writes over what `PayCallFits` describes.
* `ReconciliationsBalanceAlways`. `ClearInv` follows the calls that are *alone* on their reconciliation
  (`AloneAreAlone`): the sums they have read are those of its lines (`ClearingFits`), what is stored is the
  sum of the lines as long as nobody is between a tick and its sum (`ClearedFits`), and nobody who is alone works on
  one that is completed (`ClosedFits`). What goes wrong otherwise marks the reconciliation `astray`.
* `AmountsAddUpAlways`. A rounding moves a quotient by less than one, under each of the policies
  (`RoundUnsignedNear`), so that the tax of a line is fair and neither its net nor its tax is negative unless their
  sum is (`PricedLineFits`); amounts that each drift by at most one drift by at most `n` together (`SumNear`).
  Hence the entry of a document whose lines are not below zero needs a rounding line of at most a unit a line,
  which the ledger accepts, and it balances.
  An earlier form of the property, "an invoice is refused only for a line with a negative net", was
  false, and the attempt at proving it showed so: a line of minus one minor unit, tax included, has net 0
  and tax -1 when rounded down, and is refused for the tax.

**`Approvals_proofs.tla`**, for any users, rights, chains and handlers, all under every overlap. `TypeCorrect`
and `OutcomesAreDecided`: `IInv` binds the step a stale decision carries to the row's chain. `StepsGoInOrder`,
`NoticesAreTrue` and `DecisionsStay`, for requests that are not `overtaken`: `TrueInv` adds that such rows
are approved up to the current step, that a handler which is to write has read a pending row, and that what it
is about to tell, or has told, is true. `AloneOvertakesNobody`: as long as no two handlers decide or cancel the
same request at a time (`DecidedAlone`; other requests may go on), `overtaken` stays empty, and nothing is
excused. `OneHandler` is the case of a single one.

**`Scheduler_proofs.tla`**, for any instances, jobs and schedules: `TypeCorrect`, `NeverFiresTwice`,
`EveryClaimIsAccountedFor` and `RowsAreTruthful`, with crashes, restarts, lost calls, purges and
recoveries. `GuardsHold` says that `state.running` is the set of jobs a process runs. `MinutesAreClaimed`
says that while a minute may still be claimed, its claim is there if the job has run in it, was given up, or
is about to run, exactly one of them; `TasksAreYoung` bounds how late a claim can be attempted, so that
a purged claim cannot be made again. `RowsAndTasks` pairs rows that say running with live runners or with
what ended them. The only relation between constants is `DurationAssumption`: a run ends
(`MaxRun`) before its row counts as stale (`Stale`), as the code's 15 minutes intend.

**`Permissions_proofs.tla`**, for any users, roles, keys, dimensions, offers and times: `TypeCorrect`;
`AllEvaluationsAgree`, in which the four evaluations are related two by two by lemmas about the
operators, for every principal in use, however stale; and `DelegationNeverWidens`, whose invariant adds
`CarriedStaysWithin`: what an administrator carries into a handler lies within what super admins handed
out even after its own assignments are gone.

**`Workflow_proofs.tla`**, for any specifications, records and handlers: `TypeCorrect` under every
overlap, and one theorem per property under the condition that it needs. A handler may overlap with all
others, except that at most one at a time is

* between two steps of authoring (`AuthorsAlone`): `VersionsStayFrozen`;
* there or at work on a record (`HandlersAlone`): `RecordsStayUnderAVersion`, `RecordsWalk`;
* in the escalation job (`JobsAlone`): `EscalatedOncePerEntry`, with crashes of the job.

`EvidenceIsOnFile` needs, beside `AuthorsAlone`, only that nobody attaches, detaches or decides while a
handler is between counting the evidence and its commit (`EvidenceSettled`); transitions may overlap.
`OneClient` derives all five for one client, the case of the run. The long part is that records refer to a version that existed when they started (`BoundInv`), whose
specification `Frozen` keeps, so that every entry of a log is a move of *that* specification.

**`Receivables_proofs.tla`**, for any documents, totals, lists and years.

* `TypeCorrect`: every overlap, failure and death. `IInv` adds what a handler has found out at each of its
  places (`RequestFits`), that its document exists, and that the rows an open transaction has written are
  rows it has locked (`RowsAreHeld`).
* `ReceiptsNeverOverAllocate`: `NoOverAllocation` for any number of interleaving clients that create, issue
  and void invoices, create and issue credit notes, post receipts, reverse entries, fail and die, if
  invoices are paid by receipts of one year (`OnlyReceiptsAllocate`). That is what `receivables_concurrent` checks. The
  invariant, `Covered`, says that the balance a row shows, with everything allocated to the invoice and what an
  open transaction is about to allocate, is within its total; the lock of the year makes the reader of that
  balance the only one (`WorkCovered`). With a second source of allocations, or a second year, the statement is
  false: `receivables_over_allocation` is the counterexample.
* `TiesOut`, `DocumentsMatch`, `SerialNeverOverAllocates` and `SettledStaysSettled`: one request at a
  time, no death between the two transactions of a void, no reversal of a document's entry from the journal
  (`OneAtATime`); transactions may fail anywhere and roll back. `SerialInv` keeps four things together:
  columns against rows (`AllocationsFit`), entries against documents (`EntriesMatch`), the ledger's sum
  against the sub-ledger's (`BooksAgree`, off by one invoice in the middle of a void), and what the
  handler has read and is about to write against the tables (`WorkFits`).
* The properties speak of sums, which the libraries define by recursion over subsets. The lemmas at the
  head of the module do not take them on trust: `AllNaturals` is induction stated with a set instead of an
  operator, `SumsExist` builds the recursion over the subsets by size, and from it follow `SumNat`,
  `SumChange` (a function changed at one argument changes its sum by the difference) and `SumNext` (an entry
  appended to a list adds its amount).

**`Services_proofs.tla`**, for any callers, rows, texts, thresholds and bounds. A service has three lemmas, that
its initial states satisfy its invariant, that its steps keep it (resting on one lemma per action) and that the
invariant implies the property; `EachServiceSteps` joins them, as a step of `Services` is a step of one service
and leaves the others alone. Each invariant adds to the type what relates the rows, and *what a call has read* and
may still count on when it writes:

* `PeopleToldAsPromised`: `HubInv` follows a stream from its subscription to its stop (an entry is polled iff
  somebody listens, a stream not deaf has its entry, only its own), the cap on watched channels included;
  `ToldInv` says where every event is (told, silenced or pending), what a sender has looked at, and that without
  overlaps one row is live.
* `ChecksBackedAlways`: a tab that is about to mark an item done holds evidence that cannot go away, since files
  are only added; of the generators the one that comes through first leaves the others a collision to report.
* `ToldOncePerThreshold`: marks and notices are compared per term; what a run read belongs to the term it read
  (`ReadsAreOfTheirTerm`), it tells upward from what it found marked, and a teller in mid-flight is what they may
  differ by.
* `VersionsBackedAlways`: keys are handed out once (`issued`), so that a blob under an upload's key is its own; a
  number computed is the next or taken, and then the unique key refuses it; a scan remembers only what was damaged.
* `ContentWorkKept`: four invariants, each under the history variable that excuses it: the live version is the one
  shown and no open one precedes it, a generator knows which days it has covered, the first evidence stands, and any
  two approved versions of a design are equal.

**`Counts_proofs.tla`**, about what is counted.

* Deliveries of `Webhooks`, for any webhooks, events, processes and workers: `OutcomesEarned` needs
  `WinsAreAccepted` (an attempt about to record a success was accepted), `NoEventIsMissed` needs
  `CachesAreFresh` (a process that believes nobody listens is right about every webhook unchanged since
  the last tick). The backoff is a power of two, which the provers cannot type: `IsRow` leaves that column
  free, and nothing proved depends on it.
* `CountedOnceAlways`: `SpendInv` says that the total is the sum of the metrics, and that a transaction which has
  summed is good until another commits; `OnceInv` that an attempt at posting found no standing entry.
* `DayAddsUpAlways`: `DayInv` writes break minutes as the last correction of them plus the lengths of the breaks that
  ended since (`Lengthened`); a break that ends has the event before it, which is its start. The worked minutes need
  the row that check-out read to be the row there is, or `overlapped`.
* `WindowsHoldAlways`: with a window that begins at `start`, at most `Limit` hits pass from `start` on, and at most
  `Limit` in any stretch before it that could share a window's length with it (`Spaced`). A stretch of that length
  meets at most two windows, hence twice the limit. For the counter in Redis, `start` is the time of the first
  count, or of the last counter that has ended (`FleetKept`); a counter that was never given its end only serves less.
* `JobsComeDueAlways`. `WalkIs` gives the recursion of `nextRun`'s walk its closed form, minute after minute with
  one jump over what the clock shows twice, by induction up to the horizon; so the walk meets every later time but
  those (`WalkedCovers`), and the first match on it is the first match (`NextRunFits`). `JobsInv` is that what was
  announced fits the instant it was announced at. A daily job: every day has a month and a date (`DatesAre`), day,
  hour and minute make up a time in one way (`TimeParts`), and the change of clocks touches times of two days at
  most, those before and after it (`QuotientGrows`), so that on any other day the time comes at one instant.
* The properties add up by folds over finite sets, sets of sets included. Sums are treated as in
  `Receivables_proofs`: the recursion that defines the fold is shown to exist for every finite set, by well-founded
  induction on the size, and to be the sum, so that it changes by a difference, splits over a union and adds up
  argument by argument (`SumChange`, `SumUnion`, `SumPlus`).

`IInv`, `TrueInv`, `ReceiptsInv`, `SerialInv`, `PayInv`, `ClearInv`, `AmountsInv` and `JobsInv` were checked with TLC on the
instances of the runs before they were proved.

**Assumptions on constants**, each named where the constant is declared and evaluated by TLC in every run:
dates are positive and the calendar a function on them; lines, totals and bounds are naturals; identifiers
of different tables differ and, in `Receivables`, there are finitely many; in `Services` there are finitely many
callers (somebody calls), items and metrics, the limit is a natural and a window has a length; an allocation is
positive (lines of nothing are skipped, `ar.ts:393`); in `Books` so are amounts of bills and payments, discounts are
0 to 100 percent, taxes and rates not negative, and lists name bills; a calendar has minutes, hours, and months of 1
to 31 days, the clock changes by less than a day and not back to before the first, and cron expressions are such as
the parser accepts; chains of approvers are not empty; specifications have
the shape the parser accepts; null is no row, identifier or request; `MaxRun <= Stale`.

**The conditions on behaviours** (`ReversedAlone`, `ControlsAlone`, `DecidedAlone`, `AuthorsAlone`,
`HandlersAlone`, `JobsAlone`, `EvidenceSettled`, `OnlyReceiptsAllocate`, `OneAtATime`) are not ensured by
the code. They are met by the runs and by every deployment in which the requests in question do not meet;
each theorem says what depends on which, and section 6 what goes wrong without it.

**Model-checked only**: liveness (`RequestsFinish`, `EverySettles`) and whatever needs fairness or `ENABLED`, which
are out of the prover's reach. Every invariant of a passing run is proved, under its condition where it has one.

## 6. Where the code and its documents disagree

Shown by a run and quoted in `PROJECT.json`: `receivables_over_allocation`. A receipt and a credit
note applied at once over-allocate an invoice, against "no over-allocation" (`ar.ts:449-450`,
`docs/ACCOUNTING_POSTING_RULES.md:47-48`).

Met while modelling, each the reason why a property is checked in a serial run, or is stated up to
a history variable that the offending step sets:

**Ledger and receivables**
* Two reversals of one entry both commit a contra entry and only the last is linked, against "links
  both reciprocally" (`posting.ts:220-221`).
* A period closed between `assertOpenPeriod` and the commit is posted into (`posting.ts:172`); two
  changes of a period's status let one without `periods.reopen` reopen it (`fiscal.ts:57`).
* Two submissions of one draft both post (`ar.ts:245`); an edit that read a draft rewrites the
  totals of the invoice issued meanwhile (`ar.ts:182`); a receipt lands on an invoice that is being
  voided (`ar.ts:283`); a death between the two transactions of a void, or a reversal of the entry
  from the journal, leaves ledger and sub-ledger apart (`ar.ts:286`, `app/actions/accounting.ts:63`).
* An invoice with a negative line saves as a draft (`unitPrice` has no lower bound, `ar.ts:31`) and
  can never be issued: the line gets no journal line (`ar.ts:220`), so the entry does not balance. One minor unit
  below zero, tax included, is enough: its net may round to nothing and its tax to minus one.
* `money.ts:52` speaks of half a minor unit where the code takes a whole one; the models use the code's.

**Approvals and workflow**
* A stale rejection of step 1 lands after step 2 was approved, against "a later step can never approve
  before earlier steps are complete" (`approvals.ts:51-53`); a stale approval of a step that is
  not the last sets a cancelled request to pending again. `overtaken` records the requests this happened to.
* A specification with a cycle that has no exit is valid as long as the start can reach an end some
  other way, the only stage that is tested, against "every reachable non-terminal must be able to reach a terminal"
  (`lib/workflow/spec.ts:176`).
* Two overlapping transitions of one record both commit (`workflows.ts:382`), a save writes into a
  version that was activated meanwhile (`workflows.ts:173`), and two activations or two first saves
  can leave two active versions or two drafts. The mark of an escalation can land on a stage the
  record has just entered (`workflows.ts:510`).

**Jobs, webhooks, live updates**
* After a quick restart the row of the run that died says "running" until a later restart, since
  recovery runs at startup only and skips rows younger than 15 minutes (`scheduler.ts:173`,
  against `scheduler.ts:12-14`). "Exactly once per minute" is at most once: a claim whose
  holder dies or finds the job still running is a skipped minute.
* `nextRun` finds the first match *after* `from`, not "at or after" (`cron.ts:60`). In an hour that
  local time repeats its walk leaves the second pass out, although the tick matches it; a daily job in
  the hour that is skipped does not run that day. A date that no year within 366 days has
  (29 February) is announced as none.
* `attemptDelivery` passes over successes only, so that a dead-lettered delivery may be attempted
  again; a failure written late stands over another worker's success; a success that could not be
  recorded is sent again (`webhooks.ts:138-168`).
* A stream stopped twice may delete the entry of a later subscriber, whose stream stays deaf
  (`channel-hub.ts:91`); who joins while the first read is under way gets an empty signal; a late
  first read overwrites a newer one.
* If the request that lets a counter expire is lost, or the answer to the first count, the counter has
  no end and its caller is refused for good (`upstash.ts:28-29`, against "creating a `windowMs` window",
  `ratelimit/types.ts:15`, and "fails OPEN ... rather than locking users out", `upstash.ts:8-9`).

**Payables, bank, expenses**
* Payments and credits write absolute sums of what they read (`ap.ts:478`); a bill may be paid between
  the reversal of its entry and its void.
* Ticking through another reconciliation takes a line off a completed one; unticking leaves the
  statement line matched; one ledger line can be matched to two statement lines
  (`statement-import.ts:232`), and amounts are not compared. Cleared balances count lines of reversed
  entries, the carry-over only posted ones. The writes of a tick are not one transaction (`bank.ts:264-273`).
* Two postings of one expense both write an entry (`expenses-gl.ts:47`). Nothing in the code sets an
  expense to approved, and one whose entry was reversed cannot be posted again.

**Daily checks, attendance, reminders**
* The lock on a verified checklist tests a status that verification never sets (`daily-checks.ts:157`),
  items can be undone after completion, and of two generators the second fails on the unique key.
* Corrections do not recompute the worked total; the end of a break writes an absolute total; whether a
  correction is still pending is checked outside the transaction (`attendance.ts:114`, `206`).
* A run that dies between notice and mark reminds twice; a mark written after a renewal suppresses the
  reminders of the next term (`subscriptions.ts:186`).

**Content, files, spend, inbox**
* "Exactly one is current" (`answers.ts:157`) fails when approvals overlap; a stale submission writes
  over a retirement; approving an archived article's version brings it back; a draft of an article
  changes the title of the live one.
* "Approval is exclusive" (`design.ts:222-224`) fails when two approvals overlap. Approval works from any
  status, published ones included; a design can be set to approved without an approved version;
  nothing leads to archived.
* Overlapping generators plan a day twice (`social.ts:234`); an item moved to another day leaves its
  day to be planned again; a late confirmation without an address drops the one that was captured.
* That the old value "is never lost" (`campaigns.ts:243`) fails when a metric is added before the backfill, which
  replaces the old figure; transactions that overlap lose a sum until the next one; a backfill may
  migrate twice or bring back the spend of a metric deleted meanwhile.
* A refusal by the unique key leaves a blob without a row; the scan counts an unreachable store as a
  missing blob, against "ids whose blob is gone" (`storage-integrity.ts:28`); a new version without
  a file name writes back one that may have changed.
* A notification archived between look and renewal swallows the event; overlapping senders add two rows;
  marking by id revives an archived row (`domain/mutation.ts:92-106`, `notifications.ts:97`).

## 7. What is left out, and why

* Permission checks inside the modelled services, apart from those a property is about
  (`periods.reopen`, `approvals.*`): they read tables no modelled action writes. The engine that
  evaluates them is `Permissions`.
* Input validation that refuses a request before it reads anything; wording, layout and contents of
  notifications; the audit log outside `Ledger`.
* Numbers of documents other than journal entries and receipts: they come from the same
  `allocateNumber`, and only the receipts' lock orders anything else.
* Several customers and currencies in `Receivables`: sums per customer do not interact.
* Components without a protocol: creating fiscal years, charts of accounts and budgets, tasks and projects,
  master data, cases, messages of discussions, the creative library - guarded writes of single rows, for
  which a model could only repeat the assignment.
* Cryptography: password hashes, tokens, one-time codes, request signatures.
* Reports, imports, pages, components, dictionaries, seed data: reads, or calls of the services above.
  They are by far the larger part of the repository's lines, so that the modules, which cover the services
  with state and protocol, stand for a small share of all lines.

## 8. Plan

Done: `Ledger` with its refinement of `GeneralLedger`, `Receivables`, `Approvals`, `Workflow`, `Scheduler`,
`Permissions`, `Webhooks`, `Books` and `Services`, with their proofs; and `WorkflowSpec`. What is left, in the
order of what it would add:

1. Composition. `Receivables` over `GeneralLedger` in place of its own `gl`; `Governance`, `Approvals`
   with `Workflow`, where the evidence of a transition is a request the other module resolved;
   `Turn`, an abstract approval that only moves forward, refined by `Approvals` for requests that are not `overtaken`.
2. `Sessions`: revocation and the single use of recovery codes.

Runs and properties are kept few: small services share the run `services`, and where two modules serve
one purpose their properties are one.
