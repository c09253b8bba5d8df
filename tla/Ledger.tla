------------------------------- MODULE Ledger -------------------------------
(***************************************************************************)
(* The general ledger: posting a journal, reversing an entry, allocating   *)
(* document numbers and moving accounting periods through their statuses   *)
(* (domain/accounting/{posting,numbering,fiscal,settings}.ts).             *)
(*                                                                         *)
(* Every request is a handler on the server; handlers interleave at each   *)
(* await.  A handler first reads and validates outside any transaction,    *)
(* then runs one READ COMMITTED transaction, then appends to the audit     *)
(* log.  What a transaction wrote becomes visible at its commit; the only  *)
(* lock it holds across an await that others wait for is the row of the    *)
(* number sequence it took a number from.                                  *)
(***************************************************************************)
EXTENDS Integers, FiniteSets, Sequences, Functions

CONSTANTS
    Clients,     \* handlers that may be running at the same time
    EntryIds,    \* identifiers of journal entries (a bound on their number)
    Prefixes,    \* numbering prefixes of the configured journals
    Accounts,    \* general-ledger accounts
    RoundingAccount, \* the account for rounding differences, or None
    Journals,    \* what requests submit: lines in a currency, and its rate
    Dates,       \* posting dates, 1 .. a bound
    Periods,     \* accounting periods
    PeriodOf,    \* the period a date falls into, or None
    YearOf,      \* the calendar year of a date
    None         \* null

(* A journal line: at most one side carries an amount. *)
Line == [account : Accounts, debit : Nat, credit : Nat]

DatesAssumption == Dates \subseteq Nat \ {0}

CalendarAssumption ==
    /\ PeriodOf \in [Dates -> Periods \cup {None}]
    /\ YearOf \in [Dates -> Nat]

(* A rate is in tenths: 10 is the base currency's own. *)
JournalsAssumption ==
    Journals \subseteq [lines : Seq(Line), rate : Nat \ {0}]

RoundingAccountAssumption == RoundingAccount \in Accounts \cup {None}

NoneAssumption == None \notin Clients \cup EntryIds \cup Periods

ASSUME DatesAssumption
ASSUME CalendarAssumption
ASSUME JournalsAssumption
ASSUME RoundingAccountAssumption
ASSUME NoneAssumption

VARIABLES
    entries,      \* committed rows of JournalEntry, by id; None: no such row
    nextValue,    \* NumberSequence.nextValue, by sequence key
    holder,       \* the client whose open transaction locks that row, or None
    periodStatus, \* AccountingPeriod.status
    lockDate,     \* CompanyAccountingSettings.lockDate; 0: not set
    active,       \* Account.isActive and not archived
    auditLog,     \* the audit records written, as <<action, entity>>
    pc,           \* where each client's handler is
    req,          \* what it is working on
    num           \* the number its open transaction was allocated, else 0

vars == <<entries, nextValue, holder, periodStatus, lockDate, active,
          auditLog, pc, req, num>>

stores == <<entries, nextValue, holder, periodStatus, lockDate, active>>

-----------------------------------------------------------------------------
(* Data *)

ReversalPrefix == "REV"

PeriodStatuses == {"open", "soft_closed", "closed", "locked"}

Years == {YearOf[d] : d \in Dates}

(* A sequence is keyed by prefix and year. *)
SeqKeys == (Prefixes \cup {ReversalPrefix}) \X Years

Entry ==
    [status     : {"posted", "reversed"},
     key        : SeqKeys,
     number     : Nat,
     date       : Dates,
     period     : Periods \cup {None},
     lines      : Seq(Line),
     reversalOf : EntryIds \cup {None},
     reversedBy : EntryIds \cup {None}]

(* null is not a row. *)
NoEntryAssumption == None \notin Entry

ASSUME NoEntryAssumption

(* A posting or a reversal on its way to the ledger. *)
PostRequest ==
    [kind     : {"post", "reverse"},
     original : EntryIds \cup {None},
     prefix   : Prefixes \cup {ReversalPrefix},
     lines    : Seq(Line),
     date     : Dates,
     period   : Periods \cup {None},
     elevated : BOOLEAN]

(* A change of a period's status; mayReopen: holds periods.reopen. *)
PeriodRequest ==
    [kind      : {"period"},
     period    : Periods,
     to        : PeriodStatuses,
     mayReopen : BOOLEAN]

(* What is left to do after the change: the record for the audit log.  The *)
(* records of a period, the settings and an account are not told apart.    *)
AuditRequest ==
    [kind   : {"audit"},
     action : {"journal.posted", "journal.reversed", "control.changed"},
     entity : EntryIds \cup {None}]

Exists(e) == entries[e] # None

DebitTotal(lines) == SumFunction([i \in DOMAIN lines |-> lines[i].debit])

CreditTotal(lines) == SumFunction([i \in DOMAIN lines |-> lines[i].credit])

Balanced(lines) == DebitTotal(lines) = CreditTotal(lines)

(* Variant: a reversal that repeats the original instead of undoing it. *)
ContraUnswapped(lines) == lines

(* The lines of a reversal: debit and credit change places. *)
Contra(lines) ==
    [i \in DOMAIN lines |->
        [account |-> lines[i].account,
         debit   |-> lines[i].credit,
         credit  |-> lines[i].debit]]

(* Exactly one side of each line is positive. *)
OneSided(lines) ==
    \A i \in DOMAIN lines : (lines[i].debit > 0) # (lines[i].credit > 0)

(* prepare: what a journal must satisfy in its own currency. *)
Postable(journal) ==
    /\ \A i \in DOMAIN journal.lines : active[journal.lines[i].account]
    /\ OneSided(journal.lines)
    /\ Balanced(journal.lines)

(* An amount at a rate, in minor units of the base currency, half up. *)
ToBase(amount, rate) == (2 * (amount * rate) + 10) \div 20

(* The lines of a journal in the base currency, each rounded on its own. *)
Converted(journal) ==
    [i \in DOMAIN journal.lines |->
        [account |-> journal.lines[i].account,
         debit   |-> ToBase(journal.lines[i].debit, journal.rate),
         credit  |-> ToBase(journal.lines[i].credit, journal.rate)]]

(* The line that takes up a residual, the debits less the credits, on the  *)
(* side that lacks it: if it is drift at most and the account configured   *)
(* for it is active.                                                       *)
RoundingLines(residual, drift) ==
    {[account |-> a,
      debit   |-> IF residual > 0 THEN 0 ELSE -residual,
      credit  |-> IF residual > 0 THEN residual ELSE 0] :
        a \in {b \in {RoundingAccount} \cap Accounts :
                  active[b] /\ residual \in -drift .. drift}}

(* Variant: what the rounding of the lines leaves is left. *)
PreparedUnplugged(journal) == {Converted(journal)}

(* prepare's result, if it does not throw: the converted lines, with a     *)
(* rounding line for what they are out of balance, a minor unit per line   *)
(* and one more at most; the last check is that they balance.              *)
Prepared(journal) ==
    LET base == Converted(journal)
        residual == DebitTotal(base) - CreditTotal(base)
        plugged == {Append(base, l) : l \in RoundingLines(residual, Len(base) + 1)}
    IN {lines \in (IF residual = 0 THEN {base} ELSE plugged) : Balanced(lines)}

(* Variant: the lock date itself is taken to be open. *)
OpenOnLockDate(date, elevated) ==
    /\ date >= lockDate
    /\ \/ PeriodOf[date] = None
       \/ periodStatus[PeriodOf[date]] = "open"
       \/ periodStatus[PeriodOf[date]] = "soft_closed" /\ elevated

(* assertOpenPeriod *)
OpenForPosting(date, elevated) ==
    /\ date > lockDate
    /\ \/ PeriodOf[date] = None
       \/ periodStatus[PeriodOf[date]] = "open"
       \/ periodStatus[PeriodOf[date]] = "soft_closed" /\ elevated

Key(r) == <<r.prefix, YearOf[r.date]>>

-----------------------------------------------------------------------------
(* Steps of a posting *)

Goto(c, here, there) == pc[c] = here /\ pc' = [pc EXCEPT ![c] = there]

(* Where a handler is between its first check and its commit. *)
Posting == {"prepared", "ready", "numbered"}

InFlight == {c \in Clients : pc[c] \in Posting}

(* Bound: a request starts only if an entry id is left for it. *)
IdLeft == Cardinality({e \in EntryIds : Exists(e)} \cup InFlight)
            < Cardinality(EntryIds)

(* postJournalEntry: parse and prepare, outside the transaction. *)
PrepareJournal(c, prefix, journal, date, elevated) ==
    /\ Goto(c, "idle", "prepared")
    /\ IdLeft
    /\ Postable(journal)
    /\ \E lines \in Prepared(journal) :
          req' = [req EXCEPT ![c] =
                    [kind |-> "post", original |-> None, prefix |-> prefix,
                     lines |-> lines, date |-> date, period |-> None,
                     elevated |-> elevated]]
    /\ UNCHANGED <<stores, auditLog, num>>

(* reverseEntry: read the original with its lines and check its status. *)
ReadOriginal(c, e, date, elevated) ==
    /\ Goto(c, "idle", "prepared")
    /\ IdLeft
    /\ Exists(e)
    /\ entries[e].status = "posted"
    /\ entries[e].reversedBy = None
    /\ req' = [req EXCEPT ![c] =
                 [kind |-> "reverse", original |-> e, prefix |-> ReversalPrefix,
                  lines |-> Contra(entries[e].lines), date |-> date,
                  period |-> None, elevated |-> elevated]]
    /\ UNCHANGED <<stores, auditLog, num>>

(* assertOpenPeriod, still outside the transaction. *)
CheckPeriod(c) ==
    /\ Goto(c, "prepared", "ready")
    /\ OpenForPosting(req[c].date, req[c].elevated)
    /\ req' = [req EXCEPT ![c].period = PeriodOf[req[c].date]]
    /\ UNCHANGED <<stores, auditLog, num>>

(* assertOpenPeriod throws and the request is refused. *)
RefusePeriod(c) ==
    /\ Goto(c, "prepared", "idle")
    /\ ~OpenForPosting(req[c].date, req[c].elevated)
    /\ req' = [req EXCEPT ![c] = None]
    /\ UNCHANGED <<stores, auditLog, num>>

(* Variant: the next value is read and not locked. *)
AllocateUnlocked(c) ==
    LET k == Key(req[c]) IN
    /\ Goto(c, "ready", "numbered")
    /\ holder' = [holder EXCEPT ![k] = c]
    /\ num' = [num EXCEPT ![c] = nextValue[k]]
    /\ UNCHANGED <<entries, nextValue, periodStatus, lockDate, active,
                   auditLog, req>>

(* Variant: the audit record is written before the commit. *)
AllocateAndAudit(c) ==
    LET k == Key(req[c]) IN
    /\ Goto(c, "ready", "numbered")
    /\ holder[k] = None
    /\ holder' = [holder EXCEPT ![k] = c]
    /\ num' = [num EXCEPT ![c] = nextValue[k]]
    /\ auditLog' = auditLog \cup {<<"journal.reversed", req[c].original>>}
    /\ UNCHANGED <<entries, nextValue, periodStatus, lockDate, active, req>>

(* allocateNumber: the UPDATE waits for the row, bumps it and keeps it     *)
(* locked until the transaction ends.                                      *)
AllocateNumber(c) ==
    LET k == Key(req[c]) IN
    /\ Goto(c, "ready", "numbered")
    /\ holder[k] = None
    /\ holder' = [holder EXCEPT ![k] = c]
    /\ num' = [num EXCEPT ![c] = nextValue[k]]
    /\ UNCHANGED <<entries, nextValue, periodStatus, lockDate, active,
                   auditLog, req>>

(* The sequence row as the committing transaction leaves it. *)
ReleaseNumber(c) ==
    LET k == Key(req[c]) IN
    /\ holder' = [holder EXCEPT ![k] = None]
    /\ nextValue' = [nextValue EXCEPT ![k] = num[c] + 1]
    /\ num' = [num EXCEPT ![c] = 0]

(* The row that the transaction of request r, numbered n, creates. *)
NewEntry(r, n) ==
    [status |-> "posted", key |-> Key(r), number |-> n, date |-> r.date,
     period |-> r.period, lines |-> r.lines, reversalOf |-> r.original,
     reversedBy |-> None]

AuditOf(action, entity) ==
    [kind |-> "audit", action |-> action, entity |-> entity]

(* writePostedEntry and the commit. *)
CommitPost(c, e) ==
    /\ Goto(c, "numbered", "audit")
    /\ req[c].kind = "post"
    /\ ~Exists(e)
    /\ entries' = [entries EXCEPT ![e] = NewEntry(req[c], num[c])]
    /\ ReleaseNumber(c)
    /\ req' = [req EXCEPT ![c] = AuditOf("journal.posted", e)]
    /\ UNCHANGED <<periodStatus, lockDate, active, auditLog>>

(* Variant: the original is not flipped to reversed. *)
CommitContraOnly(c, e) ==
    /\ Goto(c, "numbered", "audit")
    /\ req[c].kind = "reverse"
    /\ ~Exists(e)
    /\ entries' = [entries EXCEPT ![e] = NewEntry(req[c], num[c])]
    /\ ReleaseNumber(c)
    /\ req' = [req EXCEPT ![c] = AuditOf("journal.reversed", req[c].original)]
    /\ UNCHANGED <<periodStatus, lockDate, active, auditLog>>

(* The reversal's transaction: create the contra entry and flip the        *)
(* original, by id and whatever its status is by now.                      *)
CommitReversal(c, e) ==
    LET o == req[c].original IN
    /\ Goto(c, "numbered", "audit")
    /\ req[c].kind = "reverse"
    /\ ~Exists(e)
    /\ entries' = [entries EXCEPT
                     ![o] = [@ EXCEPT !.status = "reversed", !.reversedBy = e],
                     ![e] = NewEntry(req[c], num[c])]
    /\ ReleaseNumber(c)
    /\ req' = [req EXCEPT ![c] = AuditOf("journal.reversed", o)]
    /\ UNCHANGED <<periodStatus, lockDate, active, auditLog>>

-----------------------------------------------------------------------------
(* Controls that move underneath a posting *)

(* Does setting p to this status reopen it? *)
IsReopen(p, to) ==
    /\ periodStatus[p] \in {"closed", "locked"}
    /\ to \in {"open", "soft_closed"}

(* setPeriodStatus: read the period and check the permission it needs. *)
ReadPeriod(c, p, to, mayReopen) ==
    /\ Goto(c, "idle", "period")
    /\ IsReopen(p, to) => mayReopen
    /\ req' = [req EXCEPT ![c] = [kind |-> "period", period |-> p,
                                  to |-> to, mayReopen |-> mayReopen]]
    /\ UNCHANGED <<stores, auditLog, num>>

(* setPeriodStatus: write the new status. *)
WritePeriod(c) ==
    /\ Goto(c, "period", "audit")
    /\ periodStatus' = [periodStatus EXCEPT ![req[c].period] = req[c].to]
    /\ req' = [req EXCEPT ![c] = AuditOf("control.changed", None)]
    /\ UNCHANGED <<entries, nextValue, holder, lockDate, active, auditLog, num>>

(* upsertAccountingSettings, the lock date. *)
SetLockDate(c, d) ==
    /\ Goto(c, "idle", "audit")
    /\ lockDate' = d
    /\ req' = [req EXCEPT ![c] = AuditOf("control.changed", None)]
    /\ UNCHANGED <<entries, nextValue, holder, periodStatus, active, auditLog, num>>

(* setAccountActive *)
SetAccountActive(c, a, isActive) ==
    /\ Goto(c, "idle", "audit")
    /\ active' = [active EXCEPT ![a] = isActive]
    /\ req' = [req EXCEPT ![c] = AuditOf("control.changed", None)]
    /\ UNCHANGED <<entries, nextValue, holder, periodStatus, lockDate, auditLog, num>>

-----------------------------------------------------------------------------
(* How a handler ends *)

(* audit: after the commit. *)
WriteAudit(c) ==
    /\ Goto(c, "audit", "idle")
    /\ auditLog' = auditLog \cup {<<req[c].action, req[c].entity>>}
    /\ req' = [req EXCEPT ![c] = None]
    /\ UNCHANGED <<stores, num>>

(* The record is lost: writeAudit swallows its errors, and the process may *)
(* die between the commit and the insert.                                  *)
LoseAudit(c) ==
    /\ Goto(c, "audit", "idle")
    /\ req' = [req EXCEPT ![c] = None]
    /\ UNCHANGED <<stores, auditLog, num>>

(* Variant: a failed transaction keeps its row lock. *)
FailAndHold(c) ==
    /\ pc[c] \in Posting \cup {"period"}
    /\ pc' = [pc EXCEPT ![c] = "idle"]
    /\ req' = [req EXCEPT ![c] = None]
    /\ num' = [num EXCEPT ![c] = 0]
    /\ UNCHANGED <<stores, auditLog>>

(* A check fails, a statement fails or the process dies before the commit: *)
(* an open transaction rolls back and gives up its row lock.               *)
Fail(c) ==
    /\ pc[c] \in Posting \cup {"period"}
    /\ pc' = [pc EXCEPT ![c] = "idle"]
    /\ holder' = [k \in SeqKeys |-> IF holder[k] = c THEN None ELSE holder[k]]
    /\ req' = [req EXCEPT ![c] = None]
    /\ num' = [num EXCEPT ![c] = 0]
    /\ UNCHANGED <<entries, nextValue, periodStatus, lockDate, active, auditLog>>

-----------------------------------------------------------------------------

Init ==
    /\ entries = [e \in EntryIds |-> None]
    /\ nextValue = [k \in SeqKeys |-> 1]
    /\ holder = [k \in SeqKeys |-> None]
    /\ periodStatus = [p \in Periods |-> "open"]
    /\ lockDate = 0
    /\ active = [a \in Accounts |-> TRUE]
    /\ auditLog = {}
    /\ pc = [c \in Clients |-> "idle"]
    /\ req = [c \in Clients |-> None]
    /\ num = [c \in Clients |-> 0]

(* The steps that carry a started request on. *)
Continue(c) ==
    \/ CheckPeriod(c)
    \/ RefusePeriod(c)
    \/ AllocateNumber(c)
    \/ \E e \in EntryIds : CommitPost(c, e)
    \/ \E e \in EntryIds : CommitReversal(c, e)
    \/ WritePeriod(c)
    \/ WriteAudit(c)
    \/ LoseAudit(c)
    \/ Fail(c)

(* The steps that start one. *)
Start(c) ==
    \/ \E x \in Prefixes, j \in Journals, d \in Dates, v \in BOOLEAN :
           PrepareJournal(c, x, j, d, v)
    \/ \E e \in EntryIds, d \in Dates, v \in BOOLEAN : ReadOriginal(c, e, d, v)
    \/ \E p \in Periods, to \in PeriodStatuses, v \in BOOLEAN :
           ReadPeriod(c, p, to, v)
    \/ \E d \in Dates \cup {0} : SetLockDate(c, d)
    \/ \E a \in Accounts, v \in BOOLEAN : SetAccountActive(c, a, v)

Next == \E c \in Clients : Start(c) \/ Continue(c)

Spec == Init /\ [][Next]_vars

(* A started handler is run on by the event loop and its statements by the *)
(* database, which grants a contended row lock in the order of the wait    *)
(* queue.  Nothing is assumed of failures or of new requests.              *)
Fairness ==
    \A c \in Clients :
        /\ WF_vars(CheckPeriod(c) \/ RefusePeriod(c))
        /\ SF_vars(AllocateNumber(c))
        /\ WF_vars(\E e \in EntryIds : CommitPost(c, e) \/ CommitReversal(c, e))
        /\ WF_vars(WritePeriod(c))
        /\ WF_vars(WriteAudit(c))

FairSpec == Spec /\ Fairness

-----------------------------------------------------------------------------
(* Properties *)

(* The stores, the locks and the handlers hold values of their types.      *)
TypeOK ==
    /\ entries \in [EntryIds -> Entry \cup {None}]
    /\ nextValue \in [SeqKeys -> Nat \ {0}]
    /\ holder \in [SeqKeys -> Clients \cup {None}]
    /\ periodStatus \in [Periods -> PeriodStatuses]
    /\ lockDate \in Dates \cup {0}
    /\ active \in [Accounts -> BOOLEAN]
    /\ pc \in [Clients -> Posting \cup {"idle", "period", "audit"}]
    /\ num \in [Clients -> Nat]
    /\ DOMAIN req = Clients
    /\ \A c \in Clients :
         /\ pc[c] = "idle" => req[c] = None
         /\ pc[c] = "period" => req[c] \in PeriodRequest
         /\ pc[c] = "audit" => req[c] \in AuditRequest
         /\ pc[c] \in Posting => req[c] \in PostRequest

(* No two entries of the company carry the same journal number: what       *)
(* allocateNumber promises two simultaneous posts.                         *)
NumbersUnique ==
    \A e, f \in EntryIds :
        Exists(e) /\ Exists(f) /\ entries[e].key = entries[f].key
            /\ entries[e].number = entries[f].number => e = f

(* A sequence has no holes: rolled-back and crashed transactions give      *)
(* their number back, so the numbers in use are 1 .. nextValue - 1.        *)
NumbersGapless ==
    \A k \in SeqKeys :
        {entries[e].number : e \in {f \in EntryIds : Exists(f) /\ entries[f].key = k}}
            = 1 .. nextValue[k] - 1

(* The trial balance: every entry of the ledger, posted or reversed,       *)
(* original or contra, has equal debits and credits in the base currency,  *)
(* although each line of a foreign journal is rounded on its own.          *)
LedgerBalances == \A e \in EntryIds : Exists(e) => Balanced(entries[e].lines)

(* Posted together, two line lists leave every account where it was. *)
Nets(lines, others) ==
    /\ DOMAIN lines = DOMAIN others
    /\ \A i \in DOMAIN lines :
         /\ lines[i].account = others[i].account
         /\ lines[i].debit = others[i].credit
         /\ lines[i].credit = others[i].debit

(* A reversed entry is netted out on the books: the entry it names as its  *)
(* reversal exists, points back to it and undoes its lines.                *)
ReversedIsNetted ==
    \A e \in EntryIds : Exists(e) /\ entries[e].status = "reversed" =>
        LET r == entries[e].reversedBy IN
        /\ r \in EntryIds /\ Exists(r)
        /\ entries[r].reversalOf = e
        /\ Nets(entries[e].lines, entries[r].lines)

(* Original and reversal are linked reciprocally, so an entry has at most  *)
(* one reversal (posting.ts: "links both reciprocally").                   *)
ReversalIsReciprocal ==
    \A r \in EntryIds : Exists(r) /\ entries[r].reversalOf # None =>
        entries[entries[r].reversalOf].reversedBy = r

(* Posted history is immutable: an entry never disappears, never changes   *)
(* its number, date, period, lines or origin, and a reversed entry is      *)
(* never posted again.                                                     *)
PostedIsImmutable ==
    [][\A e \in EntryIds : Exists(e) =>
          LET old == entries[e]
              new == entries'[e]
          IN /\ new # None
             /\ new = [old EXCEPT !.status = new.status, !.reversedBy = new.reversedBy]
             /\ old.status = "reversed" => new.status = "reversed"]_vars

(* No entry is committed into a period that is closed or locked at that    *)
(* moment, nor on or before the lock date.                                 *)
NoPostIntoClosed ==
    [][\A e \in EntryIds : ~Exists(e) /\ entries'[e] # None =>
          LET new == entries'[e]
          IN /\ new.date > lockDate
             /\ new.period # None => periodStatus[new.period] \in {"open", "soft_closed"}]_vars

(* The audit log never tells of a posting or a reversal that is not on the *)
(* books, whatever was rolled back or crashed.                             *)
AuditIsTruthful ==
    \A e \in EntryIds :
        /\ <<"journal.posted", e>> \in auditLog => Exists(e)
        /\ <<"journal.reversed", e>> \in auditLog =>
              Exists(e) /\ entries[e].status = "reversed"

(* The book of the abstract ledger: what of a row is promised to stay.     *)
Book ==
    [e \in {f \in EntryIds : Exists(f)} |->
        [key |-> entries[e].key, number |-> entries[e].number,
         lines |-> entries[e].lines, reversed |-> entries[e].status = "reversed"]]

Promise == INSTANCE GeneralLedger WITH Ids <- EntryIds, Keys <- SeqKeys, book <- Book

(* However handlers overlap, fail and crash, the tables behave like a book *)
(* that only grows: each step writes at most one entry, balanced, under    *)
(* the next number of its sequence (so numbers are unique and gapless),    *)
(* and changes no other, except that a reversal marks what it undoes in    *)
(* the same step.                                                          *)
KeepsPromise == Promise!Spec

(* Every request that starts ends, because a transaction that fails gives  *)
(* its row lock up.                                                        *)
RequestsFinish == \A c \in Clients : pc[c] # "idle" ~> pc[c] = "idle"

=============================================================================
