--------------------------- MODULE Reconciliation ---------------------------
(***************************************************************************)
(* Bank reconciliation: the ledger lines of a bank account are ticked      *)
(* (domain/accounting/bank.ts) or matched with statement lines             *)
(* (domain/accounting/statement-import.ts), each change recomputes the     *)
(* cleared balance of its reconciliation, and a reconciliation is          *)
(* completed when that balance, with what earlier ones have cleared, is    *)
(* the bank's.  A tick is three database calls, a match one transaction.   *)
(*                                                                         *)
(* One bank account; all dates lie on or before the statement dates.       *)
(***************************************************************************)
EXTENDS Integers, FiniteSetsExt

CONSTANTS
    Accountants,     \* users with a call under way
    Reconciliations,
    BankLines,       \* journal lines on the account of the bank
    LineAmount,      \* their debit less credit
    Tickable,        \* of these, the ones that are ticked, and whose entry is
                     \* reversed (a bound); the others are only matched
    StatementLines,
    Balances,        \* statement balances
    None             \* null

VARIABLES
    reconciliation, \* BankReconciliation rows
    bankLine,       \* the reconciliation of each line, and whether its entry
                    \* is posted or has been reversed
    matchedLine,    \* the line a statement line is matched with
    clearing,       \* the call of each accountant
    astray,         \* history: reconciliations that lost a line to another
                    \* one, or that calls changed at the same time, or a call
                    \* left halfway, until a call works on them alone
    checked,        \* history: the true total when a reconciliation was
                    \* completed, by a call alone, because it balanced
    closing         \* history: its lines when it was completed

clearvars == <<reconciliation, bankLine, matchedLine, clearing, astray, checked, closing>>

LinesOf(r) == {l \in BankLines : bankLine[l].rec = r}

Sum(lines) == MapThenSumSet(LAMBDA l : LineAmount[l], lines)

Open(r) == reconciliation[r] # None /\ reconciliation[r].status = "open"

(* openingClearedBalance *)
Opening(r) ==
    Sum({l \in BankLines : bankLine[l].rec \notin {None, r} /\ bankLine[l].posted})

At(c, step) == clearing[c] # None /\ clearing[c].step = step

On(r) == {c \in Accountants : clearing[c] # None /\ clearing[c].rec = r}

(* The others who work on r are no longer alone. *)
Meet(c, call, r) ==
    [d \in Accountants |-> IF d = c THEN call
                           ELSE IF d \in On(r) THEN [clearing[d] EXCEPT !.alone = FALSE]
                           ELSE clearing[d]]

Begin(c, call) ==
    /\ clearing[c] = None
    /\ Open(call.rec)
    /\ clearing' = Meet(c, call, call.rec)

(* A line that goes elsewhere leaves its reconciliation astray. *)
Robbed(c) == {bankLine[clearing[c].line].rec} \ {None, clearing[c].rec}

(* A call ends: what it did alone is in order, and sets r right. *)
End(c, alone) ==
    LET r == clearing[c].rec IN
    /\ clearing' = [clearing EXCEPT ![c] = None]
    /\ astray' = IF alone THEN astray \ {r} ELSE astray \cup {r}

-----------------------------------------------------------------------------

CreateReconciliation(r, balance) ==
    /\ reconciliation[r] = None
    /\ reconciliation' = [reconciliation EXCEPT ![r] =
                            [statement |-> balance, cleared |-> 0, status |-> "open"]]
    /\ UNCHANGED <<bankLine, matchedLine, clearing, astray, checked, closing>>

(* The bank's entries are reversed like any others. *)
ReverseLine(l) ==
    /\ bankLine[l].posted
    /\ bankLine' = [bankLine EXCEPT ![l].posted = FALSE]
    /\ UNCHANGED <<reconciliation, matchedLine, clearing, astray, checked, closing>>

-----------------------------------------------------------------------------
(* setLineReconciled *)

(* Only who clears a line minds where it is cleared. *)
ReadForTick(c, r, l, cleared) ==
    /\ cleared => bankLine[l].rec \in {None, r}
    /\ Begin(c, [step |-> "tick", rec |-> r, alone |-> On(r) = {}, line |-> l,
                 to |-> IF cleared THEN r ELSE None, sum |-> 0])
    /\ UNCHANGED <<reconciliation, bankLine, matchedLine, astray, checked, closing>>

(* The row is locked by a match that has changed it. *)
Locked(l) == \E d \in Accountants : At(d, "matched") /\ clearing[d].line = l

Tick(c) ==
    LET l == clearing[c].line IN
    /\ At(c, "tick") /\ ~Locked(l)
    /\ bankLine' = [bankLine EXCEPT ![l].rec = clearing[c].to]
    /\ clearing' = LET call == [clearing[c] EXCEPT !.step = "sum"]
                   IN IF Robbed(c) = {} THEN [clearing EXCEPT ![c] = call]
                      ELSE Meet(c, call, bankLine[l].rec)
    /\ astray' = astray \cup Robbed(c)
    /\ UNCHANGED <<reconciliation, matchedLine, checked, closing>>

(* Variant: the line is added to the balance, or taken off it. *)
AddUp(c) ==
    /\ At(c, "sum")
    /\ clearing' = [clearing EXCEPT
                      ![c].step = "write",
                      ![c].sum = reconciliation[clearing[c].rec].cleared
                        + (IF clearing[c].to = None THEN -1 ELSE 1) * LineAmount[clearing[c].line]]
    /\ UNCHANGED <<reconciliation, bankLine, matchedLine, astray, checked, closing>>

SumUp(c) ==
    /\ At(c, "sum")
    /\ clearing' = [clearing EXCEPT ![c].step = "write",
                                    ![c].sum = Sum(LinesOf(clearing[c].rec))]
    /\ UNCHANGED <<reconciliation, bankLine, matchedLine, astray, checked, closing>>

WriteCleared(c) ==
    /\ At(c, "write")
    /\ reconciliation' = [reconciliation EXCEPT ![clearing[c].rec].cleared = clearing[c].sum]
    /\ End(c, clearing[c].alone)
    /\ UNCHANGED <<bankLine, matchedLine, checked, closing>>

(* A database call fails, or the process ends. *)
LeaveHalfway(c) ==
    /\ At(c, "sum") \/ At(c, "write")
    /\ End(c, FALSE)
    /\ UNCHANGED <<reconciliation, bankLine, matchedLine, checked, closing>>

-----------------------------------------------------------------------------
(* confirmMatch *)

ReadForMatch(c, r, s, l) ==
    /\ bankLine[l].rec \in {None, r}
    /\ matchedLine[s] = None
    /\ Begin(c, [step |-> "match", rec |-> r, alone |-> On(r) = {}, line |-> l,
                 statement |-> s, sum |-> 0])
    /\ UNCHANGED <<reconciliation, bankLine, matchedLine, astray, checked, closing>>

(* Both rows are written, unseen by others, and the sum includes them. *)
Match(c) ==
    /\ At(c, "match") /\ ~Locked(clearing[c].line)
    /\ \A d \in Accountants : At(d, "matched") => clearing[d].statement # clearing[c].statement
    /\ clearing' = [clearing EXCEPT
                      ![c].step = "matched",
                      ![c].sum = Sum(LinesOf(clearing[c].rec) \cup {clearing[c].line})]
    /\ UNCHANGED <<reconciliation, bankLine, matchedLine, astray, checked, closing>>

CommitMatch(c) ==
    LET r == clearing[c].rec
        l == clearing[c].line
    IN
    /\ At(c, "matched")
    /\ bankLine' = [bankLine EXCEPT ![l].rec = r]
    /\ matchedLine' = [matchedLine EXCEPT ![clearing[c].statement] = l]
    /\ reconciliation' = [reconciliation EXCEPT ![r].cleared = clearing[c].sum]
    /\ clearing' = IF Robbed(c) = {} THEN [clearing EXCEPT ![c] = None]
                   ELSE Meet(c, None, bankLine[l].rec)
    /\ astray' = (IF clearing[c].alone THEN astray \ {r} ELSE astray \cup {r}) \cup Robbed(c)
    /\ UNCHANGED <<checked, closing>>

-----------------------------------------------------------------------------
(* completeReconciliation *)

ReadForComplete(c, r, force) ==
    /\ Begin(c, [step |-> "weigh", rec |-> r, alone |-> On(r) = {},
                 row |-> reconciliation[r], force |-> force, total |-> 0])
    /\ UNCHANGED <<reconciliation, bankLine, matchedLine, astray, checked, closing>>

InBalance(c) ==
    LET row == clearing[c].row IN row.statement = Opening(clearing[c].rec) + row.cleared

(* The carry is summed; an imbalance ends the call, unless it is forced. *)
Weigh(c) ==
    LET r == clearing[c].rec IN
    /\ At(c, "weigh")
    /\ clearing' = [clearing EXCEPT ![c] =
                      IF InBalance(c) \/ @.force
                      THEN [@ EXCEPT !.step = "complete", !.row = None,
                                      !.total = Opening(r) + Sum(LinesOf(r))]
                      ELSE None]
    /\ UNCHANGED <<reconciliation, bankLine, matchedLine, astray, checked, closing>>

Complete(c) ==
    LET r == clearing[c].rec
        alone == clearing[c].alone /\ r \notin astray
    IN
    /\ At(c, "complete")
    /\ reconciliation' = [reconciliation EXCEPT ![r].status = "completed"]
    /\ checked' = [checked EXCEPT ![r] =
                     IF alone /\ ~clearing[c].force THEN clearing[c].total ELSE None]
    /\ closing' = [closing EXCEPT ![r] = LinesOf(r)]
    /\ End(c, alone)
    /\ UNCHANGED <<bankLine, matchedLine>>

-----------------------------------------------------------------------------

Init ==
    /\ reconciliation = [r \in Reconciliations |-> None]
    /\ bankLine = [l \in BankLines |-> [rec |-> None, posted |-> TRUE]]
    /\ matchedLine = [s \in StatementLines |-> None]
    /\ clearing = [c \in Accountants |-> None]
    /\ astray = {}
    /\ checked = [r \in Reconciliations |-> None]
    /\ closing = [r \in Reconciliations |-> {}]

Next ==
    \/ \E r \in Reconciliations, b \in Balances : CreateReconciliation(r, b)
    \/ \E l \in Tickable : ReverseLine(l)
    \/ \E c \in Accountants :
        \/ \E r \in Reconciliations :
            \/ \E l \in Tickable, cleared \in BOOLEAN : ReadForTick(c, r, l, cleared)
            \/ \E s \in StatementLines, l \in BankLines : ReadForMatch(c, r, s, l)
            \/ \E force \in BOOLEAN : ReadForComplete(c, r, force)
        \/ Tick(c) \/ SumUp(c) \/ WriteCleared(c) \/ LeaveHalfway(c)
        \/ Match(c) \/ CommitMatch(c)
        \/ Weigh(c) \/ Complete(c)

Spec == Init /\ [][Next]_clearvars

-----------------------------------------------------------------------------

InOrder == {r \in Reconciliations : reconciliation[r] # None /\ r \notin astray}

ClearedIsTheSum ==
    \A r \in InOrder : On(r) = {} => reconciliation[r].cleared = Sum(LinesOf(r))

BalancedWhenCompleted ==
    \A r \in Reconciliations : checked[r] # None => checked[r] = reconciliation[r].statement

CompletedStaysClosed ==
    \A r \in InOrder : reconciliation[r].status = "completed" => LinesOf(r) = closing[r]

(* While nobody works on it, a reconciliation has cleared exactly the sum  *)
(* of its lines, and keeps the lines it was completed with, unless it is   *)
(* astray, and one call alone, on any of its lines, sets it right again;   *)
(* and what was completed as balanced, by a call alone, did balance        *)
(* (domain/accounting/bank.ts:210-290, statement-import.ts:222-242).       *)
ReconciliationsBalance ==
    ClearedIsTheSum /\ BalancedWhenCompleted /\ CompletedStaysClosed

=============================================================================
