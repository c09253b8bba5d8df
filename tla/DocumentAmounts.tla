-------------------------- MODULE DocumentAmounts --------------------------
(***************************************************************************)
(* From the lines of an invoice to the lines of its journal entry          *)
(* (lib/accounting-math.ts, lib/money.ts, domain/accounting/ar.ts,         *)
(* posting.ts).  Net and tax of each line are rounded when the draft is    *)
(* saved, under the policy of that day.  When it is issued, receivable,    *)
(* revenues and tax are converted to the base currency and rounded one by  *)
(* one, under the policy of this day, and a rounding line takes up what is *)
(* left.  Bills are priced and posted alike, with the sides swapped        *)
(* (ap.ts).  A transfer between currencies converts two amounts and books  *)
(* their difference as a gain or loss (bank.ts).                           *)
(*                                                                         *)
(* Amounts are minor units, gross amounts tenths of them; a rate is in     *)
(* tenths.  All accounts are set; taxes go to one account.                 *)
(***************************************************************************)
EXTENDS Integers, Sequences, FiniteSets, Functions

CONSTANTS
    Policies,  \* rounding policies
    Lines,     \* what a line is priced with: its gross, discount, tax and
               \* whether the gross includes the tax (percentages)
    MaxLines,  \* bound on the lines of an invoice
    Rates,     \* exchange rates
    Transfers, \* what is transferred: amounts and rates of both sides
    Unissued   \* null

VARIABLES
    policy,   \* settings.roundingPolicy
    invoice,  \* the lines of the invoice, net and tax
    booked,   \* issued: the lines of its entry in the base currency
    refused,  \* history: issuing this invoice was refused
    transfer  \* the last transfer and the lines of its entry

amountvars == <<policy, invoice, booked, refused, transfer>>

-----------------------------------------------------------------------------
(* Rounding *)

(* The quotient of two naturals, to an integer. *)
RoundUnsigned(n, d, mode) ==
    LET rest == n % d
        up == \/ mode = "up" /\ rest > 0
              \/ mode = "half_up" /\ 2 * rest >= d
              \/ mode = "half_even" /\ (2 * rest > d \/ (2 * rest = d /\ (n \div d) % 2 = 1))
    IN n \div d + (IF up THEN 1 ELSE 0)

(* Up is away from zero. *)
Round(n, d, mode) == IF n < 0 THEN -RoundUnsigned(-n, d, mode) ELSE RoundUnsigned(n, d, mode)

LineAmounts(line, mode) ==
    LET gross == Round(line.gross * (100 - line.discount), 1000, mode)
        net   == IF line.inclusive THEN Round(100 * gross, 100 + line.tax, mode) ELSE gross
    IN [net |-> net,
        tax |-> IF line.inclusive THEN gross - net ELSE Round(gross * line.tax, 100, mode),
        rate |-> line.tax]

Total(lines) == SumFunction([i \in DOMAIN lines |-> lines[i].net + lines[i].tax])

-----------------------------------------------------------------------------
(* Journals: their lines by what they are for.  The receivable is line 0,  *)
(* a line of the invoice keeps its number, the tax comes after them.       *)

Debit(amount) == [debit |-> amount, credit |-> 0]

Credit(amount) == [debit |-> 0, credit |-> amount]

Debits(journal) == SumFunction([k \in DOMAIN journal |-> journal[k].debit])

Credits(journal) == SumFunction([k \in DOMAIN journal |-> journal[k].credit])

Charged(lines) == {i \in DOMAIN lines : lines[i].net > 0}

Taxed(lines) == {i \in DOMAIN lines : lines[i].tax > 0}

Tax(lines) == SumFunctionOnSet([i \in DOMAIN lines |-> lines[i].tax], Taxed(lines))

TaxLine(lines) == Len(lines) + 1

(* invoiceJournalInput: what is not positive gets no line. *)
InvoiceJournal(lines) ==
    [k \in {0} \cup Charged(lines) \cup (IF Tax(lines) > 0 THEN {TaxLine(lines)} ELSE {}) |->
        CASE k = 0 -> Debit(Total(lines))
          [] k \in Charged(lines) -> Credit(lines[k].net)
          [] OTHER -> Credit(Tax(lines))]

(* Two lines or more, each with one positive side, and in balance.         *)
Postable(journal) ==
    /\ Cardinality(DOMAIN journal) >= 2
    /\ \A k \in DOMAIN journal :
          /\ journal[k].debit >= 0 /\ journal[k].credit >= 0
          /\ (journal[k].debit > 0) # (journal[k].credit > 0)
    /\ Debits(journal) = Credits(journal)

Converted(journal, rate, mode) ==
    [k \in DOMAIN journal |-> [debit  |-> Round(journal[k].debit * rate, 10, mode),
                               credit |-> Round(journal[k].credit * rate, 10, mode)]]

(* Variant: a minor unit, however many lines. *)
DriftOfOne(journal) == 1

(* What may be left to a rounding line: a minor unit per line, and one.    *)
MaxDrift(journal) == Cardinality(DOMAIN journal) + 1

Plug(residual) == IF residual > 0 THEN Credit(residual) ELSE Debit(-residual)

(* The rounding line. *)
Rounding == -1

(* prepare: the lines in the base currency, or Unissued if it refuses.     *)
Prepared(journal, rate, mode) ==
    LET base == Converted(journal, rate, mode)
        residual == Debits(base) - Credits(base)
    IN CASE ~Postable(journal) \/ residual > MaxDrift(journal) \/ -residual > MaxDrift(journal)
              -> Unissued
         [] residual = 0 -> base
         [] OTHER -> [k \in {Rounding} \cup DOMAIN base |->
                         IF k = Rounding THEN Plug(residual) ELSE base[k]]

(* createTransfer's journal, in the base currency, with a line for the     *)
(* difference (fxResidual).                                                *)
TransferJournal(t, mode) ==
    LET from == Round(t.fromAmount * t.fromRate, 10, mode)
        to   == Round(t.toAmount * t.toRate, 10, mode)
    IN [k \in 1 .. (IF from = to THEN 2 ELSE 3) |->
           CASE k = 1 -> Debit(to)
             [] k = 2 -> Credit(from)
             [] OTHER -> IF from > to THEN Debit(from - to) ELSE Credit(to - from)]

-----------------------------------------------------------------------------

SetPolicy(mode) ==
    /\ policy' = mode
    /\ UNCHANGED <<invoice, booked, refused, transfer>>

(* createInvoice and updateInvoice price all lines afresh. *)
SaveInvoice(lines) ==
    /\ booked = Unissued
    /\ invoice' = [i \in DOMAIN lines |-> LineAmounts(lines[i], policy)]
    /\ refused' = FALSE
    /\ UNCHANGED <<policy, booked, transfer>>

(* What prepare refuses stays a draft. *)
IssueInvoice(rate) ==
    /\ invoice # <<>> /\ booked = Unissued
    /\ Total(invoice) # 0
    /\ booked' = Prepared(InvoiceJournal(invoice), rate, policy)
    /\ refused' = (booked' = Unissued)
    /\ UNCHANGED <<policy, invoice, transfer>>

CreateTransfer(t) ==
    /\ transfer' = [of |-> t, lines |-> Prepared(TransferJournal(t, policy), 10, policy)]
    /\ UNCHANGED <<policy, invoice, booked, refused>>

Init ==
    /\ policy \in Policies
    /\ invoice = <<>> /\ booked = Unissued /\ refused = FALSE
    /\ transfer = Unissued

Next ==
    \/ \E mode \in Policies : SetPolicy(mode)
    \/ \E n \in 1 .. MaxLines : \E lines \in [1 .. n -> Lines] : SaveInvoice(lines)
    \/ \E rate \in Rates : IssueInvoice(rate)
    \/ \E t \in Transfers : CreateTransfer(t)

Spec == Init /\ [][Next]_amountvars

-----------------------------------------------------------------------------
(* Properties *)

Within(n, bound) == -bound < n /\ n < bound

(* The tax of a line, included or added, is that of its net: rounding      *)
(* twice moves it by less than a minor unit and the tax on one.            *)
TaxIsFair ==
    \A i \in DOMAIN invoice :
        Within(100 * invoice[i].tax - invoice[i].rate * invoice[i].net, 100 + invoice[i].rate)

(* An entry in the base currency balances to the unit, and an invoice is   *)
(* never refused for what rounding did, whatever policies and rate it met  *)
(* - but it is for a line below zero, which the journal leaves out, or     *)
(* whose tax it leaves out.                                                *)
InvoicesCanBeIssued ==
    /\ booked # Unissued => Debits(booked) = Credits(booked)
    /\ refused => \E i \in DOMAIN invoice : invoice[i].net + invoice[i].tax < 0

(* A transfer balances, with its gain or loss; it is refused if a side is  *)
(* worth nothing in the base currency.                                     *)
TransfersBalance ==
    transfer # Unissued =>
        IF transfer.lines = Unissued
          THEN \E mode \in Policies :
                  \/ Round(transfer.of.fromAmount * transfer.of.fromRate, 10, mode) = 0
                  \/ Round(transfer.of.toAmount * transfer.of.toRate, 10, mode) = 0
          ELSE Debits(transfer.lines) = Credits(transfer.lines)

(* Amounts survive discounts, taxes, rates and rounding. *)
AmountsAddUp == TaxIsFair /\ InvoicesCanBeIssued /\ TransfersBalance

=============================================================================
