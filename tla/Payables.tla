------------------------------ MODULE Payables ------------------------------
(***************************************************************************)
(* The accounts-payable sub-ledger (domain/accounting/ap.ts) over the      *)
(* payable account: bills are drafted, edited, posted, paid off by         *)
(* payments and supplier credits, or voided.  Each call reads what it      *)
(* decides on, and commits in a transaction of its own, in which it stores *)
(* values computed from its reads; calls overlap in between, and a void,   *)
(* which takes two transactions, may be cut short.                         *)
(*                                                                         *)
(* One supplier and one currency; periods, accounts and numbering are      *)
(* Ledger's.  An allocation list names each bill at most once.             *)
(***************************************************************************)
EXTENDS Integers, Sequences, Functions

CONSTANTS
    Clerks,          \* users with a call under way
    Bills,
    SupplierCredits,
    Payments,
    Amounts,         \* totals and amounts
    AllocationLists, \* functions from bills to amounts
    MaxPostings,     \* bound on the entries of the payable account
    NoRow            \* null

VARIABLES
    bill,           \* SupplierBill rows
    supplierCredit, \* SupplierCredit rows
    payment,        \* SupplierPayment rows
    applied,        \* BillPaymentAllocation and SupplierCreditApplication
    account,        \* the entries on the payable account, credits positive
    paying,         \* the call of each clerk, as of what it has read
    overwritten     \* history: a call relied on a row that had changed since
                    \* it was read, or settled a bill that was being voided,
                    \* or a void was cut short

payvars == <<bill, supplierCredit, payment, applied, account, paying, overwritten>>

Settlers == SupplierCredits \cup Payments

OpenBill == {"open", "partially_paid"}

Bill(total) == [status |-> "draft", total |-> total, paid |-> 0, due |-> total, entry |-> 0]

Entry(source, amount) == [source |-> source, amount |-> amount, status |-> "posted"]

Total(list) == SumFunction(list)

Idle(c) == paying[c] = NoRow

Calls(c, op) == paying[c] # NoRow /\ paying[c].op = op

Ask(c, call) == Idle(c) /\ paying' = [paying EXCEPT ![c] = call]

(* A call commits and returns; changed: what it overwrites is not what it  *)
(* read.                                                                   *)
Commit(c, changed) ==
    /\ paying' = [paying EXCEPT ![c] = NoRow]
    /\ overwritten' = (overwritten \/ changed)

(* A bound. *)
RoomForEntry == Len(account) < MaxPostings

Standing(b) == bill[b].entry # 0 /\ account[bill[b].entry].status = "posted"

-----------------------------------------------------------------------------
(* Bills *)

CreateBill(b, total) ==
    /\ bill[b] = NoRow
    /\ bill' = [bill EXCEPT ![b] = Bill(total)]
    /\ UNCHANGED <<supplierCredit, payment, applied, account, paying, overwritten>>

(* updateBill, postBill, voidBill: a draft is read. *)
ReadDraftBill(c, op, b, total) ==
    /\ bill[b] # NoRow /\ bill[b].status = "draft"
    /\ Ask(c, [op |-> op, doc |-> b, row |-> bill[b], total |-> total])
    /\ UNCHANGED <<bill, supplierCredit, payment, applied, account, overwritten>>

UpdateBill(c) ==
    LET b == paying[c].doc IN
    /\ Calls(c, "update")
    /\ bill' = [bill EXCEPT ![b].total = paying[c].total, ![b].due = paying[c].total]
    /\ Commit(c, bill[b] # paying[c].row)
    /\ UNCHANGED <<supplierCredit, payment, applied, account>>

(* The entry is over the total that was read. *)
PostBill(c) ==
    LET b == paying[c].doc IN
    /\ Calls(c, "post") /\ RoomForEntry
    /\ account' = Append(account, Entry(b, paying[c].row.total))
    /\ bill' = [bill EXCEPT ![b].status = "open", ![b].entry = Len(account) + 1]
    /\ Commit(c, bill[b] # paying[c].row)
    /\ UNCHANGED <<supplierCredit, payment, applied>>

VoidDraft(c) ==
    LET b == paying[c].doc IN
    /\ Calls(c, "voidDraft")
    /\ bill' = [bill EXCEPT ![b].status = "void"]
    /\ Commit(c, bill[b] # paying[c].row)
    /\ UNCHANGED <<supplierCredit, payment, applied, account>>

(* Variant: a bill may be voided until it is paid. *)
ReadForVoidUnpaid(c, b) ==
    /\ bill[b] # NoRow /\ bill[b].status \notin {"draft", "void"}
    /\ bill[b].due > 0
    /\ Ask(c, [op |-> "void", doc |-> b, row |-> bill[b]])
    /\ UNCHANGED <<bill, supplierCredit, payment, applied, account, overwritten>>

(* voidBill, a posted one: nothing may have been applied to it. *)
ReadForVoid(c, b) ==
    /\ bill[b] # NoRow /\ bill[b].status \notin {"draft", "void"}
    /\ bill[b].due > 0 /\ bill[b].due = bill[b].total
    /\ Ask(c, [op |-> "void", doc |-> b, row |-> bill[b]])
    /\ UNCHANGED <<bill, supplierCredit, payment, applied, account, overwritten>>

(* reverseEntry: its own transaction; an entry already reversed ends the   *)
(* call.                                                                   *)
ReverseForVoid(c) ==
    LET e == paying[c].row.entry
        standing == account[e].status = "posted"
    IN
    /\ Calls(c, "void") /\ RoomForEntry
    /\ account' = IF standing
                  THEN Append([account EXCEPT ![e].status = "reversed"],
                              Entry(account[e].source, -account[e].amount))
                  ELSE account
    /\ paying' = [paying EXCEPT ![c] = IF standing THEN [@ EXCEPT !.op = "voided"] ELSE NoRow]
    /\ overwritten' = (overwritten \/ bill[paying[c].doc] # paying[c].row)
    /\ UNCHANGED <<bill, supplierCredit, payment, applied>>

VoidBill(c) ==
    LET b == paying[c].doc IN
    /\ Calls(c, "voided")
    /\ bill' = [bill EXCEPT ![b].status = "void", ![b].due = 0]
    /\ Commit(c, bill[b] # paying[c].row)
    /\ UNCHANGED <<supplierCredit, payment, applied, account>>

CutShort(c) ==
    /\ Calls(c, "voided")
    /\ Commit(c, TRUE)
    /\ UNCHANGED <<bill, supplierCredit, payment, applied, account>>

-----------------------------------------------------------------------------
(* Supplier credits *)

CreateSupplierCredit(n, total) ==
    /\ supplierCredit[n] = NoRow
    /\ supplierCredit' = [supplierCredit EXCEPT ![n] =
                            [status |-> "draft", total |-> total, left |-> total]]
    /\ UNCHANGED <<bill, payment, applied, account, paying, overwritten>>

ReadDraftCredit(c, n) ==
    /\ supplierCredit[n] # NoRow /\ supplierCredit[n].status = "draft"
    /\ Ask(c, [op |-> "postCredit", doc |-> n, row |-> supplierCredit[n]])
    /\ UNCHANGED <<bill, supplierCredit, payment, applied, account, overwritten>>

PostSupplierCredit(c) ==
    LET n == paying[c].doc IN
    /\ Calls(c, "postCredit") /\ RoomForEntry
    /\ account' = Append(account, Entry(n, -paying[c].row.total))
    /\ supplierCredit' = [supplierCredit EXCEPT ![n].status = "open"]
    /\ Commit(c, supplierCredit[n] # paying[c].row)
    /\ UNCHANGED <<bill, payment, applied>>

-----------------------------------------------------------------------------
(* Allocation, in the transaction of a credit or of a payment *)

(* Each bill of the list must be open, and due no less. *)
Payable(list) ==
    \A b \in DOMAIN list :
        bill[b] # NoRow /\ bill[b].status \in OpenBill /\ list[b] <= bill[b].due

(* By the time the bills are written, what was read of one has changed, or *)
(* a void that is under way has reversed its entry.                        *)
BillsChanged(c) ==
    \E b \in DOMAIN paying[c].list : bill[b] # paying[c].bills[b] \/ ~Standing(b)

(* The bills are stored as they were read, less the amounts; the rows of   *)
(* the allocations are incremented in place.                               *)
SettleBills(c, source) ==
    LET list == paying[c].list
        read == paying[c].bills
    IN
    /\ bill' = [b \in Bills |->
                  IF b \in DOMAIN list
                  THEN [bill[b] EXCEPT
                          !.paid = read[b].paid + list[b],
                          !.due = read[b].due - list[b],
                          !.status = IF read[b].due = list[b] THEN "paid"
                                                             ELSE "partially_paid"]
                  ELSE bill[b]]
    /\ applied' = [applied EXCEPT ![source] =
                     [b \in Bills |-> @[b] + IF b \in DOMAIN list THEN list[b] ELSE 0]]

ReadForCredit(c, n, list) ==
    /\ supplierCredit[n] # NoRow /\ supplierCredit[n].status \in {"open", "applied"}
    /\ list # <<>> /\ Total(list) <= supplierCredit[n].left /\ Payable(list)
    /\ Ask(c, [op |-> "apply", doc |-> n, row |-> supplierCredit[n], list |-> list,
               bills |-> Restrict(bill, DOMAIN list)])
    /\ UNCHANGED <<bill, supplierCredit, payment, applied, account, overwritten>>

ApplySupplierCredit(c) ==
    LET n == paying[c].doc
        left == paying[c].row.left - Total(paying[c].list)
    IN
    /\ Calls(c, "apply")
    /\ SettleBills(c, n)
    /\ supplierCredit' = [supplierCredit EXCEPT
                            ![n].left = left,
                            ![n].status = IF left = 0 THEN "applied" ELSE "open"]
    /\ Commit(c, BillsChanged(c) \/ supplierCredit[n] # paying[c].row)
    /\ UNCHANGED <<payment, account>>

(* postPayment: the allocations are within the amount, and their bills are *)
(* read in the transaction.                                                *)
ReadForPayment(c, p, amount, list) ==
    /\ payment[p] = NoRow /\ \A d \in Clerks : Calls(d, "pay") => paying[d].doc # p
    /\ Total(list) <= amount /\ Payable(list)
    /\ Ask(c, [op |-> "pay", doc |-> p, amount |-> amount, list |-> list,
               bills |-> Restrict(bill, DOMAIN list)])
    /\ UNCHANGED <<bill, supplierCredit, payment, applied, account, overwritten>>

PostPayment(c) ==
    LET p == paying[c].doc
        amount == paying[c].amount
    IN
    /\ Calls(c, "pay") /\ RoomForEntry
    /\ payment' = [payment EXCEPT ![p] =
                     [amount |-> amount, unapplied |-> amount - Total(paying[c].list)]]
    /\ account' = Append(account, Entry(p, -amount))
    /\ SettleBills(c, p)
    /\ Commit(c, BillsChanged(c))
    /\ UNCHANGED supplierCredit

ReadForAllocation(c, p, list) ==
    /\ payment[p] # NoRow
    /\ Total(list) <= payment[p].unapplied /\ Payable(list)
    /\ Ask(c, [op |-> "allocate", doc |-> p, row |-> payment[p], list |-> list,
               bills |-> Restrict(bill, DOMAIN list)])
    /\ UNCHANGED <<bill, supplierCredit, payment, applied, account, overwritten>>

AllocatePayment(c) ==
    LET p == paying[c].doc IN
    /\ Calls(c, "allocate")
    /\ SettleBills(c, p)
    /\ payment' = [payment EXCEPT ![p].unapplied =
                     paying[c].row.unapplied - Total(paying[c].list)]
    /\ Commit(c, BillsChanged(c) \/ payment[p] # paying[c].row)
    /\ UNCHANGED <<supplierCredit, account>>

-----------------------------------------------------------------------------

Init ==
    /\ bill = [b \in Bills |-> NoRow]
    /\ supplierCredit = [n \in SupplierCredits |-> NoRow]
    /\ payment = [p \in Payments |-> NoRow]
    /\ applied = [s \in Settlers |-> [b \in Bills |-> 0]]
    /\ account = <<>>
    /\ paying = [c \in Clerks |-> NoRow]
    /\ overwritten = FALSE

Next ==
    \/ \E b \in Bills, t \in Amounts : CreateBill(b, t)
    \/ \E n \in SupplierCredits, t \in Amounts : CreateSupplierCredit(n, t)
    \/ \E c \in Clerks :
        \/ \E b \in Bills :
            \/ \E t \in Amounts : ReadDraftBill(c, "update", b, t)
            \/ \E op \in {"post", "voidDraft"} : ReadDraftBill(c, op, b, 0)
            \/ ReadForVoid(c, b)
        \/ UpdateBill(c) \/ PostBill(c) \/ VoidDraft(c)
        \/ ReverseForVoid(c) \/ VoidBill(c) \/ CutShort(c)
        \/ \E n \in SupplierCredits :
            \/ ReadDraftCredit(c, n)
            \/ \E list \in AllocationLists : ReadForCredit(c, n, list)
        \/ PostSupplierCredit(c) \/ ApplySupplierCredit(c)
        \/ \E p \in Payments, list \in AllocationLists :
            \/ \E amount \in Amounts : ReadForPayment(c, p, amount, list)
            \/ ReadForAllocation(c, p, list)
        \/ PostPayment(c) \/ AllocatePayment(c)

Spec == Init /\ [][Next]_payvars

-----------------------------------------------------------------------------

Drawn == {b \in Bills : bill[b] # NoRow}
Credited == {n \in SupplierCredits : supplierCredit[n] # NoRow}
Paid == {p \in Payments : payment[p] # NoRow}

(* Of what is due, only that of bills which stand. *)
Dues == [b \in Bills |-> IF b \in Drawn /\ Standing(b) THEN bill[b].due ELSE 0]

Lefts ==
    [n \in SupplierCredits |->
        IF n \in Credited /\ supplierCredit[n].status # "draft" THEN supplierCredit[n].left
                                                               ELSE 0]

Remainders == [p \in Payments |-> IF p \in Paid THEN payment[p].unapplied ELSE 0]

SubLedger == SumFunction(Dues) - SumFunction(Lefts) - SumFunction(Remainders)

AccountBalance == SumFunction([k \in DOMAIN account |-> account[k].amount])

AppliedTo(b) == SumFunction([s \in Settlers |-> applied[s][b]])

ColumnsAddUp ==
    /\ \A b \in Drawn :
          /\ bill[b].paid = AppliedTo(b)
          /\ bill[b].due >= 0
          /\ bill[b].status # "void" => bill[b].paid + bill[b].due = bill[b].total
          /\ bill[b].status = "paid" <=> bill[b].due = 0 /\ bill[b].status # "void"
    /\ \A n \in Credited :
          supplierCredit[n].left + Total(applied[n]) = supplierCredit[n].total
    /\ \A p \in Paid : payment[p].unapplied + Total(applied[p]) = payment[p].amount

EntriesMatch ==
    \A b \in Drawn :
        /\ bill[b].status \in OpenBill \cup {"paid"} /\ Standing(b)
              => account[bill[b].entry].amount = bill[b].total
        /\ bill[b].status = "void" => bill[b].paid = 0 /\ ~Standing(b)

(* As long as no call relies on a row that has changed since it read it,   *)
(* and no void is cut short or meets a settlement: bills, credits and      *)
(* payments add up with the allocations between them, nothing is paid      *)
(* beyond what is due, an open or paid bill stands in the ledger with its  *)
(* total and a void one does not, and the dues less the unapplied          *)
(* remainders are the balance of the payable account                       *)
(* (domain/accounting/ap.ts:131-484).                                      *)
PayablesTieOut ==
    ~overwritten => ColumnsAddUp /\ EntriesMatch /\ SubLedger = AccountBalance

=============================================================================
