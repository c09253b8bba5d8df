----------------------------- MODULE Receivables -----------------------------
(***************************************************************************)
(* The accounts-receivable sub-ledger over the general ledger              *)
(* (domain/accounting/ar.ts): invoices are drafted, issued, paid off by    *)
(* receipts and credit notes, or voided.                                   *)
(*                                                                         *)
(* Handlers interleave at each await.  A READ COMMITTED transaction sees   *)
(* what is committed when it reads, and what it wrote itself; its UPDATE   *)
(* of a row waits until no other open transaction has written that row,    *)
(* and stores the values the handler computed from its earlier read.  A    *)
(* transaction that allocates a number and then only writes is one step.   *)
(* One customer and one currency; every period is open and every account   *)
(* postable (Ledger models those checks, and the audit log).               *)
(***************************************************************************)
EXTENDS Integers, Sequences, FiniteSets, Functions

CONSTANTS
    Clients,      \* handlers that may be running at the same time
    Invoices,     \* identifiers of sales invoices
    CreditNotes,  \* identifiers of credit notes
    Receipts,     \* identifiers of customer receipts
    Years,        \* calendar years of receipts; receipts are numbered by year
    Totals,       \* the totals and amounts documents are made out for
    Lists,        \* the allocation lists submitted, of [invoice, amount]
    Kinds,        \* the kinds of request the clients make
    Crashes,      \* may the process die between two transactions of a handler?
    MaxEntries,   \* bound on the number of journal entries
    None          \* null

AllKinds == {"create", "update", "issue", "void", "credit", "apply",
             "receipt", "allocate", "reverse"}

KindsAssumption == Kinds \subseteq AllKinds

(* Identifiers of different tables differ, and there are only so many; null *)
(* is none of them.                                                        *)
IdentifiersAssumption ==
    /\ IsFiniteSet(Invoices) /\ IsFiniteSet(CreditNotes) /\ IsFiniteSet(Receipts)
    /\ Invoices \cap (CreditNotes \cup Receipts \cup Years) = {}
    /\ CreditNotes \cap Receipts = {}
    /\ None \notin Clients

(* An allocation of nothing is skipped (ar.ts:393, 495, 530), so the lists *)
(* hold positive amounts.                                                  *)
Allocation == [invoice : Invoices, amount : Nat \ {0}]

AmountsAssumption == Totals \subseteq Nat /\ Lists \subseteq Seq(Allocation)

ASSUME KindsAssumption
ASSUME IdentifiersAssumption
ASSUME AmountsAssumption

VARIABLES
    invoice,  \* rows of SalesInvoice; None: not created
    credit,   \* rows of CreditNote
    receipt,  \* rows of CustomerReceipt
    alloc,    \* amounts of the allocation and application rows; 0: no row
    gl,       \* the journal entries on the receivable account, as committed
    lock,     \* the client whose open transaction locks a row, or None
    pc,       \* where each client's handler is
    req,      \* what it works on and what it has read
    writes,   \* the invoice rows its open transaction has written
    made      \* the allocations that transaction has made

vars == <<invoice, credit, receipt, alloc, gl, lock, pc, req, writes, made>>

tables == <<invoice, credit, receipt, alloc, gl>>

Sources == CreditNotes \cup Receipts

Lockable == Invoices \cup Years

Open == {"issued", "partially_paid"}

NoRows == [i \in {} |-> None]

-----------------------------------------------------------------------------
(* Rows *)

Invoice == [status : Open \cup {"draft", "paid", "void"},
            total : Nat, paid : Int, due : Int, entry : Nat]

CreditNote == [status : {"draft", "issued", "applied"},
               total : Nat, applied : Int, remaining : Int]

Receipt == [amount : Nat, allocated : Int, unapplied : Int]

(* An entry by its effect on the receivable account, debits positive.      *)
GlEntry == [source : Invoices \cup Sources, amount : Int,
            status : {"posted", "reversed"}]

(* What an open transaction writes into an invoice. *)
Pending == [status : {"partially_paid", "paid"}, paid : Int, due : Int]

(* What a handler works on, by what it has found out. *)
DraftRequest == [kind : {"update", "issue", "void"}, doc : Invoices, total : Nat]
                \cup [kind : {"credit"}, doc : CreditNotes, total : Nat]

VoidRequest == [kind : {"void"}, doc : Invoices, entry : Nat]
               \cup [kind : {"reverse"}, doc : Invoices \cup Sources, entry : Nat]

ListRequest == [kind : {"apply"}, doc : CreditNotes, todo : Seq(Allocation)]
               \cup [kind : {"allocate"}, doc : Receipts, todo : Seq(Allocation)]

AllocationRequest ==
    [kind : {"apply"}, doc : CreditNotes, todo : Seq(Allocation),
     row : Pending \cup {None}, left : Int]
    \cup [kind : {"allocate"}, doc : Receipts, todo : Seq(Allocation),
          row : Pending \cup {None}, left : Int]

ReceiptRequest ==
    [kind : {"receipt"}, doc : Receipts, todo : Seq(Allocation),
     row : Pending \cup {None}, left : Int, allocated : Nat, year : Years, amount : Nat]

(* f has rows of some invoices. *)
HasRows(f, T) == DOMAIN f \subseteq Invoices /\ f \in [DOMAIN f -> T]

Request == DraftRequest \cup VoidRequest \cup ListRequest
           \cup AllocationRequest \cup ReceiptRequest

(* Null is not a row, nor a request. *)
NullAssumption == None \notin Invoice \cup CreditNote \cup Receipt \cup Request

ASSUME NullAssumption

Draft(total) == [status |-> "draft", total |-> total, paid |-> 0,
                 due |-> total, entry |-> 0]

DraftCredit(total) == [status |-> "draft", total |-> total, applied |-> 0,
                       remaining |-> total]

Posting(source, amount) ==
    [source |-> source, amount |-> amount, status |-> "posted"]

(* The partial function f with one more row, or that row replaced. *)
With(f, i, row) == [j \in DOMAIN f \cup {i} |-> IF j = i THEN row ELSE f[j]]

(* What the open transaction of c has allocated to invoice i so far. *)
Made(c, i) == IF i \in DOMAIN made[c] THEN made[c][i] ELSE 0

ListTotal(list) == SumFunction([k \in DOMAIN list |-> list[k].amount])

-----------------------------------------------------------------------------
(* Steps *)

Goto(c, here, there) == pc[c] = here /\ pc' = [pc EXCEPT ![c] = there]

(* The handler returns, with nothing of it left behind. *)
Return(c) ==
    /\ pc' = [pc EXCEPT ![c] = "idle"]
    /\ req' = [req EXCEPT ![c] = None]

(* Where a handler may be that has not committed anything yet. *)
Uncommitted == {"checked", "voiding", "reversing", "allocating", "writing"}

(* Bound: entries on the ledger and those that started requests may add. *)
EntryLeft == Len(gl) + Cardinality({c \in Clients : pc[c] # "idle"}) < MaxEntries

Starts(c, kind) == kind \in Kinds /\ pc[c] = "idle" /\ EntryLeft

(* createInvoice *)
CreateInvoice(c, i, total) ==
    /\ Starts(c, "create")
    /\ invoice[i] = None
    /\ invoice' = [invoice EXCEPT ![i] = Draft(total)]
    /\ UNCHANGED <<credit, receipt, alloc, gl, lock, pc, req, writes, made>>

(* createCreditNote *)
CreateCreditNote(c, n, total) ==
    /\ Starts(c, "create")
    /\ credit[n] = None
    /\ credit' = [credit EXCEPT ![n] = DraftCredit(total)]
    /\ UNCHANGED <<invoice, receipt, alloc, gl, lock, pc, req, writes, made>>

(* Variant: the status of the invoice is not checked. *)
ReadDraftAnyStatus(c, i, kind, total) ==
    /\ Starts(c, kind)
    /\ Goto(c, "idle", "checked")
    /\ invoice[i] # None
    /\ req' = [req EXCEPT ![c] = [kind |-> kind, doc |-> i, total |-> total]]
    /\ UNCHANGED <<tables, lock, writes, made>>

(* What updateInvoice, issueInvoice and voidInvoice read outside their     *)
(* transaction: a draft, which they may edit, issue or void.               *)
ReadDraft(c, i, kind, total) ==
    /\ Starts(c, kind)
    /\ Goto(c, "idle", "checked")
    /\ invoice[i] # None
    /\ invoice[i].status = "draft"
    /\ req' = [req EXCEPT ![c] = [kind |-> kind, doc |-> i, total |-> total]]
    /\ UNCHANGED <<tables, lock, writes, made>>

ReadForUpdate(c, i, total) == ReadDraft(c, i, "update", total)

(* issueInvoice refuses a zero total. *)
ReadForIssue(c, i) ==
    /\ ReadDraft(c, i, "issue", invoice[i].total)
    /\ invoice[i].total # 0

ReadDraftForVoid(c, i) == ReadDraft(c, i, "void", invoice[i].total)

(* updateInvoice: one transaction rewrites lines and totals, by id. *)
CommitUpdate(c) ==
    LET i == req[c].doc IN
    /\ pc[c] = "checked" /\ req[c].kind = "update"
    /\ lock[i] = None
    /\ invoice' = [invoice EXCEPT ![i].total = req[c].total, ![i].due = req[c].total]
    /\ Return(c)
    /\ UNCHANGED <<credit, receipt, alloc, gl, lock, writes, made>>

(* issueInvoice: number, entry over the total that was read, and status.   *)
CommitIssue(c) ==
    LET i == req[c].doc IN
    /\ pc[c] = "checked" /\ req[c].kind = "issue"
    /\ lock[i] = None
    /\ gl' = Append(gl, Posting(i, req[c].total))
    /\ invoice' = [invoice EXCEPT ![i].status = "issued", ![i].entry = Len(gl) + 1]
    /\ Return(c)
    /\ UNCHANGED <<credit, receipt, alloc, lock, writes, made>>

(* voidInvoice, a draft. *)
CommitVoidDraft(c) ==
    LET i == req[c].doc IN
    /\ pc[c] = "checked" /\ req[c].kind = "void"
    /\ lock[i] = None
    /\ invoice' = [invoice EXCEPT ![i].status = "void"]
    /\ Return(c)
    /\ UNCHANGED <<credit, receipt, alloc, gl, lock, writes, made>>

(* voidInvoice, an issued one: nothing may have been applied to it. *)
ReadForVoid(c, i) ==
    /\ Starts(c, "void")
    /\ Goto(c, "idle", "voiding")
    /\ invoice[i] # None
    /\ invoice[i].status \notin {"draft", "void"}
    /\ invoice[i].due > 0
    /\ invoice[i].total = invoice[i].due
    /\ req' = [req EXCEPT ![c] = [kind |-> "void", doc |-> i,
                                  entry |-> invoice[i].entry]]
    /\ UNCHANGED <<tables, lock, writes, made>>

(* reverseEntry, requested for an entry directly: nothing ties it to the   *)
(* document the entry came from.                                           *)
RequestReversal(c, e) ==
    /\ Starts(c, "reverse")
    /\ Goto(c, "idle", "voiding")
    /\ req' = [req EXCEPT ![c] = [kind |-> "reverse", doc |-> gl[e].source,
                                  entry |-> e]]
    /\ UNCHANGED <<tables, lock, writes, made>>

(* reverseEntry: read the entry and check its status. *)
ReadEntry(c) ==
    /\ Goto(c, "voiding", "reversing")
    /\ gl[req[c].entry].status = "posted"
    /\ UNCHANGED <<tables, lock, req, writes, made>>

(* reverseEntry: its own transaction. *)
CommitReversal(c) ==
    LET e == req[c].entry IN
    /\ pc[c] = "reversing"
    /\ gl' = Append([gl EXCEPT ![e].status = "reversed"],
                    Posting(gl[e].source, -gl[e].amount))
    /\ IF req[c].kind = "void"
         THEN Goto(c, "reversing", "reversed") /\ UNCHANGED req
         ELSE Return(c)
    /\ UNCHANGED <<invoice, credit, receipt, alloc, lock, writes, made>>

(* voidInvoice, the update after the reversal has committed. *)
CommitVoid(c) ==
    LET i == req[c].doc IN
    /\ pc[c] = "reversed"
    /\ lock[i] = None
    /\ invoice' = [invoice EXCEPT ![i].status = "void", ![i].due = 0]
    /\ Return(c)
    /\ UNCHANGED <<credit, receipt, alloc, gl, lock, writes, made>>

-----------------------------------------------------------------------------
(* Credit notes and receipts *)

(* issueCreditNote: the read. *)
ReadDraftCredit(c, n) ==
    /\ Starts(c, "credit")
    /\ Goto(c, "idle", "checked")
    /\ credit[n] # None
    /\ credit[n].status = "draft"
    /\ credit[n].total # 0
    /\ req' = [req EXCEPT ![c] = [kind |-> "credit", doc |-> n,
                                  total |-> credit[n].total]]
    /\ UNCHANGED <<tables, lock, writes, made>>

(* issueCreditNote: number, entry and status. *)
CommitCredit(c) ==
    LET n == req[c].doc IN
    /\ pc[c] = "checked" /\ req[c].kind = "credit"
    /\ gl' = Append(gl, Posting(n, -req[c].total))
    /\ credit' = [credit EXCEPT ![n].status = "issued"]
    /\ Return(c)
    /\ UNCHANGED <<invoice, receipt, alloc, lock, writes, made>>

(* applyCreditNote: the check outside the transaction. *)
ReadCredit(c, n, list) ==
    /\ Starts(c, "apply")
    /\ Goto(c, "idle", "checked")
    /\ credit[n] # None
    /\ credit[n].status \in {"issued", "applied"}
    /\ req' = [req EXCEPT ![c] = [kind |-> "apply", doc |-> n, todo |-> list]]
    /\ UNCHANGED <<tables, lock, writes, made>>

(* allocateReceipt: the check outside the transaction. *)
ReadReceipt(c, r, list) ==
    /\ Starts(c, "allocate")
    /\ Goto(c, "idle", "checked")
    /\ receipt[r] # None
    /\ req' = [req EXCEPT ![c] = [kind |-> "allocate", doc |-> r, todo |-> list]]
    /\ UNCHANGED <<tables, lock, writes, made>>

(* postReceipt: the amount received is positive (ar.ts:418), and the       *)
(* allocations may not exceed it.                                          *)
PrepareReceipt(c, r, year, amount, list) ==
    /\ Starts(c, "receipt")
    /\ Goto(c, "idle", "checked")
    /\ amount > 0
    /\ receipt[r] = None
    /\ \A d \in Clients \ {c} : pc[d] # "idle" => req[d].doc # r
    /\ ListTotal(list) <= amount
    /\ req' = [req EXCEPT ![c] =
                 [kind |-> "receipt", doc |-> r, todo |-> list, row |-> None,
                  left |-> ListTotal(list), allocated |-> ListTotal(list),
                  year |-> year, amount |-> amount]]
    /\ UNCHANGED <<tables, lock, writes, made>>

(* The transaction of an allocation begins by reading what is left of its  *)
(* source.                                                                 *)
BeginAllocation(c) ==
    /\ Goto(c, "checked", "allocating")
    /\ req[c].kind \in {"apply", "allocate"}
    /\ req' = [req EXCEPT ![c] =
                 [kind |-> @.kind, doc |-> @.doc, todo |-> @.todo, row |-> None,
                  left |-> IF @.kind = "apply" THEN credit[@.doc].remaining
                                               ELSE receipt[@.doc].unapplied]]
    /\ UNCHANGED <<tables, lock, writes, made>>

(* Variant: the receipt's number sequence is not locked. *)
BeginReceiptUnlocked(c) ==
    /\ Goto(c, "checked", "allocating")
    /\ req[c].kind = "receipt"
    /\ UNCHANGED <<tables, lock, req, writes, made>>

(* postReceipt's transaction begins by taking the receipt's number, which  *)
(* locks the sequence of the year until it ends.                           *)
BeginReceipt(c) ==
    /\ Goto(c, "checked", "allocating")
    /\ req[c].kind = "receipt"
    /\ lock[req[c].year] = None
    /\ lock' = [lock EXCEPT ![req[c].year] = c]
    /\ UNCHANGED <<tables, req, writes, made>>

(* An invoice as the transaction of c sees it. *)
Seen(c, i) ==
    IF i \in DOMAIN writes[c]
      THEN [invoice[i] EXCEPT !.status = writes[c][i].status,
                              !.paid = writes[c][i].paid,
                              !.due = writes[c][i].due]
      ELSE invoice[i]

(* What an allocation makes of the paid and due columns of an invoice. *)
Allocated(row, amount) ==
    [paid   |-> row.paid + amount,
     due    |-> row.due - amount,
     status |-> IF row.due = amount THEN "paid" ELSE "partially_paid"]

(* One turn of the loop over the allocations: read the invoice and check   *)
(* the amount against what is left of the source and what is due.          *)
ReadForAllocation(c) ==
    LET next == Head(req[c].todo) IN
    /\ Goto(c, "allocating", "writing")
    /\ req[c].todo # <<>>
    /\ next.amount <= req[c].left
    /\ invoice[next.invoice] # None
    /\ Seen(c, next.invoice).status \in Open
    /\ next.amount <= Seen(c, next.invoice).due
    /\ req' = [req EXCEPT ![c].row = Allocated(Seen(c, next.invoice), next.amount)]
    /\ UNCHANGED <<tables, lock, writes, made>>

(* ... then the allocation row and the absolute new values of the invoice, *)
(* waiting for its row lock.  A receipt creates its allocation rows, so it *)
(* fails on a second one for the same invoice.                             *)
WriteAllocation(c) ==
    LET next == Head(req[c].todo)
        i == next.invoice
    IN
    /\ Goto(c, "writing", "allocating")
    /\ lock[i] \in {None, c}
    /\ req[c].kind = "receipt" => i \notin DOMAIN made[c]
    /\ lock' = [lock EXCEPT ![i] = c]
    /\ writes' = [writes EXCEPT ![c] = With(@, i, req[c].row)]
    /\ made' = [made EXCEPT ![c] = With(@, i, next.amount + Made(c, i))]
    /\ req' = [req EXCEPT ![c].todo = Tail(@), ![c].row = None,
                          ![c].left = @ - next.amount]
    /\ UNCHANGED tables

(* The rows an open transaction wrote and the locks it holds, given up. *)
EndTransaction(c) ==
    /\ lock' = [x \in Lockable |-> IF lock[x] = c THEN None ELSE lock[x]]
    /\ writes' = [writes EXCEPT ![c] = NoRows]
    /\ made' = [made EXCEPT ![c] = NoRows]

(* The invoices and allocation rows as the commit of c leaves them. *)
CommitAllocations(c) ==
    /\ invoice' = [i \in Invoices |->
                      IF invoice[i] = None THEN None ELSE Seen(c, i)]
    /\ alloc' = [alloc EXCEPT ![req[c].doc] =
                    [i \in Invoices |-> @[i] + Made(c, i)]]

(* applyCreditNote: the note's totals, from what this request read, and    *)
(* the commit.                                                             *)
FinishApply(c) ==
    LET n == req[c].doc IN
    /\ Goto(c, "allocating", "idle")
    /\ req[c].kind = "apply" /\ req[c].todo = <<>>
    /\ CommitAllocations(c)
    /\ credit' = [credit EXCEPT
                    ![n].applied = credit[n].total - req[c].left,
                    ![n].remaining = req[c].left,
                    ![n].status = IF req[c].left = 0 THEN "applied" ELSE "issued"]
    /\ EndTransaction(c)
    /\ req' = [req EXCEPT ![c] = None]
    /\ UNCHANGED <<receipt, gl>>

(* allocateReceipt: likewise for the receipt. *)
FinishAllocate(c) ==
    LET r == req[c].doc IN
    /\ Goto(c, "allocating", "idle")
    /\ req[c].kind = "allocate" /\ req[c].todo = <<>>
    /\ CommitAllocations(c)
    /\ receipt' = [receipt EXCEPT
                     ![r].allocated = receipt[r].amount - req[c].left,
                     ![r].unapplied = req[c].left]
    /\ EndTransaction(c)
    /\ req' = [req EXCEPT ![c] = None]
    /\ UNCHANGED <<credit, gl>>

(* Variant: the receipt's entry is left to another transaction. *)
FinishReceiptNoEntry(c) ==
    LET r == req[c].doc IN
    /\ Goto(c, "allocating", "idle")
    /\ req[c].kind = "receipt" /\ req[c].todo = <<>>
    /\ CommitAllocations(c)
    /\ receipt' = [receipt EXCEPT ![r] =
                     [amount |-> req[c].amount, allocated |-> req[c].allocated,
                      unapplied |-> req[c].amount - req[c].allocated]]
    /\ EndTransaction(c)
    /\ req' = [req EXCEPT ![c] = None]
    /\ UNCHANGED <<credit, gl>>

(* postReceipt: the receipt, its entry and its allocations commit together. *)
FinishReceipt(c) ==
    LET r == req[c].doc IN
    /\ Goto(c, "allocating", "idle")
    /\ req[c].kind = "receipt" /\ req[c].todo = <<>>
    /\ CommitAllocations(c)
    /\ receipt' = [receipt EXCEPT ![r] =
                     [amount |-> req[c].amount, allocated |-> req[c].allocated,
                      unapplied |-> req[c].amount - req[c].allocated]]
    /\ gl' = Append(gl, Posting(r, -req[c].amount))
    /\ EndTransaction(c)
    /\ req' = [req EXCEPT ![c] = None]
    /\ UNCHANGED credit

(* A check or a statement fails, the database breaks a deadlock, or the    *)
(* process dies, before anything has been committed: all is rolled back.   *)
Fail(c) ==
    /\ pc[c] \in Uncommitted
    /\ EndTransaction(c)
    /\ Return(c)
    /\ UNCHANGED tables

(* A failure between the two transactions of voidInvoice. *)
FailBetween(c) ==
    /\ Crashes
    /\ pc[c] = "reversed"
    /\ Return(c)
    /\ UNCHANGED <<tables, lock, writes, made>>

-----------------------------------------------------------------------------

Init ==
    /\ invoice = [i \in Invoices |-> None]
    /\ credit = [n \in CreditNotes |-> None]
    /\ receipt = [r \in Receipts |-> None]
    /\ alloc = [s \in Sources |-> [i \in Invoices |-> 0]]
    /\ gl = <<>>
    /\ lock = [x \in Lockable |-> None]
    /\ pc = [c \in Clients |-> "idle"]
    /\ req = [c \in Clients |-> None]
    /\ writes = [c \in Clients |-> NoRows]
    /\ made = [c \in Clients |-> NoRows]

(* The steps that start a request. *)
Start(c) ==
    \/ \E i \in Invoices, total \in Totals : CreateInvoice(c, i, total)
    \/ \E n \in CreditNotes, total \in Totals : CreateCreditNote(c, n, total)
    \/ \E i \in Invoices, total \in Totals : ReadForUpdate(c, i, total)
    \/ \E i \in Invoices : ReadForIssue(c, i)
    \/ \E i \in Invoices : ReadDraftForVoid(c, i)
    \/ \E i \in Invoices : ReadForVoid(c, i)
    \/ \E e \in DOMAIN gl : RequestReversal(c, e)
    \/ \E n \in CreditNotes : ReadDraftCredit(c, n)
    \/ \E n \in CreditNotes, list \in Lists : ReadCredit(c, n, list)
    \/ \E r \in Receipts, list \in Lists : ReadReceipt(c, r, list)
    \/ \E r \in Receipts, y \in Years, amount \in Totals, list \in Lists \cup {<<>>} :
           PrepareReceipt(c, r, y, amount, list)

(* The steps that carry it on. *)
Continue(c) ==
    \/ CommitUpdate(c)
    \/ CommitIssue(c)
    \/ CommitVoidDraft(c)
    \/ ReadEntry(c)
    \/ CommitReversal(c)
    \/ CommitVoid(c)
    \/ CommitCredit(c)
    \/ BeginAllocation(c)
    \/ BeginReceipt(c)
    \/ ReadForAllocation(c)
    \/ WriteAllocation(c)
    \/ FinishApply(c)
    \/ FinishAllocate(c)
    \/ FinishReceipt(c)
    \/ Fail(c)
    \/ FailBetween(c)

Next == \E c \in Clients : Start(c) \/ Continue(c)

Spec == Init /\ [][Next]_vars

-----------------------------------------------------------------------------
(* Properties *)

(* The tables and the handlers hold values of their types. *)
TypeOK ==
    /\ invoice \in [Invoices -> Invoice \cup {None}]
    /\ credit \in [CreditNotes -> CreditNote \cup {None}]
    /\ receipt \in [Receipts -> Receipt \cup {None}]
    /\ alloc \in [Sources -> [Invoices -> Nat]]
    /\ gl \in Seq(GlEntry)
    /\ lock \in [Lockable -> Clients \cup {None}]
    /\ pc \in [Clients -> Uncommitted \cup {"idle", "reversed"}]
    /\ req \in [Clients -> Request \cup {None}]
    /\ \A c \in Clients : pc[c] = "idle" <=> req[c] = None
    /\ DOMAIN writes = Clients /\ DOMAIN made = Clients
    /\ \A c \in Clients : HasRows(writes[c], Pending) /\ HasRows(made[c], Nat)

Issued(i) == invoice[i] # None /\ invoice[i].status \notin {"draft", "void"}

AllocatedTo(i) == SumFunction([s \in Sources |-> alloc[s][i]])

AllocatedFrom(s) == SumFunction(alloc[s])

(* "No over-allocation": receipts and credit notes never settle more of an *)
(* invoice than its total.                                                 *)
NoOverAllocation ==
    \A i \in Invoices : Issued(i) => AllocatedTo(i) <= invoice[i].total

InvoiceConserved(i) ==
    LET row == invoice[i] IN
    /\ row.paid = AllocatedTo(i)
    /\ row.due = row.total - row.paid
    /\ row.due >= 0
    /\ row.status = "paid" <=> row.due = 0
    /\ row.status = "issued" <=> row.paid = 0

CreditConserved(n) ==
    /\ credit[n].applied = AllocatedFrom(n)
    /\ credit[n].remaining = credit[n].total - AllocatedFrom(n)
    /\ credit[n].remaining >= 0

ReceiptConserved(r) ==
    /\ receipt[r].allocated = AllocatedFrom(r)
    /\ receipt[r].unapplied = receipt[r].amount - AllocatedFrom(r)
    /\ receipt[r].unapplied >= 0

(* The columns of three tables agree with the allocation rows between them *)
(* whatever failed and was undone: an invoice's paid is what was allocated *)
(* to it, due the rest, and the status says which of the two is zero; and  *)
(* nothing is allocated from a credit note or a receipt twice.             *)
ColumnsAgree ==
    /\ \A i \in Invoices : Issued(i) => InvoiceConserved(i)
    /\ \A n \in CreditNotes : credit[n] # None => CreditConserved(n)
    /\ \A r \in Receipts : receipt[r] # None => ReceiptConserved(r)

(* What the sub-ledger says customers owe: dues less unapplied credit.     *)
SubLedger ==
    SumFunction([i \in Invoices |-> IF Issued(i) THEN invoice[i].due ELSE 0])
    - SumFunction([n \in CreditNotes |->
          IF credit[n] # None /\ credit[n].status # "draft"
            THEN credit[n].remaining ELSE 0])
    - SumFunction([r \in Receipts |->
          IF receipt[r] # None THEN receipt[r].unapplied ELSE 0])

(* The tie-out: rows are of their types, their columns agree with each     *)
(* other, and the balance of the receivable account is what the sub-ledger *)
(* says, whenever no void is between its two transactions, whatever failed *)
(* and was undone (domain/accounting/ar.ts:130-560).                       *)
TieOut ==
    /\ TypeOK
    /\ ColumnsAgree
    /\ (\A c \in Clients : pc[c] # "reversed") =>
          SumFunction([e \in DOMAIN gl |-> gl[e].amount]) = SubLedger

(* Documents and their entries match: a void invoice has nothing applied   *)
(* to it and its entry is reversed; issuing posted once, so a document has *)
(* at most one entry that stands; and only drafts were edited, so that     *)
(* entry is for the total the invoice has.                                 *)
DocumentsMatchEntries ==
    /\ \A i \in Invoices : invoice[i] # None /\ invoice[i].status = "void" =>
         /\ AllocatedTo(i) = 0
         /\ invoice[i].entry # 0 => gl[invoice[i].entry].status = "reversed"
    /\ \A s \in Invoices \cup CreditNotes :
         Cardinality({e \in DOMAIN gl :
             gl[e].source = s /\ gl[e].status = "posted"}) <= 1
    /\ \A i \in Invoices : Issued(i) => gl[invoice[i].entry].amount = invoice[i].total

(* A settled document stays settled: a void or fully paid invoice never    *)
(* leaves that status.                                                     *)
SettledIsFinal ==
    [][\A i \in Invoices :
          invoice[i] # None /\ invoice[i].status \in {"void", "paid"} =>
              invoice'[i].status = invoice[i].status]_vars

=============================================================================
