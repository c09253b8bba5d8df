------------------------------- MODULE Books -------------------------------
(***************************************************************************)
(* The parts of bookkeeping whose ledger is abstract, side by side: what   *)
(* is owed to suppliers, the reconciliation of a bank account, and the     *)
(* amounts of documents and their entries.  They share no state, and each  *)
(* property speaks of one of them.                                         *)
(***************************************************************************)
EXTENDS Integers, Sequences, FiniteSets

CONSTANTS
    Clerks, \* users with a call under way
    NoRow,  \* null
    Bills, SupplierCredits, Payments, BillAmounts, AllocationLists, MaxPostings,
    Reconciliations, BankLines, LineAmount, Tickable, StatementLines, Balances,
    Policies, Lines, MaxLines, Rates, Transfers

VARIABLES
    book, \* the part of this behaviour
    bill, supplierCredit, payment, applied, account, paying, overwritten,
    reconciliation, bankLine, matchedLine, clearing, astray, checked, closing,
    policy, document, booked, refused, transfer

payvars == <<bill, supplierCredit, payment, applied, account, paying, overwritten>>
clearvars == <<reconciliation, bankLine, matchedLine, clearing, astray, checked, closing>>
amountvars == <<policy, document, booked, refused, transfer>>

Pay == INSTANCE Payables WITH Amounts <- BillAmounts

Clear == INSTANCE Reconciliation WITH Accountants <- Clerks, None <- NoRow

Sums == INSTANCE DocumentAmounts WITH invoice <- document, Unissued <- NoRow

-----------------------------------------------------------------------------
(* Rows and calls *)

BillRow ==
    [status : {"draft", "open", "partially_paid", "paid", "void"}, total : Nat, paid : Nat,
     due : Nat, entry : Nat]

SupplierCreditRow == [status : {"draft", "open", "applied"}, total : Nat, left : Nat]

PaymentRow == [amount : Nat, unapplied : Nat]

ReconciliationRow == [statement : Balances, cleared : Int, status : {"open", "completed"}]

TickCall ==
    [step : {"tick", "sum", "write"}, rec : Reconciliations, alone : BOOLEAN,
     line : BankLines, to : Reconciliations \cup {NoRow}, sum : Int]

MatchCall ==
    [step : {"match", "matched"}, rec : Reconciliations, alone : BOOLEAN, line : BankLines,
     statement : StatementLines, sum : Int]

CompleteCall ==
    [step : {"weigh", "complete"}, rec : Reconciliations, alone : BOOLEAN,
     row : ReconciliationRow \cup {NoRow}, force : BOOLEAN, total : Int]

(* Bills and credits of nothing, which cannot be posted, are left out, and *)
(* so are allocations of nothing, which are passed over.                   *)
ASSUME BookAmountsAssumption ==
    /\ BillAmounts \subseteq Nat \ {0}
    /\ \A list \in AllocationLists :
          DOMAIN list \subseteq Bills /\ \A b \in DOMAIN list : list[b] \in Nat \ {0}
    /\ LineAmount \in [BankLines -> Int]

(* Identifiers of credits and payments differ, and there are only so many. *)
ASSUME BookIdentifiersAssumption ==
    /\ IsFiniteSet(Bills) /\ IsFiniteSet(SupplierCredits) /\ IsFiniteSet(Payments)
    /\ SupplierCredits \cap Payments = {}
    /\ IsFiniteSet(BankLines) /\ Tickable \subseteq BankLines

(* Discounts and taxes are percentages, and only gross amounts and what is *)
(* computed from them may be negative.                                     *)
ASSUME DocumentAssumption ==
    /\ Lines \subseteq [gross : Int, discount : 0 .. 100, tax : Nat, inclusive : BOOLEAN]
    /\ MaxLines \in Nat /\ Rates \subseteq Nat
    /\ Transfers \subseteq [fromAmount : Nat, fromRate : Nat, toAmount : Nat, toRate : Nat]

(* Null is not a row, a call or a journal. *)
ASSUME NoRowAssumption ==
    /\ NoRow \notin BillRow \cup SupplierCreditRow \cup PaymentRow
    /\ NoRow \notin Reconciliations \cup ReconciliationRow
    /\ NoRow \notin TickCall \cup MatchCall \cup CompleteCall
    /\ \A keys \in SUBSET (-1 .. MaxLines + 3) :
          NoRow \notin [keys -> [debit : Int, credit : Int]]

-----------------------------------------------------------------------------

(* The policy may be any where amounts are computed, and is one elsewhere. *)
BooksInit ==
    /\ book \in {"payables", "clearing", "amounts"}
    /\ Pay!Init
    /\ Clear!Init
    /\ Sums!Init /\ (book # "amounts" => policy = CHOOSE p \in Policies : TRUE)

(* One part takes its steps, the others rest. *)
BooksNext ==
    /\ UNCHANGED book
    /\ IF book = "payables" THEN Pay!Next ELSE UNCHANGED payvars
    /\ IF book = "clearing" THEN Clear!Next ELSE UNCHANGED clearvars
    /\ IF book = "amounts" THEN Sums!Next ELSE UNCHANGED amountvars

books == <<book, payvars, clearvars, amountvars>>

BooksSpec == BooksInit /\ [][BooksNext]_books

-----------------------------------------------------------------------------

(* Bills, credits, payments and their allocations add up with each other   *)
(* and with the payable account, until a call relies on a row that has     *)
(* changed or a void is cut short (domain/accounting/ap.ts:131-484).       *)
PayablesTieOut == book = "payables" => Pay!PayablesTieOut

(* A reconciliation has cleared the sum of its lines, balanced when it was *)
(* completed and keeps its lines, unless it is astray; a call alone sets   *)
(* it right (domain/accounting/bank.ts:210-290).                           *)
ReconciliationsBalance == book = "clearing" => Clear!ReconciliationsBalance

(* Whatever discounts, taxes, rates and rounding policies a document meets *)
(* between draft and entry, tax is that of the net, the entry balances and *)
(* rounding is no reason to refuse it (lib/accounting-math.ts:28-53,       *)
(* domain/accounting/posting.ts:90-141, bank.ts:112-150).                  *)
AmountsAddUp == book = "amounts" => Sums!AmountsAddUp

=============================================================================
