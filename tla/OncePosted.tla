----------------------------- MODULE OncePosted -----------------------------
(***************************************************************************)
(* What is posted once: an approved expense                                *)
(* (domain/accounting/expenses-gl.ts) and the opening balances of a        *)
(* company (opening-balances.ts).  Both look whether it was done before    *)
(* they prepare the entry and write it in a transaction that does not look *)
(* again.  Their entries can be reversed from the journal                  *)
(* (app/actions/accounting.ts:63), which allows another opening entry and  *)
(* never another entry of the expense.                                     *)
(*                                                                         *)
(* One expense with an amount, one company with its accounts set; periods  *)
(* and lines are Ledger's.                                                 *)
(***************************************************************************)
EXTENDS Naturals, Sequences, FiniteSets

CONSTANTS
    Accountants, \* users with calls under way
    Managers,    \* those with expenses.manage, who need no approval
    MaxEntries,  \* bound on the entries
    Unposted     \* null

VARIABLES
    expense,   \* its status and its entry
    journal,   \* the entries, in the order of their numbers
    preparing, \* the call of each accountant
    doubled    \* history: sources of which an entry was written although
               \* another one, or another reversal, had been written meanwhile

oncevars == <<expense, journal, preparing, doubled>>

Sources == {"Expense", "OpeningBalance"}

Doing(c) == preparing[c].call # "none"

NotPosting == [call |-> "none"]

Begin(c, call) ==
    /\ ~Doing(c)
    /\ preparing' = [preparing EXCEPT ![c] = call]
    /\ UNCHANGED <<expense, journal, doubled>>

Post(source) == [source |-> source, status |-> "posted", of |-> 0]

Reversal(k) == [source |-> "Reversal", status |-> "posted", of |-> k]

Entries(source) == {k \in DOMAIN journal : journal[k].source = source}

Standing(source) == {k \in Entries(source) : journal[k].status = "posted"}

(* What others prepare on the same source no longer has the ledger it has  *)
(* seen.                                                                   *)
Finish(c, source) ==
    /\ preparing' = [d \in Accountants |->
          IF d = c THEN NotPosting
          ELSE IF Doing(d) /\ preparing[d].source = source
               THEN [preparing[d] EXCEPT !.fresh = FALSE] ELSE preparing[d]]
    /\ doubled' = IF preparing[c].fresh THEN doubled ELSE doubled \cup {source}

-----------------------------------------------------------------------------

Attempt(call, source) == [call |-> call, source |-> source, fresh |-> TRUE]

(* postExpense, up to its transaction. *)
ReadExpense(c) ==
    /\ expense.entry = Unposted /\ expense.status # "posted"
    /\ expense.status = "approved" \/ c \in Managers
    /\ Begin(c, Attempt("post", "Expense"))

(* postOpeningBalances: any posted opening entry refuses it. *)
ReadOpening(c) ==
    /\ Standing("OpeningBalance") = {}
    /\ Begin(c, Attempt("post", "OpeningBalance"))

(* Variant: the entry is not written back to the expense. *)
ForgetExpense(c) ==
    /\ preparing[c].call = "post" /\ preparing[c].source = "Expense"
    /\ Len(journal) < MaxEntries
    /\ journal' = Append(journal, Post("Expense"))
    /\ Finish(c, "Expense")
    /\ UNCHANGED expense

PostExpense(c) ==
    /\ preparing[c].call = "post" /\ preparing[c].source = "Expense"
    /\ Len(journal) < MaxEntries
    /\ journal' = Append(journal, Post("Expense"))
    /\ expense' = [status |-> "posted", entry |-> Len(journal) + 1]
    /\ Finish(c, "Expense")

PostOpeningBalances(c) ==
    /\ preparing[c].call = "post" /\ preparing[c].source = "OpeningBalance"
    /\ Len(journal) < MaxEntries
    /\ journal' = Append(journal, Post("OpeningBalance"))
    /\ Finish(c, "OpeningBalance")
    /\ UNCHANGED expense

(* reverseEntry: the entry is posted when it is read.  (Reversals are not  *)
(* reversed in turn: a bound.)                                             *)
ReadEntry(c, k) ==
    /\ k \in DOMAIN journal /\ journal[k].source \in Sources /\ journal[k].status = "posted"
    /\ Begin(c, [call |-> "reverse", entry |-> k, source |-> journal[k].source, fresh |-> TRUE])

ReverseEntry(c) ==
    LET k == preparing[c].entry IN
    /\ preparing[c].call = "reverse" /\ Len(journal) < MaxEntries
    /\ journal' = Append([journal EXCEPT ![k].status = "reversed"], Reversal(k))
    /\ Finish(c, preparing[c].source)
    /\ UNCHANGED expense

Fail(c) ==
    /\ Doing(c)
    /\ preparing' = [preparing EXCEPT ![c] = NotPosting]
    /\ UNCHANGED <<expense, journal, doubled>>

-----------------------------------------------------------------------------

Init ==
    /\ expense \in [status : {"pending", "approved"}, entry : {Unposted}]
    /\ journal = <<>>
    /\ preparing = [c \in Accountants |-> NotPosting]
    /\ doubled = {}

Next ==
    \E c \in Accountants :
       \/ ReadExpense(c) \/ PostExpense(c)
       \/ ReadOpening(c) \/ PostOpeningBalances(c)
       \/ \E k \in 1 .. MaxEntries : ReadEntry(c, k)
       \/ ReverseEntry(c) \/ Fail(c)

Spec == Init /\ [][Next]_oncevars

-----------------------------------------------------------------------------

(* What the ledger holds of a source: its entries less their reversals.    *)
Reversals(source) == {k \in Entries("Reversal") : journal[journal[k].of].source = source}

(* An expense says that it is posted if and only if an entry of it was     *)
(* written, and names the last one; and of an expense and of the opening   *)
(* balances the ledger holds nothing or one entry, and one exactly while   *)
(* one stands, unless calls on it overlapped                               *)
(* (domain/accounting/expenses-gl.ts:41-88, opening-balances.ts:32-95).    *)
PostedOnce ==
    /\ expense.entry # Unposted <=> Entries("Expense") # {}
    /\ expense.entry # Unposted =>
          /\ expense.status = "posted"
          /\ \A k \in Entries("Expense") : k <= expense.entry
    /\ "Expense" \notin doubled => Cardinality(Entries("Expense")) <= 1
    /\ \A source \in Sources \ doubled :
          /\ Cardinality(Standing(source)) <= 1
          /\ Cardinality(Entries(source)) =
                Cardinality(Standing(source)) + Cardinality(Reversals(source))

=============================================================================
