------------------------------ MODULE MCLedger ------------------------------
(* Instances of Ledger for TLC. *)
EXTENDS Ledger, TLC

CONSTANTS c1, c2, e1, e2, e3, cash, sales, p1

Dr(a, x) == [account |-> a, debit |-> x, credit |-> 0]

Cr(a, x) == [account |-> a, debit |-> 0, credit |-> x]

Journal(lines, rate) == [lines |-> lines, rate |-> rate]

(* A balanced journal, one that does not balance, one with an amount on    *)
(* neither side and one in a foreign currency whose lines round to debits  *)
(* of 2 and a credit of 1.                                                 *)
MCJournals ==
    { Journal(<<Dr(cash, 2), Cr(sales, 2)>>, 10),
      Journal(<<Dr(cash, 2), Cr(sales, 1)>>, 10),
      Journal(<<Dr(cash, 0), Cr(sales, 0)>>, 10),
      Journal(<<Dr(cash, 1), Dr(cash, 1), Cr(sales, 2)>>, 5) }

(* The same without the plain one: the foreign journal balances too. *)
MCForeignJournals == {j \in MCJournals : j # Journal(<<Dr(cash, 2), Cr(sales, 2)>>, 10)}

(* One journal, within a single account, for the liveness run. *)
MCOneJournal == { Journal(<<Dr(cash, 2), Cr(cash, 2)>>, 10) }

(* Dates 1 and 2 fall into one period, date 3 into none; a new year starts *)
(* at date 2.                                                              *)
MCPeriodOf == [d \in Dates |-> IF d < 3 THEN p1 ELSE None]

MCYearOf == [d \in Dates |-> IF d < 2 THEN 2025 ELSE 2026]

Symmetry == Permutations(Clients) \cup Permutations(EntryIds)

=============================================================================
