---------------------------- MODULE GeneralLedger ----------------------------
(***************************************************************************)
(* What the general ledger promises: a book of entries that only grows.    *)
(* An entry comes in balanced and under the next number of its sequence,   *)
(* and is never changed, except that a later entry may reverse it: undo    *)
(* its lines and mark it reversed, in one step.                            *)
(*                                                                         *)
(* Nothing is said of requests, transactions, locks, periods or audit      *)
(* records: Ledger is how the code keeps this promise.                     *)
(***************************************************************************)
EXTENDS Integers, Sequences, Functions

CONSTANTS
    Ids,       \* identifiers of entries
    Keys,      \* the number sequences
    Accounts   \* accounts

VARIABLE book  \* the entries written so far, by identifier

Line == [account : Accounts, debit : Nat, credit : Nat]

Entry == [key : Keys, number : Nat, lines : Seq(Line), reversed : BOOLEAN]

Balanced(lines) ==
    SumFunction([i \in DOMAIN lines |-> lines[i].debit])
        = SumFunction([i \in DOMAIN lines |-> lines[i].credit])

(* Debit and credit of each line change places. *)
Undo(lines) ==
    [i \in DOMAIN lines |-> [account |-> lines[i].account,
                             debit |-> lines[i].credit, credit |-> lines[i].debit]]

MarkedReversed(entry) ==
    [key |-> entry.key, number |-> entry.number, lines |-> entry.lines,
     reversed |-> TRUE]

NumbersOf(k) == {book[e].number : e \in {f \in DOMAIN book : book[f].key = k}}

(* The entry e is written: balanced, not reversed, and under the number    *)
(* that its sequence has come to, which counts 1, 2, 3 ..                  *)
Write(e) ==
    LET new == book'[e] IN
    /\ e \in Ids \ DOMAIN book
    /\ DOMAIN book' = DOMAIN book \cup {e}
    /\ new \in Entry
    /\ ~new.reversed
    /\ NumbersOf(new.key) = 1 .. new.number - 1
    /\ Balanced(new.lines)

Keep(entries) == \A f \in entries : book'[f] = book[f]

Record(e) == Write(e) /\ Keep(DOMAIN book)

(* It undoes an entry o, which is reversed from now on.  That it was not   *)
(* reversed already is not promised.                                       *)
Reverse(e, o) ==
    /\ Write(e)
    /\ o \in DOMAIN book
    /\ book'[e].lines = Undo(book[o].lines)
    /\ book'[o] = MarkedReversed(book[o])
    /\ Keep(DOMAIN book \ {o})

Init == book = [e \in {} |-> {}]

Next == \E e \in Ids : Record(e) \/ \E o \in Ids : Reverse(e, o)

Spec == Init /\ [][Next]_book

=============================================================================
