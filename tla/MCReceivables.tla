---------------------------- MODULE MCReceivables ----------------------------
(* Receivables on small instances: each cfg picks the kinds of request,    *)
(* the clients and the documents that its question needs.                  *)
EXTENDS Receivables, TLC

CONSTANTS c1, c2, i1, i2, n1, r1, r2, y1, y2


(* Allocation lists: to one invoice in part or in full, to two at once,    *)
(* and twice to the same one.                                              *)
ListsOfOne == {<<[invoice |-> i1, amount |-> 1]>>,
               <<[invoice |-> i1, amount |-> 2]>>}

ListsTwice == ListsOfOne \cup
    {<<[invoice |-> i1, amount |-> 1], [invoice |-> i1, amount |-> 1]>>}

ListsOfTwo ==
    {<<[invoice |-> i1, amount |-> 1]>>,
     <<[invoice |-> i1, amount |-> 2]>>,
     <<[invoice |-> i1, amount |-> 1], [invoice |-> i2, amount |-> 1]>>,
     <<[invoice |-> i2, amount |-> 1], [invoice |-> i1, amount |-> 1]>>}

AllButReverse == AllKinds \ {"reverse"}
=============================================================================
