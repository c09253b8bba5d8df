----------------------------- MODULE MCServices -----------------------------
(***************************************************************************)
(* The services and the books for TLC, one of them at a time, as they share*)
(* no state.  bob and cal call, and are interchangeable.                   *)
(***************************************************************************)
EXTENDS Services, Books, TLC

CONSTANTS ann, bob, cal, red, blue, green, none

VARIABLE runs \* what runs, the services or the books

MCInit ==
    /\ runs \in {"services", "books"}
    /\ ServicesInit /\ (runs # "services" => focus = "hub")
    /\ BooksInit /\ (runs # "books" => book = "payables")

MCNext ==
    /\ UNCHANGED runs
    /\ IF runs = "services" THEN ServicesNext ELSE UNCHANGED services
    /\ IF runs = "books" THEN BooksNext ELSE UNCHANGED books

MCSpec == MCInit /\ [][MCNext]_<<runs, services, books>>

MCStreams == {ann, bob, cal}

MCMaxChanges == red :> 1 @@ blue :> 1

MCMaxStops == ann :> 2 @@ bob :> 1 @@ cal :> 1

MCTemplates == {ann :> {"note", "link"}}

MCAllocationLists == {red :> 1, red :> 1 @@ blue :> 1}

MCLineAmount == <<1, 2>>

-----------------------------------------------------------------------------

(* A field of an expression: every value, or one. *)
Every == {[whole |-> TRUE, lo |-> 0, hi |-> 0, step |-> 1]}
At(n) == {[whole |-> FALSE, lo |-> n, hi |-> n, step |-> 1]}
Odd == {[whole |-> FALSE, lo |-> 1, hi |-> 9, step |-> 2]}

Expression(fields) ==
    [minute |-> fields[1], hour |-> fields[2], dom |-> fields[3], month |-> fields[4],
     dow |-> fields[5]]

Hourly == Expression(<<At(0), Every, Every, Every, Every>>)

(* Of daily jobs, those about the change of the time; every day of a month *)
(* that is odd or of the week that is the third; a day that only one month *)
(* has, or that its month does not have.                                   *)
MCCrons ==
    {Expression(f) : f \in
        {<<At(0), At(h), Every, Every, Every>> : h \in 0 .. 2} \cup
        {<<At(1), At(0) \cup At(2), Odd, Every, At(2)>>, <<At(0), At(2), At(3), Every, Every>>,
         <<At(1), At(1), At(3), At(1), Every>>}} \cup {Hourly}

MCMonthDays == <<1, 3>>

MCShifts == {0, 2, -2}

-----------------------------------------------------------------------------

Priced(gross, discount, tax, inclusive) ==
    [gross |-> gross, discount |-> discount, tax |-> tax, inclusive |-> inclusive]

Moved(amounts) ==
    [fromAmount |-> amounts[1], fromRate |-> amounts[2],
     toAmount |-> amounts[3], toRate |-> amounts[4]]

MCLines ==
    {Priced(15, 0, 5, FALSE), Priced(25, 50, 50, TRUE), Priced(105, 0, 5, TRUE),
     Priced(4, 0, 0, FALSE), Priced(-10, 0, 5, TRUE)}

MCTransfers == {Moved(a) : a \in {<<3, 4, 1, 10>>, <<1, 4, 1, 10>>, <<5, 15, 9, 10>>}}

-----------------------------------------------------------------------------

Symmetric == Permutations(Callers)

(* What they say of a service ends with the first call that they exclude.  *)
(* Of two reconciliations, one at a time may be astray (a bound).          *)
Relevant == ~outdated /\ ~overlapped /\ ~overwritten /\ astray # Reconciliations

=============================================================================
