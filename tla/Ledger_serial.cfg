SPECIFICATION Spec
CONSTANTS
    c1 = c1
    c2 = c2
    e1 = e1
    e2 = e2
    e3 = e3
    cash = cash
    sales = sales
    p1 = p1
    None = None
    Clients = {c1}
    EntryIds = {e1, e2, e3}
    Prefixes = {"GJ"}
    Accounts = {cash, sales}
    Dates = {1, 2}
    Periods = {p1}
    RoundingAccount = sales
    Journals <- MCJournals
    PeriodOf <- MCPeriodOf
    YearOf <- MCYearOf
SYMMETRY Symmetry
INVARIANTS
    ReversalIsReciprocal
PROPERTIES
    NoPostIntoClosed
