SPECIFICATION Spec
CONSTANTS
    c1 = c1
    c2 = c2
    e1 = e1
    e2 = e2
    e3 = e3
    cash = cash
    sales = sales
    p1 = p1
    None = None
    Clients = {c1, c2}
    EntryIds = {e1, e2, e3}
    Prefixes = {"GJ"}
    Accounts = {cash, sales}
    Dates = {1}
    Periods = {p1}
    RoundingAccount = sales
    Journals <- MCForeignJournals
    PeriodOf <- MCPeriodOf
    YearOf <- MCYearOf
SYMMETRY Symmetry
INVARIANTS
    LedgerBalances
    ReversedIsNetted
    AuditIsTruthful
PROPERTIES
    KeepsPromise
