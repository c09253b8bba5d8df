SPECIFICATION FairSpec
CONSTANTS
    c1 = c1
    c2 = c2
    e1 = e1
    e2 = e2
    e3 = e3
    cash = cash
    sales = sales
    p1 = p1
    None = None
    Clients = {c1, c2}
    EntryIds = {e1, e2}
    Prefixes = {"GJ"}
    Accounts = {cash}
    Dates = {1}
    Periods = {p1}
    RoundingAccount = None
    Journals <- MCOneJournal
    PeriodOf <- MCPeriodOf
    YearOf <- MCYearOf
PROPERTIES
    RequestsFinish
