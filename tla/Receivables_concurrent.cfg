SPECIFICATION Spec
CONSTANTS
    c1 = c1  c2 = c2  i1 = i1  i2 = i2  n1 = n1  r1 = r1  r2 = r2  y1 = y1  y2 = y2
    Clients = {c1, c2}
    Invoices = {i1, i2}
    CreditNotes = {}
    Receipts = {r1, r2}
    Years = {y1}
    Totals = {2}
    Lists <- ListsOfTwo
    Kinds = {"create", "issue", "void", "receipt", "reverse"}
    Crashes = TRUE
    MaxEntries = 4
    None = None
INVARIANTS NoOverAllocation
CHECK_DEADLOCK FALSE
