SPECIFICATION Spec
CONSTANTS
    c1 = c1  c2 = c2  i1 = i1  i2 = i2  n1 = n1  r1 = r1  r2 = r2  y1 = y1  y2 = y2
    Clients = {c1, c2}
    Invoices = {i1}
    CreditNotes = {n1}
    Receipts = {r1}
    Years = {y1}
    Totals = {2}
    Lists <- ListsOfOne
    Kinds = {"create", "issue", "credit", "apply", "receipt"}
    Crashes = FALSE
    MaxEntries = 5
    None = None
INVARIANTS NoOverAllocation
CHECK_DEADLOCK FALSE
