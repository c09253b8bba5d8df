\* The services stop: streams close, days end, bounds are reached.
SPECIFICATION MCSpec
CONSTANTS
    ann = ann
    bob = bob
    cal = cal
    red = red
    blue = blue
    green = green
    none = none
    Callers = {bob, cal}
    Null = none
    Clerks = {bob, cal}
    NoRow = none
    Streams <- MCStreams
    Channels = {red, blue}
    MaxChannels = 1
    MaxChanges <- MCMaxChanges
    MaxPolls = 1
    MaxStops <- MCMaxStops
    Texts = {red, blue}
    MaxContentVersions = 3
    Corrections = {red}
    MaxMinute = 2
    MaxBreakEvents = 4
    Assigned = {red, blue}
    Filling = {red}
    Items = {ann}
    Templates <- MCTemplates
    Thresholds = {1, 2}
    MaxDay = 2
    MaxTerms = 2
    Bills = {red, blue}
    SupplierCredits = {ann}
    Payments = {green}
    BillAmounts = {1, 2}
    AllocationLists <- MCAllocationLists
    MaxPostings = 3
    Reconciliations = {red, blue}
    BankLines = {1, 2}
    LineAmount <- MCLineAmount
    Tickable = {1}
    StatementLines = {green}
    Balances = {3}
    Bodies = {1, 2}
    MaxKeys = 3
    ScanLimit = 2
    Days = 2
    MaxItems = 4
    Metrics = {red, blue}
    SpendAmounts = {1}
    Figures = {0, 3}
    MaxMigrations = 2
    Accountants = {ann, bob, cal}
    Managers = {ann}
    MaxEntries = 4
    MaxArtwork = 2
    MaxNotices = 3
    Minutes = 2
    Hours = 3
    MonthDays <- MCMonthDays
    WeekDays = 3
    Crons <- MCCrons
    Shifts <- MCShifts
    ClockChange = 8
    Horizon = 24
    MaxClock = 25
    Limit = 1
    Window = 2
    MaxTime = 5
    MaxHits = 5
    Policies = {"half_up", "half_even", "down", "up"}
    Lines <- MCLines
    MaxLines = 2
    Rates = {4, 10}
    Transfers <- MCTransfers
CONSTRAINT Relevant
SYMMETRY Symmetric
INVARIANTS
    PeopleAreTold
    DayAddsUp
    
    OncePerThreshold
    PayablesTieOut
    ReconciliationsBalance
    VersionsAreBacked
    
    CountedOnce
    JobsComeDue
    WindowsHold
    AmountsAddUp
CHECK_DEADLOCK FALSE
