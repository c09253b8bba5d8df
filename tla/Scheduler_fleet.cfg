SPECIFICATION Spec
CONSTANTS
    i1 = i1  i2 = i2  j1 = j1
    Instances = {i1, i2}
    Jobs = {j1}
    Due <- EveryMinute
    Hourly = {2}
    KeepFor = 0
    Stale = 1
    MaxRun = 1
    MaxMinute = 2
    MaxManual = 1
    MaxCrashes = 1
    MaxLost = 1
    None = None
INVARIANTS NeverTwice ClaimsAreAccountedFor RowsTellTheTruth
SYMMETRY Permuted
CHECK_DEADLOCK FALSE
