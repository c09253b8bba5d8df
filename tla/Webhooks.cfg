SPECIFICATION FairSpec
CONSTANTS
    p1 = p1  p2 = p2  h1 = h1  ev1 = ev1  ev2 = ev2
    None = None
    Processes = {p1, p2}
    Hooks = {h1}
    Events = {ev1}
    MaxAttempts = 2
    MaxFaults = 1
INVARIANTS OutcomesAreEarned 
PROPERTIES EverySettles
