SPECIFICATION Spec
CONSTANTS
    c1 = c1  r1 = r1  r2 = r2
    Clients = {c1}
    Records = {r1, r2}
    Specs <- SerialSpecs
    Starter <- Review
    Fields <- TitleOrNot
    MaxVersions = 2
    MaxLog = 4
    MaxEvidence = 1
    MaxCrashes = 1
    None = None
INVARIANTS RecordsAreGoverned LogIsAWalk EscalatedOnce
PROPERTIES VersionsAreFrozen EvidenceOnFile
CHECK_DEADLOCK FALSE
