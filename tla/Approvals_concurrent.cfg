SPECIFICATION Spec
CONSTANTS
    c1 = c1  c2 = c2  r1 = r1  ann = ann  bob = bob  eve = eve
    Clients = {c1, c2}
    Requests = {r1}
    Users = {ann, bob, eve}
    CanApprove = {eve}
    CanManage = {eve}
    Chains <- ChainsUpToThree
    None = None
INVARIANTS OutcomeHasItsDecision EarlierStepsComplete ToldTheTruth
PROPERTY DecisionsAreFinal
CHECK_DEADLOCK FALSE
