SPECIFICATION Spec
CONSTANTS
    c1 = c1  c2 = c2
    root = root  amy = amy
    a1 = a1  a2 = a2
    super = super  admin = admin
    None = None
    Clients = {c1, c2}
    Users = {root, amy}
    Supers = {root}
    Roles = {super, admin}
    SuperRole = super
    Keys <- CatalogKeys
    Forms <- SomeForms
    Dims = {"companyId", "brandId"}
    Values = {"x", "y"}
    Offers <- SomeOffers
    Ids = {a1, a2}
    MaxTime = 1
SYMMETRY Permuted
INVARIANTS EvaluationsAgree DelegationStaysWithin
