CONSTANTS
    w1 = w1  w2 = w2  x1 = x1  x2 = x2  x3 = x3  k1 = k1  k2 = k2  k3 = k3
    None = None
    Blank = Blank
    Names = {x1, x2, x3}
    Jwks = {k1, k2}
    Worker = {w1, w2}
    Deployments <- OneOrTwo
    TosUrl = TRUE
    ContactCheck = TRUE
    EccOnly = TRUE
    MaxCrashes = 1
SPECIFICATION Spec
SYMMETRY Symmetric
INVARIANTS AccountInv OneAccountPerKey AcknowledgedIsStored BlankOnlyAfterClose
PROPERTIES LateClaimRefused ClosedStaysClosed ImplementsRegistry
