CONSTANTS
    o1 = o1  o2 = o2  ia = ia  ib = ib  w1 = w1  w2 = w2  n1 = n1  n2 = n2  c1 = c1  c2 = c2
    None = None
    Orders = {o1}
    Identifiers = {ia, ib}
    Copies = {n1, n2}
    CertCopies = {c1, c2}
    TNAuthLists = {ia}
    DBMayFail = FALSE
    Worker = {w1}
    MaxCrashes = 1
    IdentifierSets <- Single
    CSRs <- AnyCSR
SPECIFICATION FairSpec
PROPERTIES ProcessingEnds DecidedAuthzHeals
