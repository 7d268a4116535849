CONSTANTS
    w1 = w1  w2 = w2  o1 = o1  o2 = o2  k1 = k1  k2 = k2  na = na  nb = nb
    None = None  Removal = Removal  Truncated = Truncated
    Orders = {o1, o2}
    Csrs <- MCCsrs
    Worker = {w1, w2}
    Deployments <- MCDeployments
    Whitelist <- Listed
    Blacklist <- Banned
    MaxCrashes = 1
SPECIFICATION Spec
INVARIANTS CertInv KeyFits OnDisk ValidOrderServes RevokedInCrl
PROPERTIES CleanupSpares SecuredStays
SYMMETRY Alike
CHECK_DEADLOCK FALSE
