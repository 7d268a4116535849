CONSTANTS
    w1 = w1  w2 = w2  k1 = k1  k2 = k2  k3 = k3  k4 = k4  d1 = d1
    test = test  xtest = xtest  dev = dev  NoPrefix = NoPrefix  None = None
    Worker = {w1, w2}
    Name <- MCName
    ClientCsrs <- MCClientCsrs
    PrefetchCsrs <- MCPrefetchCsrs
    Domains <- MCDomains
    Suffixes <- MCSuffixes
    Trials = 2
    MaxCerts = 2
    MaxCrashes = 1
SPECIFICATION FairSpec
INVARIANTS ZeroSSLInv Delivered NoRecordLeft
PROPERTIES RecordsKept EnrollmentEnds
