CONSTANTS
    w1 = w1  w2 = w2  w3 = w3  x1 = x1  x2 = x2  x3 = x3
    None = None
    Nonces = {x1, x2}
    Worker = {w1, w2, w3}
    MaxCrashes = 1
SPECIFICATION Spec
SYMMETRY Symmetric
INVARIANTS MessageInv OncePerWorker AcceptedWereHanded
PROPERTIES LateReplayRefused ImplementsNonceStore
