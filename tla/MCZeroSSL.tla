----------------------------- MODULE MCZeroSSL -----------------------------
(* Instances of ZeroSSLHandler for TLC. *)
EXTENDS ZeroSSLHandler, TLC

CONSTANTS w1, w2, k1, k2, k3, k4, d1, test, xtest, dev

\* "xtest" ends with "test"; "dev" is not configured.
A == [prefix |-> test, domain |-> d1]
B == [prefix |-> xtest, domain |-> d1]
C == [prefix |-> dev, domain |-> d1]

MCName == {A, B, C}
MCDomains == [d \in {d1} |-> {test}]
MCSuffixes == {<<xtest, test>>}

\* Two clients, one with more names, and one whose name is not configured; a
\* prefetch request for the names of the first.
MCClientCsrs == {[key |-> k1, names |-> {A}], [key |-> k2, names |-> {A, B}],
                 [key |-> k3, names |-> {C}]}
MCPrefetchCsrs == {[key |-> k4, names |-> {A}]}
=============================================================================
