---------------------------- MODULE MCCertificate ----------------------------
(* Instances of CertificateServer for TLC. *)
EXTENDS CertificateServer, TLC

CONSTANTS w1, w2, o1, o2, k1, k2, na, nb

\* Two orders may share a key; the CSR with the other key names, as its CN,
\* what is on the black list.
Plain == [key |-> k1, names |-> {na}]
MCCsrs == {Plain, [key |-> k2, names |-> {na, nb}]}

Listed == {{na, nb}}
Banned == {{nb}}

NoneIssued == [o \in {o1, o2} |-> None]
TwoIssued == [o \in {o1, o2} |-> Plain]

\* One process and two orders; two processes and an order; two processes and
\* two certificates.
One == [workers : {{w1}, {w2}}, orders : {{o1, o2}}, issued : {NoneIssued},
        handler : Handlers]
Two == [workers : {{w1, w2}}, orders : {{o1}, {o2}}, issued : {NoneIssued},
        handler : Handlers]
Old == [workers : {{w1, w2}}, orders : {{}}, issued : {TwoIssued},
        handler : {"openssl"}]
MCDeployments == One \cup Two \cup Old

\* Nothing tells two processes apart, or two orders.
Alike == Permutations({w1, w2}) \cup Permutations({o1, o2})
=============================================================================
