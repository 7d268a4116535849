----------------------------- MODULE MCAccount -----------------------------
(* Instances of AccountHandler for TLC. *)
EXTENDS AccountHandler, TLC

CONSTANTS w1, w2, x1, x2, x3, k1, k2, k3

OneOrTwo == {{w1}, {w1, w2}}

Symmetric == Permutations(Names) \cup Permutations(Jwks)
=============================================================================
