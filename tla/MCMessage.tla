----------------------------- MODULE MCMessage -----------------------------
(* Instances of Message for TLC. *)
EXTENDS Message, TLC

CONSTANTS w1, w2, w3, x1, x2, x3

Symmetric == Permutations(Nonces) \cup Permutations(Worker)
=============================================================================
