---------------------------- MODULE MCAcmeServer ----------------------------
(* Instances of AcmeServer for TLC. *)
EXTENDS AcmeInvariants, TLC

CONSTANTS w1, w2, o1, o2, ia, ib, n1, n2, c1, c2

Both == {{ia, ib}}
Single == {{ia}}
AnyCSR == SUBSET {ia, ib}
UnfitOrMore == {{ib}, {ia, ib}}
Symmetric ==
    Permutations(Copies) \cup Permutations(CertCopies) \cup Permutations(Worker)
=============================================================================
