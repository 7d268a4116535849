----------------------------- MODULE NonceStore -----------------------------
(***************************************************************************)
(* What Replay-Nonce promises, seen from outside: a nonce the server       *)
(* handed out is good for one request, and then for none.                  *)
(***************************************************************************)
CONSTANT Nonces

VARIABLES good,  \* nonces that are good for a request
          used   \* nonces a request was accepted with

Init == good = {} /\ used = {}

Hand(n) ==
    /\ n \notin good \cup used
    /\ good' = good \cup {n}
    /\ UNCHANGED used

Use(n) ==
    /\ n \in good
    /\ good' = good \ {n}
    /\ used' = used \cup {n}

\* A nonce is lost with a request that is refused for another reason.
Lose(n) ==
    /\ n \in good
    /\ good' = good \ {n}
    /\ UNCHANGED used

Next == \E n \in Nonces : Hand(n) \/ Use(n) \/ Lose(n)

Spec == Init /\ [][Next]_<<good, used>>
=============================================================================
