-------------------------- MODULE AccountRegistry --------------------------
(***************************************************************************)
(* What the account resource promises, seen from outside: an account has   *)
(* one key at a time, a key has one account, and a deactivated account is  *)
(* gone for good.                                                          *)
(***************************************************************************)
CONSTANTS Names, Jwks, None

VARIABLES key,    \* the key of each account, or None
          closed  \* accounts that were deactivated

Init == key = [n \in Names |-> None] /\ closed = {}

Free(k) == \A n \in Names : key[n] # k

Register(n, k) ==
    /\ key[n] = None
    /\ n \notin closed
    /\ Free(k)
    /\ key' = [key EXCEPT ![n] = k]
    /\ UNCHANGED closed

Rollover(n, k) ==
    /\ key[n] # None
    /\ Free(k)
    /\ key' = [key EXCEPT ![n] = k]
    /\ UNCHANGED closed

Deactivate(n) ==
    /\ key[n] # None
    /\ key' = [key EXCEPT ![n] = None]
    /\ closed' = closed \cup {n}

Next ==
    \E n \in Names :
        \/ \E k \in Jwks : Register(n, k) \/ Rollover(n, k)
        \/ Deactivate(n)

Spec == Init /\ [][Next]_<<key, closed>>
=============================================================================
