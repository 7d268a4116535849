------------------------------ MODULE Issuance ------------------------------
(***************************************************************************)
(* What the server promises, seen from outside: a certificate is issued    *)
(* for an order when the client has proved control, in that order, of      *)
(* every identifier in it.  Its SANs are then among the identifiers, or,   *)
(* when the order has a TNAuthList, its TNAuthLists include them all.      *)
(***************************************************************************)
CONSTANTS Orders, Identifiers, TNAuthLists

VARIABLES
    ordered,  \* the identifiers of each order; none before it is placed
    proved,   \* the <<order, identifier>> pairs control was shown for
    issued    \* the <<order, names>> pairs there is a certificate for

Init ==
    /\ ordered = [o \in Orders |-> {}]
    /\ proved = {}
    /\ issued = {}

Order(o, ids) ==
    /\ ordered[o] = {}
    /\ ids # {}
    /\ ordered' = [ordered EXCEPT ![o] = ids]
    /\ UNCHANGED <<proved, issued>>

Prove(o, i) ==
    /\ proved' = proved \cup {<<o, i>>}
    /\ UNCHANGED <<ordered, issued>>

\* What a certificate for an order of ids may name; there is none for an order
\* that mixes TNAuthLists with dns names.
May(ids, names) ==
    IF ids \cap TNAuthLists = {}
    THEN names \ TNAuthLists # {} /\ names \ TNAuthLists \subseteq ids
    ELSE ids \subseteq names \cap TNAuthLists

Issue(o, names) ==
    /\ ordered[o] # {}
    /\ \A i \in ordered[o] : <<o, i>> \in proved
    /\ May(ordered[o], names)
    /\ issued' = issued \cup {<<o, names>>}
    /\ UNCHANGED <<ordered, proved>>

Next ==
    \/ \E o \in Orders, ids \in SUBSET Identifiers : Order(o, ids)
    \/ \E o \in Orders, i \in Identifiers : Prove(o, i)
    \/ \E o \in Orders, names \in SUBSET Identifiers : Issue(o, names)

Spec == Init /\ [][Next]_<<ordered, proved, issued>>
=============================================================================
