------------------------------ MODULE Workers ------------------------------
(***************************************************************************)
(* The worker processes of the WSGI server.  A worker handles one request  *)
(* at a time; a request is a sequence of DBstore calls, network calls and  *)
(* CA calls, and the requests of different workers interleave between any  *)
(* two of them.  pc[w] is the next call of w's request, loc[w] the local   *)
(* variables of its handler that a later step still uses.                  *)
(***************************************************************************)
EXTENDS DBstore

CONSTANTS MaxCrashes   \* how many workers are killed mid-request (a bound)

ASSUME WorkersAssumption == MaxCrashes \in Nat

VARIABLES
    pc, loc,
    announced,  \* history: orders whose URL a client has been given
    passed,     \* history: challenges whose check succeeded at some time
    crashes     \* history: workers killed so far

vars == <<orders, authz, chall, certs, held, pc, loc, announced, passed, crashes>>

-----------------------------------------------------------------------------
NewOrderLabels == {"addAuthz"}
OrderLabels == {"invalidateOrders", "lookupOrder", "lookupAuthzs", "setReady",
                "process", "setProcessing", "storeCsr", "enroll", "storeCert",
                "storeError", "storePoll", "setValid", "respond"}
AuthzLabels == {"invalidateAuthzs", "lookupAuthz", "refreshAuthz",
                "readStatus", "searchChallenges", "newChallenge"}
ChallengeLabels == {"check", "challValid", "authzValid", "challInvalid",
                    "authzInvalid"}
Labels == {"idle"} \cup NewOrderLabels \cup OrderLabels \cup AuthzLabels
             \cup ChallengeLabels

Loc == [order : Orders \cup {None},       \* the order of the request
        az    : Authzs \cup {None},       \* its authorization
        ch    : Challenges \cup {None},   \* the challenge being validated
        cert  : Certs \cup {None},        \* certificate_name
        seen  : OrderStatus \cup AuthzStatus \cup {None},  \* a status read
        second : BOOLEAN,                 \* in parse's second _lookup
        adding : SUBSET Identifiers,      \* identifiers without their row yet
        dueOrders : SUBSET Orders,        \* orders still to invalidate
        dueAuthzs : SUBSET Authzs,        \* authorizations still to expire
        types : SUBSET ChallengeTypes,    \* challenges still to create
        challs : SUBSET Challenges]       \* challenges still to validate

\* A worker between two requests.
Idle == [order |-> None, az |-> None, ch |-> None, cert |-> None,
         seen |-> None, second |-> FALSE, adding |-> {}, dueOrders |-> {},
         dueAuthzs |-> {}, types |-> {}, challs |-> {}]

WorkersTypeOK ==
    /\ pc \in [Worker -> Labels]
    /\ loc \in [Worker -> Loc]
    /\ announced \subseteq Orders
    /\ passed \subseteq Challenges
    /\ crashes \in 0..MaxCrashes

WorkersInit ==
    /\ pc = [w \in Worker |-> "idle"]
    /\ loc = [w \in Worker |-> Idle]
    /\ announced = {}
    /\ passed = {}
    /\ crashes = 0

\* w's request goes on at label with the local variables l.
Goto(w, label, l) ==
    /\ pc' = [pc EXCEPT ![w] = label]
    /\ loc' = [loc EXCEPT ![w] = l]

\* w's request is answered.
Done(w) == Goto(w, "idle", Idle)

-----------------------------------------------------------------------------
\* gunicorn kills a worker (timeout, restart) or an exception nobody catches
\* ends the request with a 500: what it wrote so far stays.
Crash(w) ==
    /\ pc[w] # "idle"
    /\ crashes < MaxCrashes
    /\ crashes' = crashes + 1
    /\ held' = [held EXCEPT ![w] = Nothing]
    /\ Done(w)
    /\ UNCHANGED <<orders, authz, chall, certs, announced, passed>>

\* The second half of the write a request has begun.  A save() that fails is
\* only logged, but for the one of order_add, which is answered malformed.
Save(w) ==
    /\ held[w] # Nothing
    /\ \/ save(w) /\ UNCHANGED <<pc, loc>>
       \/ /\ DBMayFail
          /\ held' = [held EXCEPT ![w] = Nothing]
          /\ UNCHANGED <<orders, authz, chall, certs>>
          /\ IF pc[w] = "addAuthz" /\ held[w].table = "orders"
             THEN Done(w)
             ELSE UNCHANGED <<pc, loc>>
    /\ UNCHANGED <<announced, passed, crashes>>

\* The clock passes the expiry of an order.
OrderFallsDue(o) ==
    /\ orders[o].status # None
    /\ ~ orders[o].due
    /\ orders' = [orders EXCEPT ![o].due = TRUE]
    /\ UNCHANGED <<authz, chall, certs, held, pc, loc, announced, passed, crashes>>

\* The clock passes the expiry of an authorization.
AuthzFallsDue(a) ==
    /\ authz[a].status # None
    /\ ~ authz[a].due
    /\ authz' = [authz EXCEPT ![a].due = TRUE]
    /\ UNCHANGED <<orders, chall, certs, held, pc, loc, announced, passed, crashes>>
=============================================================================
