--------------------------- MODULE AcmeInvariants ---------------------------
(***************************************************************************)
(* Two more inductive invariants of AcmeServer beside IInv: RowsInv, which *)
(* needs neither one worker nor a database that answers, and OneWorkerInv, *)
(* which needs both and says most.                                         *)
(***************************************************************************)
EXTENDS AcmeServer

-----------------------------------------------------------------------------
(* Any number of workers, and database calls that may fail: the rows an    *)
(* order has are the ones it was announced with, and they were proved.     *)

AuthzExists(a) == authz[a].status # None

\* Every authorization an order has in the table was proved.
RowsCleared(o) ==
    /\ authorization_lookup(o) # {}
    /\ \A a \in authorization_lookup(o) : Proved(a)

\* A client is told only of orders that are in the table.
AnnouncedExists == \A o \in announced : orders[o].status # None

\* An order that is getting its authorizations is in the table and unknown to
\* the clients ...
AddingUnannounced ==
    \A w \in Worker : pc[w] = "addAuthz" =>
        orders[loc[w].order].status # None /\ loc[w].order \notin announced

\* ... and it gets them from one request.
AddingApart ==
    \A v, w \in Worker :
        (pc[v] = "addAuthz" /\ pc[w] = "addAuthz" /\ v # w)
            => loc[v].order # loc[w].order

\* A challenge belongs to an authorization in the table.
ChallengesHaveAuthz ==
    \A c \in Challenges : chall[c] # None => AuthzExists(AuthzOf(c))

\* What a request is about to write to was in the table when it was read.
NamedExist ==
    \A w \in Worker :
        /\ \A a \in loc[w].dueAuthzs : AuthzExists(a)
        /\ \A c \in loc[w].challs : AuthzExists(AuthzOf(c))
        /\ (loc[w].ch # None \/ pc[w] \in ChallengeLabels \ {"check"})
              => AuthzExists(AuthzOf(loc[w].ch))
        /\ pc[w] \in {"refreshAuthz", "readStatus", "searchChallenges", "newChallenge"}
              => AuthzExists(loc[w].az)

\* So was what a worker still has to save().
HeldExists ==
    \A w \in Worker :
        /\ held[w].table = "authz" => AuthzExists(held[w].row)
        /\ held[w].table = "chall" => AuthzExists(AuthzOf(held[w].row))

\* A worker about to move an order on has read its rows as valid.
MovingRows ==
    \A w \in Worker : pc[w] \in MovingLabels => RowsCleared(loc[w].order)

\* An order past pending is announced, and its rows were proved.
PastRows == \A o \in Orders : Past(o) => o \in announced /\ RowsCleared(o)

\* A decision that is held was proved: the part of HeldSound about authorizations.
HeldProved ==
    \A w \in Worker :
        (held[w].table = "authz" /\ held[w].status = "valid") => Proved(held[w].row)

\* What save() writes again was written with the same right.
HeldRows ==
    \A w \in Worker :
        (held[w].table = "orders" /\ held[w].status \in Advanced) =>
            held[w].row \in announced /\ RowsCleared(held[w].row)

\* The rows an announced order has are those Order.new added, and an order
\* that moved on had each of them proved, whatever calls fail.
RowsInv ==
    /\ TypeOK
    /\ Requested
    /\ RefreshingRow
    /\ OrderAnnounced
    /\ AnnouncedExists
    /\ AddingUnannounced
    /\ AddingApart
    /\ ChallengesHaveAuthz
    /\ NamedExist
    /\ HeldExists
    /\ ValidAuthzProved
    /\ ValidatingChecked
    /\ HeldProved
    /\ MovingRows
    /\ PastRows
    /\ HeldRows

-----------------------------------------------------------------------------
(* One worker, and a database that answers: what the tables still are at   *)
(* each call of a request.                                                 *)

\* What a worker holds is what is in the table.
Written(w) ==
    /\ held[w].table = "orders" => orders[held[w].row].status = held[w].status
    /\ held[w].table = "authz" => authz[held[w].row].status = held[w].status

\* save() has nothing new to write.
HeldCurrent ==
    \A w \in Worker :
        /\ Written(w)
        /\ held[w].table = "chall" => chall[held[w].row] = held[w].status

\* The status of the order is the one that was read.
OrderAsRead ==
    \A w \in Worker :
        LET now == orders[loc[w].order].status
        IN  /\ pc[w] = "lookupAuthzs" => loc[w].seen = now
            /\ pc[w] = "setReady" => now = "pending" /\ loc[w].seen = "pending"
            /\ pc[w] = "setProcessing" => now = "ready"
            /\ pc[w] \in MovingLabels \ {"setReady", "setProcessing"} => now = "processing"
            /\ pc[w] = "respond" => loc[w].seen \in {"pending", now}

\* A certificate row comes with the finalization, and there is one.
NoCertYet ==
    \A c \in Certs : certs[c].status # None =>
        /\ orders[c[1]].status \notin {None, "pending", "ready"}
        /\ \A w \in Worker : pc[w] = "storeCsr" => loc[w].order # c[1]

OneCert ==
    \A c, d \in Certs :
        (certs[c].status # None /\ certs[d].status # None /\ c[1] = d[1]) => c = d

\* The certificate a request goes on with is a row of its order.
CertOfOrder ==
    \A w \in Worker :
        (pc[w] \in OrderLabels /\ loc[w].cert # None)
            => loc[w].cert \in certificates_of(loc[w].order)

\* An authorization comes with its order; those still to be added are missing.
AuthzHasOrder ==
    \A a \in Authzs : AuthzExists(a) =>
        /\ orders[a[1]].status # None
        /\ \A w \in Worker : (pc[w] = "addAuthz" /\ loc[w].order = a[1])
              => a[2] \notin loc[w].adding

\* The status of the authorization is the one that was read.
AuthzAsRead ==
    \A w \in Worker :
        pc[w] = "searchChallenges" => loc[w].seen = authz[loc[w].az].status

\* The challenges a request validates are in the table, and each is validated
\* once.
ValidatedExist ==
    \A w \in Worker :
        /\ \A c \in loc[w].challs : chall[c] # None
        /\ (loc[w].ch # None \/ pc[w] \in ChallengeLabels \ {"check"})
              => chall[loc[w].ch] # None
        /\ pc[w] \in ChallengeLabels \ {"check"} => loc[w].ch \notin loc[w].challs
        /\ pc[w] = "authzValid" => chall[loc[w].ch] = "valid"

\* An authorization has a challenge of that type.
HasType(a, t) ==
    \E c \in Challenges : AuthzOf(c) = a /\ c[3] = t /\ chall[c] # None

OneOfAType ==
    \A c, d \in Challenges :
        (chall[c] # None /\ chall[d] # None /\ AuthzOf(c) = AuthzOf(d) /\ c[3] = d[3])
            => c = d

\* The types of a set are those new_set chooses for the identifier.
TypesFit ==
    /\ \A a \in Authzs, t \in ChallengeTypes :
          HasType(a, t) => t \in challenge_types(a)
    /\ \A w \in Worker : pc[w] = "newChallenge" =>
          loc[w].types \subseteq challenge_types(loc[w].az)

\* new_set has created all types but loc.types, and those not.
TypesMissing ==
    \A w \in Worker : pc[w] = "newChallenge" =>
        \A t \in ChallengeTypes :
            IF t \in loc[w].types THEN ~ HasType(loc[w].az, t)
            ELSE (t \in challenge_types(loc[w].az) /\ Copies # {})
                     => HasType(loc[w].az, t)

\* Other sets are whole, when no worker was killed.
SetsWhole ==
    crashes = 0 =>
        \A a \in Authzs :
            \/ \A t \in challenge_types(a) : ~ HasType(a, t)
            \/ \A t \in challenge_types(a) : HasType(a, t)
            \/ \E w \in Worker : pc[w] = "newChallenge" /\ loc[w].az = a

\* A valid authorization has a valid challenge that nobody is about to make
\* invalid.
ValidForGood ==
    \A a \in Authzs : authz[a].status = "valid" =>
        \E c \in Challenges :
            /\ AuthzOf(c) = a
            /\ chall[c] = "valid"
            /\ \A w \in Worker :
                  /\ c \notin loc[w].challs
                  /\ pc[w] = "challInvalid" => c # loc[w].ch

\* A decision has reached the authorization, or is on its way.
DecisionPassed ==
    crashes = 0 =>
        \A c \in Challenges : chall[c] \in {"valid", "invalid"} =>
            \/ authz[AuthzOf(c)].status # "pending"
            \/ \E w \in Worker :
                  pc[w] \in {"authzValid", "authzInvalid"} /\ loc[w].ch = c

\* With one worker over a database that answers, what a handler has read is
\* still so when it writes, and each save() finds what update_or_create wrote.
OneWorkerInv ==
    /\ IInv
    /\ RowsInv
    /\ HeldCurrent
    /\ OrderAsRead
    /\ NoCertYet
    /\ OneCert
    /\ CertOfOrder
    /\ AuthzHasOrder
    /\ AuthzAsRead
    /\ ValidatedExist
    /\ OneOfAType
    /\ TypesFit
    /\ TypesMissing
    /\ SetsWhole
    /\ ValidForGood
    /\ DecisionPassed
=============================================================================
