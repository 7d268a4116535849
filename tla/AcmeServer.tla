----------------------------- MODULE AcmeServer -----------------------------
(***************************************************************************)
(* The ACME server: clients' requests for orders, authorizations and       *)
(* challenges, handled by several workers over one database, with expiry   *)
(* and workers that are killed.                                            *)
(***************************************************************************)
EXTENDS AuthorizationHandler, OrderHandler

CONSTANTS IdentifierSets   \* what clients order: nonempty identifier sets

ASSUME AcmeServerAssumption ==
    IdentifierSets \subseteq (SUBSET Identifiers) \ {{}}

Init == DBInit /\ WorkersInit

\* A client's request reaches an idle worker.
Request(w) ==
    /\ held[w] = Nothing
    /\ \/ \E o \in Orders, ids \in IdentifierSets : NewOrder(w, o, ids)
       \/ \E o \in Orders : OrderPost(w, o)
       \/ \E a \in Authzs : AuthzPost(w, a) \/ AuthzGet(w, a)
       \/ \E c \in Challenges : ChallengePost(w, c)

\* The next database, network or CA call of a request that is being handled.
Step(w) ==
    \/ Save(w)
    \/ held[w] = Nothing /\ (OrderStep(w) \/ AuthorizationStep(w))

Clock ==
    \/ \E o \in Orders : OrderFallsDue(o)
    \/ \E a \in Authzs : AuthzFallsDue(a)

Next ==
    \/ \E w \in Worker : Request(w) \/ Step(w) \/ Crash(w)
    \/ Clock

Spec == Init /\ [][Next]_vars

-----------------------------------------------------------------------------
(* Safety                                                                  *)

\* Every variable has its type.
TypeOK == DBTypeOK /\ WorkersTypeOK

Advanced == {"ready", "processing", "valid"}

Past(o) == orders[o].status \in Advanced

Proved(a) == \E c \in passed : AuthzOf(c) = a

\* An order that got as far as ready was checked for every identifier in it:
\* the authorizations' statuses come and go (expiry, a second challenge that
\* fails), the lookups that move the order on read them at other times than
\* they are written, and still nothing moves without a check that succeeded.
ReadyOrdersProved ==
    \A o \in Orders : Past(o) =>
        \A i \in orders[o].identifiers : Proved(<<o, i>>)

\* What the names of a certificate have to do with its order.  For an order of
\* dns names it has SANs, all of them in the order.  For one with a TNAuthList
\* it has every identifier of the order; nothing is said of what else it has.
Fits(names, ids) ==
    /\ ids \cap TNAuthLists = {} =>
          names \ TNAuthLists # {} /\ names \ TNAuthLists \subseteq ids
    /\ ids \cap TNAuthLists # {} => ids \subseteq names \cap TNAuthLists

\* A certificate is stored only for an order whose identifiers were all proved,
\* and it fits the order: _csr_check goes by rows that others write, and what it
\* lets through is enrolled calls later.
IssuedProved ==
    \A c \in Certs : certs[c].status = "issued" =>
        /\ orders[c[1]].identifiers # {}
        /\ \A i \in orders[c[1]].identifiers : Proved(<<c[1], i>>)
        /\ Fits(certs[c].names, orders[c[1]].identifiers)

\* The two together, over every authorization row an order has: this much is
\* left when authorization_add fails and the order has fewer rows than names.
ReadyOrdersRowsProved ==
    \A o \in Orders : Past(o) =>
        /\ authorization_lookup(o) # {}
        /\ \A a \in authorization_lookup(o) : Proved(a)

\* A valid order has a certificate to download (Certificate.new_get answers
\* 500 otherwise): the certificate row and the order row are written by two
\* calls, by any of several finalizations of the order.
ValidOrdersHaveCert ==
    \A o \in Orders : orders[o].status = "valid" =>
        \E c \in Certs : c[1] = o /\ certs[c].status = "issued"

\* The certificate URL of a response names a row that holds a certificate.
LinkedCertIssued ==
    \A w \in Worker :
        (pc[w] = "respond" /\ loc[w].seen = "valid" /\ loc[w].cert # None)
            => certs[loc[w].cert].status = "issued"

\* The CA is asked at most once for an order.
OneEnrollment == \A o \in Orders : Cardinality(certificates_of(o)) <= 1

\* An authorization has one set of challenges, and never a part of it once
\* the request that created it is over (or its worker was killed).
ChallengeSets ==
    \A a \in Authzs :
        LET rows == challenges_search(a)
        IN  /\ \A t \in ChallengeTypes : Cardinality({c \in rows : c[3] = t}) <= 1
            /\ \/ rows = {}
               \/ {c[3] : c \in rows} = challenge_types(a)
               \/ \E w \in Worker : pc[w] = "newChallenge" /\ loc[w].az = a
               \/ crashes > 0

\* A valid authorization has a challenge that is valid: the challenge is
\* written first, and nothing takes it back.
ValidAuthzHasChallenge ==
    \A az \in Authzs : authz[az].status = "valid" =>
        \E c \in challenges_search(az) : chall[c] = "valid"

\* Between two requests, a challenge that was decided has been passed on to
\* its authorization, which then is no longer pending; only a worker killed
\* between the two writes leaves them apart.
ChallengeReachesAuthz ==
    (crashes = 0 /\ \A w \in Worker : pc[w] = "idle") =>
        \A c \in Challenges : chall[c] \in {"valid", "invalid"} =>
            authz[AuthzOf(c)].status # "pending"

-----------------------------------------------------------------------------
(* The inductive invariant behind ReadyOrdersProved, IssuedProved and      *)
(* ValidOrdersHaveCert: what the tables say, and what a worker has read    *)
(* that entitles it to the write it is about to do.                        *)

\* Every identifier of the order was proved.
Cleared(o) == \A i \in orders[o].identifiers : Proved(<<o, i>>)

\* The authorizations an order has in the table: all but those still to add.
RowsExist(o, missing) ==
    /\ orders[o].status # None
    /\ \A i \in orders[o].identifiers \ missing : authz[<<o, i>>].status # None

\* An order is announced when it has all its authorizations.
AnnouncedComplete == \A o \in announced : RowsExist(o, {})

\* A request that is adding authorizations has added all but loc.adding.
AddingComplete ==
    \A w \in Worker : pc[w] = "addAuthz" =>
        RowsExist(loc[w].order, loc[w].adding)

\* An authorization is valid only after a check that succeeded.
ValidAuthzProved == \A az \in Authzs : authz[az].status = "valid" => Proved(az)

\* The outcome of a check is written for the challenge that was checked.
ValidatingChecked ==
    \A w \in Worker :
        pc[w] \in {"challValid", "authzValid"} => loc[w].ch \in passed

\* A request has the order or the authorization it is about.
Requested ==
    \A w \in Worker :
        /\ pc[w] \in NewOrderLabels \cup OrderLabels => loc[w].order \in Orders
        /\ pc[w] \in AuthzLabels => loc[w].az \in Authzs
        /\ pc[w] \in {"challValid", "challInvalid", "authzValid", "authzInvalid"}
              => loc[w].ch \in Challenges

\* An authorization that is refreshed is in the table.
RefreshingRow ==
    \A w \in Worker : pc[w] = "refreshAuthz" => authz[loc[w].az].status # None

\* After Message.check, an order request is about an announced order.
OrderAnnounced ==
    \A w \in Worker :
        pc[w] \in OrderLabels \ {"invalidateOrders"} => loc[w].order \in announced

MovingLabels == {"setReady", "setProcessing", "storeCsr", "enroll", "storeCert",
                 "storeError", "storePoll", "setValid"}

\* A worker about to move an order on has read that it is cleared.
MovingCleared ==
    \A w \in Worker : pc[w] \in MovingLabels => Cleared(loc[w].order)

\* An order past pending is announced, and cleared.
PastCleared == \A o \in Orders : Past(o) => o \in announced /\ Cleared(o)

EnrollLabels == {"enroll", "storeCert", "storeError", "storePoll"}

\* The row of an enrollment belongs to one worker, holds the CSR of that
\* worker's order, and passed _csr_check.
EnrollingRow ==
    \A w \in Worker : pc[w] \in EnrollLabels =>
        LET c == loc[w].cert
        IN  /\ c \in Certs
            /\ c[1] = loc[w].order
            /\ certs[c].status = "csr"
            /\ Fits(certs[c].names, orders[c[1]].identifiers)

EnrollingApart ==
    \A v, w \in Worker :
        (pc[v] \in EnrollLabels /\ pc[w] \in EnrollLabels /\ v # w)
            => loc[v].cert # loc[w].cert

\* An issued certificate fits its order, which was cleared.
IssuedCleared ==
    \A c \in Certs : certs[c].status = "issued" =>
        /\ c[1] \in announced
        /\ Fits(certs[c].names, orders[c[1]].identifiers)
        /\ Cleared(c[1])

HasCert(o) == \E c \in Certs : c[1] = o /\ certs[c].status = "issued"

\* A worker about to make an order valid has stored its certificate.
ValidatingHasCert ==
    \A w \in Worker : pc[w] = "setValid" => HasCert(loc[w].order)

\* What a worker still has to save() is no more than it was entitled to write.
HeldSound ==
    \A w \in Worker :
        /\ (held[w].table = "orders" /\ held[w].status \in Advanced) =>
              /\ held[w].row \in announced
              /\ Cleared(held[w].row)
        /\ (held[w].table = "orders" /\ held[w].status = "valid") =>
              HasCert(held[w].row)
        /\ (held[w].table = "authz" /\ held[w].status = "valid") =>
              Proved(held[w].row)

IInv ==
    /\ TypeOK
    /\ Requested
    /\ RefreshingRow
    /\ AnnouncedComplete
    /\ AddingComplete
    /\ ValidAuthzProved
    /\ ValidatingChecked
    /\ OrderAnnounced
    /\ MovingCleared
    /\ PastCleared
    /\ EnrollingRow
    /\ EnrollingApart
    /\ IssuedCleared
    /\ ValidatingHasCert
    /\ ValidOrdersHaveCert
    /\ HeldSound

-----------------------------------------------------------------------------
\* An order is enrolled for by one finalization at a time: order.py's "lookup
\* order-status (must be ready to proceed)", and then it is processing.
OneEnrolling ==
    \A v, w \in Worker :
        (pc[v] \in EnrollLabels /\ pc[w] \in EnrollLabels /\ v # w)
            => loc[v].order # loc[w].order

-----------------------------------------------------------------------------
(* Action properties                                                       *)

\* The status of an order only moves forward, or to invalid.
Forward(from, to) ==
    \/ from = to
    \/ to = "invalid"
    \/ <<from, to>> \in {<<None, "pending">>, <<"pending", "ready">>,
                         <<"ready", "processing">>, <<"processing", "valid">>}

OrdersMoveForward ==
    [][\A o \in Orders : Forward(orders[o].status, orders'[o].status)]_vars

\* An authorization that was decided does not become pending again: the only
\* write of a poll is, in the words of authorization.py, "update authorization
\* with expiry date and token (just to be sure)".
DecisionKept ==
    [][\A az \in Authzs :
          authz[az].status \in {"valid", "invalid"}
              => authz'[az].status # "pending"]_vars

-----------------------------------------------------------------------------
(* Liveness.  A request that is being handled goes on until it is answered *)
(* or its worker is killed; time passes; and clients keep asking: some     *)
(* order is requested again and again, and so is every authorization, by   *)
(* requests Message.check does not always refuse.                          *)

Fairness ==
    /\ \A w \in Worker : WF_vars(Step(w))
    /\ \A o \in Orders : WF_vars(OrderFallsDue(o))
    /\ SF_vars(\E w \in Worker, o \in Orders : OrderPost(w, o))
    /\ \A az \in Authzs :
          /\ SF_vars(\E w \in Worker : AuthzPost(w, az))
          /\ SF_vars(\E w \in Worker : AuthzPostChecked(w)
                        /\ loc[w].az = az /\ pc'[w] = "lookupAuthz")

\* A client that has its proof in place: a challenge of az that is checked
\* again and again succeeds at some point.
ProofInPlace ==
    \A az \in Authzs :
        SF_vars(\E w \in Worker, c \in Challenges :
                    AuthzOf(c) = az /\ CheckChallenge(w, c, "ok"))

FairSpec == Spec /\ Fairness /\ ProofInPlace

\* An order does not stay processing for ever, although a failed enrollment,
\* a missing CSR and a killed worker all leave it there: its expiry ends it.
ProcessingEnds ==
    \A o \in Orders :
        orders[o].status = "processing"
            ~> orders[o].status \in {"valid", "invalid"}

\* A worker killed between the two writes of a validation leaves a valid
\* challenge, which Challenge.parse refuses to validate again, under a pending
\* authorization; polling the authorization repairs it.
DecidedAuthzHeals ==
    \A c \in Challenges :
        (chall[c] = "valid" /\ authz[AuthzOf(c)].status = "pending")
            ~> authz[AuthzOf(c)].status # "pending"

-----------------------------------------------------------------------------
(* Refinement                                                              *)

\* The identifiers of each order, those control was shown for, and the
\* certificates there are.
Ordered == [o \in Orders |-> orders[o].identifiers]

Shown == {AuthzOf(c) : c \in passed}

IssuedCerts == {c \in Certs : certs[c].status = "issued"}

Stored == {<<c[1], certs[c].names>> : c \in IssuedCerts}

Promise == INSTANCE Issuance
               WITH ordered <- Ordered, proved <- Shown, issued <- Stored

\* The server implements Issuance.
ImplementsIssuance == Promise!Spec
=============================================================================
