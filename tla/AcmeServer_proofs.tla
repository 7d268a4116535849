-------------------------- MODULE AcmeServer_proofs --------------------------
(***************************************************************************)
(* Proofs about AcmeServer, for every number of workers, orders,           *)
(* identifiers and kills.  The invariant IInv of AcmeServer is inductive   *)
(* when database calls do not fail (~ DBMayFail); its conjuncts are proved *)
(* one by one, each in a lemma named after it with one step per action, or *)
(* one step for a kind of request that cannot disturb it.                  *)
(***************************************************************************)
EXTENDS AcmeInvariants, TLAPS

-----------------------------------------------------------------------------
(* Types of the database calls. *)

\* order_add keeps the order table a table of orders.
LEMMA OrderAddType ==
  ASSUME NEW w, orders \in [Orders -> OrderRow], NEW o, NEW st \in OrderStatus,
         NEW ids \in SUBSET Identifiers, order_add(w, o, st, ids)
  PROVE  orders' \in [Orders -> OrderRow]
  BY DEF order_add, OrderRow

\* order_update keeps the type of the order table, whichever row it names.
LEMMA OrderUpdateType ==
  ASSUME NEW w, orders \in [Orders -> OrderRow], NEW o, NEW st \in OrderStatus,
         order_update(w, o, st)
  PROVE  orders' \in [Orders -> OrderRow]
<1>1. CASE o \in Orders
  <2>1. [orders[o] EXCEPT !.status = st] \in OrderRow
    BY <1>1 DEF OrderRow
  <2> QED BY <1>1, <2>1 DEF order_update
<1>2. CASE o \notin Orders
  BY <1>2 DEF order_update
<1> QED BY <1>1, <1>2

\* authorization_add keeps the type of the authorization table.
LEMMA AuthzAddType ==
  ASSUME NEW w, authz \in [Authzs -> AuthzRow], NEW a, authorization_add(w, a)
  PROVE  authz' \in [Authzs -> AuthzRow]
<1>1. [status |-> "pending", due |-> FALSE] \in AuthzRow
  BY DEF AuthzRow, AuthzStatus
<1> QED BY <1>1 DEF authorization_add

\* authorization_update keeps the type of the authorization table.
LEMMA AuthzUpdateType ==
  ASSUME NEW w, authz \in [Authzs -> AuthzRow], NEW a, NEW st \in AuthzStatus,
         authorization_update(w, a, st)
  PROVE  authz' \in [Authzs -> AuthzRow]
  BY DEF authorization_update, AuthzRow

\* _authz_info's refresh keeps the type of the authorization table.
LEMMA AuthzRefreshType ==
  ASSUME NEW w, authz \in [Authzs -> AuthzRow], NEW a, authorization_refresh(w, a)
  PROVE  authz' \in [Authzs -> AuthzRow]
  BY DEF authorization_refresh, AuthzRow

\* challenge_add keeps the type of the challenge table.
LEMMA ChallengeAddType ==
  ASSUME NEW w, chall \in [Challenges -> ChallengeRow], NEW a, NEW t, challenge_add(w, a, t)
  PROVE  chall' \in [Challenges -> ChallengeRow]
  BY DEF challenge_add, ChallengeRow, ChallengeStatus

\* challenge_update keeps the type of the challenge table.
LEMMA ChallengeUpdateType ==
  ASSUME NEW w, chall \in [Challenges -> ChallengeRow], NEW c, NEW st \in ChallengeStatus,
         challenge_update(w, c, st)
  PROVE  chall' \in [Challenges -> ChallengeRow]
  BY DEF challenge_update, ChallengeRow

\* certificate_add on an existing row keeps the type of the certificate table.
LEMMA CertUpdateType ==
  ASSUME certs \in [Certs -> CertRow], NEW c, NEW st \in CertStatus,
         certificate_update(c, st)
  PROVE  certs' \in [Certs -> CertRow]
  BY DEF certificate_update, CertRow

(* Types of a worker's steps. *)

\* The locals of a worker between two requests have their type.
LEMMA IdleType == Idle \in Loc
  BY DEF Idle, Loc

\* A set of challenges has some of the types there are.
LEMMA TypesOfASet == \A a : challenge_types(a) \subseteq ChallengeTypes
  BY DEF challenge_types, ChallengeTypes

\* Changing one of a handler's local variables to a value of its type.
LEMMA LocType ==
  ASSUME NEW l \in Loc
  PROVE  /\ \A c \in Certs \cup {None} : /\ [l EXCEPT !.cert = c] \in Loc
                                        /\ [l EXCEPT !.cert = c, !.second = TRUE] \in Loc
         /\ \A st \in OrderStatus \cup AuthzStatus \cup {None} : [l EXCEPT !.seen = st] \in Loc
         /\ [l EXCEPT !.second = TRUE] \in Loc
         /\ \A ts \in SUBSET ChallengeTypes : [l EXCEPT !.types = ts] \in Loc
         /\ \A cs \in SUBSET Challenges : [l EXCEPT !.challs = cs] \in Loc
         /\ \A cs \in SUBSET Challenges, c \in Challenges :
                [l EXCEPT !.challs = cs, !.ch = c] \in Loc
<1>1. \A c \in Certs \cup {None} : /\ [l EXCEPT !.cert = c] \in Loc
                                  /\ [l EXCEPT !.cert = c, !.second = TRUE] \in Loc
  BY DEF Loc
<1>2. \A st \in OrderStatus \cup AuthzStatus \cup {None} : [l EXCEPT !.seen = st] \in Loc
  BY DEF Loc
<1>3. /\ [l EXCEPT !.second = TRUE] \in Loc
      /\ \A ts \in SUBSET ChallengeTypes : [l EXCEPT !.types = ts] \in Loc
  BY DEF Loc
<1>4. \A cs \in SUBSET Challenges : [l EXCEPT !.challs = cs] \in Loc
  BY DEF Loc
<1>5. \A cs \in SUBSET Challenges, c \in Challenges :
         [l EXCEPT !.challs = cs, !.ch = c] \in Loc
  BY DEF Loc
<1> QED BY <1>1, <1>2, <1>3, <1>4, <1>5

\* A handler that goes on with typed locals keeps the workers typed.
LEMMA GotoType ==
  ASSUME pc \in [Worker -> Labels], loc \in [Worker -> Loc],
         NEW w \in Worker, NEW label \in Labels, NEW l \in Loc, Goto(w, label, l)
  PROVE  pc' \in [Worker -> Labels] /\ loc' \in [Worker -> Loc]
  BY DEF Goto

\* A handler that answers keeps the workers typed.
LEMMA DoneType ==
  ASSUME pc \in [Worker -> Labels], loc \in [Worker -> Loc],
         NEW w \in Worker, Done(w)
  PROVE  pc' \in [Worker -> Labels] /\ loc' \in [Worker -> Loc]
  BY IdleType, GotoType DEF Done, Labels


(* Frames: what a step of one kind leaves alone, and where it may lead.     *)

\* Only w moves, to one of the labels.
Moves(w, labels) ==
    /\ pc' = [pc EXCEPT ![w] = pc'[w]]
    /\ loc' = [loc EXCEPT ![w] = loc'[w]]
    /\ pc'[w] \in labels

RequestLabels == {"idle", "addAuthz", "invalidateOrders", "invalidateAuthzs",
                  "lookupAuthz", "check"}

\* Going to a label of a set is a move of w alone, into that set.
LEMMA GotoMoves ==
  ASSUME WorkersTypeOK, NEW w \in Worker, NEW labels, NEW label \in labels, NEW l,
         Goto(w, label, l)
  PROVE  Moves(w, labels)
  BY DEF WorkersTypeOK, Goto, Moves

\* A new request moves one idle worker, or nobody, and writes no row but the
\* order's.
LEMMA RequestFrame ==
  ASSUME WorkersTypeOK, NEW w \in Worker, Request(w)
  PROVE  /\ Moves(w, RequestLabels) \/ UNCHANGED <<pc, loc>>
         /\ UNCHANGED <<authz, chall, certs, announced, passed>>
  BY GotoMoves DEF Request, NewOrder, OrderPost, AuthzPost, AuthzGet, ChallengePost, RequestLabels, dbvars

\* A step of an authorization or challenge request stays among their labels
\* and leaves orders and certificates alone.
LEMMA AuthorizationFrame ==
  ASSUME WorkersTypeOK, NEW w \in Worker, AuthorizationStep(w)
  PROVE  /\ Moves(w, {"idle"} \cup AuthzLabels \cup ChallengeLabels)
         /\ UNCHANGED <<orders, certs, announced>>
<1> USE DEF AuthzLabels, ChallengeLabels
<1>1. Moves(w, {"idle"} \cup AuthzLabels \cup ChallengeLabels)
  BY GotoMoves DEF AuthorizationStep, InvalidateAuthz, AuthzPostChecked, LookupAuthz,
     RefreshAuthz, ReadAuthzStatus, SearchChallenges, NewChallenge, CheckChallenge,
     ChallengesChecked, UpdateChallenge, UpdateAuthz, Done
<1>2. UNCHANGED <<orders, certs, announced>>
  BY DEF AuthorizationStep, InvalidateAuthz, AuthzPostChecked, LookupAuthz,
     RefreshAuthz, ReadAuthzStatus, SearchChallenges, NewChallenge, CheckChallenge,
     ChallengesChecked, UpdateChallenge, UpdateAuthz, dbvars
<1> QED BY <1>1, <1>2

\* A step of an order request stays among its labels; it neither touches a
\* challenge nor records a check.
LEMMA OrderFrame ==
  ASSUME WorkersTypeOK, NEW w \in Worker, OrderStep(w)
  PROVE  /\ Moves(w, {"idle"} \cup NewOrderLabels \cup OrderLabels)
         /\ UNCHANGED <<chall, passed>>
<1> USE DEF NewOrderLabels, OrderLabels
<1>1. Moves(w, {"idle"} \cup NewOrderLabels \cup OrderLabels)
  BY GotoMoves DEF OrderStep, AddAuthz, AnnounceOrder, InvalidateOrder, OrderPostChecked,
     LookupOrder, LookupAuthzs, SetReady, ProcessPoll, ProcessFinalize,
     SetProcessing, StoreCsr, Enroll, StoreCert, StoreCertError, SetValid, Respond, Done, AfterLookup
<1>2. UNCHANGED <<chall, passed>>
  BY DEF OrderStep, AddAuthz, AnnounceOrder, InvalidateOrder, OrderPostChecked,
     LookupOrder, LookupAuthzs, SetReady, ProcessPoll, ProcessFinalize,
     SetProcessing, StoreCsr, Enroll, StoreCert, StoreCertError, SetValid, Respond, dbvars
<1> QED BY <1>1, <1>2

\* save() writes neither certificates nor history; only when it fails may the
\* request end with it.
LEMMA SaveFrame ==
  ASSUME WorkersTypeOK, NEW w \in Worker, Save(w)
  PROVE  /\ Moves(w, {"idle"}) \/ UNCHANGED <<pc, loc>>
         /\ UNCHANGED <<certs, announced, passed, crashes>>
  BY GotoMoves DEF Save, save, Done

\* save() changes the status of the row that is held to the one that is held.
LEMMA SaveRows ==
  ASSUME TypeOK, NEW w \in Worker, Save(w)
  PROVE  /\ \A o \in Orders :
              /\ orders'[o].identifiers = orders[o].identifiers
              /\ \/ orders'[o].status = orders[o].status
                 \/ /\ held[w].table = "orders" /\ held[w].row = o
                    /\ held[w].status \in OrderStatus
                    /\ orders'[o].status = held[w].status
         /\ \A a \in Authzs :
              \/ authz'[a].status = authz[a].status
              \/ /\ held[w].table = "authz" /\ held[w].row = a
                 /\ held[w].status \in AuthzStatus
                 /\ authz'[a].status = held[w].status
<1> USE DEF TypeOK, DBTypeOK, Held, Nothing, OrderRow, AuthzRow
<1>1. CASE /\ held[w].table = "orders"
           /\ orders' = [orders EXCEPT ![held[w].row].status = held[w].status]
           /\ UNCHANGED authz
  BY <1>1
<1>2. CASE /\ held[w].table = "authz"
           /\ authz' = [authz EXCEPT ![held[w].row].status = held[w].status]
           /\ UNCHANGED orders
  BY <1>2
<1>3. CASE UNCHANGED <<orders, authz>>
  BY <1>3
<1> QED BY <1>1, <1>2, <1>3 DEF Save, save

\* save() keeps the types of the tables.
LEMMA SaveType ==
  ASSUME TypeOK, NEW w \in Worker, Save(w)
  PROVE  /\ orders' \in [Orders -> OrderRow]
         /\ authz' \in [Authzs -> AuthzRow]
         /\ chall' \in [Challenges -> ChallengeRow]
<1> USE DEF TypeOK, DBTypeOK, Held, Nothing
<1>1. CASE /\ held[w].table = "orders"
           /\ orders' = [orders EXCEPT ![held[w].row].status = held[w].status]
           /\ UNCHANGED <<authz, chall>>
  BY <1>1, SMTT(40) DEF OrderRow
<1>2. CASE /\ held[w].table = "authz"
           /\ authz' = [authz EXCEPT ![held[w].row].status = held[w].status]
           /\ UNCHANGED <<orders, chall>>
  BY <1>2 DEF AuthzRow
<1>3. CASE /\ held[w].table = "chall"
           /\ chall' = [chall EXCEPT ![held[w].row] = held[w].status]
           /\ UNCHANGED <<orders, authz>>
  BY <1>3
<1>4. CASE UNCHANGED <<orders, authz, chall>>
  BY <1>4
<1> QED BY <1>1, <1>2, <1>3, <1>4 DEF Save, save

\* No status a row can have is None.
LEMMA NoneIsNoStatus ==
  \A st \in OrderStatus \cup AuthzStatus \cup CertStatus : st # None
BY DBstoreAssumption

-----------------------------------------------------------------------------
(* Each conjunct of the invariant is kept by every step.                   *)

\* The tables and the workers: TypeOK but for what is held.
RowsTypeOK ==
    /\ orders \in [Orders -> OrderRow]
    /\ authz \in [Authzs -> AuthzRow]
    /\ chall \in [Challenges -> ChallengeRow]
    /\ certs \in [Certs -> CertRow]
    /\ WorkersTypeOK

\* Every step keeps the types of the tables and the workers, given that a
\* request has the order or the authorization it is about.
LEMMA RowsStepType == TypeOK /\ Requested /\ [Next]_vars => RowsTypeOK'
<1> SUFFICES ASSUME TypeOK, Requested, [Next]_vars PROVE RowsTypeOK'
  OBVIOUS
<1> USE DEF TypeOK, RowsTypeOK, DBTypeOK, WorkersTypeOK, dbvars
<1>1. ASSUME NEW w \in Worker, NEW o \in Orders, NEW ids \in IdentifierSets,
             NewOrder(w, o, ids)
      PROVE  RowsTypeOK'
  <2>1. ids \in SUBSET Identifiers
    BY AcmeServerAssumption
  <2>2. orders' \in [Orders -> OrderRow]
    BY <1>1, <2>1, OrderAddType DEF NewOrder, OrderStatus
  <2>3. [Idle EXCEPT !.order = o, !.adding = ids] \in Loc
    BY <2>1 DEF Idle, Loc
  <2>4. pc' \in [Worker -> Labels] /\ loc' \in [Worker -> Loc]
    BY <1>1, <2>1, <2>2, <2>3, GotoType DEF NewOrder, Labels, NewOrderLabels
  <2> QED BY <1>1, <2>1, <2>2, <2>3, <2>4 DEF NewOrder
<1>2. ASSUME NEW w \in Worker, NEW o \in Orders,
             OrderPost(w, o)
      PROVE  RowsTypeOK'
  <2>1. [Idle EXCEPT !.order = o, !.dueOrders = orders_invalid_search] \in Loc
    BY DEF Idle, Loc, orders_invalid_search
  <2>2. pc' \in [Worker -> Labels] /\ loc' \in [Worker -> Loc]
    BY <1>2, <2>1, GotoType DEF OrderPost, Labels, OrderLabels
  <2> QED BY <1>2, <2>1, <2>2 DEF OrderPost
<1>3. ASSUME NEW w \in Worker, NEW a \in Authzs,
             AuthzPost(w, a)
      PROVE  RowsTypeOK'
  <2>1. [Idle EXCEPT !.az = a, !.dueAuthzs = authorizations_expired_search] \in Loc
    BY DEF Idle, Loc, authorizations_expired_search
  <2>2. pc' \in [Worker -> Labels] /\ loc' \in [Worker -> Loc]
    BY <1>3, <2>1, GotoType DEF AuthzPost, Labels, AuthzLabels
  <2> QED BY <1>3, <2>1, <2>2 DEF AuthzPost
<1>4. ASSUME NEW w \in Worker, NEW a \in Authzs,
             AuthzGet(w, a)
      PROVE  RowsTypeOK'
  <2>1. [Idle EXCEPT !.az = a] \in Loc
    BY DEF Idle, Loc
  <2>2. pc' \in [Worker -> Labels] /\ loc' \in [Worker -> Loc]
    BY <1>4, <2>1, GotoType DEF AuthzGet, Labels, AuthzLabels
  <2> QED BY <1>4, <2>1, <2>2 DEF AuthzGet
<1>5. ASSUME NEW w \in Worker, NEW c \in Challenges,
             ChallengePost(w, c)
      PROVE  RowsTypeOK'
  <2>1. [Idle EXCEPT !.challs = {c}] \in Loc
    BY DEF Idle, Loc
  <2>2. pc' \in [Worker -> Labels] /\ loc' \in [Worker -> Loc]
    BY <1>5, <2>1, GotoType DEF ChallengePost, Labels, ChallengeLabels
  <2> QED BY <1>5, <2>1, <2>2 DEF ChallengePost
<1>6. ASSUME NEW w \in Worker,
             Crash(w)
      PROVE  RowsTypeOK'
  <2>1. crashes' \in 0..MaxCrashes /\ UNCHANGED <<orders, authz, chall, certs>>
    BY <1>6, WorkersAssumption DEF Crash
  <2>2. pc' \in [Worker -> Labels] /\ loc' \in [Worker -> Loc]
    BY <1>6, <2>1, DoneType DEF Crash
  <2> QED BY <1>6, <2>1, <2>2 DEF Crash
<1>7. ASSUME NEW w \in Worker, Save(w)
      PROVE  RowsTypeOK'
  <2>1. pc' \in [Worker -> Labels] /\ loc' \in [Worker -> Loc]
    BY <1>7, DoneType DEF Save
  <2> QED BY <1>7, <2>1, SaveFrame, SaveType
<1>8. ASSUME NEW w \in Worker,
             AddAuthz(w)
      PROVE  RowsTypeOK'
  <2>1. authz' \in [Authzs -> AuthzRow]
    BY <1>8, AuthzAddType DEF AddAuthz
  <2>2. \A i : [loc[w] EXCEPT !.adding = @ \ {i}] \in Loc
    BY DEF Loc
  <2>3. pc' \in [Worker -> Labels] /\ loc' \in [Worker -> Loc]
    BY <1>8, <2>1, <2>2, GotoType DEF AddAuthz, Labels, NewOrderLabels
  <2> QED BY <1>8, <2>1, <2>2, <2>3 DEF AddAuthz
<1>9. ASSUME NEW w \in Worker,
             AnnounceOrder(w)
      PROVE  RowsTypeOK'
  <2>1. announced' \subseteq Orders
    BY <1>9 DEF AnnounceOrder, Requested, NewOrderLabels
  <2>2. pc' \in [Worker -> Labels] /\ loc' \in [Worker -> Loc]
    BY <1>9, <2>1, DoneType DEF AnnounceOrder
  <2> QED BY <1>9, <2>1, <2>2 DEF AnnounceOrder
<1>10. ASSUME NEW w \in Worker,
             InvalidateOrder(w)
      PROVE  RowsTypeOK'
  <2>1. orders' \in [Orders -> OrderRow]
    BY <1>10, OrderUpdateType DEF InvalidateOrder, OrderStatus
  <2>2. \A o : [loc[w] EXCEPT !.dueOrders = @ \ {o}] \in Loc
    BY DEF Loc
  <2>3. pc' \in [Worker -> Labels] /\ loc' \in [Worker -> Loc]
    BY <1>10, <2>1, <2>2, GotoType DEF InvalidateOrder, Labels, OrderLabels
  <2> QED BY <1>10, <2>1, <2>2, <2>3 DEF InvalidateOrder
<1>11. ASSUME NEW w \in Worker,
             OrderPostChecked(w)
      PROVE  RowsTypeOK'
  <2>1. pc' \in [Worker -> Labels] /\ loc' \in [Worker -> Loc]
    BY <1>11, GotoType, DoneType DEF OrderPostChecked, Labels, OrderLabels
  <2> QED BY <1>11, <2>1 DEF OrderPostChecked
<1>12. ASSUME NEW w \in Worker,
             LookupOrder(w)
      PROVE  RowsTypeOK'
  <2>1. pc[w] = "lookupOrder" => loc[w].order \in Orders
    BY DEF Requested, OrderLabels
  <2>2. \A o \in Orders : [loc[w] EXCEPT !.seen = orders[o].status] \in Loc
    BY LocType DEF OrderRow
  <2>3. pc' \in [Worker -> Labels] /\ loc' \in [Worker -> Loc]
    BY <1>12, <2>1, <2>2, GotoType, DoneType DEF LookupOrder, Labels, OrderLabels
  <2> QED BY <1>12, <2>1, <2>2, <2>3 DEF LookupOrder
<1>13. ASSUME NEW w \in Worker,
             LookupAuthzs(w)
      PROVE  RowsTypeOK'
  <2>1. AfterLookup(w) \in Labels
    BY DEF AfterLookup, Labels, OrderLabels
  <2>2. pc' \in [Worker -> Labels] /\ loc' \in [Worker -> Loc]
    BY <1>13, <2>1, GotoType DEF LookupAuthzs, Labels, OrderLabels
  <2> QED BY <1>13, <2>1, <2>2 DEF LookupAuthzs
<1>14. ASSUME NEW w \in Worker,
             SetReady(w)
      PROVE  RowsTypeOK'
  <2>1. orders' \in [Orders -> OrderRow]
    BY <1>14, OrderUpdateType DEF SetReady, OrderStatus
  <2>2. AfterLookup(w) \in Labels
    BY DEF AfterLookup, Labels, OrderLabels
  <2>3. pc' \in [Worker -> Labels] /\ loc' \in [Worker -> Loc]
    BY <1>14, <2>1, <2>2, GotoType DEF SetReady
  <2> QED BY <1>14, <2>1, <2>2, <2>3 DEF SetReady
<1>15. ASSUME NEW w \in Worker,
             ProcessPoll(w)
      PROVE  RowsTypeOK'
  <2>1. \A cert \in certificates_of(loc[w].order) \cup {None} :
            [loc[w] EXCEPT !.cert = cert, !.second = TRUE] \in Loc
    BY LocType DEF certificates_of
  <2>2. pc' \in [Worker -> Labels] /\ loc' \in [Worker -> Loc]
    BY <1>15, <2>1, GotoType DEF ProcessPoll, Labels, OrderLabels
  <2> QED BY <1>15, <2>1, <2>2 DEF ProcessPoll
<1>16. ASSUME NEW w \in Worker,
             ProcessFinalize(w)
      PROVE  RowsTypeOK'
  <2>1. pc' \in [Worker -> Labels] /\ loc' \in [Worker -> Loc]
    BY <1>16, GotoType, DoneType DEF ProcessFinalize, Labels, OrderLabels
  <2> QED BY <1>16, <2>1 DEF ProcessFinalize
<1>17. ASSUME NEW w \in Worker,
             SetProcessing(w)
      PROVE  RowsTypeOK'
  <2>1. orders' \in [Orders -> OrderRow]
    BY <1>17, OrderUpdateType DEF SetProcessing, OrderStatus
  <2>2. pc' \in [Worker -> Labels] /\ loc' \in [Worker -> Loc]
    BY <1>17, <2>1, GotoType, DoneType DEF SetProcessing, Labels, OrderLabels
  <2> QED BY <1>17, <2>1, <2>2 DEF SetProcessing
<1>18. ASSUME NEW w \in Worker, NEW names \in CSRs,
             StoreCsr(w, names)
      PROVE  RowsTypeOK'
  <2>1. [status |-> "csr", names |-> names] \in CertRow
    BY OrderHandlerAssumption DEF CertRow, CertStatus
  <2>2. certs' \in [Certs -> CertRow]
    BY <1>18, <2>1 DEF StoreCsr
  <2>3. \A c \in Certs : [loc[w] EXCEPT !.cert = c] \in Loc
    BY LocType
  <2>4. pc' \in [Worker -> Labels] /\ loc' \in [Worker -> Loc]
    BY <1>18, <2>1, <2>2, <2>3, GotoType, DoneType DEF StoreCsr, Labels, OrderLabels
  <2> QED BY <1>18, <2>1, <2>2, <2>3, <2>4 DEF StoreCsr
<1>19. ASSUME NEW w \in Worker,
             Enroll(w)
      PROVE  RowsTypeOK'
  <2>1. pc' \in [Worker -> Labels] /\ loc' \in [Worker -> Loc]
    BY <1>19, GotoType DEF Enroll, Labels, OrderLabels
  <2> QED BY <1>19, <2>1 DEF Enroll
<1>20. ASSUME NEW w \in Worker,
             StoreCert(w)
      PROVE  RowsTypeOK'
  <2>1. certs' \in [Certs -> CertRow]
    BY <1>20, CertUpdateType DEF StoreCert, CertStatus
  <2>2. pc' \in [Worker -> Labels] /\ loc' \in [Worker -> Loc]
    BY <1>20, <2>1, GotoType DEF StoreCert, Labels, OrderLabels
  <2> QED BY <1>20, <2>1, <2>2 DEF StoreCert
<1>21. ASSUME NEW w \in Worker,
             StoreCertError(w)
      PROVE  RowsTypeOK'
  <2>1. certs' \in [Certs -> CertRow]
    BY <1>21, CertUpdateType DEF StoreCertError, CertStatus
  <2>2. [loc[w] EXCEPT !.second = TRUE] \in Loc
    BY LocType
  <2>3. pc' \in [Worker -> Labels] /\ loc' \in [Worker -> Loc]
    BY <1>21, <2>1, <2>2, GotoType, DoneType DEF StoreCertError, Labels, OrderLabels
  <2> QED BY <1>21, <2>1, <2>2, <2>3 DEF StoreCertError
<1>22. ASSUME NEW w \in Worker,
             SetValid(w)
      PROVE  RowsTypeOK'
  <2>1. orders' \in [Orders -> OrderRow]
    BY <1>22, OrderUpdateType DEF SetValid, OrderStatus
  <2>2. [loc[w] EXCEPT !.second = TRUE] \in Loc
    BY LocType
  <2>3. pc' \in [Worker -> Labels] /\ loc' \in [Worker -> Loc]
    BY <1>22, <2>1, <2>2, GotoType DEF SetValid, Labels, OrderLabels
  <2> QED BY <1>22, <2>1, <2>2, <2>3 DEF SetValid
<1>23. ASSUME NEW w \in Worker,
             Respond(w)
      PROVE  RowsTypeOK'
  <2>1. pc' \in [Worker -> Labels] /\ loc' \in [Worker -> Loc]
    BY <1>23, DoneType DEF Respond
  <2> QED BY <1>23, <2>1 DEF Respond
<1>24. ASSUME NEW w \in Worker,
             InvalidateAuthz(w)
      PROVE  RowsTypeOK'
  <2>1. authz' \in [Authzs -> AuthzRow]
    BY <1>24, AuthzUpdateType DEF InvalidateAuthz, AuthzStatus
  <2>2. \A a : [loc[w] EXCEPT !.dueAuthzs = @ \ {a}] \in Loc
    BY DEF Loc
  <2>3. pc' \in [Worker -> Labels] /\ loc' \in [Worker -> Loc]
    BY <1>24, <2>1, <2>2, GotoType DEF InvalidateAuthz, Labels, AuthzLabels
  <2> QED BY <1>24, <2>1, <2>2, <2>3 DEF InvalidateAuthz
<1>25. ASSUME NEW w \in Worker,
             AuthzPostChecked(w)
      PROVE  RowsTypeOK'
  <2>1. pc' \in [Worker -> Labels] /\ loc' \in [Worker -> Loc]
    BY <1>25, GotoType, DoneType DEF AuthzPostChecked, Labels, AuthzLabels
  <2> QED BY <1>25, <2>1 DEF AuthzPostChecked
<1>26. ASSUME NEW w \in Worker,
             LookupAuthz(w)
      PROVE  RowsTypeOK'
  <2>1. pc' \in [Worker -> Labels] /\ loc' \in [Worker -> Loc]
    BY <1>26, GotoType, DoneType DEF LookupAuthz, Labels, AuthzLabels
  <2> QED BY <1>26, <2>1 DEF LookupAuthz
<1>27. ASSUME NEW w \in Worker,
             RefreshAuthz(w)
      PROVE  RowsTypeOK'
  <2>1. authz' \in [Authzs -> AuthzRow]
    BY <1>27, AuthzRefreshType DEF RefreshAuthz
  <2>2. pc' \in [Worker -> Labels] /\ loc' \in [Worker -> Loc]
    BY <1>27, <2>1, GotoType DEF RefreshAuthz, Labels, AuthzLabels
  <2> QED BY <1>27, <2>1, <2>2 DEF RefreshAuthz
<1>28. ASSUME NEW w \in Worker,
             ReadAuthzStatus(w)
      PROVE  RowsTypeOK'
  <2>1. pc[w] = "readStatus" => loc[w].az \in Authzs
    BY DEF Requested, AuthzLabels
  <2>2. \A a \in Authzs : [loc[w] EXCEPT !.seen = authz[a].status] \in Loc
    BY LocType DEF AuthzRow
  <2>3. pc' \in [Worker -> Labels] /\ loc' \in [Worker -> Loc]
    BY <1>28, <2>1, <2>2, GotoType, DoneType DEF ReadAuthzStatus, Labels, AuthzLabels
  <2> QED BY <1>28, <2>1, <2>2, <2>3 DEF ReadAuthzStatus
<1>29. ASSUME NEW w \in Worker,
             SearchChallenges(w)
      PROVE  RowsTypeOK'
  <2> DEFINE found == challenges_search(loc[w].az)
             types == {c[3] : c \in found}
  <2>1. [loc[w] EXCEPT !.types = challenge_types(loc[w].az)] \in Loc
    BY LocType, TypesOfASet
  <2>2. CASE Goto(w, "newChallenge",
                  [loc[w] EXCEPT !.types = challenge_types(loc[w].az)])
    BY <1>29, <2>1, <2>2, GotoType DEF SearchChallenges, Labels, AuthzLabels
  <2>3. ASSUME NEW last \in [types -> found],
               Goto(w, "check", [loc[w] EXCEPT !.challs = {last[t] : t \in types}])
        PROVE  RowsTypeOK'
    <3>1. {last[t] : t \in types} \in SUBSET Challenges
      BY DEF challenges_search
    <3> HIDE DEF types
    <3>2. [loc[w] EXCEPT !.challs = {last[t] : t \in types}] \in Loc
      BY <3>1, LocType
    <3>3. pc' \in [Worker -> Labels] /\ loc' \in [Worker -> Loc]
      BY <2>3, <3>2, GotoType DEF Labels, ChallengeLabels
    <3> QED BY <1>29, <3>3 DEF SearchChallenges
  <2>4. CASE Done(w)
    BY <1>29, <2>4, DoneType DEF SearchChallenges
  <2> QED BY <1>29, <2>2, <2>3, <2>4 DEF SearchChallenges
<1>30. ASSUME NEW w \in Worker,
             NewChallenge(w)
      PROVE  RowsTypeOK'
  <2>1. chall' \in [Challenges -> ChallengeRow]
    BY <1>30, ChallengeAddType DEF NewChallenge
  <2>2. \A t : [loc[w] EXCEPT !.types = @ \ {t}] \in Loc
    BY DEF Loc
  <2>3. pc' \in [Worker -> Labels] /\ loc' \in [Worker -> Loc]
    BY <1>30, <2>1, <2>2, GotoType, DoneType DEF NewChallenge, Labels, AuthzLabels
  <2> QED BY <1>30, <2>1, <2>2, <2>3 DEF NewChallenge
<1>31. ASSUME NEW w \in Worker, NEW c \in Challenges, NEW outcome \in {"ok", "fail", "invalid"},
             CheckChallenge(w, c, outcome)
      PROVE  RowsTypeOK'
  <2>1. passed' \subseteq Challenges
    BY <1>31 DEF CheckChallenge
  <2>2. /\ [loc[w] EXCEPT !.challs = loc[w].challs \ {c}, !.ch = c] \in Loc
         /\ [loc[w] EXCEPT !.challs = loc[w].challs \ {c}] \in Loc
    <3>1. loc[w].challs \ {c} \in SUBSET Challenges
      BY DEF Loc
    <3> QED BY <3>1, LocType
  <2>3. pc' \in [Worker -> Labels] /\ loc' \in [Worker -> Loc]
    BY <1>31, <2>1, <2>2, GotoType DEF CheckChallenge, Labels, ChallengeLabels
  <2> QED BY <1>31, <2>1, <2>2, <2>3 DEF CheckChallenge
<1>32. ASSUME NEW w \in Worker,
             ChallengesChecked(w)
      PROVE  RowsTypeOK'
  <2>1. pc' \in [Worker -> Labels] /\ loc' \in [Worker -> Loc]
    BY <1>32, DoneType DEF ChallengesChecked
  <2>2. UNCHANGED <<orders, authz, chall, certs, announced, passed, crashes>>
    BY <1>32 DEF ChallengesChecked, challenge_keyauthorization
  <2> QED BY <2>1, <2>2
<1>33. ASSUME NEW w \in Worker,
             UpdateChallenge(w)
      PROVE  RowsTypeOK'
  <2>1. chall' \in [Challenges -> ChallengeRow]
    BY <1>33, ChallengeUpdateType DEF UpdateChallenge, ChallengeStatus
  <2>2. pc' \in [Worker -> Labels] /\ loc' \in [Worker -> Loc]
    BY <1>33, <2>1, GotoType DEF UpdateChallenge, Labels, ChallengeLabels
  <2> QED BY <1>33, <2>1, <2>2 DEF UpdateChallenge
<1>34. ASSUME NEW w \in Worker,
             UpdateAuthz(w)
      PROVE  RowsTypeOK'
  <2>1. authz' \in [Authzs -> AuthzRow]
    BY <1>34, AuthzUpdateType DEF UpdateAuthz, AuthzStatus
  <2>2. pc' \in [Worker -> Labels] /\ loc' \in [Worker -> Loc]
    BY <1>34, <2>1, GotoType DEF UpdateAuthz, Labels, ChallengeLabels
  <2> QED BY <1>34, <2>1, <2>2 DEF UpdateAuthz
<1>35. ASSUME NEW o \in Orders,
             OrderFallsDue(o)
      PROVE  RowsTypeOK'
  <2>1. orders' \in [Orders -> OrderRow]
    BY <1>35 DEF OrderFallsDue, OrderRow
  <2> QED BY <1>35, <2>1 DEF OrderFallsDue
<1>36. ASSUME NEW a \in Authzs,
             AuthzFallsDue(a)
      PROVE  RowsTypeOK'
  <2>1. authz' \in [Authzs -> AuthzRow]
    BY <1>36 DEF AuthzFallsDue, AuthzRow
  <2> QED BY <1>36, <2>1 DEF AuthzFallsDue
<1>37. CASE UNCHANGED vars
  BY <1>37 DEF vars
<1> QED BY <1>1, <1>2, <1>3, <1>4, <1>5, <1>6, <1>7, <1>8, <1>9, <1>10,
    <1>11, <1>12, <1>13, <1>14, <1>15, <1>16, <1>17, <1>18, <1>19, <1>20,
    <1>21, <1>22, <1>23, <1>24, <1>25, <1>26, <1>27, <1>28, <1>29, <1>30,
    <1>31, <1>32, <1>33, <1>34, <1>35, <1>36, <1>37
  DEF Next, Request, Step, OrderStep, AuthorizationStep, Clock

\* What a worker holds is what it held before, or nothing, or what it has just
\* written.
HeldKept ==
    /\ held' \in [Worker -> Held \cup {Nothing}]
    /\ \A w \in Worker : held'[w] \in {held[w], Nothing} \/ Written(w)'

\* The calls that write an order ...
LEMMA OrderWritten ==
  ASSUME TypeOK, NEW w \in Worker, NEW o \in Orders, NEW st \in OrderStatus,
         order_update(w, o, st) \/ \E ids : order_add(w, o, st, ids)
  PROVE  HeldKept
<1>1. CASE Hold(w, "orders", o, st) /\ orders'[o].status = st
  <2>1. [table |-> "orders", row |-> o, status |-> st] \in Held
    BY DEF Held
  <2>2. held'[w] = [table |-> "orders", row |-> o, status |-> st]
    BY <1>1 DEF Hold, TypeOK, DBTypeOK
  <2>3. Written(w)'
    BY <1>1, <2>2 DEF Written
  <2> QED BY <1>1, <2>1, <2>3 DEF Hold, HeldKept, TypeOK, DBTypeOK
<1>2. CASE UNCHANGED held
  BY <1>2 DEF HeldKept, TypeOK, DBTypeOK
<1> QED BY <1>1, <1>2 DEF order_update, order_add, TypeOK, DBTypeOK, OrderRow

\* ... an authorization ...
LEMMA AuthzWritten ==
  ASSUME TypeOK, NEW w \in Worker, NEW a \in Authzs, NEW st \in AuthzStatus,
         \/ authorization_update(w, a, st)
         \/ authorization_add(w, a)
         \/ authorization_refresh(w, a) /\ authz[a].status = st
  PROVE  HeldKept
<1>1. ASSUME NEW t \in AuthzStatus, Hold(w, "authz", a, t), authz'[a].status = t
      PROVE  HeldKept
  <2>1. [table |-> "authz", row |-> a, status |-> t] \in Held
    BY DEF Held
  <2>2. held'[w] = [table |-> "authz", row |-> a, status |-> t]
    BY <1>1 DEF Hold, TypeOK, DBTypeOK
  <2>3. Written(w)'
    BY <1>1, <2>2 DEF Written
  <2> QED BY <1>1, <2>1, <2>3 DEF Hold, HeldKept, TypeOK, DBTypeOK
<1>2. CASE UNCHANGED held
  BY <1>2 DEF HeldKept, TypeOK, DBTypeOK
<1> QED BY <1>1, <1>2 DEF authorization_update, authorization_add,
       authorization_refresh, TypeOK, DBTypeOK, AuthzRow, AuthzStatus

\* ... and a challenge.
LEMMA ChallengeWritten ==
  ASSUME TypeOK, NEW w \in Worker,
         \/ \E c \in Challenges, st \in ChallengeStatus : challenge_update(w, c, st)
         \/ \E c \in Challenges : challenge_keyauthorization(w, c)
         \/ \E a, t : challenge_add(w, a, t)
  PROVE  HeldKept
<1>1. ASSUME NEW c \in Challenges, NEW st \in ChallengeRow, Hold(w, "chall", c, st)
      PROVE  HeldKept
  <2>1. [table |-> "chall", row |-> c, status |-> st] \in Held
    BY DEF Held
  <2>2. held'[w] = [table |-> "chall", row |-> c, status |-> st]
    BY <1>1 DEF Hold, TypeOK, DBTypeOK
  <2>3. Written(w)'
    BY <2>2 DEF Written
  <2> QED BY <1>1, <2>1, <2>3 DEF Hold, HeldKept, TypeOK, DBTypeOK
<1>2. CASE UNCHANGED held
  BY <1>2 DEF HeldKept, TypeOK, DBTypeOK
<1> QED BY <1>1, <1>2 DEF challenge_update, challenge_keyauthorization, challenge_add,
       ChallengeRow, ChallengeStatus, TypeOK, DBTypeOK

\* Every step keeps the type of what is held.
LEMMA HeldStep ==
  ASSUME TypeOK, Requested, RefreshingRow, [Next]_vars
  PROVE  HeldKept
<1>1. ASSUME UNCHANGED held PROVE HeldKept
  BY <1>1 DEF HeldKept, TypeOK, DBTypeOK
<1>2. ASSUME NEW w \in Worker, held' = [held EXCEPT ![w] = Nothing] PROVE HeldKept
  BY <1>2 DEF HeldKept, TypeOK, DBTypeOK
<1>3. ASSUME NEW w \in Worker, Request(w) PROVE HeldKept
  <2>1. ASSUME NEW o \in Orders, NEW ids \in IdentifierSets, NewOrder(w, o, ids)
        PROVE  HeldKept
    BY <1>1, <2>1, OrderWritten DEF NewOrder, OrderStatus
  <2> QED BY <1>1, <1>3, <2>1 DEF Request, OrderPost, AuthzPost, AuthzGet,
             ChallengePost, dbvars
<1>4. ASSUME NEW w \in Worker, AuthorizationStep(w) PROVE HeldKept
  <2>1. CASE InvalidateAuthz(w)
    <3>1. loc[w].dueAuthzs \subseteq Authzs
      BY DEF TypeOK, WorkersTypeOK, Loc
    <3> QED BY <2>1, <3>1, AuthzWritten DEF InvalidateAuthz, AuthzStatus
  <2>2. CASE RefreshAuthz(w)
    <3>1. loc[w].az \in Authzs /\ authz[loc[w].az].status \in AuthzStatus
      BY <2>2 DEF RefreshAuthz, RefreshingRow, Requested, AuthzLabels, TypeOK,
         DBTypeOK, AuthzRow
    <3> QED BY <2>2, <3>1, AuthzWritten DEF RefreshAuthz
  <2>3. CASE NewChallenge(w)
    BY <2>3, ChallengeWritten DEF NewChallenge
  <2>4. CASE ChallengesChecked(w)
    <3>1. loc[w].ch \in Challenges \cup {None}
      BY DEF TypeOK, WorkersTypeOK, Loc
    <3> QED BY <1>1, <2>4, <3>1, ChallengeWritten DEF ChallengesChecked
  <2>5. CASE UpdateChallenge(w)
    <3>1. loc[w].ch \in Challenges
      BY <2>5 DEF UpdateChallenge, Requested
    <3> QED BY <2>5, <3>1, ChallengeWritten DEF UpdateChallenge, ChallengeStatus
  <2>6. CASE UpdateAuthz(w)
    <3>1. AuthzOf(loc[w].ch) \in Authzs
      BY <2>6 DEF UpdateAuthz, Requested, AuthzOf, Authzs, Challenges
    <3> QED BY <2>6, <3>1, AuthzWritten DEF UpdateAuthz, AuthzStatus
  <2>7. \/ InvalidateAuthz(w) \/ RefreshAuthz(w) \/ NewChallenge(w)
        \/ ChallengesChecked(w) \/ UpdateChallenge(w) \/ UpdateAuthz(w)
        \/ UNCHANGED held
    BY <1>4 DEF AuthorizationStep, AuthzPostChecked, LookupAuthz, ReadAuthzStatus,
       SearchChallenges, CheckChallenge, dbvars
  <2> QED BY <1>1, <2>1, <2>2, <2>3, <2>4, <2>5, <2>6, <2>7
<1>5. ASSUME NEW w \in Worker, OrderStep(w) PROVE HeldKept
  <2>1. CASE AddAuthz(w)
    <3>1. loc[w].order \in Orders /\ loc[w].adding \subseteq Identifiers
      BY <2>1 DEF AddAuthz, Requested, NewOrderLabels, TypeOK, WorkersTypeOK, Loc
    <3>2. \A i \in loc[w].adding : <<loc[w].order, i>> \in Authzs
      BY <3>1 DEF Authzs
    <3> QED BY <2>1, <3>2, AuthzWritten DEF AddAuthz, AuthzStatus
  <2>2. CASE InvalidateOrder(w)
    <3>1. loc[w].dueOrders \subseteq Orders
      BY DEF TypeOK, WorkersTypeOK, Loc
    <3> QED BY <2>2, <3>1, OrderWritten DEF InvalidateOrder, OrderStatus
  <2>3. CASE SetReady(w) \/ SetProcessing(w) \/ SetValid(w)
    <3>1. loc[w].order \in Orders
      BY <2>3 DEF SetReady, SetProcessing, SetValid, Requested, OrderLabels
    <3> QED BY <2>3, <3>1, OrderWritten DEF SetReady, SetProcessing, SetValid,
               OrderStatus
  <2>4. \/ AddAuthz(w) \/ InvalidateOrder(w)
        \/ SetReady(w) \/ SetProcessing(w) \/ SetValid(w)
        \/ UNCHANGED held
    BY <1>5 DEF OrderStep, AnnounceOrder, OrderPostChecked, LookupOrder,
       LookupAuthzs, ProcessPoll, ProcessFinalize, StoreCsr, Enroll, StoreCert,
       StoreCertError, Respond, certificate_update, dbvars
  <2> QED BY <1>1, <2>1, <2>2, <2>3, <2>4
<1>6. ASSUME NEW w \in Worker, Save(w) \/ Crash(w) PROVE HeldKept
  BY <1>2, <1>6 DEF Save, save, Crash
<1>7. CASE Clock
  BY <1>1, <1>7 DEF Clock, OrderFallsDue, AuthzFallsDue
<1>8. CASE UNCHANGED vars
  BY <1>1, <1>8 DEF vars
<1> QED BY <1>3, <1>4, <1>5, <1>6, <1>7, <1>8 DEF Next, Step

\* Every step keeps every variable's type.
LEMMA StepType ==
  ASSUME TypeOK, Requested, RefreshingRow, [Next]_vars
  PROVE  TypeOK'
  BY RowsStepType, HeldStep DEF TypeOK, DBTypeOK, RowsTypeOK, HeldKept

\* A request keeps the order, the authorization or the challenge it is about.
LEMMA RequestedStep ==
  ASSUME TypeOK, Requested, [Next]_vars
  PROVE  Requested'
<1> USE DEF TypeOK, WorkersTypeOK, Loc, Requested, Goto, Done, Idle, NewOrderLabels, OrderLabels,
     AuthzLabels, AfterLookup
<1>1. ASSUME NEW w \in Worker, NEW o \in Orders, NEW ids \in IdentifierSets, NewOrder(w, o, ids)
      PROVE  Requested'
  <2>1. CASE Goto(w, "addAuthz", [Idle EXCEPT !.order = o, !.adding = ids])
    BY <2>1
  <2>2. CASE UNCHANGED <<pc, loc>>
    BY <2>2
  <2> QED BY <1>1, <2>1, <2>2 DEF NewOrder
<1>2. ASSUME NEW w \in Worker, NEW o \in Orders, OrderPost(w, o)
      PROVE  Requested'
  BY <1>2 DEF OrderPost
<1>3. ASSUME NEW w \in Worker, NEW a \in Authzs, AuthzPost(w, a)
      PROVE  Requested'
  BY <1>3 DEF AuthzPost
<1>4. ASSUME NEW w \in Worker, NEW a \in Authzs, AuthzGet(w, a)
      PROVE  Requested'
  BY <1>4 DEF AuthzGet
<1>5. ASSUME NEW w \in Worker, NEW c \in Challenges, ChallengePost(w, c)
      PROVE  Requested'
  BY <1>5 DEF ChallengePost
<1>6. ASSUME NEW w \in Worker, InvalidateAuthz(w)
      PROVE  Requested'
  BY <1>6 DEF InvalidateAuthz
<1>7. ASSUME NEW w \in Worker, AuthzPostChecked(w)
      PROVE  Requested'
  BY <1>7 DEF AuthzPostChecked
<1>8. ASSUME NEW w \in Worker, LookupAuthz(w)
      PROVE  Requested'
  BY <1>8 DEF LookupAuthz
<1>9. ASSUME NEW w \in Worker, RefreshAuthz(w)
      PROVE  Requested'
  BY <1>9 DEF RefreshAuthz
<1>10. ASSUME NEW w \in Worker, ReadAuthzStatus(w)
      PROVE  Requested'
  BY <1>10 DEF ReadAuthzStatus
<1>11. ASSUME NEW w \in Worker, SearchChallenges(w)
      PROVE  Requested'
  <2>1. /\ pc[w] = "searchChallenges"
        /\ Moves(w, {"newChallenge", "check", "idle"})
        /\ pc'[w] = "newChallenge" => loc'[w].az = loc[w].az
    BY <1>11 DEF SearchChallenges, Moves
  <2> QED BY <2>1 DEF Moves
<1>12. ASSUME NEW w \in Worker, NewChallenge(w)
      PROVE  Requested'
  BY <1>12 DEF NewChallenge
<1>13. ASSUME NEW w \in Worker, NEW c \in Challenges,
             NEW outcome \in {"ok", "fail", "invalid"},
             CheckChallenge(w, c, outcome)
      PROVE  Requested'
  <2>1. /\ Moves(w, {"challValid", "challInvalid", "check"})
        /\ pc'[w] # "check" => loc'[w].ch = c
    BY <1>13 DEF CheckChallenge, Moves
  <2> QED BY <2>1 DEF Moves
<1>14. ASSUME NEW w \in Worker, ChallengesChecked(w)
      PROVE  Requested'
  BY <1>14 DEF ChallengesChecked
<1>15. ASSUME NEW w \in Worker, UpdateChallenge(w)
      PROVE  Requested'
  BY <1>15 DEF UpdateChallenge
<1>16. ASSUME NEW w \in Worker, UpdateAuthz(w)
      PROVE  Requested'
  BY <1>16 DEF UpdateAuthz
<1>17. ASSUME NEW w \in Worker, AddAuthz(w)
      PROVE  Requested'
  BY <1>17 DEF AddAuthz
<1>18. ASSUME NEW w \in Worker, AnnounceOrder(w)
      PROVE  Requested'
  BY <1>18 DEF AnnounceOrder
<1>19. ASSUME NEW w \in Worker, InvalidateOrder(w)
      PROVE  Requested'
  BY <1>19 DEF InvalidateOrder
<1>20. ASSUME NEW w \in Worker, OrderPostChecked(w)
      PROVE  Requested'
  BY <1>20 DEF OrderPostChecked
<1>21. ASSUME NEW w \in Worker, LookupOrder(w)
      PROVE  Requested'
  BY <1>21 DEF LookupOrder
<1>22. ASSUME NEW w \in Worker, LookupAuthzs(w)
      PROVE  Requested'
  BY <1>22 DEF LookupAuthzs
<1>23. ASSUME NEW w \in Worker, SetReady(w)
      PROVE  Requested'
  BY <1>23 DEF SetReady
<1>24. ASSUME NEW w \in Worker, ProcessPoll(w)
      PROVE  Requested'
  BY <1>24 DEF ProcessPoll
<1>25. ASSUME NEW w \in Worker, ProcessFinalize(w)
      PROVE  Requested'
  BY <1>25 DEF ProcessFinalize
<1>26. ASSUME NEW w \in Worker, SetProcessing(w)
      PROVE  Requested'
  BY <1>26 DEF SetProcessing
<1>27. ASSUME NEW w \in Worker, NEW names \in CSRs, StoreCsr(w, names)
      PROVE  Requested'
  BY <1>27 DEF StoreCsr
<1>28. ASSUME NEW w \in Worker, Enroll(w)
      PROVE  Requested'
  BY <1>28 DEF Enroll
<1>29. ASSUME NEW w \in Worker, StoreCert(w)
      PROVE  Requested'
  BY <1>29 DEF StoreCert
<1>30. ASSUME NEW w \in Worker, StoreCertError(w)
      PROVE  Requested'
  BY <1>30 DEF StoreCertError
<1>31. ASSUME NEW w \in Worker, SetValid(w)
      PROVE  Requested'
  BY <1>31 DEF SetValid
<1>32. ASSUME NEW w \in Worker, Respond(w)
      PROVE  Requested'
  BY <1>32 DEF Respond
<1>33. ASSUME NEW w \in Worker, Crash(w)
      PROVE  Requested'
  BY <1>33 DEF Crash
<1>34. ASSUME NEW w \in Worker, Save(w)
      PROVE  Requested'
  BY <1>34, SaveFrame DEF Moves
<1>35. CASE Clock
  BY <1>35 DEF Clock, OrderFallsDue, AuthzFallsDue
<1>36. CASE UNCHANGED vars
  BY <1>36 DEF vars
<1> QED BY <1>1, <1>2, <1>3, <1>4, <1>5, <1>6, <1>7, <1>8, <1>9, <1>10,
    <1>11, <1>12, <1>13, <1>14, <1>15, <1>16, <1>17, <1>18, <1>19, <1>20,
    <1>21, <1>22, <1>23, <1>24, <1>25, <1>26, <1>27, <1>28, <1>29, <1>30,
    <1>31, <1>32, <1>33, <1>34, <1>35, <1>36
  DEF Next, Step, Request, AuthorizationStep, OrderStep

\* What only grows: history variables, and which rows exist with what.
Keeps ==
    /\ passed \subseteq passed'
    /\ announced \subseteq announced'
    /\ \A o \in Orders : orders[o].status # None =>
           /\ orders'[o].status # None
           /\ orders'[o].identifiers = orders[o].identifiers
    /\ \A a \in Authzs : authz[a].status # None => authz'[a].status # None

Grows ==
    /\ Keeps
    /\ \A c \in Certs : certs[c].status # None =>
           /\ certs'[c].status # None
           /\ certs'[c].names = certs[c].names
    /\ \A c \in Certs : certs[c].status = "issued" => certs'[c].status = "issued"

\* order_update neither removes a row nor changes its identifiers.
LEMMA OrderUpdateGrows ==
  ASSUME NEW w, orders \in [Orders -> OrderRow], NEW p, NEW st \in OrderStatus,
         order_update(w, p, st)
  PROVE  \A o \in Orders : orders[o].status # None =>
           /\ orders'[o].status # None
           /\ orders'[o].identifiers = orders[o].identifiers
  BY DBstoreAssumption DEF order_update, OrderRow

\* authorization_update never removes a row.
LEMMA AuthzUpdateGrows ==
  ASSUME NEW w, authz \in [Authzs -> AuthzRow], NEW b, NEW st \in AuthzStatus,
         authorization_update(w, b, st)
  PROVE  \A a \in Authzs : authz[a].status # None => authz'[a].status # None
  BY DBstoreAssumption DEF authorization_update, AuthzRow

\* authorization_add never removes a row.
LEMMA AuthzAddGrows ==
  ASSUME NEW w, authz \in [Authzs -> AuthzRow], NEW b, authorization_add(w, b)
  PROVE  \A a \in Authzs : authz[a].status # None => authz'[a].status # None
  BY DBstoreAssumption DEF authorization_add, AuthzRow, AuthzStatus

\* certificate_add on an existing row neither removes a row nor changes a CSR.
LEMMA CertUpdateGrows ==
  ASSUME certs \in [Certs -> CertRow], NEW d, NEW st \in CertStatus,
         certificate_update(d, st)
  PROVE  \A c \in Certs : certs[c].status # None =>
           /\ certs'[c].status # None
           /\ certs'[c].names = certs[c].names
  BY DBstoreAssumption DEF certificate_update, CertRow

\* No step removes an authorization.
LEMMA AuthzStays ==
  ASSUME TypeOK, [Next]_vars
  PROVE  \A a \in Authzs : authz[a].status # None => authz'[a].status # None
<1> USE DEF TypeOK, DBTypeOK
<1> DEFINE Stay == \A a \in Authzs : authz[a].status # None => authz'[a].status # None
<1>1. ASSUME NEW w \in Worker, AuthorizationStep(w)
      PROVE  Stay
  <2>1. CASE InvalidateAuthz(w)
    BY <2>1, AuthzUpdateGrows DEF InvalidateAuthz, AuthzStatus
  <2>2. CASE RefreshAuthz(w)
    BY <2>2 DEF RefreshAuthz, authorization_refresh, AuthzRow
  <2>3. CASE UpdateAuthz(w)
    BY <2>3, AuthzUpdateGrows DEF UpdateAuthz, AuthzStatus
  <2>4. CASE UNCHANGED authz
    BY <2>4
  <2> QED BY <1>1, <2>1, <2>2, <2>3, <2>4 DEF AuthorizationStep, AuthzPostChecked,
             LookupAuthz, ReadAuthzStatus, SearchChallenges, NewChallenge,
             CheckChallenge, ChallengesChecked, UpdateChallenge, dbvars
<1>2. ASSUME NEW w \in Worker, OrderStep(w)
      PROVE  Stay
  <2>1. CASE AddAuthz(w)
    BY <2>1, AuthzAddGrows DEF AddAuthz
  <2>2. CASE UNCHANGED authz
    BY <2>2
  <2> QED BY <1>2, <2>1, <2>2 DEF OrderStep, AnnounceOrder, InvalidateOrder,
             OrderPostChecked, LookupOrder, LookupAuthzs, SetReady, ProcessPoll,
             ProcessFinalize, SetProcessing, StoreCsr, Enroll, StoreCert,
             StoreCertError, SetValid, Respond, dbvars
<1>3. ASSUME NEW w \in Worker, Save(w)
      PROVE  Stay
  BY <1>3, SaveRows, NoneIsNoStatus
<1>4. ASSUME NEW w \in Worker, Request(w) \/ Crash(w)
      PROVE  Stay
  BY <1>4, RequestFrame DEF WorkersTypeOK, Crash
<1>5. CASE Clock \/ UNCHANGED vars
  BY <1>5 DEF Clock, OrderFallsDue, AuthzFallsDue, AuthzRow, vars
<1> QED BY <1>1, <1>2, <1>3, <1>4, <1>5 DEF Next, Step

\* The authorization that is refreshed was looked up, and rows do not go away.
LEMMA RefreshingStep ==
  ASSUME TypeOK, Requested, RefreshingRow, [Next]_vars
  PROVE  RefreshingRow'
<1> DEFINE Stays == \A v \in Worker : pc'[v] = "refreshAuthz" =>
                        pc[v] = "refreshAuthz" /\ loc'[v].az = loc[v].az
<1>1. ASSUME Stays
      PROVE  RefreshingRow'
  BY <1>1, AuthzStays DEF RefreshingRow, Requested, AuthzLabels
<1>2. ASSUME NEW w \in Worker, NEW labels, Moves(w, labels), "refreshAuthz" \notin labels
      PROVE  Stays
  BY <1>2 DEF Moves, TypeOK, WorkersTypeOK
<1>3. ASSUME UNCHANGED <<pc, loc>>
      PROVE  Stays
  BY <1>3
<1>4. ASSUME NEW w \in Worker, Request(w)
      PROVE  Stays
  BY <1>2, <1>3, <1>4, RequestFrame DEF TypeOK, RequestLabels
<1>5. ASSUME NEW w \in Worker, OrderStep(w)
      PROVE  Stays
  BY <1>2, <1>5, OrderFrame DEF TypeOK, NewOrderLabels, OrderLabels
<1>6. ASSUME NEW w \in Worker, LookupAuthz(w)
      PROVE  RefreshingRow'
  <2>1. CASE authz[loc[w].az].status # None /\ Goto(w, "refreshAuthz", loc[w])
    <3>1. UNCHANGED authz
      BY <1>6 DEF LookupAuthz, dbvars
    <3> QED BY <2>1, <3>1 DEF Goto, RefreshingRow, TypeOK, WorkersTypeOK
  <2>2. CASE Done(w)
    <3>1. Moves(w, {"idle"})
      BY <2>2, GotoMoves DEF Done, TypeOK
    <3> QED BY <3>1, <1>1, <1>2
  <2> QED BY <1>6, <2>1, <2>2 DEF LookupAuthz
<1>7. ASSUME NEW w \in Worker, AuthorizationStep(w), ~ LookupAuthz(w)
      PROVE  Stays
  <2> DEFINE labels == {"idle", "invalidateAuthzs", "lookupAuthz", "readStatus",
                        "searchChallenges", "newChallenge"} \cup ChallengeLabels
  <2>1. Moves(w, labels)
    BY <1>7, GotoMoves DEF AuthorizationStep, InvalidateAuthz, AuthzPostChecked,
       RefreshAuthz, ReadAuthzStatus, SearchChallenges, NewChallenge, CheckChallenge,
       ChallengesChecked, UpdateChallenge, UpdateAuthz, Done, TypeOK, ChallengeLabels
  <2>2. "refreshAuthz" \notin labels
    BY DEF ChallengeLabels
  <2> QED BY <1>2, <2>1, <2>2
<1>8. ASSUME NEW w \in Worker, Save(w) \/ Crash(w)
      PROVE  Stays
  <2>1. Moves(w, {"idle"}) \/ UNCHANGED <<pc, loc>>
    BY <1>8, SaveFrame, GotoMoves DEF Crash, Done, TypeOK
  <2> QED BY <1>2, <1>3, <2>1
<1>9. CASE Clock \/ UNCHANGED vars
  <2>1. UNCHANGED <<pc, loc>>
    BY <1>9 DEF Clock, OrderFallsDue, AuthzFallsDue, vars
  <2> QED BY <1>1, <1>3, <2>1
<1> QED BY <1>1, <1>4, <1>5, <1>6, <1>7, <1>8, <1>9 DEF Next, Step

\* store_csr takes an unused row: the others, the issued ones too, stay.
LEMMA StoreCsrCerts ==
  ASSUME certs \in [Certs -> CertRow], NEW w, NEW names, StoreCsr(w, names)
  PROVE  \A c \in Certs :
            certs[c].status # None \/ certs'[c].status = "issued"
                => certs'[c] = certs[c]
<1>1. CASE UNCHANGED certs
  BY <1>1
<1>2. ASSUME NEW d \in Certs, certs[d].status = None,
             certs' = [certs EXCEPT ![d] = [status |-> "csr", names |-> names]]
      PROVE  \A c \in Certs :
                certs[c].status # None \/ certs'[c].status = "issued"
                    => certs'[c] = certs[c]
  BY <1>2
<1> QED BY <1>1, <1>2 DEF StoreCsr

\* Rows are never deleted, and what they are about never changes.
LEMMA KeepsStep ==
  ASSUME TypeOK, [Next]_vars
  PROVE  Keeps
<1> USE DEF Keeps, TypeOK, WorkersTypeOK, DBTypeOK, dbvars
<1>1. ASSUME NEW w \in Worker, NEW o \in Orders, NEW ids \in IdentifierSets, NewOrder(w, o, ids)
      PROVE  Keeps
  BY <1>1 DEF NewOrder, order_add, OrderRow
<1>2. ASSUME NEW w \in Worker, NEW o \in Orders, OrderPost(w, o)
      PROVE  Keeps
  BY <1>2 DEF OrderPost
<1>3. ASSUME NEW w \in Worker, NEW a \in Authzs, AuthzPost(w, a)
      PROVE  Keeps
  BY <1>3 DEF AuthzPost
<1>4. ASSUME NEW w \in Worker, NEW a \in Authzs, AuthzGet(w, a)
      PROVE  Keeps
  BY <1>4 DEF AuthzGet
<1>5. ASSUME NEW w \in Worker, NEW c \in Challenges, ChallengePost(w, c)
      PROVE  Keeps
  BY <1>5 DEF ChallengePost
<1>6. ASSUME NEW w \in Worker, InvalidateAuthz(w)
      PROVE  Keeps
  <2>1. \A a \in Authzs : authz[a].status # None => authz'[a].status # None
    BY <1>6, AuthzUpdateGrows DEF InvalidateAuthz, AuthzStatus
  <2> QED BY <1>6, <2>1 DEF InvalidateAuthz
<1>7. ASSUME NEW w \in Worker, AuthzPostChecked(w)
      PROVE  Keeps
  BY <1>7 DEF AuthzPostChecked
<1>8. ASSUME NEW w \in Worker, LookupAuthz(w)
      PROVE  Keeps
  BY <1>8 DEF LookupAuthz
<1>9. ASSUME NEW w \in Worker, RefreshAuthz(w)
      PROVE  Keeps
  BY <1>9 DEF RefreshAuthz, authorization_refresh, AuthzRow
<1>10. ASSUME NEW w \in Worker, ReadAuthzStatus(w)
      PROVE  Keeps
  BY <1>10 DEF ReadAuthzStatus
<1>11. ASSUME NEW w \in Worker, SearchChallenges(w)
      PROVE  Keeps
  BY <1>11 DEF SearchChallenges
<1>12. ASSUME NEW w \in Worker, NewChallenge(w)
      PROVE  Keeps
  BY <1>12 DEF NewChallenge
<1>13. ASSUME NEW w \in Worker, NEW c \in Challenges,
             NEW outcome \in {"ok", "fail", "invalid"},
             CheckChallenge(w, c, outcome)
      PROVE  Keeps
  BY <1>13 DEF CheckChallenge
<1>14. ASSUME NEW w \in Worker, ChallengesChecked(w)
      PROVE  Keeps
  BY <1>14 DEF ChallengesChecked
<1>15. ASSUME NEW w \in Worker, UpdateChallenge(w)
      PROVE  Keeps
  BY <1>15 DEF UpdateChallenge
<1>16. ASSUME NEW w \in Worker, UpdateAuthz(w)
      PROVE  Keeps
  <2>1. \A a \in Authzs : authz[a].status # None => authz'[a].status # None
    BY <1>16, AuthzUpdateGrows DEF UpdateAuthz, AuthzStatus
  <2> QED BY <1>16, <2>1 DEF UpdateAuthz
<1>17. ASSUME NEW w \in Worker, AddAuthz(w)
      PROVE  Keeps
  <2>1. \A a \in Authzs : authz[a].status # None => authz'[a].status # None
    BY <1>17, AuthzAddGrows DEF AddAuthz
  <2> QED BY <1>17, <2>1 DEF AddAuthz
<1>18. ASSUME NEW w \in Worker, AnnounceOrder(w)
      PROVE  Keeps
  BY <1>18 DEF AnnounceOrder
<1>19. ASSUME NEW w \in Worker, InvalidateOrder(w)
      PROVE  Keeps
  <2>1. \A o \in Orders : orders[o].status # None =>
           /\ orders'[o].status # None
           /\ orders'[o].identifiers = orders[o].identifiers
    BY <1>19, OrderUpdateGrows DEF InvalidateOrder, OrderStatus
  <2> QED BY <1>19, <2>1 DEF InvalidateOrder
<1>20. ASSUME NEW w \in Worker, OrderPostChecked(w)
      PROVE  Keeps
  BY <1>20 DEF OrderPostChecked
<1>21. ASSUME NEW w \in Worker, LookupOrder(w)
      PROVE  Keeps
  BY <1>21 DEF LookupOrder
<1>22. ASSUME NEW w \in Worker, LookupAuthzs(w)
      PROVE  Keeps
  BY <1>22 DEF LookupAuthzs
<1>23. ASSUME NEW w \in Worker, SetReady(w)
      PROVE  Keeps
  <2>1. \A o \in Orders : orders[o].status # None =>
           /\ orders'[o].status # None
           /\ orders'[o].identifiers = orders[o].identifiers
    BY <1>23, OrderUpdateGrows DEF SetReady, OrderStatus
  <2> QED BY <1>23, <2>1 DEF SetReady
<1>24. ASSUME NEW w \in Worker, ProcessPoll(w)
      PROVE  Keeps
  BY <1>24 DEF ProcessPoll
<1>25. ASSUME NEW w \in Worker, ProcessFinalize(w)
      PROVE  Keeps
  BY <1>25 DEF ProcessFinalize
<1>26. ASSUME NEW w \in Worker, SetProcessing(w)
      PROVE  Keeps
  <2>1. \A o \in Orders : orders[o].status # None =>
           /\ orders'[o].status # None
           /\ orders'[o].identifiers = orders[o].identifiers
    BY <1>26, OrderUpdateGrows DEF SetProcessing, OrderStatus
  <2> QED BY <1>26, <2>1 DEF SetProcessing
<1>27. ASSUME NEW w \in Worker, NEW names \in CSRs, StoreCsr(w, names)
      PROVE  Keeps
  BY <1>27 DEF StoreCsr
<1>28. ASSUME NEW w \in Worker, Enroll(w)
      PROVE  Keeps
  BY <1>28 DEF Enroll
<1>29. ASSUME NEW w \in Worker, StoreCert(w)
      PROVE  Keeps
  BY <1>29 DEF StoreCert
<1>30. ASSUME NEW w \in Worker, StoreCertError(w)
      PROVE  Keeps
  BY <1>30 DEF StoreCertError
<1>31. ASSUME NEW w \in Worker, SetValid(w)
      PROVE  Keeps
  <2>1. \A o \in Orders : orders[o].status # None =>
           /\ orders'[o].status # None
           /\ orders'[o].identifiers = orders[o].identifiers
    BY <1>31, OrderUpdateGrows DEF SetValid, OrderStatus
  <2> QED BY <1>31, <2>1 DEF SetValid
<1>32. ASSUME NEW w \in Worker, Respond(w)
      PROVE  Keeps
  BY <1>32 DEF Respond
<1>33. ASSUME NEW w \in Worker, Crash(w)
      PROVE  Keeps
  BY <1>33 DEF Crash
<1>34. ASSUME NEW w \in Worker, Save(w)
      PROVE  Keeps
  BY <1>34, NoneIsNoStatus, SaveFrame, SaveRows
<1>35. CASE Clock
  BY <1>35 DEF Clock, OrderFallsDue, AuthzFallsDue, OrderRow, AuthzRow
<1>36. CASE UNCHANGED vars
  BY <1>36 DEF vars
<1> QED BY <1>1, <1>2, <1>3, <1>4, <1>5, <1>6, <1>7, <1>8, <1>9, <1>10,
    <1>11, <1>12, <1>13, <1>14, <1>15, <1>16, <1>17, <1>18, <1>19, <1>20,
    <1>21, <1>22, <1>23, <1>24, <1>25, <1>26, <1>27, <1>28, <1>29, <1>30,
    <1>31, <1>32, <1>33, <1>34, <1>35, <1>36
  DEF Next, Step, Request, AuthorizationStep, OrderStep

\* Certificate rows stay too, and an issued certificate stays one.
LEMMA GrowsStep ==
  ASSUME TypeOK, EnrollingRow, [Next]_vars
  PROVE  Grows
<1> USE DEF TypeOK, DBTypeOK
<1> DEFINE CertsGrow ==
             \A c \in Certs :
                /\ certs[c].status # None =>
                      certs'[c].status # None /\ certs'[c].names = certs[c].names
                /\ certs[c].status = "issued" => certs'[c].status = "issued"
<1>1. ASSUME UNCHANGED certs PROVE CertsGrow
  BY <1>1
<1>2. ASSUME NEW w \in Worker, NEW names \in CSRs, StoreCsr(w, names)
      PROVE  CertsGrow
  <2>1. \A c \in Certs : certs[c].status # None => certs'[c] = certs[c]
    BY <1>2, StoreCsrCerts
  <2> QED BY <2>1, NoneIsNoStatus DEF CertStatus
<1>3. ASSUME NEW w \in Worker, StoreCert(w) \/ StoreCertError(w)
      PROVE  CertsGrow
  <2>1. \A c \in Certs : certs[c].status # None =>
           /\ certs'[c].status # None
           /\ certs'[c].names = certs[c].names
    BY <1>3, CertUpdateGrows DEF StoreCert, StoreCertError, CertStatus
  <2>2. \A c \in Certs : certs[c].status = "issued" => certs'[c].status = "issued"
    BY <1>3 DEF StoreCert, StoreCertError, certificate_update, CertRow, EnrollingRow,
       EnrollLabels
  <2> QED BY <2>1, <2>2
<1>4. ASSUME NEW w \in Worker, OrderStep(w)
      PROVE  CertsGrow
  <2>1. \/ \E names \in CSRs : StoreCsr(w, names)
        \/ StoreCert(w) \/ StoreCertError(w)
        \/ UNCHANGED certs
    BY <1>4 DEF OrderStep, AddAuthz, AnnounceOrder, InvalidateOrder, OrderPostChecked,
       LookupOrder, LookupAuthzs, SetReady, ProcessPoll, ProcessFinalize,
       SetProcessing, Enroll, SetValid, Respond, dbvars
  <2> QED BY <1>1, <1>2, <1>3, <2>1
<1>5. ASSUME NEW w \in Worker, Request(w) \/ AuthorizationStep(w) \/ Save(w) \/ Crash(w)
      PROVE  UNCHANGED certs
  BY <1>5, RequestFrame, AuthorizationFrame, SaveFrame DEF Crash
<1>6. ASSUME Clock \/ UNCHANGED vars
      PROVE  UNCHANGED certs
  BY <1>6 DEF Clock, OrderFallsDue, AuthzFallsDue, vars
<1>7. (UNCHANGED certs) \/ (\E w \in Worker : OrderStep(w))
  BY <1>5, <1>6 DEF Next, Step
<1>8. CertsGrow
  BY <1>1, <1>4, <1>7
<1> QED BY <1>8, KeepsStep DEF Grows

\* While _add runs, the authorizations missing are those still to be added.
\* Here, and only here and where a certificate is stored, a database that fails
\* would break the argument: _add goes on after an add that failed.
LEMMA AddingStep ==
  ASSUME ~ DBMayFail, TypeOK, Requested, AddingComplete, Grows, [Next]_vars
  PROVE  AddingComplete'
<1> USE DEF AddingComplete, RowsExist, Requested, NewOrderLabels, Grows, Keeps, TypeOK, WorkersTypeOK, DBTypeOK,
     Loc, OrderRow, Authzs, Goto, Done, Idle, AfterLookup, AuthzRow
<1>1. ASSUME NEW w \in Worker, NEW o \in Orders, NEW ids \in IdentifierSets, NewOrder(w, o, ids)
      PROVE  AddingComplete'
  <2>1. CASE Goto(w, "addAuthz", [Idle EXCEPT !.order = o, !.adding = ids])
             /\ order_add(w, o, "pending", ids)
    <3>1. orders'[o].status # None /\ orders'[o].identifiers = ids
      BY <2>1, NoneIsNoStatus DEF order_add, OrderStatus, DBTypeOK
    <3>2. /\ loc'[w].order = o /\ loc'[w].adding = ids
          /\ \A v \in Worker \ {w} : loc'[v] = loc[v] /\ pc'[v] = pc[v]
      BY <2>1
    <3>3. \A v \in Worker \ {w} : pc'[v] = "addAuthz" =>
              RowsExist(loc[v].order, loc[v].adding)'
      BY <3>2
    <3>4. RowsExist(o, ids)'
      BY <3>1
    <3> QED BY <3>2, <3>3, <3>4
  <2>2. CASE UNCHANGED <<pc, loc>>
    BY <2>2
  <2> QED BY <1>1, <2>1, <2>2 DEF NewOrder
<1>2. ASSUME NEW w \in Worker, NEW o \in Orders, OrderPost(w, o)
      PROVE  AddingComplete'
  BY <1>2 DEF OrderPost
<1>3. ASSUME NEW w \in Worker, NEW a \in Authzs, AuthzPost(w, a)
      PROVE  AddingComplete'
  BY <1>3 DEF AuthzPost
<1>4. ASSUME NEW w \in Worker, NEW a \in Authzs, AuthzGet(w, a)
      PROVE  AddingComplete'
  BY <1>4 DEF AuthzGet
<1>5. ASSUME NEW w \in Worker, NEW c \in Challenges, ChallengePost(w, c)
      PROVE  AddingComplete'
  <2>1. Moves(w, {"check"}) /\ UNCHANGED <<orders, authz>>
    BY <1>5, GotoMoves DEF ChallengePost, dbvars
  <2> QED BY <2>1 DEF Moves
<1>6. ASSUME NEW w \in Worker, AuthorizationStep(w)
      PROVE  AddingComplete'
  <2>1. \A v \in Worker : pc'[v] = "addAuthz" =>
           pc[v] = "addAuthz" /\ loc'[v] = loc[v]
    BY <1>6, AuthorizationFrame DEF Moves, AuthzLabels, ChallengeLabels
  <2> QED BY <1>6, <2>1, AuthorizationFrame
<1>7. ASSUME NEW w \in Worker, AddAuthz(w)
      PROVE  AddingComplete'
  <2>1. PICK i \in loc[w].adding :
          /\ authz' = [authz EXCEPT ![<<loc[w].order, i>>] =
                           [status |-> "pending", due |-> FALSE]]
          /\ Goto(w, "addAuthz", [loc[w] EXCEPT !.adding = @ \ {i}])
    BY <1>7 DEF AddAuthz, authorization_add
  <2>2. loc[w].order \in Orders /\ i \in Identifiers /\ pc[w] = "addAuthz" /\ orders' = orders
    BY <1>7 DEF AddAuthz
  <2>3. authz'[<<loc[w].order, i>>].status # None
    BY <2>1, <2>2, NoneIsNoStatus DEF AuthzStatus
  <2>4. /\ loc'[w].order = loc[w].order
        /\ loc'[w].adding = loc[w].adding \ {i}
        /\ \A v \in Worker \ {w} : loc'[v] = loc[v] /\ pc'[v] = pc[v]
    BY <2>1
  <2>5. RowsExist(loc[w].order, loc[w].adding)'
        => RowsExist(loc[w].order, loc[w].adding \ {i})'
    BY <2>2, <2>3, <2>4
  <2>6. \A v \in Worker \ {w} : pc'[v] = "addAuthz" => RowsExist(loc[v].order, loc[v].adding)'
    BY <2>2, <2>4
  <2>7. RowsExist(loc[w].order, loc[w].adding \ {i})'
    <3>1. \A j \in orders[loc[w].order].identifiers \ (loc[w].adding \ {i}) :
            authz'[<<loc[w].order, j>>].status # None
      BY <2>2, <2>3
    <3> QED BY <2>2, <2>1, <3>1
  <2> QED BY <2>4, <2>6, <2>7
<1>8. ASSUME NEW w \in Worker, AnnounceOrder(w)
      PROVE  AddingComplete'
  BY <1>8 DEF AnnounceOrder
<1>9. ASSUME NEW w \in Worker, InvalidateOrder(w)
      PROVE  AddingComplete'
  BY <1>9 DEF InvalidateOrder
<1>10. ASSUME NEW w \in Worker, OrderPostChecked(w)
      PROVE  AddingComplete'
  BY <1>10 DEF OrderPostChecked
<1>11. ASSUME NEW w \in Worker, LookupOrder(w)
      PROVE  AddingComplete'
  BY <1>11 DEF LookupOrder
<1>12. ASSUME NEW w \in Worker, LookupAuthzs(w)
      PROVE  AddingComplete'
  BY <1>12 DEF LookupAuthzs
<1>13. ASSUME NEW w \in Worker, SetReady(w)
      PROVE  AddingComplete'
  BY <1>13 DEF SetReady
<1>14. ASSUME NEW w \in Worker, ProcessPoll(w)
      PROVE  AddingComplete'
  BY <1>14 DEF ProcessPoll
<1>15. ASSUME NEW w \in Worker, ProcessFinalize(w)
      PROVE  AddingComplete'
  BY <1>15, SMTT(40) DEF ProcessFinalize
<1>16. ASSUME NEW w \in Worker, SetProcessing(w)
      PROVE  AddingComplete'
  BY <1>16, SMTT(40) DEF SetProcessing
<1>17. ASSUME NEW w \in Worker, NEW names \in CSRs, StoreCsr(w, names)
      PROVE  AddingComplete'
  BY <1>17 DEF StoreCsr
<1>18. ASSUME NEW w \in Worker, Enroll(w)
      PROVE  AddingComplete'
  BY <1>18 DEF Enroll
<1>19. ASSUME NEW w \in Worker, StoreCert(w)
      PROVE  AddingComplete'
  BY <1>19 DEF StoreCert
<1>20. ASSUME NEW w \in Worker, StoreCertError(w)
      PROVE  AddingComplete'
  BY <1>20 DEF StoreCertError
<1>21. ASSUME NEW w \in Worker, SetValid(w)
      PROVE  AddingComplete'
  BY <1>21 DEF SetValid
<1>22. ASSUME NEW w \in Worker, Respond(w)
      PROVE  AddingComplete'
  BY <1>22 DEF Respond
<1>23. ASSUME NEW w \in Worker, Crash(w)
      PROVE  AddingComplete'
  BY <1>23 DEF Crash
<1>24. ASSUME NEW w \in Worker, Save(w)
      PROVE  AddingComplete'
  BY <1>24, SaveFrame DEF Moves
<1>25. CASE Clock
  BY <1>25 DEF Clock, OrderFallsDue, AuthzFallsDue
<1>26. CASE UNCHANGED vars
  BY <1>26 DEF vars
<1> QED BY <1>1, <1>2, <1>3, <1>4, <1>5, <1>6, <1>7, <1>8, <1>9, <1>10,
    <1>11, <1>12, <1>13, <1>14, <1>15, <1>16, <1>17, <1>18, <1>19, <1>20,
    <1>21, <1>22, <1>23, <1>24, <1>25, <1>26
  DEF Next, Step, Request, OrderStep

\* The 201 goes out when every authorization of the order exists.
LEMMA AnnouncedStep ==
  ASSUME TypeOK, AnnouncedComplete, AddingComplete, Requested, Grows, [Next]_vars
  PROVE  AnnouncedComplete'
<1> USE DEF AnnouncedComplete, AddingComplete, RowsExist, Grows, Keeps, TypeOK, WorkersTypeOK, DBTypeOK, OrderRow, Authzs, dbvars
<1>1. ASSUME NEW w \in Worker, Request(w)
      PROVE  AnnouncedComplete'
  BY <1>1, RequestFrame
<1>2. ASSUME NEW w \in Worker, AuthorizationStep(w)
      PROVE  AnnouncedComplete'
  BY <1>2, AuthorizationFrame
<1>3. ASSUME NEW w \in Worker, AddAuthz(w)
      PROVE  AnnouncedComplete'
  BY <1>3 DEF AddAuthz
<1>4. ASSUME NEW w \in Worker, AnnounceOrder(w)
      PROVE  AnnouncedComplete'
  BY <1>4 DEF AnnounceOrder
<1>5. ASSUME NEW w \in Worker, InvalidateOrder(w)
      PROVE  AnnouncedComplete'
  BY <1>5 DEF InvalidateOrder
<1>6. ASSUME NEW w \in Worker, OrderPostChecked(w)
      PROVE  AnnouncedComplete'
  BY <1>6 DEF OrderPostChecked
<1>7. ASSUME NEW w \in Worker, LookupOrder(w)
      PROVE  AnnouncedComplete'
  BY <1>7 DEF LookupOrder
<1>8. ASSUME NEW w \in Worker, LookupAuthzs(w)
      PROVE  AnnouncedComplete'
  BY <1>8 DEF LookupAuthzs
<1>9. ASSUME NEW w \in Worker, SetReady(w)
      PROVE  AnnouncedComplete'
  BY <1>9 DEF SetReady
<1>10. ASSUME NEW w \in Worker, ProcessPoll(w)
      PROVE  AnnouncedComplete'
  BY <1>10 DEF ProcessPoll
<1>11. ASSUME NEW w \in Worker, ProcessFinalize(w)
      PROVE  AnnouncedComplete'
  BY <1>11 DEF ProcessFinalize
<1>12. ASSUME NEW w \in Worker, SetProcessing(w)
      PROVE  AnnouncedComplete'
  BY <1>12 DEF SetProcessing
<1>13. ASSUME NEW w \in Worker, NEW names \in CSRs, StoreCsr(w, names)
      PROVE  AnnouncedComplete'
  BY <1>13 DEF StoreCsr
<1>14. ASSUME NEW w \in Worker, Enroll(w)
      PROVE  AnnouncedComplete'
  BY <1>14 DEF Enroll
<1>15. ASSUME NEW w \in Worker, StoreCert(w)
      PROVE  AnnouncedComplete'
  BY <1>15 DEF StoreCert
<1>16. ASSUME NEW w \in Worker, StoreCertError(w)
      PROVE  AnnouncedComplete'
  BY <1>16 DEF StoreCertError
<1>17. ASSUME NEW w \in Worker, SetValid(w)
      PROVE  AnnouncedComplete'
  BY <1>17 DEF SetValid
<1>18. ASSUME NEW w \in Worker, Respond(w)
      PROVE  AnnouncedComplete'
  BY <1>18 DEF Respond
<1>19. ASSUME NEW w \in Worker, Crash(w)
      PROVE  AnnouncedComplete'
  BY <1>19 DEF Crash
<1>20. ASSUME NEW w \in Worker, Save(w)
      PROVE  AnnouncedComplete'
  BY <1>20, SaveFrame
<1>21. CASE Clock
  BY <1>21 DEF Clock, OrderFallsDue, AuthzFallsDue
<1>22. CASE UNCHANGED vars
  BY <1>22 DEF vars
<1> QED BY <1>1, <1>2, <1>3, <1>4, <1>5, <1>6, <1>7, <1>8, <1>9, <1>10,
    <1>11, <1>12, <1>13, <1>14, <1>15, <1>16, <1>17, <1>18, <1>19, <1>20,
    <1>21, <1>22
  DEF Next, Step, OrderStep

\* Only a check that succeeded makes an authorization valid.
LEMMA ValidAuthzStep ==
  ASSUME TypeOK, HeldProved, Requested, ValidAuthzProved, ValidatingChecked, Keeps, [Next]_vars
  PROVE  ValidAuthzProved'
<1> USE DEF ValidAuthzProved, ValidatingChecked, Proved, Keeps, TypeOK, DBTypeOK, WorkersTypeOK,
     AuthzRow, Requested, dbvars, authorization_add, authorization_update,
     authorization_refresh
<1>1. ASSUME NEW w \in Worker, Request(w)
      PROVE  ValidAuthzProved'
  BY <1>1, RequestFrame
<1>2. ASSUME NEW w \in Worker, InvalidateAuthz(w)
      PROVE  ValidAuthzProved'
  BY <1>2 DEF InvalidateAuthz
<1>3. ASSUME NEW w \in Worker, AuthzPostChecked(w)
      PROVE  ValidAuthzProved'
  BY <1>3 DEF AuthzPostChecked
<1>4. ASSUME NEW w \in Worker, LookupAuthz(w)
      PROVE  ValidAuthzProved'
  BY <1>4 DEF LookupAuthz
<1>5. ASSUME NEW w \in Worker, RefreshAuthz(w)
      PROVE  ValidAuthzProved'
  BY <1>5 DEF RefreshAuthz
<1>6. ASSUME NEW w \in Worker, ReadAuthzStatus(w)
      PROVE  ValidAuthzProved'
  BY <1>6 DEF ReadAuthzStatus
<1>7. ASSUME NEW w \in Worker, SearchChallenges(w)
      PROVE  ValidAuthzProved'
  BY <1>7 DEF SearchChallenges
<1>8. ASSUME NEW w \in Worker, NewChallenge(w)
      PROVE  ValidAuthzProved'
  BY <1>8 DEF NewChallenge
<1>9. ASSUME NEW w \in Worker, NEW c \in Challenges,
             NEW outcome \in {"ok", "fail", "invalid"},
             CheckChallenge(w, c, outcome)
      PROVE  ValidAuthzProved'
  BY <1>9 DEF CheckChallenge
<1>10. ASSUME NEW w \in Worker, ChallengesChecked(w)
      PROVE  ValidAuthzProved'
  BY <1>10 DEF ChallengesChecked
<1>11. ASSUME NEW w \in Worker, UpdateChallenge(w)
      PROVE  ValidAuthzProved'
  BY <1>11 DEF UpdateChallenge
<1>12. ASSUME NEW w \in Worker, UpdateAuthz(w)
      PROVE  ValidAuthzProved'
  BY <1>12 DEF UpdateAuthz
<1>13. ASSUME NEW w \in Worker, AddAuthz(w)
      PROVE  ValidAuthzProved'
  BY <1>13, SMTT(40) DEF AddAuthz
<1>14. ASSUME NEW w \in Worker, AnnounceOrder(w)
      PROVE  ValidAuthzProved'
  BY <1>14 DEF AnnounceOrder
<1>15. ASSUME NEW w \in Worker, InvalidateOrder(w)
      PROVE  ValidAuthzProved'
  BY <1>15 DEF InvalidateOrder
<1>16. ASSUME NEW w \in Worker, OrderPostChecked(w)
      PROVE  ValidAuthzProved'
  BY <1>16 DEF OrderPostChecked
<1>17. ASSUME NEW w \in Worker, LookupOrder(w)
      PROVE  ValidAuthzProved'
  BY <1>17 DEF LookupOrder
<1>18. ASSUME NEW w \in Worker, LookupAuthzs(w)
      PROVE  ValidAuthzProved'
  BY <1>18 DEF LookupAuthzs
<1>19. ASSUME NEW w \in Worker, SetReady(w)
      PROVE  ValidAuthzProved'
  BY <1>19 DEF SetReady
<1>20. ASSUME NEW w \in Worker, ProcessPoll(w)
      PROVE  ValidAuthzProved'
  BY <1>20 DEF ProcessPoll
<1>21. ASSUME NEW w \in Worker, ProcessFinalize(w)
      PROVE  ValidAuthzProved'
  BY <1>21 DEF ProcessFinalize
<1>22. ASSUME NEW w \in Worker, SetProcessing(w)
      PROVE  ValidAuthzProved'
  BY <1>22 DEF SetProcessing
<1>23. ASSUME NEW w \in Worker, NEW names \in CSRs, StoreCsr(w, names)
      PROVE  ValidAuthzProved'
  BY <1>23 DEF StoreCsr
<1>24. ASSUME NEW w \in Worker, Enroll(w)
      PROVE  ValidAuthzProved'
  BY <1>24 DEF Enroll
<1>25. ASSUME NEW w \in Worker, StoreCert(w)
      PROVE  ValidAuthzProved'
  BY <1>25 DEF StoreCert
<1>26. ASSUME NEW w \in Worker, StoreCertError(w)
      PROVE  ValidAuthzProved'
  BY <1>26 DEF StoreCertError
<1>27. ASSUME NEW w \in Worker, SetValid(w)
      PROVE  ValidAuthzProved'
  BY <1>27 DEF SetValid
<1>28. ASSUME NEW w \in Worker, Respond(w)
      PROVE  ValidAuthzProved'
  BY <1>28 DEF Respond
<1>29. ASSUME NEW w \in Worker, Crash(w)
      PROVE  ValidAuthzProved'
  BY <1>29 DEF Crash
<1>30. ASSUME NEW w \in Worker, Save(w)
      PROVE  ValidAuthzProved'
  <2>1. \A az \in Authzs : authz'[az].status = "valid" => Proved(az)
    BY <1>30, SaveRows DEF HeldProved
  <2> QED BY <1>30, <2>1, SaveFrame
<1>31. CASE Clock
  BY <1>31 DEF Clock, OrderFallsDue, AuthzFallsDue
<1>32. CASE UNCHANGED vars
  BY <1>32 DEF vars
<1> QED BY <1>1, <1>2, <1>3, <1>4, <1>5, <1>6, <1>7, <1>8, <1>9, <1>10,
    <1>11, <1>12, <1>13, <1>14, <1>15, <1>16, <1>17, <1>18, <1>19, <1>20,
    <1>21, <1>22, <1>23, <1>24, <1>25, <1>26, <1>27, <1>28, <1>29, <1>30,
    <1>31, <1>32
  DEF Next, Step, AuthorizationStep, OrderStep

\* The outcome on its way to the tables is the one of the check.
LEMMA ValidatingStep ==
  ASSUME TypeOK, ValidatingChecked, Keeps, [Next]_vars
  PROVE  ValidatingChecked'
<1> USE DEF ValidatingChecked, Keeps, TypeOK, WorkersTypeOK, Loc, Moves, RequestLabels, AuthzLabels, ChallengeLabels, NewOrderLabels, OrderLabels, Goto, Done, Idle
<1>1. ASSUME NEW w \in Worker, Request(w)
      PROVE  ValidatingChecked'
  BY <1>1, RequestFrame
<1>2. ASSUME NEW w \in Worker, InvalidateAuthz(w)
      PROVE  ValidatingChecked'
  BY <1>2 DEF InvalidateAuthz
<1>3. ASSUME NEW w \in Worker, AuthzPostChecked(w)
      PROVE  ValidatingChecked'
  BY <1>3 DEF AuthzPostChecked
<1>4. ASSUME NEW w \in Worker, LookupAuthz(w)
      PROVE  ValidatingChecked'
  BY <1>4 DEF LookupAuthz
<1>5. ASSUME NEW w \in Worker, RefreshAuthz(w)
      PROVE  ValidatingChecked'
  BY <1>5 DEF RefreshAuthz
<1>6. ASSUME NEW w \in Worker, ReadAuthzStatus(w)
      PROVE  ValidatingChecked'
  BY <1>6 DEF ReadAuthzStatus
<1>7. ASSUME NEW w \in Worker, SearchChallenges(w)
      PROVE  ValidatingChecked'
  BY <1>7 DEF SearchChallenges
<1>8. ASSUME NEW w \in Worker, NewChallenge(w)
      PROVE  ValidatingChecked'
  BY <1>8 DEF NewChallenge
<1>9. ASSUME NEW w \in Worker, NEW c \in Challenges,
             NEW outcome \in {"ok", "fail", "invalid"},
             CheckChallenge(w, c, outcome)
      PROVE  ValidatingChecked'
  <2>1. passed \subseteq passed'
    BY <1>9 DEF CheckChallenge
  <2>2. /\ pc' = [pc EXCEPT ![w] = pc'[w]]
        /\ loc' = [loc EXCEPT ![w] = loc'[w]]
        /\ pc'[w] \in {"challValid", "challInvalid", "check"}
    BY <1>9 DEF CheckChallenge
  <2>3. pc'[w] = "challValid" => loc'[w].ch = c /\ c \in passed'
    <3>1. /\ pc'[w] = "challValid" => outcome = "ok"
          /\ outcome = "ok" => c \in passed'
      BY <1>9 DEF CheckChallenge
    <3>2. outcome = "ok" =>
            loc'[w] = [loc[w] EXCEPT !.challs = @ \ {c}, !.ch = c]
      BY <1>9 DEF CheckChallenge
    <3>3. [loc[w] EXCEPT !.challs = @ \ {c}, !.ch = c].ch = c
      BY DEF Loc
    <3> QED BY <3>1, <3>2, <3>3
  <2>4. ASSUME NEW v \in Worker, pc'[v] \in {"challValid", "authzValid"}
        PROVE  loc'[v].ch \in passed'
    <3>1. CASE v = w
      BY <2>2, <2>3, <2>4, <3>1
    <3>2. CASE v # w
      BY <2>1, <2>2, <2>4, <3>2
    <3> QED BY <3>1, <3>2
  <2> QED BY <2>4
<1>10. ASSUME NEW w \in Worker, ChallengesChecked(w)
      PROVE  ValidatingChecked'
  BY <1>10 DEF ChallengesChecked
<1>11. ASSUME NEW w \in Worker, UpdateChallenge(w)
      PROVE  ValidatingChecked'
  BY <1>11 DEF UpdateChallenge
<1>12. ASSUME NEW w \in Worker, UpdateAuthz(w)
      PROVE  ValidatingChecked'
  BY <1>12 DEF UpdateAuthz
<1>13. ASSUME NEW w \in Worker, OrderStep(w)
      PROVE  ValidatingChecked'
  BY <1>13, OrderFrame
<1>14. ASSUME NEW w \in Worker, Crash(w)
      PROVE  ValidatingChecked'
  BY <1>14 DEF Crash
<1>15. ASSUME NEW w \in Worker, Save(w)
      PROVE  ValidatingChecked'
  BY <1>15, SaveFrame
<1>16. CASE Clock
  BY <1>16 DEF Clock, OrderFallsDue, AuthzFallsDue
<1>17. CASE UNCHANGED vars
  BY <1>17 DEF vars
<1> QED BY <1>1, <1>2, <1>3, <1>4, <1>5, <1>6, <1>7, <1>8, <1>9, <1>10,
    <1>11, <1>12, <1>13, <1>14, <1>15, <1>16, <1>17
  DEF Next, Step, AuthorizationStep

\* A request that passed Message.check stays about its order.
LEMMA OrderAnnouncedStep ==
  ASSUME TypeOK, OrderAnnounced, Keeps, [Next]_vars
  PROVE  OrderAnnounced'
<1> USE DEF OrderAnnounced, Keeps, TypeOK, WorkersTypeOK, Loc, Moves, RequestLabels, AuthzLabels, ChallengeLabels, NewOrderLabels, OrderLabels, Goto, Done,
     Idle, AfterLookup
<1>1. ASSUME NEW w \in Worker, Request(w)
      PROVE  OrderAnnounced'
  BY <1>1, RequestFrame
<1>2. ASSUME NEW w \in Worker, AuthorizationStep(w)
      PROVE  OrderAnnounced'
  BY <1>2, AuthorizationFrame
<1>3. ASSUME NEW w \in Worker, AddAuthz(w)
      PROVE  OrderAnnounced'
  BY <1>3 DEF AddAuthz
<1>4. ASSUME NEW w \in Worker, AnnounceOrder(w)
      PROVE  OrderAnnounced'
  BY <1>4 DEF AnnounceOrder
<1>5. ASSUME NEW w \in Worker, InvalidateOrder(w)
      PROVE  OrderAnnounced'
  BY <1>5 DEF InvalidateOrder
<1>6. ASSUME NEW w \in Worker, OrderPostChecked(w)
      PROVE  OrderAnnounced'
  BY <1>6 DEF OrderPostChecked
<1>7. ASSUME NEW w \in Worker, LookupOrder(w)
      PROVE  OrderAnnounced'
  BY <1>7 DEF LookupOrder
<1>8. ASSUME NEW w \in Worker, LookupAuthzs(w)
      PROVE  OrderAnnounced'
  BY <1>8 DEF LookupAuthzs
<1>9. ASSUME NEW w \in Worker, SetReady(w)
      PROVE  OrderAnnounced'
  BY <1>9 DEF SetReady
<1>10. ASSUME NEW w \in Worker, ProcessPoll(w)
      PROVE  OrderAnnounced'
  BY <1>10 DEF ProcessPoll
<1>11. ASSUME NEW w \in Worker, ProcessFinalize(w)
      PROVE  OrderAnnounced'
  BY <1>11 DEF ProcessFinalize
<1>12. ASSUME NEW w \in Worker, SetProcessing(w)
      PROVE  OrderAnnounced'
  BY <1>12 DEF SetProcessing
<1>13. ASSUME NEW w \in Worker, NEW names \in CSRs, StoreCsr(w, names)
      PROVE  OrderAnnounced'
  BY <1>13 DEF StoreCsr
<1>14. ASSUME NEW w \in Worker, Enroll(w)
      PROVE  OrderAnnounced'
  BY <1>14 DEF Enroll
<1>15. ASSUME NEW w \in Worker, StoreCert(w)
      PROVE  OrderAnnounced'
  BY <1>15 DEF StoreCert
<1>16. ASSUME NEW w \in Worker, StoreCertError(w)
      PROVE  OrderAnnounced'
  BY <1>16 DEF StoreCertError
<1>17. ASSUME NEW w \in Worker, SetValid(w)
      PROVE  OrderAnnounced'
  BY <1>17 DEF SetValid
<1>18. ASSUME NEW w \in Worker, Respond(w)
      PROVE  OrderAnnounced'
  BY <1>18 DEF Respond
<1>19. ASSUME NEW w \in Worker, Crash(w)
      PROVE  OrderAnnounced'
  BY <1>19 DEF Crash
<1>20. ASSUME NEW w \in Worker, Save(w)
      PROVE  OrderAnnounced'
  BY <1>20, SaveFrame
<1>21. CASE Clock
  BY <1>21 DEF Clock, OrderFallsDue, AuthzFallsDue
<1>22. CASE UNCHANGED vars
  BY <1>22 DEF vars
<1> QED BY <1>1, <1>2, <1>3, <1>4, <1>5, <1>6, <1>7, <1>8, <1>9, <1>10,
    <1>11, <1>12, <1>13, <1>14, <1>15, <1>16, <1>17, <1>18, <1>19, <1>20,
    <1>21, <1>22
  DEF Next, Step, OrderStep

\* Who is about to move an order on was about to before.
MovingStays ==
    \A v \in Worker : pc'[v] \in MovingLabels =>
        pc[v] \in MovingLabels /\ loc'[v].order = loc[v].order

\* An order that is being moved on stays cleared: its identifiers and the
\* checks that succeeded do not go away.
LEMMA MovingKept ==
  ASSUME Requested, MovingCleared, OrderAnnounced, AnnouncedComplete, Grows,
         MovingStays
  PROVE  MovingCleared'
<1> SUFFICES ASSUME NEW v \in Worker, pc'[v] \in MovingLabels
             PROVE  Cleared(loc[v].order)'
  BY DEF MovingCleared
<1> DEFINE o == loc[v].order
<1>1. pc[v] \in MovingLabels /\ loc'[v].order = o
  BY DEF MovingStays
<1>2. o \in Orders /\ o \in announced
  BY <1>1 DEF MovingLabels, OrderLabels, Requested, OrderAnnounced
<1>3. orders'[o].identifiers = orders[o].identifiers
  BY <1>2 DEF AnnouncedComplete, RowsExist, Grows, Keeps
<1>4. Cleared(o)
  BY <1>1 DEF MovingCleared
<1> QED BY <1>1, <1>3, <1>4 DEF Cleared, Proved, Grows, Keeps

\* Only a worker that has read the authorizations, or the order as ready, begins
\* to move an order on.
LEMMA MovingFrame ==
  ASSUME TypeOK, [Next]_vars,
         \A w \in Worker : ~ LookupAuthzs(w) /\ ~ ProcessFinalize(w)
  PROVE  MovingStays
<1> USE DEF TypeOK, WorkersTypeOK
<1>1. ASSUME NEW w \in Worker, Request(w)
      PROVE  MovingStays
  BY <1>1, RequestFrame DEF Moves, RequestLabels, MovingStays, MovingLabels
<1>2. ASSUME NEW w \in Worker, AuthorizationStep(w)
      PROVE  MovingStays
  BY <1>2, AuthorizationFrame DEF Moves, AuthzLabels, ChallengeLabels, MovingStays,
     MovingLabels
<1>3. ASSUME NEW w \in Worker,
             \/ AddAuthz(w) \/ AnnounceOrder(w) \/ InvalidateOrder(w)
             \/ OrderPostChecked(w) \/ LookupOrder(w) \/ SetReady(w)
             \/ ProcessPoll(w) \/ SetValid(w) \/ Respond(w)
      PROVE  MovingStays
  <2>1. Moves(w, {"addAuthz", "idle", "invalidateOrders", "lookupOrder",
                  "lookupAuthzs", "process", "respond"})
    BY <1>3, GotoMoves DEF AddAuthz, AnnounceOrder, InvalidateOrder,
       OrderPostChecked, LookupOrder, SetReady, ProcessPoll, SetValid, Respond,
       Done, AfterLookup
  <2> QED BY <2>1 DEF Moves, MovingStays, MovingLabels
<1>4. ASSUME NEW w \in Worker, OrderStep(w), NEW names,
             \/ SetProcessing(w) \/ StoreCsr(w, names) \/ Enroll(w)
             \/ StoreCert(w) \/ StoreCertError(w)
      PROVE  MovingStays
  <2>1. pc[w] \in MovingLabels
    BY <1>4 DEF SetProcessing, StoreCsr, Enroll, StoreCert, StoreCertError, MovingLabels
  <2>2. Moves(w, {"idle"} \cup NewOrderLabels \cup OrderLabels)
    BY <1>4, OrderFrame
  <2>3. loc'[w].order = loc[w].order \/ pc'[w] = "idle"
    BY <1>4 DEF SetProcessing, StoreCsr, Enroll, StoreCert, StoreCertError, Goto, Done, Loc
  <2> QED BY <2>1, <2>2, <2>3 DEF Moves, MovingStays, MovingLabels
<1>5. ASSUME NEW w \in Worker, Crash(w) \/ Save(w)
      PROVE  MovingStays
  <2>1. Moves(w, {"idle"}) \/ UNCHANGED <<pc, loc>>
    BY <1>5, SaveFrame, GotoMoves DEF Crash, Done
  <2> QED BY <2>1 DEF Moves, MovingStays, MovingLabels
<1>6. CASE Clock \/ UNCHANGED vars
  <2>1. UNCHANGED <<pc, loc>>
    BY <1>6 DEF Clock, OrderFallsDue, AuthzFallsDue, vars
  <2> QED BY <2>1 DEF MovingStays
<1>7. ASSUME NEW w \in Worker, OrderStep(w)
      PROVE  MovingStays
  <2>1. ASSUME NEW names \in CSRs, StoreCsr(w, names)
        PROVE  MovingStays
    BY <1>7, <2>1, <1>4
  <2>2. CASE SetProcessing(w) \/ Enroll(w) \/ StoreCert(w) \/ StoreCertError(w)
    BY <1>7, <2>2, <1>4
  <2> QED BY <1>7, <2>1, <2>2, <1>3 DEF OrderStep
<1> QED BY <1>1, <1>2, <1>5, <1>6, <1>7 DEF Next, Step

\* Reading every authorization valid, in whatever order the reads and the
\* writes of others fall, clears the order for ever: a challenge that fails or
\* expires afterwards takes back the status, not the proof.
LEMMA MovingStep ==
  ASSUME TypeOK, Requested, MovingCleared, OrderAnnounced, AnnouncedComplete,
         ValidAuthzProved, PastCleared, Grows, [Next]_vars
  PROVE  MovingCleared'
<1> USE DEF TypeOK, WorkersTypeOK
<1>1. ASSUME NEW w \in Worker, LookupAuthzs(w)
      PROVE  MovingCleared'
  <2>0. loc' = loc /\ UNCHANGED <<orders, authz, announced, passed>>
        /\ \A v \in Worker \ {w} : pc'[v] = pc[v]
    BY <1>1 DEF LookupAuthzs, Goto, dbvars
  <2>1. CASE AllAuthzsValid(loc[w].order)
    <3>1. loc[w].order \in announced /\ loc[w].order \in Orders
      BY <1>1 DEF LookupAuthzs, OrderAnnounced, Requested, OrderLabels
    <3>2. \A i \in orders[loc[w].order].identifiers :
             authz[<<loc[w].order, i>>].status # None
      BY <3>1 DEF AnnouncedComplete, RowsExist
    <3>3. \A i \in orders[loc[w].order].identifiers :
             <<loc[w].order, i>> \in authorization_lookup(loc[w].order)
      BY <3>1, <3>2 DEF authorization_lookup, Authzs, DBTypeOK, OrderRow
    <3>4. Cleared(loc[w].order)
      BY <2>1, <3>3 DEF AllAuthzsValid, authorization_lookup, ValidAuthzProved, Cleared
    <3>5. \A v \in Worker \ {w} : pc'[v] \in MovingLabels => Cleared(loc[v].order)
      BY <2>0 DEF MovingCleared
    <3> QED BY <2>0, <3>4, <3>5 DEF MovingCleared, Cleared, Proved
  <2>2. CASE ~ AllAuthzsValid(loc[w].order)
    <3>1. pc'[w] \in {"respond", "process"}
      BY <1>1, <2>2 DEF LookupAuthzs, AfterLookup, Goto
    <3>2. MovingStays
      BY <2>0, <3>1 DEF MovingStays, MovingLabels
    <3> QED BY <3>2, MovingKept
  <2> QED BY <2>1, <2>2
<1>2. ASSUME NEW w \in Worker, ProcessFinalize(w)
      PROVE  MovingCleared'
  <2>1. /\ UNCHANGED <<orders, passed>>
        /\ \A v \in Worker \ {w} : pc'[v] = pc[v] /\ loc'[v] = loc[v]
    BY <1>2 DEF ProcessFinalize, Goto, Done, dbvars
  <2>2. CASE orders[loc[w].order].status = "ready" /\ loc' = loc
    <3>1. loc[w].order \in Orders
      BY <1>2 DEF ProcessFinalize, Requested, OrderLabels
    <3>2. Cleared(loc[w].order)
      BY <2>2, <3>1 DEF PastCleared, Past, Advanced
    <3> QED BY <2>1, <2>2, <3>2 DEF MovingCleared, Cleared, Proved
  <2>3. CASE pc'[w] = "idle"
    <3>1. MovingStays
      BY <2>1, <2>3 DEF MovingStays, MovingLabels
    <3> QED BY <3>1, MovingKept
  <2> QED BY <1>2, <2>2, <2>3 DEF ProcessFinalize, Goto, Done
<1>3. CASE \A w \in Worker : ~ LookupAuthzs(w) /\ ~ ProcessFinalize(w)
  BY <1>3, MovingFrame, MovingKept
<1> QED BY <1>1, <1>2, <1>3

\* Every write that moves an order on is done by a worker that read it cleared.
LEMMA PastStep ==
  ASSUME TypeOK, HeldSound, Requested, MovingCleared, OrderAnnounced, PastCleared, Grows, [Next]_vars
  PROVE  PastCleared'
<1> USE NoneIsNoStatus DEF PastCleared, Past, Advanced, MovingCleared, MovingLabels, OrderAnnounced, OrderLabels, Requested, NewOrderLabels,
     Cleared, Proved, Grows, Keeps, TypeOK, DBTypeOK, OrderRow, dbvars, order_add, order_update, OrderStatus
<1>1. ASSUME NEW w \in Worker, NEW o \in Orders, NEW ids \in IdentifierSets, NewOrder(w, o, ids)
      PROVE  PastCleared'
  BY <1>1 DEF NewOrder
<1>2. ASSUME NEW w \in Worker, NEW o \in Orders, OrderPost(w, o)
      PROVE  PastCleared'
  BY <1>2 DEF OrderPost
<1>3. ASSUME NEW w \in Worker, NEW a \in Authzs, AuthzPost(w, a)
      PROVE  PastCleared'
  BY <1>3 DEF AuthzPost
<1>4. ASSUME NEW w \in Worker, NEW a \in Authzs, AuthzGet(w, a)
      PROVE  PastCleared'
  BY <1>4 DEF AuthzGet
<1>5. ASSUME NEW w \in Worker, NEW c \in Challenges, ChallengePost(w, c)
      PROVE  PastCleared'
  BY <1>5 DEF ChallengePost
<1>6. ASSUME NEW w \in Worker, AuthorizationStep(w)
      PROVE  PastCleared'
  BY <1>6, AuthorizationFrame DEF Moves, AuthzLabels, ChallengeLabels
<1>7. ASSUME NEW w \in Worker, AddAuthz(w)
      PROVE  PastCleared'
  BY <1>7 DEF AddAuthz
<1>8. ASSUME NEW w \in Worker, AnnounceOrder(w)
      PROVE  PastCleared'
  BY <1>8 DEF AnnounceOrder
<1>9. ASSUME NEW w \in Worker, InvalidateOrder(w)
      PROVE  PastCleared'
  BY <1>9 DEF InvalidateOrder
<1>10. ASSUME NEW w \in Worker, OrderPostChecked(w)
      PROVE  PastCleared'
  BY <1>10 DEF OrderPostChecked
<1>11. ASSUME NEW w \in Worker, LookupOrder(w)
      PROVE  PastCleared'
  BY <1>11 DEF LookupOrder
<1>12. ASSUME NEW w \in Worker, LookupAuthzs(w)
      PROVE  PastCleared'
  BY <1>12 DEF LookupAuthzs
<1>13. ASSUME NEW w \in Worker, SetReady(w)
      PROVE  PastCleared'
  BY <1>13 DEF SetReady
<1>14. ASSUME NEW w \in Worker, ProcessPoll(w)
      PROVE  PastCleared'
  BY <1>14 DEF ProcessPoll
<1>15. ASSUME NEW w \in Worker, ProcessFinalize(w)
      PROVE  PastCleared'
  BY <1>15 DEF ProcessFinalize
<1>16. ASSUME NEW w \in Worker, SetProcessing(w)
      PROVE  PastCleared'
  BY <1>16 DEF SetProcessing
<1>17. ASSUME NEW w \in Worker, NEW names \in CSRs, StoreCsr(w, names)
      PROVE  PastCleared'
  BY <1>17 DEF StoreCsr
<1>18. ASSUME NEW w \in Worker, Enroll(w)
      PROVE  PastCleared'
  BY <1>18 DEF Enroll
<1>19. ASSUME NEW w \in Worker, StoreCert(w)
      PROVE  PastCleared'
  BY <1>19 DEF StoreCert
<1>20. ASSUME NEW w \in Worker, StoreCertError(w)
      PROVE  PastCleared'
  BY <1>20 DEF StoreCertError
<1>21. ASSUME NEW w \in Worker, SetValid(w)
      PROVE  PastCleared'
  BY <1>21 DEF SetValid
<1>22. ASSUME NEW w \in Worker, Respond(w)
      PROVE  PastCleared'
  BY <1>22 DEF Respond
<1>23. ASSUME NEW w \in Worker, Crash(w)
      PROVE  PastCleared'
  BY <1>23 DEF Crash
<1>24. ASSUME NEW w \in Worker, Save(w)
      PROVE  PastCleared'
  <2>1. \A o \in Orders : Past(o)' => o \in announced /\ Cleared(o)
    BY <1>24, SaveRows DEF HeldSound, Advanced
  <2>2. \A o \in Orders : orders'[o].identifiers = orders[o].identifiers
    BY <1>24, SaveRows
  <2> QED BY <2>1, <2>2
<1>25. CASE Clock
  BY <1>25 DEF Clock, OrderFallsDue, AuthzFallsDue
<1>26. CASE UNCHANGED vars
  BY <1>26 DEF vars
<1> QED BY <1>1, <1>2, <1>3, <1>4, <1>5, <1>6, <1>7, <1>8, <1>9, <1>10,
    <1>11, <1>12, <1>13, <1>14, <1>15, <1>16, <1>17, <1>18, <1>19, <1>20,
    <1>21, <1>22, <1>23, <1>24, <1>25, <1>26
  DEF Next, Step, Request, OrderStep

\* A CSR that passes _csr_check names what a certificate of the order may name.
LEMMA CheckFits ==
  ASSUME NEW o, NEW names, csr_check(o, names)
  PROVE  Fits(names, orders[o].identifiers)
  BY DEF csr_check, identifer_status_list, identifer_tnauth_list, csr_sans,
     csr_extensions, Fits

\* The certificate row of an enrollment stays as _csr_check saw it until the
\* worker that owns it writes its outcome.
LEMMA EnrollingStep ==
  ASSUME TypeOK, Requested, OrderAnnounced, AnnouncedComplete, EnrollingRow,
         EnrollingApart, Grows, [Next]_vars
  PROVE  EnrollingRow'
<1>0. \A v \in Worker : pc[v] \in EnrollLabels =>
         orders'[loc[v].order].identifiers = orders[loc[v].order].identifiers
  BY DEF EnrollLabels, OrderLabels, NewOrderLabels, OrderAnnounced, AnnouncedComplete,
     RowsExist, Requested, Grows, Keeps
<1> USE <1>0 DEF EnrollingRow, EnrollLabels,
     TypeOK, WorkersTypeOK, DBTypeOK, Loc,
     Goto, Done, Idle, AfterLookup, dbvars, Certs
<1>1. ASSUME NEW w \in Worker, Request(w)
      PROVE  EnrollingRow'
  BY <1>1, RequestFrame DEF Moves, RequestLabels
<1>2. ASSUME NEW w \in Worker, AuthorizationStep(w)
      PROVE  EnrollingRow'
  BY <1>2, AuthorizationFrame, SMTT(40) DEF Moves, AuthzLabels, ChallengeLabels
<1>3. ASSUME NEW w \in Worker, AddAuthz(w)
      PROVE  EnrollingRow'
  BY <1>3 DEF AddAuthz
<1>4. ASSUME NEW w \in Worker, AnnounceOrder(w)
      PROVE  EnrollingRow'
  BY <1>4 DEF AnnounceOrder
<1>5. ASSUME NEW w \in Worker, InvalidateOrder(w)
      PROVE  EnrollingRow'
  <2>1. Moves(w, {"invalidateOrders"}) /\ UNCHANGED certs
    BY <1>5 DEF InvalidateOrder, Moves, dbvars
  <2>2. \A v \in Worker : pc'[v] \in EnrollLabels =>
            pc[v] = pc'[v] /\ loc'[v] = loc[v]
    BY <2>1 DEF Moves
  <2> QED BY <2>1, <2>2
<1>6. ASSUME NEW w \in Worker, OrderPostChecked(w)
      PROVE  EnrollingRow'
  BY <1>6 DEF OrderPostChecked
<1>7. ASSUME NEW w \in Worker, LookupOrder(w)
      PROVE  EnrollingRow'
  BY <1>7 DEF LookupOrder
<1>8. ASSUME NEW w \in Worker, LookupAuthzs(w)
      PROVE  EnrollingRow'
  <2>1. Moves(w, {"setReady", "process", "respond"}) /\ UNCHANGED certs
    BY <1>8 DEF LookupAuthzs, Moves, dbvars
  <2> QED BY <2>1 DEF Moves
<1>9. ASSUME NEW w \in Worker, SetReady(w)
      PROVE  EnrollingRow'
  BY <1>9 DEF SetReady
<1>10. ASSUME NEW w \in Worker, ProcessPoll(w)
      PROVE  EnrollingRow'
  BY <1>10 DEF ProcessPoll
<1>11. ASSUME NEW w \in Worker, ProcessFinalize(w)
      PROVE  EnrollingRow'
  <2>1. Moves(w, {"setProcessing", "idle"}) /\ UNCHANGED certs
    BY <1>11 DEF ProcessFinalize, Moves, dbvars
  <2> QED BY <2>1 DEF Moves
<1>12. ASSUME NEW w \in Worker, SetProcessing(w)
      PROVE  EnrollingRow'
  BY <1>12, SMTT(40) DEF SetProcessing
<1>13. ASSUME NEW w \in Worker, NEW names \in CSRs, StoreCsr(w, names)
      PROVE  EnrollingRow'
  <2>0. /\ pc[w] = "storeCsr"
        /\ orders' = orders
    BY <1>13 DEF StoreCsr
  <2>1. CASE UNCHANGED certs /\ Done(w)
    BY <2>1
  <2>2. ASSUME NEW c \in Certs, c[1] = loc[w].order, certs[c].status = None,
               certs' = [certs EXCEPT ![c] = [status |-> "csr", names |-> names]],
               \/ /\ csr_check(loc[w].order, names)
                  /\ Goto(w, "enroll", [loc[w] EXCEPT !.cert = c])
               \/ Done(w)
        PROVE  EnrollingRow'
    <3>1. \A v \in Worker \ {w} : pc'[v] = pc[v] /\ loc'[v] = loc[v]
      BY <2>2
    <3>2. \A v \in Worker \ {w} : pc[v] \in EnrollLabels => loc[v].cert # c
      BY <2>2, NoneIsNoStatus DEF CertStatus
    <3>3. \A v \in Worker \ {w} : pc[v] \in EnrollLabels =>
              certs'[loc[v].cert] = certs[loc[v].cert]
      BY <2>2, <3>2
    <3>5. pc'[w] \in EnrollLabels =>
             /\ loc'[w].cert = c
             /\ loc'[w].order = loc[w].order
             /\ csr_check(loc[w].order, names)
      BY <2>2
    <3>6. certs'[c].status = "csr" /\ certs'[c].names = names
      BY <2>2
    <3>7. \A v \in Worker : v = w \/ v \in Worker \ {w}
      OBVIOUS
    <3>8. csr_check(loc[w].order, names) =>
              Fits(names, orders[loc[w].order].identifiers)
      BY CheckFits
    <3> QED BY <2>0, <2>2, <3>1, <3>3, <3>5, <3>6, <3>7, <3>8
  <2> QED BY <1>13, <2>1, <2>2 DEF StoreCsr
<1>14. ASSUME NEW w \in Worker, Enroll(w)
      PROVE  EnrollingRow'
  BY <1>14 DEF Enroll
<1>15. ASSUME NEW w \in Worker, StoreCert(w)
      PROVE  EnrollingRow'
  <2>1. Moves(w, {"setValid"})
    BY <1>15 DEF StoreCert, Moves
  <2>2. \A v \in Worker \ {w} : pc[v] \in EnrollLabels =>
            certs'[loc[v].cert] = certs[loc[v].cert]
    BY <1>15 DEF StoreCert, certificate_update, EnrollingApart
  <2> QED BY <1>15, <2>1, <2>2 DEF Moves, StoreCert
<1>16. ASSUME NEW w \in Worker, StoreCertError(w)
      PROVE  EnrollingRow'
  <2>1. Moves(w, {"idle", "lookupOrder"}) /\ pc[w] \in EnrollLabels
    BY <1>16 DEF StoreCertError, Moves
  <2>2. \A v \in Worker \ {w} : pc[v] \in EnrollLabels =>
            certs'[loc[v].cert] = certs[loc[v].cert]
    BY <1>16, <2>1 DEF StoreCertError, certificate_update, EnrollingApart
  <2> QED BY <2>1, <2>2, SMTT(40) DEF Moves
<1>17. ASSUME NEW w \in Worker, SetValid(w)
      PROVE  EnrollingRow'
  <2>1. Moves(w, {"lookupOrder"}) /\ UNCHANGED certs
    BY <1>17 DEF SetValid, Moves, dbvars
  <2>2. \A v \in Worker : pc'[v] \in EnrollLabels =>
            pc[v] = pc'[v] /\ loc'[v] = loc[v]
    BY <2>1 DEF Moves
  <2> QED BY <2>1, <2>2
<1>18. ASSUME NEW w \in Worker, Respond(w)
      PROVE  EnrollingRow'
  BY <1>18 DEF Respond
<1>19. ASSUME NEW w \in Worker, Crash(w)
      PROVE  EnrollingRow'
  BY <1>19 DEF Crash
<1>20. ASSUME NEW w \in Worker, Save(w)
      PROVE  EnrollingRow'
  BY <1>20, SaveFrame DEF Moves
<1>21. CASE Clock
  BY <1>21 DEF Clock, OrderFallsDue, AuthzFallsDue
<1>22. CASE UNCHANGED vars
  BY <1>22 DEF vars
<1> QED BY <1>1, <1>2, <1>3, <1>4, <1>5, <1>6, <1>7, <1>8, <1>9, <1>10,
    <1>11, <1>12, <1>13, <1>14, <1>15, <1>16, <1>17, <1>18, <1>19, <1>20,
    <1>21, <1>22
  DEF Next, Step, OrderStep

\* Two enrollments never share a certificate row.
LEMMA ApartStep ==
  ASSUME TypeOK, EnrollingRow, EnrollingApart, [Next]_vars
  PROVE  EnrollingApart'
<1> USE DEF EnrollingRow, EnrollingApart, EnrollLabels, TypeOK, WorkersTypeOK, Loc, Moves,
     RequestLabels, AuthzLabels, ChallengeLabels, NewOrderLabels, OrderLabels, Goto, Done, Idle, AfterLookup
<1>1. ASSUME NEW w \in Worker, Request(w)
      PROVE  EnrollingApart'
  BY <1>1, RequestFrame
<1>2. ASSUME NEW w \in Worker, AuthorizationStep(w)
      PROVE  EnrollingApart'
  BY <1>2, AuthorizationFrame
<1>3. ASSUME NEW w \in Worker, AddAuthz(w)
      PROVE  EnrollingApart'
  BY <1>3 DEF AddAuthz
<1>4. ASSUME NEW w \in Worker, AnnounceOrder(w)
      PROVE  EnrollingApart'
  BY <1>4 DEF AnnounceOrder
<1>5. ASSUME NEW w \in Worker, InvalidateOrder(w)
      PROVE  EnrollingApart'
  BY <1>5 DEF InvalidateOrder
<1>6. ASSUME NEW w \in Worker, OrderPostChecked(w)
      PROVE  EnrollingApart'
  BY <1>6 DEF OrderPostChecked
<1>7. ASSUME NEW w \in Worker, LookupOrder(w)
      PROVE  EnrollingApart'
  BY <1>7 DEF LookupOrder
<1>8. ASSUME NEW w \in Worker, LookupAuthzs(w)
      PROVE  EnrollingApart'
  BY <1>8 DEF LookupAuthzs
<1>9. ASSUME NEW w \in Worker, SetReady(w)
      PROVE  EnrollingApart'
  BY <1>9 DEF SetReady
<1>10. ASSUME NEW w \in Worker, ProcessPoll(w)
      PROVE  EnrollingApart'
  BY <1>10 DEF ProcessPoll
<1>11. ASSUME NEW w \in Worker, ProcessFinalize(w)
      PROVE  EnrollingApart'
  BY <1>11 DEF ProcessFinalize
<1>12. ASSUME NEW w \in Worker, SetProcessing(w)
      PROVE  EnrollingApart'
  BY <1>12 DEF SetProcessing
<1>13. ASSUME NEW w \in Worker, NEW names \in CSRs, StoreCsr(w, names)
      PROVE  EnrollingApart'
  BY <1>13, DBstoreAssumption DEF StoreCsr, CertStatus
<1>14. ASSUME NEW w \in Worker, Enroll(w)
      PROVE  EnrollingApart'
  BY <1>14 DEF Enroll
<1>15. ASSUME NEW w \in Worker, StoreCert(w)
      PROVE  EnrollingApart'
  BY <1>15 DEF StoreCert
<1>16. ASSUME NEW w \in Worker, StoreCertError(w)
      PROVE  EnrollingApart'
  BY <1>16 DEF StoreCertError
<1>17. ASSUME NEW w \in Worker, SetValid(w)
      PROVE  EnrollingApart'
  BY <1>17 DEF SetValid
<1>18. ASSUME NEW w \in Worker, Respond(w)
      PROVE  EnrollingApart'
  BY <1>18 DEF Respond
<1>19. ASSUME NEW w \in Worker, Crash(w)
      PROVE  EnrollingApart'
  BY <1>19 DEF Crash
<1>20. ASSUME NEW w \in Worker, Save(w)
      PROVE  EnrollingApart'
  BY <1>20, SaveFrame DEF Moves
<1>21. CASE Clock
  BY <1>21 DEF Clock, OrderFallsDue, AuthzFallsDue
<1>22. CASE UNCHANGED vars
  BY <1>22 DEF vars
<1> QED BY <1>1, <1>2, <1>3, <1>4, <1>5, <1>6, <1>7, <1>8, <1>9, <1>10,
    <1>11, <1>12, <1>13, <1>14, <1>15, <1>16, <1>17, <1>18, <1>19, <1>20,
    <1>21, <1>22
  DEF Next, Step, OrderStep

\* _store_cert stores a certificate only for a cleared order.
LEMMA IssuedStep ==
  ASSUME TypeOK, Requested, MovingCleared, OrderAnnounced, AnnouncedComplete,
         EnrollingRow, IssuedCleared, Grows, [Next]_vars
  PROVE  IssuedCleared'
<1> USE DEF IssuedCleared, EnrollingRow, EnrollLabels, AnnouncedComplete, RowsExist,
     MovingCleared, MovingLabels, OrderAnnounced, OrderLabels, Requested,
     NewOrderLabels, Grows, Keeps, Cleared, Proved, TypeOK, WorkersTypeOK, DBTypeOK, CertRow, dbvars, Certs
<1>1. ASSUME NEW w \in Worker, Request(w)
      PROVE  IssuedCleared'
  BY <1>1, RequestFrame DEF Moves, RequestLabels
<1>2. ASSUME NEW w \in Worker, AuthorizationStep(w)
      PROVE  IssuedCleared'
  BY <1>2, AuthorizationFrame DEF Moves, AuthzLabels, ChallengeLabels
<1>3. ASSUME NEW w \in Worker, AddAuthz(w)
      PROVE  IssuedCleared'
  BY <1>3 DEF AddAuthz
<1>4. ASSUME NEW w \in Worker, AnnounceOrder(w)
      PROVE  IssuedCleared'
  BY <1>4 DEF AnnounceOrder
<1>5. ASSUME NEW w \in Worker, InvalidateOrder(w)
      PROVE  IssuedCleared'
  BY <1>5 DEF InvalidateOrder
<1>6. ASSUME NEW w \in Worker, OrderPostChecked(w)
      PROVE  IssuedCleared'
  BY <1>6 DEF OrderPostChecked
<1>7. ASSUME NEW w \in Worker, LookupOrder(w)
      PROVE  IssuedCleared'
  BY <1>7 DEF LookupOrder
<1>8. ASSUME NEW w \in Worker, LookupAuthzs(w)
      PROVE  IssuedCleared'
  BY <1>8 DEF LookupAuthzs
<1>9. ASSUME NEW w \in Worker, SetReady(w)
      PROVE  IssuedCleared'
  BY <1>9 DEF SetReady
<1>10. ASSUME NEW w \in Worker, ProcessPoll(w)
      PROVE  IssuedCleared'
  BY <1>10 DEF ProcessPoll
<1>11. ASSUME NEW w \in Worker, ProcessFinalize(w)
      PROVE  IssuedCleared'
  BY <1>11 DEF ProcessFinalize
<1>12. ASSUME NEW w \in Worker, SetProcessing(w)
      PROVE  IssuedCleared'
  BY <1>12 DEF SetProcessing
<1>13. ASSUME NEW w \in Worker, NEW names \in CSRs, StoreCsr(w, names)
      PROVE  IssuedCleared'
  <2>1. \A c \in Certs : certs'[c].status = "issued" => certs[c] = certs'[c]
    BY <1>13, StoreCsrCerts
  <2>2. orders' = orders /\ passed' = passed /\ announced' = announced
    BY <1>13 DEF StoreCsr
  <2> QED BY <2>1, <2>2
<1>14. ASSUME NEW w \in Worker, Enroll(w)
      PROVE  IssuedCleared'
  BY <1>14 DEF Enroll
<1>15. ASSUME NEW w \in Worker, StoreCert(w)
      PROVE  IssuedCleared'
  <2>1. /\ pc[w] = "storeCert" /\ loc[w].cert \in Certs /\ loc[w].cert[1] = loc[w].order
        /\ loc[w].order \in announced /\ Cleared(loc[w].order)
        /\ orders' = orders /\ passed' = passed /\ announced' = announced
    BY <1>15 DEF StoreCert
  <2>2. \A c \in Certs : certs'[c].names = certs[c].names
    BY <1>15 DEF StoreCert, certificate_update
  <2>3. \A c \in Certs : certs'[c].status = "issued" => certs[c].status = "issued" \/ c = loc[w].cert
    BY <1>15 DEF StoreCert, certificate_update
  <2> QED BY <2>1, <2>2, <2>3
<1>16. ASSUME NEW w \in Worker, StoreCertError(w)
      PROVE  IssuedCleared'
  <2>1. \A c \in Certs : certs'[c].status = "issued" =>
           certs[c].status = "issued" /\ certs'[c].names = certs[c].names
    BY <1>16 DEF StoreCertError, certificate_update
  <2>2. orders' = orders /\ passed' = passed /\ announced' = announced
    BY <1>16 DEF StoreCertError
  <2> QED BY <2>1, <2>2
<1>17. ASSUME NEW w \in Worker, SetValid(w)
      PROVE  IssuedCleared'
  BY <1>17 DEF SetValid
<1>18. ASSUME NEW w \in Worker, Respond(w)
      PROVE  IssuedCleared'
  BY <1>18 DEF Respond
<1>19. ASSUME NEW w \in Worker, Crash(w)
      PROVE  IssuedCleared'
  BY <1>19 DEF Crash
<1>20. ASSUME NEW w \in Worker, Save(w)
      PROVE  IssuedCleared'
  BY <1>20, SaveFrame
<1>21. CASE Clock
  BY <1>21 DEF Clock, OrderFallsDue, AuthzFallsDue
<1>22. CASE UNCHANGED vars
  BY <1>22 DEF vars
<1> QED BY <1>1, <1>2, <1>3, <1>4, <1>5, <1>6, <1>7, <1>8, <1>9, <1>10,
    <1>11, <1>12, <1>13, <1>14, <1>15, <1>16, <1>17, <1>18, <1>19, <1>20,
    <1>21, <1>22
  DEF Next, Step, OrderStep

\* The order is made valid only after its certificate was stored.
LEMMA HasCertStep ==
  ASSUME ~ DBMayFail, TypeOK, Requested, EnrollingRow, ValidatingHasCert, Grows, [Next]_vars
  PROVE  ValidatingHasCert'
<1> USE DEF ValidatingHasCert, HasCert, TypeOK, WorkersTypeOK, DBTypeOK, CertRow, Loc,
     Goto, Done, Idle, AfterLookup, Grows, Keeps
<1>1. ASSUME NEW w \in Worker, Request(w)
      PROVE  ValidatingHasCert'
  BY <1>1, RequestFrame DEF Moves, RequestLabels
<1>2. ASSUME NEW w \in Worker, AuthorizationStep(w)
      PROVE  ValidatingHasCert'
  BY <1>2, AuthorizationFrame DEF Moves, AuthzLabels, ChallengeLabels
<1>3. ASSUME NEW w \in Worker, AddAuthz(w)
      PROVE  ValidatingHasCert'
  BY <1>3 DEF AddAuthz
<1>4. ASSUME NEW w \in Worker, AnnounceOrder(w)
      PROVE  ValidatingHasCert'
  BY <1>4 DEF AnnounceOrder
<1>5. ASSUME NEW w \in Worker, InvalidateOrder(w)
      PROVE  ValidatingHasCert'
  BY <1>5 DEF InvalidateOrder
<1>6. ASSUME NEW w \in Worker, OrderPostChecked(w)
      PROVE  ValidatingHasCert'
  BY <1>6 DEF OrderPostChecked
<1>7. ASSUME NEW w \in Worker, LookupOrder(w)
      PROVE  ValidatingHasCert'
  BY <1>7 DEF LookupOrder
<1>8. ASSUME NEW w \in Worker, LookupAuthzs(w)
      PROVE  ValidatingHasCert'
  BY <1>8 DEF LookupAuthzs
<1>9. ASSUME NEW w \in Worker, SetReady(w)
      PROVE  ValidatingHasCert'
  BY <1>9 DEF SetReady
<1>10. ASSUME NEW w \in Worker, ProcessPoll(w)
      PROVE  ValidatingHasCert'
  BY <1>10 DEF ProcessPoll
<1>11. ASSUME NEW w \in Worker, ProcessFinalize(w)
      PROVE  ValidatingHasCert'
  BY <1>11 DEF ProcessFinalize
<1>12. ASSUME NEW w \in Worker, SetProcessing(w)
      PROVE  ValidatingHasCert'
  BY <1>12 DEF SetProcessing
<1>13. ASSUME NEW w \in Worker, NEW names \in CSRs, StoreCsr(w, names)
      PROVE  ValidatingHasCert'
  BY <1>13, SMTT(40) DEF StoreCsr
<1>14. ASSUME NEW w \in Worker, Enroll(w)
      PROVE  ValidatingHasCert'
  BY <1>14 DEF Enroll
<1>15. ASSUME NEW w \in Worker, StoreCert(w)
      PROVE  ValidatingHasCert'
  <2>1. certs' = [certs EXCEPT ![loc[w].cert].status = "issued"]
    BY <1>15 DEF StoreCert, certificate_update
  <2>2. loc[w].cert \in Certs /\ loc[w].cert[1] = loc[w].order
    BY <1>15 DEF StoreCert, EnrollingRow, EnrollLabels
  <2>3. certs'[loc[w].cert].status = "issued"
    BY <2>1, <2>2
  <2>4. /\ loc'[w] = loc[w]
        /\ \A v \in Worker \ {w} : pc'[v] = pc[v] /\ loc'[v] = loc[v]
    BY <1>15 DEF StoreCert
  <2> QED BY <2>2, <2>3, <2>4
<1>16. ASSUME NEW w \in Worker, StoreCertError(w)
      PROVE  ValidatingHasCert'
  <2>1. Moves(w, {"idle", "lookupOrder"})
    BY <1>16 DEF StoreCertError, Moves
  <2> QED BY <2>1 DEF Moves
<1>17. ASSUME NEW w \in Worker, SetValid(w)
      PROVE  ValidatingHasCert'
  BY <1>17 DEF SetValid
<1>18. ASSUME NEW w \in Worker, Respond(w)
      PROVE  ValidatingHasCert'
  BY <1>18 DEF Respond
<1>19. ASSUME NEW w \in Worker, Crash(w)
      PROVE  ValidatingHasCert'
  BY <1>19 DEF Crash
<1>20. ASSUME NEW w \in Worker, Save(w)
      PROVE  ValidatingHasCert'
  BY <1>20, SaveFrame DEF Moves
<1>21. CASE Clock
  BY <1>21 DEF Clock, OrderFallsDue, AuthzFallsDue
<1>22. CASE UNCHANGED vars
  BY <1>22 DEF vars
<1> QED BY <1>1, <1>2, <1>3, <1>4, <1>5, <1>6, <1>7, <1>8, <1>9, <1>10,
    <1>11, <1>12, <1>13, <1>14, <1>15, <1>16, <1>17, <1>18, <1>19, <1>20,
    <1>21, <1>22
  DEF Next, Step, OrderStep

\* A valid order has a certificate, also when several workers finalize it.
LEMMA ValidOrdersStep ==
  ASSUME TypeOK, HeldSound, Requested, ValidatingHasCert, ValidOrdersHaveCert, Grows, [Next]_vars
  PROVE  ValidOrdersHaveCert'
<1> USE DEF ValidOrdersHaveCert, ValidatingHasCert, HasCert, Requested, NewOrderLabels,
     OrderLabels, TypeOK, WorkersTypeOK, DBTypeOK, OrderRow, dbvars, Grows, Keeps, order_update
<1>1. ASSUME NEW w \in Worker, NEW o \in Orders, NEW ids \in IdentifierSets, NewOrder(w, o, ids)
      PROVE  ValidOrdersHaveCert'
  BY <1>1 DEF NewOrder, order_add
<1>2. ASSUME NEW w \in Worker, NEW o \in Orders, OrderPost(w, o)
      PROVE  ValidOrdersHaveCert'
  BY <1>2 DEF OrderPost
<1>3. ASSUME NEW w \in Worker, NEW a \in Authzs, AuthzPost(w, a)
      PROVE  ValidOrdersHaveCert'
  BY <1>3 DEF AuthzPost
<1>4. ASSUME NEW w \in Worker, NEW a \in Authzs, AuthzGet(w, a)
      PROVE  ValidOrdersHaveCert'
  BY <1>4 DEF AuthzGet
<1>5. ASSUME NEW w \in Worker, NEW c \in Challenges, ChallengePost(w, c)
      PROVE  ValidOrdersHaveCert'
  BY <1>5 DEF ChallengePost
<1>6. ASSUME NEW w \in Worker, AuthorizationStep(w)
      PROVE  ValidOrdersHaveCert'
  BY <1>6, AuthorizationFrame
<1>7. ASSUME NEW w \in Worker, AddAuthz(w)
      PROVE  ValidOrdersHaveCert'
  BY <1>7 DEF AddAuthz
<1>8. ASSUME NEW w \in Worker, AnnounceOrder(w)
      PROVE  ValidOrdersHaveCert'
  BY <1>8 DEF AnnounceOrder
<1>9. ASSUME NEW w \in Worker, InvalidateOrder(w)
      PROVE  ValidOrdersHaveCert'
  BY <1>9 DEF InvalidateOrder
<1>10. ASSUME NEW w \in Worker, OrderPostChecked(w)
      PROVE  ValidOrdersHaveCert'
  BY <1>10 DEF OrderPostChecked
<1>11. ASSUME NEW w \in Worker, LookupOrder(w)
      PROVE  ValidOrdersHaveCert'
  BY <1>11 DEF LookupOrder
<1>12. ASSUME NEW w \in Worker, LookupAuthzs(w)
      PROVE  ValidOrdersHaveCert'
  BY <1>12 DEF LookupAuthzs
<1>13. ASSUME NEW w \in Worker, SetReady(w)
      PROVE  ValidOrdersHaveCert'
  BY <1>13 DEF SetReady
<1>14. ASSUME NEW w \in Worker, ProcessPoll(w)
      PROVE  ValidOrdersHaveCert'
  BY <1>14 DEF ProcessPoll
<1>15. ASSUME NEW w \in Worker, ProcessFinalize(w)
      PROVE  ValidOrdersHaveCert'
  BY <1>15 DEF ProcessFinalize
<1>16. ASSUME NEW w \in Worker, SetProcessing(w)
      PROVE  ValidOrdersHaveCert'
  BY <1>16 DEF SetProcessing
<1>17. ASSUME NEW w \in Worker, NEW names \in CSRs, StoreCsr(w, names)
      PROVE  ValidOrdersHaveCert'
  BY <1>17 DEF StoreCsr
<1>18. ASSUME NEW w \in Worker, Enroll(w)
      PROVE  ValidOrdersHaveCert'
  BY <1>18 DEF Enroll
<1>19. ASSUME NEW w \in Worker, StoreCert(w)
      PROVE  ValidOrdersHaveCert'
  BY <1>19 DEF StoreCert
<1>20. ASSUME NEW w \in Worker, StoreCertError(w)
      PROVE  ValidOrdersHaveCert'
  BY <1>20 DEF StoreCertError
<1>21. ASSUME NEW w \in Worker, SetValid(w)
      PROVE  ValidOrdersHaveCert'
  BY <1>21 DEF SetValid
<1>22. ASSUME NEW w \in Worker, Respond(w)
      PROVE  ValidOrdersHaveCert'
  BY <1>22 DEF Respond
<1>23. ASSUME NEW w \in Worker, Crash(w)
      PROVE  ValidOrdersHaveCert'
  BY <1>23 DEF Crash
<1>24. ASSUME NEW w \in Worker, Save(w)
      PROVE  ValidOrdersHaveCert'
  <2>1. \A o \in Orders : orders'[o].status = "valid" => HasCert(o)
    BY <1>24, SaveRows DEF HeldSound
  <2> QED BY <1>24, <2>1, SaveFrame
<1>25. CASE Clock
  <2>1. \A o \in Orders : orders'[o].status = orders[o].status
    BY <1>25, SMTT(40) DEF Clock, OrderFallsDue, AuthzFallsDue
  <2>2. certs' = certs
    BY <1>25, SMTT(40) DEF Clock, OrderFallsDue, AuthzFallsDue
  <2> QED BY <2>1, <2>2
<1>26. CASE UNCHANGED vars
  BY <1>26 DEF vars
<1> QED BY <1>1, <1>2, <1>3, <1>4, <1>5, <1>6, <1>7, <1>8, <1>9, <1>10,
    <1>11, <1>12, <1>13, <1>14, <1>15, <1>16, <1>17, <1>18, <1>19, <1>20,
    <1>21, <1>22, <1>23, <1>24, <1>25, <1>26
  DEF Next, Step, Request, OrderStep

\* A decision that is held was written, or held before.
LEMMA HeldProvedStep ==
  ASSUME TypeOK, Requested, RefreshingRow, HeldProved, ValidAuthzProved', TypeOK',
         passed \subseteq passed', [Next]_vars
  PROVE  HeldProved'
<1> SUFFICES ASSUME NEW w \in Worker,
                    held'[w].table = "authz", held'[w].status = "valid"
             PROVE  Proved(held[w].row)'
  BY DEF HeldProved
<1>1. CASE held'[w] = held[w]
  BY <1>1 DEF HeldProved, Proved
<1>2. CASE held'[w] = Nothing
  BY <1>2 DEF Nothing
<1>3. CASE Written(w)'
  <2>1. held'[w] \in Held \cup {Nothing}
    BY DEF TypeOK, DBTypeOK
  <2> QED BY <1>3, <2>1 DEF Written, Held, Nothing, ValidAuthzProved
<1> QED BY <1>1, <1>2, <1>3, HeldStep DEF HeldKept

\* What is held is what was written, and what was written is sound.
LEMMA HeldSoundStep ==
  ASSUME TypeOK, Requested, RefreshingRow, HeldSound, PastCleared',
         ValidOrdersHaveCert', ValidAuthzProved', AnnouncedComplete, TypeOK',
         Grows, [Next]_vars
  PROVE  HeldSound'
<1> SUFFICES ASSUME NEW w \in Worker
             PROVE  /\ (held'[w].table = "orders" /\ held'[w].status \in Advanced) =>
                          /\ held'[w].row \in announced'
                          /\ Cleared(held[w].row)'
                    /\ (held'[w].table = "orders" /\ held'[w].status = "valid") =>
                          HasCert(held[w].row)'
                    /\ (held'[w].table = "authz" /\ held'[w].status = "valid") =>
                          Proved(held[w].row)'
  BY DEF HeldSound
<1>1. CASE held'[w] = held[w]
  BY <1>1 DEF HeldSound, Grows, Keeps, Cleared, Proved, HasCert, AnnouncedComplete,
     RowsExist, TypeOK, WorkersTypeOK
<1>2. CASE held'[w] = Nothing
  BY <1>2 DEF Nothing
<1>3. CASE Written(w)'
  <2>1. held'[w] \in Held \cup {Nothing}
    BY DEF TypeOK, DBTypeOK
  <2> QED BY <1>3, <2>1 DEF Written, Held, Nothing, PastCleared, Past,
             ValidOrdersHaveCert, HasCert, ValidAuthzProved
<1> QED BY <1>1, <1>2, <1>3, HeldStep DEF HeldKept

-----------------------------------------------------------------------------
(* The theorems.                                                           *)

\* The empty database and the idle workers satisfy the invariant.
LEMMA InitInv == Init => IInv
<1> SUFFICES ASSUME Init PROVE IInv
  OBVIOUS
<1> USE DEF Init, DBInit, WorkersInit
<1>1. TypeOK
  <2>1. DBTypeOK
    BY DEF DBTypeOK, OrderRow, AuthzRow, ChallengeRow, CertRow, Nothing
  <2>2. WorkersTypeOK
    BY WorkersAssumption, IdleType DEF WorkersTypeOK, Labels
  <2> QED BY <2>1, <2>2 DEF TypeOK
<1>2. \A w \in Worker : pc[w] = "idle"
  OBVIOUS
<1>3. Requested /\ RefreshingRow /\ AddingComplete /\ ValidatingChecked /\ OrderAnnounced
      /\ MovingCleared /\ EnrollingRow /\ EnrollingApart /\ ValidatingHasCert
  BY <1>2 DEF Requested, RefreshingRow, AddingComplete, ValidatingChecked, OrderAnnounced,
     MovingCleared, EnrollingRow, EnrollingApart, ValidatingHasCert,
     NewOrderLabels, OrderLabels, AuthzLabels, MovingLabels, EnrollLabels
<1>4. AnnouncedComplete
  BY DEF AnnouncedComplete
<1>5. ValidAuthzProved
  BY NoneIsNoStatus DEF ValidAuthzProved, AuthzStatus
<1>6. PastCleared /\ ValidOrdersHaveCert
  BY NoneIsNoStatus DEF PastCleared, Past, Advanced, ValidOrdersHaveCert, OrderStatus
<1>7. IssuedCleared
  BY NoneIsNoStatus DEF IssuedCleared, CertStatus
<1>8. HeldSound
  BY DEF HeldSound, Nothing
<1> QED BY <1>1, <1>3, <1>4, <1>5, <1>6, <1>7, <1>8 DEF IInv

\* Every step keeps the invariant, when the database answers.
LEMMA InvStep ==
  ASSUME ~ DBMayFail, IInv, [Next]_vars
  PROVE  IInv'
<1> USE DEF IInv
<1>1. TypeOK'
  BY StepType
<1>2. Requested'
  BY RequestedStep
<1>3. Grows
  BY GrowsStep
<1>4. AnnouncedComplete'
  BY <1>3, AnnouncedStep
<1>5. AddingComplete'
  BY <1>3, AddingStep
<1>6. ValidAuthzProved'
  BY <1>3, ValidAuthzStep DEF HeldSound, HeldProved, Grows
<1>7. ValidatingChecked'
  BY <1>3, ValidatingStep DEF Grows
<1>8. OrderAnnounced'
  BY <1>3, OrderAnnouncedStep DEF Grows
<1>9. MovingCleared'
  BY <1>3, MovingStep
<1>10. PastCleared'
  BY <1>3, PastStep
<1>11. EnrollingRow'
  BY <1>3, EnrollingStep
<1>12. EnrollingApart'
  BY ApartStep
<1>13. IssuedCleared'
  BY <1>3, IssuedStep
<1>14. ValidatingHasCert'
  BY <1>3, HasCertStep
<1>15. ValidOrdersHaveCert'
  BY <1>3, ValidOrdersStep
<1>16. RefreshingRow'
  BY RefreshingStep
<1>17. HeldSound'
  BY <1>1, <1>3, <1>6, <1>10, <1>15, HeldSoundStep
<1> QED BY <1>1, <1>2, <1>4, <1>5, <1>6, <1>7, <1>8, <1>9, <1>10, <1>11,
           <1>12, <1>13, <1>14, <1>15, <1>16, <1>17

\* Every variable keeps its type, whether or not the database fails.
THEOREM TypeCorrect == Spec => []TypeOK
<1>1. Init => TypeOK /\ Requested /\ RefreshingRow
  BY InitInv DEF IInv
<1>2. TypeOK /\ Requested /\ RefreshingRow /\ [Next]_vars
        => (TypeOK /\ Requested /\ RefreshingRow)'
  BY StepType, RequestedStep, RefreshingStep
<1> QED BY <1>1, <1>2, PTL DEF Spec

\* The inductive invariant holds in every state, for any number of workers,
\* orders, identifiers and kills.
THEOREM Invariance ==
  ASSUME ~ DBMayFail
  PROVE  Spec => []IInv
<1>1. IInv /\ [Next]_vars => IInv'
  BY InvStep
<1> QED BY InitInv, <1>1, PTL DEF Spec

\* An order that is ready, processing or valid had every identifier proved by a
\* check that succeeded: no interleaving of order lookups with the updates of
\* authorizations and expiry lets one through.
THEOREM ReadyIsProved ==
  ASSUME ~ DBMayFail
  PROVE  Spec => []ReadyOrdersProved
<1>1. IInv => ReadyOrdersProved
  BY DEF IInv, PastCleared, Cleared, ReadyOrdersProved
<1> QED BY Invariance, <1>1, PTL

\* A certificate is issued only for an order whose identifiers were all proved,
\* and it fits the order: its SANs are among the identifiers, or, if one of them
\* is a TNAuthList, it holds them all.
THEOREM IssuedIsProved ==
  ASSUME ~ DBMayFail
  PROVE  Spec => []IssuedProved
<1>1. IInv => IssuedProved
  BY DEF IInv, IssuedCleared, Cleared, Fits, IssuedProved
<1> QED BY Invariance, <1>1, PTL

\* A valid order has a certificate, however many workers finalize it at once.
THEOREM ValidHasCert ==
  ASSUME ~ DBMayFail
  PROVE  Spec => []ValidOrdersHaveCert
<1>1. IInv => ValidOrdersHaveCert
  BY DEF IInv
<1> QED BY Invariance, <1>1, PTL

-----------------------------------------------------------------------------
(* The server implements Issuance.                                         *)

\* What is stored stays when the issued rows stay as they are.
LEMMA StoredStays ==
  ASSUME \A c \in Certs : certs[c].status = "issued"
                              <=> certs'[c].status = "issued",
         \A c \in Certs : certs[c].status = "issued" =>
                              certs'[c].names = certs[c].names
  PROVE  Stored' = Stored
<1>1. IssuedCerts' = IssuedCerts
  BY DEF IssuedCerts
<1> QED BY <1>1 DEF Stored, IssuedCerts

\* A check that succeeds shows control of one more identifier; no other step
\* of an authorization request changes what was shown.
LEMMA AuthorizationImplements ==
  ASSUME WorkersTypeOK, NEW w \in Worker, AuthorizationStep(w)
  PROVE  \/ \E c \in Challenges : passed' = passed \cup {c}
         \/ passed' = passed
  BY DEF AuthorizationStep, InvalidateAuthz, AuthzPostChecked, LookupAuthz,
     RefreshAuthz, ReadAuthzStatus, SearchChallenges, NewChallenge,
     CheckChallenge, ChallengesChecked, UpdateChallenge, UpdateAuthz

\* _store_cert adds one certificate, for a cleared order and a CSR that passed
\* _csr_check; no other step of an order request changes what is stored.
LEMMA OrderImplements ==
  ASSUME TypeOK, Requested, OrderAnnounced, MovingCleared, EnrollingRow,
         NEW w \in Worker, OrderStep(w)
  PROVE  \/ Stored' = Stored
         \/ \E c \in Certs :
               /\ Cleared(c[1])
               /\ Fits(certs[c].names, orders[c[1]].identifiers)
               /\ Stored' = Stored \cup {<<c[1], certs[c].names>>}
<1> USE DEF TypeOK, DBTypeOK
<1>1. CASE StoreCert(w)
  <2> DEFINE c == loc[w].cert
  <2>1. /\ c \in Certs /\ c[1] = loc[w].order
        /\ certs[c].status = "csr"
        /\ Fits(certs[c].names, orders[c[1]].identifiers)
    BY <1>1 DEF StoreCert, EnrollingRow, EnrollLabels
  <2>2. Cleared(c[1])
    BY <1>1, <2>1 DEF StoreCert, MovingCleared, MovingLabels
  <2>3. CASE UNCHANGED certs
    BY <2>3 DEF Stored, IssuedCerts
  <2>4. CASE certs' = [certs EXCEPT ![c].status = "issued"]
    <3>1. \A d \in Certs : certs'[d].names = certs[d].names
      BY <2>4 DEF CertRow
    <3>2. IssuedCerts' = IssuedCerts \cup {c}
      BY <2>1, <2>4 DEF IssuedCerts, CertRow
    <3>3. Stored' = Stored \cup {<<c[1], certs[c].names>>}
      BY <2>1, <3>1, <3>2 DEF Stored, IssuedCerts
    <3> QED BY <2>1, <2>2, <3>3
  <2> QED BY <1>1, <2>3, <2>4 DEF StoreCert, certificate_update
<1>2. CASE StoreCertError(w)
  <2>1. loc[w].cert \in Certs /\ certs[loc[w].cert].status = "csr"
    BY <1>2 DEF StoreCertError, EnrollingRow, EnrollLabels
  <2>2. \A c \in Certs : certs[c].status = "issued"
                             <=> certs'[c].status = "issued"
    BY <1>2, <2>1 DEF StoreCertError, certificate_update, CertRow
  <2>3. \A c \in Certs : certs'[c].names = certs[c].names
    BY <1>2 DEF StoreCertError, certificate_update, CertRow
  <2> QED BY <2>2, <2>3, StoredStays
<1>3. ASSUME NEW names \in CSRs, StoreCsr(w, names)
      PROVE  Stored' = Stored
  <2>1. \A c \in Certs :
            certs[c].status # None \/ certs'[c].status = "issued"
                => certs'[c] = certs[c]
    BY <1>3, StoreCsrCerts
  <2>2. "issued" # None
    BY NoneIsNoStatus DEF CertStatus
  <2> QED BY <2>1, <2>2, StoredStays
<1>4. CASE UNCHANGED certs
  BY <1>4 DEF Stored, IssuedCerts
<1>5. \/ StoreCert(w) \/ StoreCertError(w)
      \/ \E names \in CSRs : StoreCsr(w, names)
      \/ UNCHANGED certs
  BY DEF OrderStep, AddAuthz, AnnounceOrder, InvalidateOrder, OrderPostChecked,
     LookupOrder, LookupAuthzs, SetReady, ProcessPoll, ProcessFinalize,
     SetProcessing, Enroll, SetValid, Respond, dbvars
<1> QED BY <1>1, <1>2, <1>3, <1>4, <1>5

\* A row that is not there yet has no identifiers.
BlankRows ==
    \A o \in Orders : orders[o].status = None => orders[o].identifiers = {}

\* The orders in the table, and their identifiers, stay as they are.
SameOrders ==
    \A o \in Orders :
        /\ orders'[o].identifiers = orders[o].identifiers
        /\ orders'[o].status = None => orders[o].status = None

\* order_update is one of the steps that leave the identifiers alone ...
LEMMA UpdateSame ==
  ASSUME TypeOK, NEW w, NEW p, NEW st \in OrderStatus, order_update(w, p, st)
  PROVE  SameOrders
  BY NoneIsNoStatus DEF order_update, SameOrders, TypeOK, DBTypeOK, OrderRow

\* ... and all steps are, but for Order.new.
LEMMA OrdersSame ==
  ASSUME TypeOK, [Next]_vars,
         ~ \E w \in Worker, o \in Orders, ids \in IdentifierSets : NewOrder(w, o, ids)
  PROVE  SameOrders
<1>1. CASE UNCHANGED orders
  BY <1>1 DEF SameOrders
<1>2. ASSUME NEW w \in Worker, Request(w) PROVE UNCHANGED orders
  BY <1>2 DEF Request, OrderPost, AuthzPost, AuthzGet, ChallengePost, dbvars
<1>3. ASSUME NEW w \in Worker, AuthorizationStep(w) \/ Crash(w)
      PROVE  UNCHANGED orders
  BY <1>3, AuthorizationFrame DEF TypeOK, Crash
<1>4. ASSUME NEW w \in Worker, OrderStep(w) PROVE SameOrders
  <2>1. CASE InvalidateOrder(w) \/ SetReady(w) \/ SetProcessing(w) \/ SetValid(w)
    BY <2>1, UpdateSame DEF InvalidateOrder, SetReady, SetProcessing, SetValid,
       OrderStatus
  <2>2. \/ InvalidateOrder(w) \/ SetReady(w) \/ SetProcessing(w) \/ SetValid(w)
        \/ UNCHANGED orders
    BY <1>4 DEF OrderStep, AddAuthz, AnnounceOrder, OrderPostChecked, LookupOrder,
       LookupAuthzs, ProcessPoll, ProcessFinalize, StoreCsr, Enroll, StoreCert,
       StoreCertError, Respond, dbvars
  <2> QED BY <1>1, <2>1, <2>2
<1>5. ASSUME NEW w \in Worker, Save(w) PROVE SameOrders
  BY <1>5, SaveRows, NoneIsNoStatus DEF SameOrders
<1>6. CASE Clock \/ UNCHANGED vars
  BY <1>6 DEF Clock, OrderFallsDue, AuthzFallsDue, vars, SameOrders, TypeOK,
     DBTypeOK, OrderRow
<1> QED BY <1>1, <1>2, <1>3, <1>4, <1>5, <1>6 DEF Next, Step

\* What Order.new adds: an order with identifiers, where there was none.
LEMMA NewOrderAdds ==
  ASSUME TypeOK, NEW w \in Worker, NEW o \in Orders, NEW ids \in IdentifierSets,
         NewOrder(w, o, ids)
  PROVE  /\ orders[o].status = None
         /\ UNCHANGED <<certs, passed>>
         /\ \/ UNCHANGED orders
            \/ /\ orders'[o].status # None
               /\ orders'[o].identifiers = ids
               /\ \A p \in Orders : p # o => orders'[p] = orders[p]
<1>1. ASSUME NEW st \in OrderStatus, order_add(w, o, st, ids)
      PROVE  /\ orders'[o].status # None
             /\ orders'[o].identifiers = ids
             /\ \A p \in Orders : p # o => orders'[p] = orders[p]
  BY <1>1, NoneIsNoStatus DEF order_add, TypeOK, DBTypeOK
<1> QED BY <1>1 DEF NewOrder, OrderStatus

\* Rows get their identifiers with Order.new and their status never goes away.
LEMMA BlankStep ==
  ASSUME TypeOK, BlankRows, [Next]_vars
  PROVE  BlankRows'
<1>1. CASE SameOrders
  BY <1>1 DEF SameOrders, BlankRows
<1>2. ASSUME NEW w \in Worker, NEW o \in Orders, NEW ids \in IdentifierSets,
             NewOrder(w, o, ids)
      PROVE  BlankRows'
  BY <1>2, NewOrderAdds DEF BlankRows
<1> QED BY <1>1, <1>2, OrdersSame

\* The server implements Issuance: every step of every worker places an order,
\* shows control of one identifier, issues one certificate for an order whose
\* identifiers were all shown, or does nothing that counts.
THEOREM Implements ==
  ASSUME ~ DBMayFail
  PROVE  Spec => ImplementsIssuance
<1> DEFINE Same == UNCHANGED <<Ordered, Shown, Stored>>
<1>1. Init => Promise!Init
  BY NoneIsNoStatus DEF Init, DBInit, WorkersInit, Promise!Init, Ordered, Shown,
     Stored, IssuedCerts, CertStatus
<1>2. Init => BlankRows
  BY DEF Init, DBInit, BlankRows
<1>3. IInv /\ BlankRows /\ [Next]_vars => BlankRows'
  BY BlankStep DEF IInv
<1>4. IInv /\ BlankRows /\ [Next]_vars => [Promise!Next]_<<Ordered, Shown, Stored>>
  <2> SUFFICES ASSUME IInv, BlankRows, [Next]_vars
               PROVE  Promise!Next \/ Same
    OBVIOUS
  <2> USE DEF IInv
  <2>1. ASSUME SameOrders
        PROVE  UNCHANGED Ordered
    BY <2>1 DEF SameOrders, Ordered
  <2>2. ASSUME UNCHANGED <<passed, certs>>
        PROVE  UNCHANGED <<Shown, Stored>>
    BY <2>2 DEF Shown, Stored, IssuedCerts
  <2>3. ASSUME NEW w \in Worker, NEW o \in Orders, NEW ids \in IdentifierSets,
               NewOrder(w, o, ids)
        PROVE  Promise!Next \/ Same
    <3>1. UNCHANGED <<Shown, Stored>>
      BY <2>2, <2>3, NewOrderAdds
    <3>2. CASE UNCHANGED orders
      BY <3>1, <3>2 DEF Ordered
    <3>3. ASSUME orders'[o].identifiers = ids,
                 \A p \in Orders : p # o => orders'[p] = orders[p]
          PROVE  Promise!Next
      <4>1. Ordered[o] = {}
        BY <2>3, NewOrderAdds DEF Ordered, BlankRows
      <4>2. ids # {} /\ ids \in SUBSET Identifiers
        BY AcmeServerAssumption
      <4>3. Ordered' = [Ordered EXCEPT ![o] = ids]
        BY <3>3 DEF Ordered
      <4>4. Promise!Order(o, ids)
        BY <3>1, <4>1, <4>2, <4>3 DEF Promise!Order
      <4> QED BY <4>2, <4>4 DEF Promise!Next
    <3> QED BY <2>3, <3>2, <3>3, NewOrderAdds
  <2> DEFINE New == \E w \in Worker, o \in Orders, ids \in IdentifierSets :
                        NewOrder(w, o, ids)
  <2>4. ASSUME NEW w \in Worker, Request(w), ~ New
        PROVE  Same
    BY <2>1, <2>2, <2>4, RequestFrame, OrdersSame DEF TypeOK
  <2>5. ASSUME NEW w \in Worker, AuthorizationStep(w), ~ New
        PROVE  Promise!Next \/ Same
    <3>1. UNCHANGED certs
      BY <2>5, AuthorizationFrame DEF TypeOK
    <3>2. UNCHANGED <<Ordered, Stored>>
      BY <2>1, <2>5, <3>1, OrdersSame DEF Stored, IssuedCerts
    <3>3. ASSUME NEW c \in Challenges, passed' = passed \cup {c}
          PROVE  Promise!Next
      <4>1. c[1] \in Orders /\ c[2] \in Identifiers
        BY DEF Challenges
      <4>2. Shown' = Shown \cup {<<c[1], c[2]>>}
        BY <3>3 DEF Shown, AuthzOf
      <4>3. Promise!Prove(c[1], c[2])
        BY <3>2, <4>2 DEF Promise!Prove
      <4> QED BY <4>1, <4>3 DEF Promise!Next
    <3> QED BY <2>2, <2>5, <3>1, <3>2, <3>3, AuthorizationImplements DEF TypeOK
  <2>6. ASSUME NEW w \in Worker, OrderStep(w), ~ New
        PROVE  Promise!Next \/ Same
    <3>1. UNCHANGED <<Ordered, Shown>>
      BY <2>1, <2>6, OrdersSame, OrderFrame DEF TypeOK, Shown
    <3>2. ASSUME NEW c \in Certs, Cleared(c[1]),
                 Fits(certs[c].names, orders[c[1]].identifiers),
                 Stored' = Stored \cup {<<c[1], certs[c].names>>}
          PROVE  Promise!Next
      <4>1. c[1] \in Orders /\ certs[c].names \in SUBSET Identifiers
        BY DEF Certs, TypeOK, DBTypeOK, CertRow
      <4>2. Ordered[c[1]] = orders[c[1]].identifiers
        BY <4>1 DEF Ordered
      <4>3. \A i \in Ordered[c[1]] : <<c[1], i>> \in Shown
        BY <3>2, <4>2 DEF Cleared, Proved, Shown
      <4>4. Ordered[c[1]] # {} /\ Promise!May(Ordered[c[1]], certs[c].names)
        BY <3>2, <4>2 DEF Fits, Promise!May
      <4>5. Promise!Issue(c[1], certs[c].names)
        BY <3>1, <3>2, <4>3, <4>4 DEF Promise!Issue
      <4>6. \E o \in Orders, names \in SUBSET Identifiers : Promise!Issue(o, names)
        BY <4>1, <4>5, Zenon
      <4> QED BY <4>6 DEF Promise!Next
    <3> QED BY <2>6, <3>1, <3>2, OrderImplements
  <2>7. ASSUME NEW w \in Worker, Crash(w) \/ Save(w), ~ New
        PROVE  Same
    BY <2>1, <2>2, <2>7, OrdersSame, SaveFrame DEF TypeOK, Crash
  <2>8. ASSUME Clock \/ UNCHANGED vars, ~ New
        PROVE  Same
    BY <2>1, <2>2, <2>8, OrdersSame DEF Clock, OrderFallsDue, AuthzFallsDue, vars
  <2> QED BY <2>3, <2>4, <2>5, <2>6, <2>7, <2>8 DEF Next, Step
<1> QED
  BY Invariance, <1>1, <1>2, <1>3, <1>4, PTL DEF Spec, ImplementsIssuance, Promise!Spec
=============================================================================
