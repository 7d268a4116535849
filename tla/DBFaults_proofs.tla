--------------------------- MODULE DBFaults_proofs ---------------------------
(***************************************************************************)
(* What is left of the order life cycle when any database call may fail:   *)
(* ReadyOrdersRowsProved, for every number of workers, with and without    *)
(* failures.  An authorization_add that fails leaves an order with fewer   *)
(* rows than names, so that an announced order need not be complete, but   *)
(* its rows are the ones it was announced with: only _add adds rows, and   *)
(* it adds them to an order no client has been told of.                    *)
(***************************************************************************)
EXTENDS AcmeServer_proofs

-----------------------------------------------------------------------------
(* The rows of an announced order do not change.                           *)

\* authorization_update of a row that exists adds none.
LEMMA UpdateAddsNone ==
  ASSUME authz \in [Authzs -> AuthzRow], NEW w, NEW b, NEW st, AuthzExists(b),
         authorization_update(w, b, st) \/ authorization_refresh(w, b),
         NEW a \in Authzs, AuthzExists(a)'
  PROVE  AuthzExists(a)
  BY DEF authorization_update, authorization_refresh, AuthzExists, AuthzRow

\* Only _add adds a row, and to the order of its request.
LEMMA WhoAddsRows ==
  ASSUME TypeOK, Requested, RefreshingRow, NamedExist, HeldExists, [Next]_vars,
         NEW a \in Authzs, ~ AuthzExists(a), AuthzExists(a)'
  PROVE  \E w \in Worker : AddAuthz(w) /\ loc[w].order = a[1]
<1> USE DEF TypeOK, DBTypeOK
<1>1. ASSUME NEW w \in Worker, AuthorizationStep(w)
      PROVE  FALSE
  <2>1. CASE InvalidateAuthz(w)
    BY <2>1, UpdateAddsNone DEF InvalidateAuthz, NamedExist
  <2>2. CASE RefreshAuthz(w)
    BY <2>2, UpdateAddsNone DEF RefreshAuthz, NamedExist
  <2>3. CASE UpdateAuthz(w)
    <3>1. AuthzExists(AuthzOf(loc[w].ch))
      BY <2>3 DEF UpdateAuthz, NamedExist, ChallengeLabels
    <3> QED BY <2>3, <3>1, UpdateAddsNone DEF UpdateAuthz
  <2>4. CASE UNCHANGED authz
    BY <2>4 DEF AuthzExists
  <2> QED BY <1>1, <2>1, <2>2, <2>3, <2>4 DEF AuthorizationStep, AuthzPostChecked,
             LookupAuthz, ReadAuthzStatus, SearchChallenges, NewChallenge,
             CheckChallenge, ChallengesChecked, UpdateChallenge, dbvars
<1>2. ASSUME NEW w \in Worker, OrderStep(w)
      PROVE  AddAuthz(w) /\ loc[w].order = a[1]
  <2>1. CASE AddAuthz(w)
    <3>1. PICK i \in loc[w].adding : authorization_add(w, <<loc[w].order, i>>)
      BY <2>1 DEF AddAuthz
    <3>2. a = <<loc[w].order, i>>
      BY <3>1 DEF authorization_add, AuthzExists
    <3> QED BY <2>1, <3>2
  <2>2. CASE UNCHANGED authz
    BY <2>2 DEF AuthzExists
  <2> QED BY <1>2, <2>1, <2>2 DEF OrderStep, AnnounceOrder, InvalidateOrder,
             OrderPostChecked, LookupOrder, LookupAuthzs, SetReady, ProcessPoll,
             ProcessFinalize, SetProcessing, StoreCsr, Enroll, StoreCert,
             StoreCertError, SetValid, Respond, dbvars
<1>3. ASSUME NEW w \in Worker, Save(w)
      PROVE  FALSE
  BY <1>3, SaveRows DEF AuthzExists, HeldExists
<1>4. ASSUME NEW w \in Worker, Request(w) \/ Crash(w)
      PROVE  FALSE
  BY <1>4, RequestFrame DEF WorkersTypeOK, Crash, AuthzExists
<1>5. ASSUME Clock \/ UNCHANGED vars
      PROVE  FALSE
  BY <1>5 DEF Clock, OrderFallsDue, AuthzFallsDue, AuthzRow, vars, AuthzExists
<1> QED BY <1>1, <1>2, <1>3, <1>4, <1>5 DEF Next, Step

\* What an announced order was announced with is what it has.
LEMMA RowsFixed ==
  ASSUME RowsInv, Keeps, [Next]_vars, NEW o \in announced
  PROVE  authorization_lookup(o)' = authorization_lookup(o)
<1>1. ASSUME NEW a \in Authzs, a[1] = o
      PROVE  AuthzExists(a)' <=> AuthzExists(a)
  <2>1. AuthzExists(a) => AuthzExists(a)'
    BY DEF Keeps, AuthzExists
  <2>2. ASSUME ~ AuthzExists(a), AuthzExists(a)'
        PROVE  FALSE
    <3>1. PICK w \in Worker : AddAuthz(w) /\ loc[w].order = o
      BY <1>1, <2>2, WhoAddsRows DEF RowsInv
    <3> QED BY <3>1 DEF AddAuthz, AddingUnannounced, RowsInv
  <2> QED BY <2>1, <2>2
<1> QED BY <1>1 DEF authorization_lookup, AuthzExists

\* Once cleared, an announced order stays cleared.
LEMMA ClearedStays ==
  ASSUME RowsInv, Keeps, [Next]_vars, NEW o \in announced, RowsCleared(o)
  PROVE  RowsCleared(o)'
<1>1. authorization_lookup(o)' = authorization_lookup(o)
  BY RowsFixed
<1>2. \A a \in authorization_lookup(o) : Proved(a)'
  BY DEF RowsCleared, Proved, Keeps
<1> QED BY <1>1, <1>2 DEF RowsCleared

-----------------------------------------------------------------------------
(* Each conjunct is kept by every step.                                    *)

\* Who is adding authorizations was adding them before, to the same order, or
\* has just added that order.
LEMMA WhoAdds ==
  ASSUME TypeOK, [Next]_vars, NEW w \in Worker, pc'[w] = "addAuthz"
  PROVE  \/ pc[w] = "addAuthz" /\ loc'[w].order = loc[w].order
         \/ \E o \in Orders, ids \in IdentifierSets :
               /\ NewOrder(w, o, ids)
               /\ order_add(w, o, "pending", ids)
               /\ loc'[w].order = o
<1> DEFINE Goal == \/ pc[w] = "addAuthz" /\ loc'[w].order = loc[w].order
                   \/ \E o \in Orders, ids \in IdentifierSets :
                         /\ NewOrder(w, o, ids)
                         /\ order_add(w, o, "pending", ids)
                         /\ loc'[w].order = o
<1> USE DEF TypeOK, WorkersTypeOK
<1>1. ASSUME NEW v \in Worker, NEW labels, Moves(v, labels), "addAuthz" \notin labels
      PROVE  Goal
  BY <1>1 DEF Moves
<1>2. ASSUME UNCHANGED <<pc, loc>>
      PROVE  Goal
  BY <1>2
<1>3. ASSUME NEW v \in Worker, Request(v)
      PROVE  Goal
  <2>1. ASSUME NEW o \in Orders, NEW ids \in IdentifierSets, NewOrder(v, o, ids)
        PROVE  Goal
    <3>1. CASE /\ order_add(v, o, "pending", ids)
               /\ Goto(v, "addAuthz", [Idle EXCEPT !.order = o, !.adding = ids])
      <4>1. [Idle EXCEPT !.order = o, !.adding = ids].order = o
        BY DEF Idle
      <4>2. CASE v = w
        BY <2>1, <3>1, <4>1, <4>2 DEF Goto
      <4>3. CASE v # w
        BY <3>1, <4>3 DEF Goto
      <4> QED BY <4>2, <4>3
    <3> QED BY <1>2, <2>1, <3>1 DEF NewOrder
  <2>2. CASE \/ \E o \in Orders : OrderPost(v, o)
             \/ \E a \in Authzs : AuthzPost(v, a) \/ AuthzGet(v, a)
             \/ \E c \in Challenges : ChallengePost(v, c)
    <3>1. Moves(v, {"invalidateOrders", "invalidateAuthzs", "lookupAuthz", "check"})
      BY <2>2, GotoMoves DEF OrderPost, AuthzPost, AuthzGet, ChallengePost
    <3> QED BY <1>1, <3>1
  <2> QED BY <1>3, <2>1, <2>2 DEF Request
<1>4. ASSUME NEW v \in Worker, AuthorizationStep(v)
      PROVE  Goal
  BY <1>1, <1>4, AuthorizationFrame DEF AuthzLabels, ChallengeLabels
<1>5. ASSUME NEW v \in Worker, OrderStep(v), ~ AddAuthz(v)
      PROVE  Goal
  <2>1. Moves(v, {"idle"} \cup OrderLabels)
    BY <1>5, GotoMoves DEF OrderStep, AnnounceOrder, InvalidateOrder, OrderPostChecked,
       LookupOrder, LookupAuthzs, SetReady, ProcessPoll, ProcessFinalize,
       SetProcessing, StoreCsr, Enroll, StoreCert, StoreCertError, SetValid,
       Respond, Done, AfterLookup, OrderLabels
  <2> QED BY <1>1, <2>1 DEF OrderLabels
<1>6. ASSUME NEW v \in Worker, AddAuthz(v)
      PROVE  Goal
  <2>1. \A i : [loc[v] EXCEPT !.adding = @ \ {i}].order = loc[v].order
    BY DEF Loc
  <2> QED BY <1>6, <2>1 DEF AddAuthz, Goto
<1>7. ASSUME NEW v \in Worker, Save(v) \/ Crash(v)
      PROVE  Goal
  <2>1. Moves(v, {"idle"}) \/ UNCHANGED <<pc, loc>>
    BY <1>7, SaveFrame, GotoMoves DEF Crash, Done
  <2> QED BY <1>1, <1>2, <2>1
<1>8. ASSUME Clock \/ UNCHANGED vars
      PROVE  Goal
  BY <1>2, <1>8 DEF Clock, OrderFallsDue, AuthzFallsDue, vars
<1>9. Goal
  BY <1>3, <1>4, <1>5, <1>6, <1>7, <1>8 DEF Next, Step
<1> QED BY <1>9

\* A step announces no order but the one its worker was adding to.
LEMMA WhoIsAnnounced ==
  ASSUME TypeOK, [Next]_vars, NEW o, o \in announced', o \notin announced
  PROVE  \E w \in Worker : AnnounceOrder(w) /\ o = loc[w].order
<1> USE DEF TypeOK
<1>1. ASSUME NEW w \in Worker, Request(w) \/ AuthorizationStep(w) \/ Save(w) \/ Crash(w)
      PROVE  FALSE
  BY <1>1, RequestFrame, AuthorizationFrame, SaveFrame DEF Crash
<1>2. ASSUME NEW w \in Worker, OrderStep(w)
      PROVE  AnnounceOrder(w) /\ o = loc[w].order
  <2>1. AnnounceOrder(w) \/ UNCHANGED announced
    BY <1>2 DEF OrderStep, AddAuthz, InvalidateOrder, OrderPostChecked, LookupOrder,
       LookupAuthzs, SetReady, ProcessPoll, ProcessFinalize, SetProcessing, StoreCsr,
       Enroll, StoreCert, StoreCertError, SetValid, Respond
  <2> QED BY <2>1 DEF AnnounceOrder
<1>3. ASSUME Clock \/ UNCHANGED vars
      PROVE  FALSE
  BY <1>3 DEF Clock, OrderFallsDue, AuthzFallsDue, vars
<1> QED BY <1>1, <1>2, <1>3 DEF Next, Step

\* Announced orders were being added, and rows do not go away.
LEMMA AnnouncedExistsStep ==
  ASSUME TypeOK, TypeOK', Requested, AnnouncedExists, AddingUnannounced, Keeps, [Next]_vars
  PROVE  AnnouncedExists'
<1> SUFFICES ASSUME NEW o \in announced' PROVE orders'[o].status # None
  BY DEF AnnouncedExists
<1>1. o \in Orders
  BY DEF TypeOK, WorkersTypeOK
<1>2. orders[o].status # None
  <2>1. CASE o \in announced
    BY <2>1 DEF AnnouncedExists
  <2>2. CASE o \notin announced
    BY <2>2, WhoIsAnnounced DEF AnnounceOrder, AddingUnannounced
  <2> QED BY <2>1, <2>2
<1> QED BY <1>1, <1>2 DEF Keeps

\* An order gets its authorizations from one request ...
LEMMA AddingApartStep ==
  ASSUME TypeOK, AddingUnannounced, AddingApart, [Next]_vars
  PROVE  AddingApart'
<1> SUFFICES ASSUME NEW v \in Worker, NEW w \in Worker, v # w,
                    pc'[v] = "addAuthz", pc'[w] = "addAuthz"
             PROVE  loc'[v].order # loc'[w].order
  BY DEF AddingApart
<1>1. ASSUME NEW x \in Worker, NEW y \in Worker, x # y, NEW o \in Orders,
             NEW ids \in IdentifierSets, NewOrder(x, o, ids), loc'[x].order = o,
             pc'[y] = "addAuthz"
      PROVE  loc'[y].order # o
  <2>1. pc'[y] = pc[y] /\ loc'[y] = loc[y]
    BY <1>1 DEF NewOrder, Goto, TypeOK, WorkersTypeOK
  <2> QED BY <1>1, <2>1 DEF NewOrder, AddingUnannounced
<1>2. CASE \E o \in Orders, ids \in IdentifierSets : NewOrder(v, o, ids) /\ loc'[v].order = o
  BY <1>1, <1>2
<1>3. CASE \E o \in Orders, ids \in IdentifierSets : NewOrder(w, o, ids) /\ loc'[w].order = o
  BY <1>1, <1>3
<1>4. CASE /\ pc[v] = "addAuthz" /\ loc'[v].order = loc[v].order
           /\ pc[w] = "addAuthz" /\ loc'[w].order = loc[w].order
  BY <1>4 DEF AddingApart
<1> QED BY <1>2, <1>3, <1>4, WhoAdds

\* ... and is announced when it has them.
LEMMA AddingUnannouncedStep ==
  ASSUME TypeOK, Requested, AnnouncedExists, AddingUnannounced, AddingApart, Keeps,
         [Next]_vars
  PROVE  AddingUnannounced'
<1> SUFFICES ASSUME NEW w \in Worker, pc'[w] = "addAuthz"
             PROVE  orders'[loc'[w].order].status # None /\ loc'[w].order \notin announced'
  BY DEF AddingUnannounced
<1>1. ASSUME pc[w] = "addAuthz", loc'[w].order = loc[w].order
      PROVE  orders'[loc'[w].order].status # None /\ loc'[w].order \notin announced'
  <2>1. orders'[loc'[w].order].status # None
    BY <1>1 DEF Requested, NewOrderLabels, AddingUnannounced, Keeps
  <2>2. ASSUME loc[w].order \in announced' PROVE FALSE
    <3>1. PICK v \in Worker : AnnounceOrder(v) /\ loc[w].order = loc[v].order
      BY <1>1, <2>2, WhoIsAnnounced DEF AddingUnannounced
    <3>2. v = w
      BY <1>1, <3>1 DEF AnnounceOrder, AddingApart
    <3> QED BY <3>1, <3>2 DEF AnnounceOrder, Done, Goto, TypeOK, WorkersTypeOK
  <2> QED BY <1>1, <2>1, <2>2
<1>2. ASSUME NEW o \in Orders, NEW ids \in IdentifierSets, NewOrder(w, o, ids),
             order_add(w, o, "pending", ids), loc'[w].order = o
      PROVE  orders'[loc'[w].order].status # None /\ loc'[w].order \notin announced'
  <2>1. orders'[o].status = "pending"
    BY <1>2 DEF order_add, TypeOK, DBTypeOK
  <2>2. o \notin announced /\ UNCHANGED announced
    BY <1>2 DEF NewOrder, AnnouncedExists
  <2> QED BY <1>2, <2>1, <2>2, NoneIsNoStatus DEF OrderStatus
<1> QED BY <1>1, <1>2, WhoAdds

\* A challenge that is added or written belongs to an authorization that exists.
LEMMA ChallengesStep ==
  ASSUME TypeOK, ChallengesHaveAuthz, NamedExist, HeldExists, Keeps, [Next]_vars
  PROVE  ChallengesHaveAuthz'
<1> SUFFICES ASSUME NEW c \in Challenges, chall'[c] # None, chall'[c] # chall[c]
             PROVE  AuthzExists(AuthzOf(c))
  <2>1. \A c \in Challenges : AuthzOf(c) \in Authzs
    BY DEF Challenges, Authzs, AuthzOf
  <2> QED BY <2>1 DEF ChallengesHaveAuthz, Keeps, AuthzExists
<1> USE DEF TypeOK, DBTypeOK
<1>1. ASSUME NEW w \in Worker, AuthorizationStep(w)
      PROVE  AuthzExists(AuthzOf(c))
  <2>1. CASE NewChallenge(w)
    <3>1. AuthzOf(c) = loc[w].az
      BY <2>1 DEF NewChallenge, challenge_add
    <3> QED BY <2>1, <3>1 DEF NewChallenge, NamedExist
  <2>2. CASE UpdateChallenge(w)
    <3>1. c = loc[w].ch
      BY <2>2 DEF UpdateChallenge, challenge_update
    <3> QED BY <2>2, <3>1 DEF UpdateChallenge, NamedExist, ChallengeLabels
  <2>3. NewChallenge(w) \/ UpdateChallenge(w)
    BY <1>1 DEF AuthorizationStep, InvalidateAuthz, AuthzPostChecked, LookupAuthz,
       RefreshAuthz, ReadAuthzStatus, SearchChallenges, CheckChallenge,
       ChallengesChecked, challenge_keyauthorization, UpdateAuthz, dbvars
  <2> QED BY <2>1, <2>2, <2>3
<1>2. ASSUME NEW w \in Worker, OrderStep(w) \/ Request(w) \/ Crash(w)
      PROVE  FALSE
  BY <1>2, OrderFrame, RequestFrame DEF Crash
<1>3. ASSUME NEW w \in Worker, Save(w)
      PROVE  AuthzExists(AuthzOf(c))
  <2>1. held[w].table = "chall" /\ held[w].row = c
    BY <1>3 DEF Save, save
  <2> QED BY <2>1 DEF HeldExists
<1>4. ASSUME Clock \/ UNCHANGED vars
      PROVE  FALSE
  BY <1>4 DEF Clock, OrderFallsDue, AuthzFallsDue, vars
<1> QED BY <1>1, <1>2, <1>3, <1>4 DEF Next, Step

\* A challenge that is held belongs to an authorization that exists.
LEMMA HeldChallenge ==
  ASSUME TypeOK, NamedExist, HeldExists, [Next]_vars, NEW w \in Worker,
         held'[w].table = "chall"
  PROVE  AuthzExists(AuthzOf(held'[w].row))
<1> USE DEF TypeOK, DBTypeOK
<1> DEFINE Goal == AuthzExists(AuthzOf(held'[w].row))
<1>1. ASSUME held'[w] = held[w] PROVE Goal
  BY <1>1 DEF HeldExists
<1>2. ASSUME NEW v \in Worker, held' = [held EXCEPT ![v] = Nothing] PROVE Goal
  BY <1>1, <1>2 DEF Nothing
<1>3. ASSUME NEW v \in Worker, NEW t, NEW row, NEW st, Hold(v, t, row, st), t # "chall"
      PROVE  Goal
  BY <1>1, <1>3 DEF Hold
<1>4. ASSUME NEW v \in Worker, NEW row, NEW st, Hold(v, "chall", row, st),
             AuthzExists(AuthzOf(row))
      PROVE  Goal
  BY <1>1, <1>4 DEF Hold
<1>5. ASSUME NEW v \in Worker, Request(v) PROVE Goal
  BY <1>1, <1>3, <1>5 DEF Request, NewOrder, order_add, OrderPost, AuthzPost, AuthzGet,
     ChallengePost, dbvars
<1>6. ASSUME NEW v \in Worker, AuthorizationStep(v) PROVE Goal
  <2>1. CASE NewChallenge(v)
    <3>1. AuthzExists(loc[v].az)
      BY <2>1 DEF NewChallenge, NamedExist
    <3> QED BY <1>1, <1>4, <2>1, <3>1 DEF NewChallenge, challenge_add
  <2>2. CASE UpdateChallenge(v)
    <3>1. AuthzExists(AuthzOf(loc[v].ch))
      BY <2>2 DEF UpdateChallenge, NamedExist, ChallengeLabels
    <3> QED BY <1>1, <1>4, <2>2, <3>1 DEF UpdateChallenge, challenge_update
  <2>3. CASE ChallengesChecked(v)
    <3>1. loc[v].ch # None => AuthzExists(AuthzOf(loc[v].ch))
      BY DEF NamedExist
    <3> QED BY <1>1, <1>4, <2>3, <3>1 DEF ChallengesChecked, challenge_keyauthorization
  <2>4. CASE InvalidateAuthz(v) \/ UpdateAuthz(v)
    BY <1>1, <1>3, <2>4 DEF InvalidateAuthz, UpdateAuthz, authorization_update
  <2>5. CASE RefreshAuthz(v)
    BY <1>1, <1>3, <2>5 DEF RefreshAuthz, authorization_refresh
  <2>6. CASE UNCHANGED held
    BY <1>1, <2>6
  <2> QED BY <1>6, <2>1, <2>2, <2>3, <2>4, <2>5, <2>6 DEF AuthorizationStep,
             AuthzPostChecked, LookupAuthz, ReadAuthzStatus, SearchChallenges,
             CheckChallenge, dbvars
<1>7. ASSUME NEW v \in Worker, OrderStep(v) PROVE Goal
  <2>1. CASE AddAuthz(v)
    BY <1>1, <1>3, <2>1 DEF AddAuthz, authorization_add
  <2>2. CASE InvalidateOrder(v) \/ SetReady(v) \/ SetProcessing(v) \/ SetValid(v)
    BY <1>1, <1>3, <2>2 DEF InvalidateOrder, SetReady, SetProcessing, SetValid, order_update
  <2>3. CASE UNCHANGED held
    BY <1>1, <2>3
  <2> QED BY <1>7, <2>1, <2>2, <2>3 DEF OrderStep, AnnounceOrder, OrderPostChecked,
             LookupOrder, LookupAuthzs, ProcessPoll, ProcessFinalize, StoreCsr,
             Enroll, StoreCert, StoreCertError, certificate_update, Respond, dbvars
<1>8. ASSUME NEW v \in Worker, Save(v) \/ Crash(v) PROVE Goal
  BY <1>2, <1>8 DEF Save, save, Crash
<1>9. ASSUME Clock \/ UNCHANGED vars PROVE Goal
  BY <1>1, <1>9 DEF Clock, OrderFallsDue, AuthzFallsDue, vars
<1> QED BY <1>5, <1>6, <1>7, <1>8, <1>9 DEF Next, Step

\* What a worker still has to save() is in the table.
LEMMA HeldExistsStep ==
  ASSUME TypeOK, TypeOK', Requested, RefreshingRow, NamedExist, HeldExists, Keeps,
         [Next]_vars
  PROVE  HeldExists'
<1> SUFFICES ASSUME NEW w \in Worker
             PROVE  /\ held'[w].table = "authz" => AuthzExists(held[w].row)'
                    /\ held'[w].table = "chall" => AuthzExists(AuthzOf(held[w].row))'
  BY DEF HeldExists
<1>1. held'[w] \in Held \cup {Nothing}
  BY DEF TypeOK, DBTypeOK
<1>2. ASSUME held'[w].table = "authz" PROVE AuthzExists(held[w].row)'
  <2>1. CASE held'[w] = held[w]
    BY <1>1, <1>2, <2>1 DEF HeldExists, Keeps, AuthzExists, Held, Nothing
  <2>2. CASE Written(w)'
    BY <1>1, <1>2, <2>2, NoneIsNoStatus DEF Written, Held, Nothing, AuthzExists
  <2> QED BY <1>2, <2>1, <2>2, HeldStep DEF HeldKept, Nothing
<1>3. ASSUME held'[w].table = "chall" PROVE AuthzExists(AuthzOf(held[w].row))'
  <2>1. AuthzExists(AuthzOf(held'[w].row))
    BY <1>3, HeldChallenge
  <2>2. AuthzOf(held'[w].row) \in Authzs
    BY <1>1, <1>3 DEF Held, Nothing, AuthzOf, Authzs, Challenges
  <2> QED BY <2>1, <2>2 DEF Keeps, AuthzExists
<1> QED BY <1>2, <1>3

\* NamedExist of one request: it goes on at label with the locals l.
Named(label, l) ==
    /\ \A a \in l.dueAuthzs : AuthzExists(a)
    /\ \A c \in l.challs : AuthzExists(AuthzOf(c))
    /\ (l.ch # None \/ label \in ChallengeLabels \ {"check"}) => AuthzExists(AuthzOf(l.ch))
    /\ label \in {"refreshAuthz", "readStatus", "searchChallenges", "newChallenge"}
          => AuthzExists(l.az)

\* A worker that has not moved names what it named.
LEMMA NamedMove ==
  ASSUME TypeOK, NamedExist, NEW v \in Worker, NEW w \in Worker,
         NEW label, NEW l, Goto(v, label, l), Named(label, l)
  PROVE  Named(pc'[w], loc'[w])
<1>1. CASE w = v
  BY <1>1 DEF Goto, TypeOK, WorkersTypeOK
<1>2. CASE w # v
  BY <1>2 DEF Goto, NamedExist, Named
<1> QED BY <1>1, <1>2

\* A request that is over names nothing.
LEMMA NamedIdle == Named("idle", Idle)
  BY DEF Named, Idle, ChallengeLabels

\* A request that goes on with the same rows names rows that exist.
LEMMA NamedOn ==
  ASSUME NamedExist, TypeOK, NEW v \in Worker, NEW l, NEW label,
         l.dueAuthzs \subseteq loc[v].dueAuthzs, l.challs \subseteq loc[v].challs,
         l.ch = loc[v].ch, l.az = loc[v].az,
         \/ label \in {"idle", "check", "lookupAuthz", "invalidateAuthzs"}
                      \cup NewOrderLabels \cup OrderLabels
         \/ pc[v] \in ChallengeLabels \ {"check"} /\ label \in ChallengeLabels
         \/ /\ pc[v] \in {"refreshAuthz", "readStatus", "searchChallenges", "newChallenge"}
            /\ label \in {"readStatus", "searchChallenges", "newChallenge"}
  PROVE  Named(label, l)
<1>1. /\ \A a \in l.dueAuthzs : AuthzExists(a)
      /\ \A c \in l.challs : AuthzExists(AuthzOf(c))
      /\ l.ch # None => AuthzExists(AuthzOf(l.ch))
  BY DEF NamedExist
<1>2. label \in ChallengeLabels \ {"check"} => AuthzExists(AuthzOf(l.ch))
  BY DEF NamedExist, ChallengeLabels, NewOrderLabels, OrderLabels
<1>3. label \in {"refreshAuthz", "readStatus", "searchChallenges", "newChallenge"}
         => AuthzExists(l.az)
  BY DEF NamedExist, ChallengeLabels, NewOrderLabels, OrderLabels
<1> QED BY <1>1, <1>2, <1>3 DEF Named

\* A step of an order request that is not its last leaves the authorization
\* and the challenges of a request alone.
LEMMA OrderLocals ==
  ASSUME TypeOK, NEW w \in Worker, OrderStep(w), ~ Done(w)
  PROVE  /\ loc'[w].dueAuthzs = loc[w].dueAuthzs /\ loc'[w].challs = loc[w].challs
         /\ loc'[w].ch = loc[w].ch /\ loc'[w].az = loc[w].az
<1> USE DEF TypeOK, WorkersTypeOK
<1>1. CASE \/ AddAuthz(w) \/ InvalidateOrder(w) \/ LookupOrder(w) \/ ProcessPoll(w)
  <2>1. CASE AddAuthz(w)
    BY <2>1 DEF AddAuthz, Goto, Loc
  <2>2. CASE InvalidateOrder(w)
    BY <2>2 DEF InvalidateOrder, Goto, Loc
  <2>3. CASE LookupOrder(w)
    BY <2>3 DEF LookupOrder, Goto, Loc
  <2>4. CASE ProcessPoll(w)
    BY <2>4 DEF ProcessPoll, Goto, Loc
  <2> QED BY <1>1, <2>1, <2>2, <2>3, <2>4
<1>2. ASSUME NEW names, StoreCsr(w, names) \/ StoreCertError(w) \/ SetValid(w)
      PROVE  /\ loc'[w].dueAuthzs = loc[w].dueAuthzs /\ loc'[w].challs = loc[w].challs
             /\ loc'[w].ch = loc[w].ch /\ loc'[w].az = loc[w].az
  BY <1>2 DEF StoreCsr, StoreCertError, SetValid, Goto, Loc
<1>3. CASE Goto(w, pc'[w], loc[w])
  BY <1>3 DEF Goto
<1>4. \/ AddAuthz(w) \/ InvalidateOrder(w) \/ LookupOrder(w) \/ ProcessPoll(w)
      \/ \E names \in CSRs : StoreCsr(w, names)
      \/ StoreCertError(w) \/ SetValid(w)
      \/ Goto(w, pc'[w], loc[w])
  BY DEF OrderStep, AnnounceOrder, OrderPostChecked, LookupAuthzs, SetReady,
     ProcessFinalize, SetProcessing, Enroll, StoreCert, Respond, Goto
<1> QED BY <1>1, <1>2, <1>3, <1>4

\* Every row a request is about to write to was in the table when it was read:
\* the search for expired rows, the lookup and the search for challenges.
LEMMA NamedStep ==
  ASSUME TypeOK, RefreshingRow, ChallengesHaveAuthz, NamedExist,
         [Next]_vars, NEW w \in Worker
  PROVE  Named(pc'[w], loc'[w])
<1> DEFINE Goal == Named(pc'[w], loc'[w])
<1> USE DEF TypeOK, WorkersTypeOK
<1>1. ASSUME UNCHANGED <<pc, loc>> PROVE Goal
  BY <1>1 DEF NamedExist, Named
<1>2. ASSUME NEW v \in Worker, Done(v) PROVE Goal
  BY <1>2, NamedIdle, NamedMove DEF Done
<1>3. ASSUME NEW v \in Worker, NEW o \in Orders, NEW ids \in IdentifierSets, NewOrder(v, o, ids)
      PROVE  Goal
  <2> DEFINE l == [Idle EXCEPT !.order = o, !.adding = ids]
  <2>1. Named("addAuthz", l)
    BY DEF Named, Idle, ChallengeLabels
  <2> HIDE DEF l
  <2>2. Goto(v, "addAuthz", l) \/ UNCHANGED <<pc, loc>>
    BY <1>3 DEF NewOrder, l
  <2> QED BY <1>1, <2>1, <2>2, NamedMove
<1>4. ASSUME NEW v \in Worker, NEW o \in Orders, OrderPost(v, o) PROVE Goal
  <2> DEFINE l == [Idle EXCEPT !.order = o, !.dueOrders = orders_invalid_search]
  <2>1. Named("invalidateOrders", l)
    BY DEF Named, Idle, ChallengeLabels
  <2> HIDE DEF l
  <2>2. Goto(v, "invalidateOrders", l)
    BY <1>4 DEF OrderPost, l
  <2> QED BY <2>1, <2>2, NamedMove
<1>5. ASSUME NEW v \in Worker, NEW a \in Authzs, AuthzPost(v, a) PROVE Goal
  <2> DEFINE l == [Idle EXCEPT !.az = a, !.dueAuthzs = authorizations_expired_search]
  <2>1. Named("invalidateAuthzs", l)
    <3>1. \A b \in authorizations_expired_search : AuthzExists(b)
      BY DEF authorizations_expired_search, AuthzExists
    <3>2. l.dueAuthzs = authorizations_expired_search /\ l.challs = {} /\ l.ch = None
      BY DEF Idle
    <3> QED BY <3>1, <3>2 DEF Named, ChallengeLabels
  <2> HIDE DEF l
  <2>2. Goto(v, "invalidateAuthzs", l)
    BY <1>5 DEF AuthzPost, l
  <2> QED BY <2>1, <2>2, NamedMove
<1>6. ASSUME NEW v \in Worker, NEW a \in Authzs, AuthzGet(v, a) PROVE Goal
  <2> DEFINE l == [Idle EXCEPT !.az = a]
  <2>1. Named("lookupAuthz", l)
    BY DEF Named, Idle, ChallengeLabels
  <2> HIDE DEF l
  <2>2. Goto(v, "lookupAuthz", l)
    BY <1>6 DEF AuthzGet, l
  <2> QED BY <2>1, <2>2, NamedMove
<1>7. ASSUME NEW v \in Worker, NEW c \in Challenges, ChallengePost(v, c) PROVE Goal
  <2> DEFINE l == [Idle EXCEPT !.challs = {c}]
  <2>1. Named("check", l)
    <3>1. AuthzExists(AuthzOf(c))
      BY <1>7 DEF ChallengePost, ChallengesHaveAuthz
    <3>2. l.dueAuthzs = {} /\ l.challs = {c} /\ l.ch = None
      BY DEF Idle
    <3> QED BY <3>1, <3>2 DEF Named
  <2> HIDE DEF l
  <2>2. Goto(v, "check", l)
    BY <1>7 DEF ChallengePost, l
  <2> QED BY <2>1, <2>2, NamedMove
<1>8. ASSUME NEW v \in Worker, AuthorizationStep(v), ~ Done(v) PROVE Goal
  <2>1. CASE InvalidateAuthz(v)
    <3>1. PICK a : Goto(v, "invalidateAuthzs", [loc[v] EXCEPT !.dueAuthzs = @ \ {a}])
      BY <2>1 DEF InvalidateAuthz
    <3> DEFINE l == [loc[v] EXCEPT !.dueAuthzs = @ \ {a}]
    <3>2. l.dueAuthzs \subseteq loc[v].dueAuthzs /\ l.challs = loc[v].challs
          /\ l.ch = loc[v].ch /\ l.az = loc[v].az
      BY DEF Loc
    <3> HIDE DEF l
    <3>3. Named("invalidateAuthzs", l)
      BY <3>2, NamedOn
    <3> QED BY <3>1, <3>3, NamedMove DEF l
  <2>2. CASE AuthzPostChecked(v)
    <3>1. Goto(v, "lookupAuthz", loc[v])
      BY <1>8, <2>2 DEF AuthzPostChecked
    <3> QED BY <3>1, NamedOn, NamedMove
  <2>3. CASE LookupAuthz(v)
    <3>1. Goto(v, "refreshAuthz", loc[v]) /\ AuthzExists(loc[v].az)
      BY <1>8, <2>3 DEF LookupAuthz, AuthzExists
    <3>2. pc[v] = "lookupAuthz"
      BY <2>3 DEF LookupAuthz
    <3>3. Named("refreshAuthz", loc[v])
      BY <3>1, <3>2 DEF Named, NamedExist, ChallengeLabels
    <3> QED BY <3>1, <3>3, NamedMove
  <2>4. CASE RefreshAuthz(v)
    <3>1. Goto(v, "readStatus", loc[v]) /\ pc[v] = "refreshAuthz"
      BY <2>4 DEF RefreshAuthz
    <3> QED BY <3>1, NamedOn, NamedMove
  <2>5. CASE ReadAuthzStatus(v)
    <3> DEFINE l == [loc[v] EXCEPT !.seen = authz[loc[v].az].status]
    <3>1. l.dueAuthzs = loc[v].dueAuthzs /\ l.challs = loc[v].challs
          /\ l.ch = loc[v].ch /\ l.az = loc[v].az
      BY DEF Loc
    <3> HIDE DEF l
    <3>2. Goto(v, "searchChallenges", l) /\ pc[v] = "readStatus"
      BY <1>8, <2>5 DEF ReadAuthzStatus, l
    <3>3. Named("searchChallenges", l)
      BY <3>1, <3>2, NamedOn
    <3> QED BY <3>2, <3>3, NamedMove
  <2>6. CASE SearchChallenges(v)
    <3>1. CASE Goto(v, "newChallenge",
                    [loc[v] EXCEPT !.types = challenge_types(loc[v].az)])
      <4> DEFINE l == [loc[v] EXCEPT !.types = challenge_types(loc[v].az)]
      <4>1. l.dueAuthzs = loc[v].dueAuthzs /\ l.challs = loc[v].challs
            /\ l.ch = loc[v].ch /\ l.az = loc[v].az
        BY DEF Loc
      <4> HIDE DEF l
      <4>2. pc[v] = "searchChallenges"
        BY <2>6 DEF SearchChallenges
      <4>3. Named("newChallenge", l)
        BY <4>1, <4>2, NamedOn
      <4> QED BY <3>1, <4>3, NamedMove DEF l
    <3>2. ASSUME NEW cs, \A c \in cs : c \in challenges_search(loc[v].az),
                 Goto(v, "check", [loc[v] EXCEPT !.challs = cs])
          PROVE  Goal
      <4> DEFINE l == [loc[v] EXCEPT !.challs = cs]
      <4>1. l.dueAuthzs = loc[v].dueAuthzs /\ l.challs = cs
            /\ l.ch = loc[v].ch /\ l.az = loc[v].az
        BY DEF Loc
      <4> HIDE DEF l
      <4>2. \A c \in cs : AuthzExists(AuthzOf(c))
        BY <3>2 DEF challenges_search, ChallengesHaveAuthz
      <4>3. Named("check", l)
        BY <4>1, <4>2 DEF Named, NamedExist
      <4> QED BY <3>2, <4>3, NamedMove DEF l
    <3>3. CASE \E last \in [{c[3] : c \in challenges_search(loc[v].az)} ->
                                challenges_search(loc[v].az)] :
                  Goto(v, "check", [loc[v] EXCEPT
                     !.challs = {last[t] : t \in {c[3] : c \in challenges_search(loc[v].az)}}])
      <4>1. PICK last \in [{c[3] : c \in challenges_search(loc[v].az)} ->
                                challenges_search(loc[v].az)] :
                  Goto(v, "check", [loc[v] EXCEPT
                     !.challs = {last[t] : t \in {c[3] : c \in challenges_search(loc[v].az)}}])
        BY <3>3
      <4> DEFINE cs == {last[t] : t \in {c[3] : c \in challenges_search(loc[v].az)}}
      <4>2. \A c \in cs : c \in challenges_search(loc[v].az)
        OBVIOUS
      <4> QED BY <3>2, <4>1, <4>2
    <3> QED BY <1>8, <2>6, <3>1, <3>3 DEF SearchChallenges
  <2>7. CASE NewChallenge(v)
    <3>1. PICK t : Goto(v, "newChallenge", [loc[v] EXCEPT !.types = @ \ {t}])
      BY <1>8, <2>7 DEF NewChallenge
    <3> DEFINE l == [loc[v] EXCEPT !.types = @ \ {t}]
    <3>2. l.dueAuthzs = loc[v].dueAuthzs /\ l.challs = loc[v].challs
          /\ l.ch = loc[v].ch /\ l.az = loc[v].az
      BY DEF Loc
    <3> HIDE DEF l
    <3>3. pc[v] = "newChallenge"
      BY <2>7 DEF NewChallenge
    <3>4. Named("newChallenge", l)
      BY <3>2, <3>3, NamedOn
    <3> QED BY <3>1, <3>4, NamedMove DEF l
  <2>8. ASSUME NEW c \in Challenges, NEW outcome \in {"ok", "fail", "invalid"},
               CheckChallenge(v, c, outcome)
        PROVE  Goal
    <3> DEFINE l == [loc[v] EXCEPT !.challs = loc[v].challs \ {c}, !.ch = c]
    <3>1. l.dueAuthzs = loc[v].dueAuthzs /\ l.challs \subseteq loc[v].challs
          /\ l.ch = c
      BY DEF Loc
    <3> HIDE DEF l
    <3>2. PICK label \in ChallengeLabels : Goto(v, label, l)
      BY <2>8 DEF CheckChallenge, ChallengeLabels, l
    <3>3. AuthzExists(AuthzOf(c))
      BY <2>8 DEF CheckChallenge, NamedExist
    <3>4. Named(label, l)
      BY <3>1, <3>2, <3>3 DEF Named, NamedExist, ChallengeLabels
    <3> QED BY <3>2, <3>4, NamedMove
  <2>9. CASE ChallengesChecked(v)
    BY <1>8, <2>9 DEF ChallengesChecked
  <2>10. CASE UpdateChallenge(v)
    <3>1. PICK label \in {"authzValid", "authzInvalid"} : Goto(v, label, loc[v])
      BY <2>10 DEF UpdateChallenge
    <3>2. pc[v] \in ChallengeLabels \ {"check"} /\ label \in ChallengeLabels
      BY <2>10 DEF UpdateChallenge, ChallengeLabels
    <3>3. Named(label, loc[v])
      BY <3>2, NamedOn
    <3> QED BY <3>1, <3>3, NamedMove
  <2>11. CASE UpdateAuthz(v)
    <3>1. Goto(v, "check", loc[v])
      BY <2>11 DEF UpdateAuthz
    <3> QED BY <3>1, NamedOn, NamedMove
  <2> QED BY <1>8, <2>1, <2>2, <2>3, <2>4, <2>5, <2>6, <2>7, <2>8, <2>9, <2>10, <2>11
             DEF AuthorizationStep
<1>9. ASSUME NEW v \in Worker, OrderStep(v), ~ Done(v) PROVE Goal
  <2>1. ASSUME NEW label \in NewOrderLabels \cup OrderLabels, NEW l, Goto(v, label, l),
               l.dueAuthzs = loc[v].dueAuthzs, l.challs = loc[v].challs,
               l.ch = loc[v].ch, l.az = loc[v].az
        PROVE  Goal
    <3>1. Named(label, l)
      BY <2>1, NamedOn
    <3> QED BY <2>1, <3>1, NamedMove
  <2>2. /\ pc'[v] \in NewOrderLabels \cup OrderLabels
        /\ Goto(v, pc'[v], loc'[v])
    BY <1>9 DEF OrderStep, AddAuthz, AnnounceOrder, InvalidateOrder, OrderPostChecked,
       LookupOrder, LookupAuthzs, SetReady, ProcessPoll, ProcessFinalize,
       SetProcessing, StoreCsr, Enroll, StoreCert, StoreCertError, SetValid, Respond,
       Goto, AfterLookup, NewOrderLabels, OrderLabels
  <2>3. /\ loc'[v].dueAuthzs = loc[v].dueAuthzs /\ loc'[v].challs = loc[v].challs
        /\ loc'[v].ch = loc[v].ch /\ loc'[v].az = loc[v].az
    BY <1>9, OrderLocals
  <2> QED BY <2>1, <2>2, <2>3
<1>10. ASSUME NEW v \in Worker, Save(v) \/ Crash(v) PROVE Goal
  BY <1>1, <1>2, <1>10 DEF Save, Crash
<1>11. ASSUME Clock \/ UNCHANGED vars PROVE Goal
  BY <1>1, <1>11 DEF Clock, OrderFallsDue, AuthzFallsDue, vars
<1>12. ASSUME NEW v \in Worker, Request(v) PROVE Goal
  BY <1>3, <1>4, <1>5, <1>6, <1>7, <1>12 DEF Request
<1> QED BY <1>2, <1>8, <1>9, <1>10, <1>11, <1>12 DEF Next, Step

\* The rows a request names stay in the table.
LEMMA NamedExistStep ==
  ASSUME TypeOK, TypeOK', Requested', RefreshingRow, ChallengesHaveAuthz, NamedExist, Keeps,
         [Next]_vars
  PROVE  NamedExist'
<1> SUFFICES ASSUME NEW w \in Worker
             PROVE  /\ \A a \in loc'[w].dueAuthzs : AuthzExists(a)'
                    /\ \A c \in loc'[w].challs : AuthzExists(AuthzOf(c))'
                    /\ (loc'[w].ch # None \/ pc'[w] \in ChallengeLabels \ {"check"})
                          => AuthzExists(AuthzOf(loc[w].ch))'
                    /\ pc'[w] \in {"refreshAuthz", "readStatus", "searchChallenges",
                                   "newChallenge"}
                          => AuthzExists(loc[w].az)'
  BY DEF NamedExist
<1>1. Named(pc'[w], loc'[w])
  BY NamedStep
<1>2. \A a \in Authzs : AuthzExists(a) => AuthzExists(a)'
  BY DEF Keeps, AuthzExists
<1>3. \A c \in Challenges : AuthzOf(c) \in Authzs
  BY DEF Challenges, Authzs, AuthzOf
<1>4. /\ loc'[w].dueAuthzs \subseteq Authzs
      /\ loc'[w].challs \subseteq Challenges
      /\ loc'[w].ch \in Challenges \cup {None}
  BY DEF TypeOK, WorkersTypeOK, Loc
<1>5. /\ pc'[w] \in ChallengeLabels \ {"check"} => loc'[w].ch \in Challenges
      /\ pc'[w] \in {"refreshAuthz", "readStatus", "searchChallenges", "newChallenge"}
            => loc'[w].az \in Authzs
  BY DEF Requested, ChallengeLabels, AuthzLabels
<1> QED BY <1>1, <1>2, <1>3, <1>4, <1>5 DEF Named

\* A worker that moves an order on goes on with the order it read.
LEMMA MovingRowsKept ==
  ASSUME RowsInv, Keeps, [Next]_vars, MovingStays
  PROVE  MovingRows'
<1> SUFFICES ASSUME NEW v \in Worker, pc'[v] \in MovingLabels
             PROVE  RowsCleared(loc[v].order)'
  BY DEF MovingRows
<1>1. pc[v] \in MovingLabels /\ loc'[v].order = loc[v].order
  BY DEF MovingStays
<1>2. loc[v].order \in announced
  BY <1>1 DEF MovingLabels, OrderLabels, OrderAnnounced, RowsInv
<1>3. RowsCleared(loc[v].order)
  BY <1>1 DEF MovingRows, RowsInv
<1>4. RowsCleared(loc[v].order)'
  BY <1>2, <1>3, <1>1, ClearedStays DEF RowsCleared, authorization_lookup
<1> QED BY <1>4

\* Reading every row of an order as valid clears it, whatever else has failed:
\* what is read as no row at all never makes an order ready.
LEMMA MovingRowsStep ==
  ASSUME RowsInv, Keeps, [Next]_vars
  PROVE  MovingRows'
<1> USE DEF RowsInv, TypeOK, WorkersTypeOK
<1>1. ASSUME NEW w \in Worker, LookupAuthzs(w)
      PROVE  MovingRows'
  <2>0. loc' = loc /\ UNCHANGED <<authz, passed>>
        /\ \A v \in Worker \ {w} : pc'[v] = pc[v]
    BY <1>1 DEF LookupAuthzs, Goto, dbvars
  <2>1. CASE AllAuthzsValid(loc[w].order)
    <3>1. RowsCleared(loc[w].order)
      BY <2>1 DEF AllAuthzsValid, authorization_lookup, ValidAuthzProved, RowsCleared
    <3>2. \A v \in Worker : pc'[v] \in MovingLabels => RowsCleared(loc[v].order)
      BY <2>0, <3>1 DEF MovingRows
    <3> QED BY <2>0, <3>2 DEF MovingRows, RowsCleared, authorization_lookup, Proved
  <2>2. CASE ~ AllAuthzsValid(loc[w].order)
    <3>1. pc'[w] \in {"respond", "process"}
      BY <1>1, <2>2 DEF LookupAuthzs, AfterLookup, Goto
    <3>2. MovingStays
      BY <2>0, <3>1 DEF MovingStays, MovingLabels
    <3> QED BY <3>2, MovingRowsKept
  <2> QED BY <2>1, <2>2
<1>2. ASSUME NEW w \in Worker, ProcessFinalize(w)
      PROVE  MovingRows'
  <2>1. /\ UNCHANGED <<authz, passed>>
        /\ \A v \in Worker \ {w} : pc'[v] = pc[v] /\ loc'[v] = loc[v]
    BY <1>2 DEF ProcessFinalize, Goto, Done, dbvars
  <2>2. CASE orders[loc[w].order].status = "ready" /\ loc' = loc
    <3>1. loc[w].order \in Orders
      BY <1>2 DEF ProcessFinalize, Requested, OrderLabels
    <3>2. RowsCleared(loc[w].order)
      BY <2>2, <3>1 DEF PastRows, Past, Advanced
    <3>3. \A v \in Worker : pc'[v] \in MovingLabels => RowsCleared(loc[v].order)
      BY <2>1, <3>2 DEF MovingRows
    <3> QED BY <2>1, <2>2, <3>3 DEF MovingRows, RowsCleared, authorization_lookup, Proved
  <2>3. CASE pc'[w] = "idle"
    <3>1. MovingStays
      BY <2>1, <2>3 DEF MovingStays, MovingLabels
    <3> QED BY <3>1, MovingRowsKept
  <2> QED BY <1>2, <2>2, <2>3 DEF ProcessFinalize, Goto, Done
<1>3. CASE \A w \in Worker : ~ LookupAuthzs(w) /\ ~ ProcessFinalize(w)
  BY <1>3, MovingFrame, MovingRowsKept
<1> QED BY <1>1, <1>2, <1>3

\* An order becomes ready, processing or valid by the hand of a worker that has
\* read it cleared, or by a save() of one.
LEMMA WhoMoves ==
  ASSUME TypeOK, Requested, HeldRows, MovingRows, OrderAnnounced, [Next]_vars,
         NEW o \in Orders, Past(o)', ~ Past(o)
  PROVE  o \in announced /\ RowsCleared(o)
<1> DEFINE Goal == o \in announced /\ RowsCleared(o)
<1> USE NoneIsNoStatus DEF TypeOK, DBTypeOK, Past, Advanced, OrderStatus
<1>1. ASSUME NEW w \in Worker, Request(w) PROVE Goal
  <2>1. \A ids : order_add(w, o, "pending", ids) \/ order_add(w, o, "invalid", ids)
           => ~ Past(o)'
    BY DEF order_add, OrderRow
  <2>2. \A p \in Orders : \A ids, st :
           order_add(w, p, st, ids) /\ p # o => orders'[o] = orders[o]
    BY DEF order_add
  <2> QED BY <1>1, <2>1, <2>2 DEF Request, NewOrder, OrderPost, AuthzPost, AuthzGet,
             ChallengePost, dbvars
<1>2. ASSUME NEW w \in Worker, AuthorizationStep(w) \/ Crash(w) PROVE Goal
  BY <1>2, AuthorizationFrame DEF Crash
<1>3. ASSUME NEW w \in Worker, OrderStep(w) PROVE Goal
  <2>1. CASE InvalidateOrder(w)
    <3>1. PICK p \in Orders : order_update(w, p, "invalid")
      BY <2>1 DEF InvalidateOrder, WorkersTypeOK, Loc
    <3> QED BY <3>1 DEF order_update, OrderRow
  <2>2. CASE SetReady(w) \/ SetProcessing(w) \/ SetValid(w)
    <3>1. pc[w] \in MovingLabels /\ pc[w] \in OrderLabels \ {"invalidateOrders"}
      BY <2>2 DEF SetReady, SetProcessing, SetValid, MovingLabels, OrderLabels
    <3>2. loc[w].order = o
      BY <2>2 DEF SetReady, SetProcessing, SetValid, order_update
    <3> QED BY <3>1, <3>2 DEF MovingRows, OrderAnnounced
  <2>3. CASE UNCHANGED orders
    BY <2>3
  <2> QED BY <1>3, <2>1, <2>2, <2>3 DEF OrderStep, AddAuthz, AnnounceOrder,
             OrderPostChecked, LookupOrder, LookupAuthzs, ProcessPoll, ProcessFinalize,
             StoreCsr, Enroll, StoreCert, StoreCertError, Respond, dbvars
<1>4. ASSUME NEW w \in Worker, Save(w) PROVE Goal
  BY <1>4, SaveRows DEF HeldRows
<1>5. ASSUME Clock \/ UNCHANGED vars PROVE Goal
  BY <1>5 DEF Clock, OrderFallsDue, AuthzFallsDue, OrderRow, vars
<1> QED BY <1>1, <1>2, <1>3, <1>4, <1>5 DEF Next, Step

\* An order past pending is announced and cleared.
LEMMA PastRowsStep ==
  ASSUME RowsInv, Keeps, [Next]_vars
  PROVE  PastRows'
<1> SUFFICES ASSUME NEW o \in Orders, Past(o)'
             PROVE  o \in announced' /\ RowsCleared(o)'
  BY DEF PastRows
<1>1. o \in announced /\ RowsCleared(o)
  BY WhoMoves DEF RowsInv, PastRows
<1> QED BY <1>1, ClearedStays DEF Keeps

\* What is held was written, or held before.
LEMMA HeldRowsStep ==
  ASSUME RowsInv, Keeps, TypeOK', PastRows', [Next]_vars
  PROVE  HeldRows'
<1> SUFFICES ASSUME NEW w \in Worker,
                    held'[w].table = "orders", held'[w].status \in Advanced
             PROVE  held'[w].row \in announced' /\ RowsCleared(held[w].row)'
  BY DEF HeldRows
<1>1. CASE held'[w] = held[w]
  <2>1. held[w].row \in announced /\ RowsCleared(held[w].row)
    BY <1>1 DEF RowsInv, HeldRows
  <2>2. RowsCleared(held[w].row)'
    BY <1>1, <2>1, ClearedStays DEF RowsCleared, authorization_lookup
  <2> QED BY <1>1, <2>1, <2>2 DEF Keeps
<1>2. CASE held'[w] = Nothing
  BY <1>2 DEF Nothing
<1>3. CASE Written(w)'
  <2>1. held'[w] \in Held \cup {Nothing}
    BY DEF TypeOK, DBTypeOK
  <2>2. held'[w].row \in Orders /\ orders'[held'[w].row].status \in Advanced
    BY <1>3, <2>1 DEF Written, Held, Nothing
  <2>3. \A o \in Orders : orders'[o].status \in Advanced =>
           o \in announced' /\ RowsCleared(o)'
    BY DEF PastRows, Past
  <2>4. RowsCleared(held[w].row)'
    BY <2>2, <2>3 DEF RowsCleared, authorization_lookup
  <2> QED BY <2>2, <2>3, <2>4
<1> QED BY <1>1, <1>2, <1>3, HeldStep DEF HeldKept, RowsInv

-----------------------------------------------------------------------------
(* The theorem.                                                            *)

\* The empty database and the idle workers satisfy the invariant.
LEMMA RowsInit == Init => RowsInv
<1> SUFFICES ASSUME Init PROVE RowsInv
  OBVIOUS
<1>1. /\ TypeOK /\ Requested /\ RefreshingRow /\ OrderAnnounced
      /\ ValidAuthzProved /\ ValidatingChecked
  BY InitInv DEF IInv
<1> USE DEF Init, DBInit, WorkersInit
<1>2. AnnouncedExists /\ AddingUnannounced /\ AddingApart /\ MovingRows
  BY DEF AnnouncedExists, AddingUnannounced, AddingApart, MovingRows, MovingLabels
<1>3. ChallengesHaveAuthz /\ HeldExists /\ HeldProved /\ HeldRows
  BY DEF ChallengesHaveAuthz, HeldExists, HeldProved, HeldRows, Nothing
<1>4. NamedExist
  BY DEF NamedExist, Idle, ChallengeLabels
<1>5. PastRows
  BY NoneIsNoStatus DEF PastRows, Past, Advanced, OrderStatus
<1> QED BY <1>1, <1>2, <1>3, <1>4, <1>5 DEF RowsInv

\* Every step keeps the invariant, whatever the database does.
LEMMA RowsStep ==
  ASSUME RowsInv, [Next]_vars
  PROVE  RowsInv'
<1>1. TypeOK' /\ Requested' /\ RefreshingRow' /\ Keeps
  BY StepType, RequestedStep, RefreshingStep, KeepsStep DEF RowsInv
<1>2. OrderAnnounced'
  BY <1>1, OrderAnnouncedStep DEF RowsInv
<1>3. AnnouncedExists'
  BY <1>1, AnnouncedExistsStep DEF RowsInv
<1>4. AddingUnannounced' /\ AddingApart'
  BY <1>1, AddingUnannouncedStep, AddingApartStep DEF RowsInv
<1>5. ChallengesHaveAuthz'
  BY <1>1, ChallengesStep DEF RowsInv
<1>6. NamedExist'
  BY <1>1, NamedExistStep DEF RowsInv
<1>7. HeldExists'
  BY <1>1, HeldExistsStep DEF RowsInv
<1>8. ValidAuthzProved'
  BY <1>1, ValidAuthzStep DEF RowsInv
<1>9. ValidatingChecked'
  BY <1>1, ValidatingStep DEF RowsInv
<1>10. HeldProved'
  BY <1>1, <1>8, HeldProvedStep DEF RowsInv, Keeps
<1>11. MovingRows'
  BY <1>1, MovingRowsStep
<1>12. PastRows'
  BY <1>1, PastRowsStep
<1>13. HeldRows'
  BY <1>1, <1>12, HeldRowsStep
<1> QED BY <1>1, <1>2, <1>3, <1>4, <1>5, <1>6, <1>7, <1>8, <1>9, <1>10, <1>11,
           <1>12, <1>13 DEF RowsInv

\* The rows' invariant holds in every state: with a database that fails or one
\* that does not, for any number of workers and of orders.
THEOREM RowsInvariance == Spec => []RowsInv
<1>1. RowsInv /\ [Next]_vars => RowsInv'
  BY RowsStep
<1> QED BY RowsInit, <1>1, PTL DEF Spec

\* An order that got as far as ready has authorizations, and each of them was
\* proved by a check that succeeded, whichever database calls failed.
THEOREM ReadyRowsProved == Spec => []ReadyOrdersRowsProved
<1>1. RowsInv => ReadyOrdersRowsProved
  BY DEF RowsInv, PastRows, RowsCleared, ReadyOrdersRowsProved
<1> QED BY RowsInvariance, <1>1, PTL
=============================================================================
