-------------------------- MODULE OneWorker_proofs --------------------------
(***************************************************************************)
(* What the server promises when one worker handles all requests, over a   *)
(* database that answers, with any number of kills.  Several workers break *)
(* most of these (the runs lost_decision and double_finalize show two of   *)
(* them), because what one has read and not yet used, or written and not   *)
(* yet saved, another changes.  The invariant says of each label what the  *)
(* tables still are at that point of the request.                          *)
(***************************************************************************)
EXTENDS DBFaults_proofs, FiniteSetTheorems

-----------------------------------------------------------------------------
(* What the steps of one worker leave alone.                               *)

\* save() changes nothing when what is held is what is in the table.
LEMMA SaveQuiet ==
  ASSUME ~ DBMayFail, TypeOK, HeldCurrent, NEW w \in Worker, Save(w)
  PROVE  /\ UNCHANGED <<orders, authz, chall, certs, pc, loc, announced, passed, crashes>>
         /\ held' = [held EXCEPT ![w] = Nothing]
<1> USE DEF TypeOK, DBTypeOK
<1>1. save(w) /\ UNCHANGED <<pc, loc, announced, passed, crashes>>
  BY DEF Save
<1>2. held[w] \in Held \cup {Nothing}
  OBVIOUS
<1>3. CASE held[w].table = "orders"
  <2>1. /\ held[w].row \in Orders
        /\ orders[held[w].row].status = held[w].status
    BY <1>2, <1>3 DEF Held, Nothing, HeldCurrent, Written
  <2>2. [orders[held[w].row] EXCEPT !.status = held[w].status] = orders[held[w].row]
    BY <2>1 DEF OrderRow
  <2>3. /\ orders' = [orders EXCEPT ![held[w].row].status = held[w].status]
        /\ UNCHANGED <<authz, chall, certs>> /\ held' = [held EXCEPT ![w] = Nothing]
    BY <1>1, <1>3 DEF save
  <2> QED BY <1>1, <2>1, <2>2, <2>3
<1>4. CASE held[w].table = "authz"
  <2>1. /\ held[w].row \in Authzs
        /\ authz[held[w].row].status = held[w].status
    BY <1>2, <1>4 DEF Held, Nothing, HeldCurrent, Written
  <2>2. [authz[held[w].row] EXCEPT !.status = held[w].status] = authz[held[w].row]
    BY <2>1 DEF AuthzRow
  <2>3. /\ authz' = [authz EXCEPT ![held[w].row].status = held[w].status]
        /\ UNCHANGED <<orders, chall, certs>> /\ held' = [held EXCEPT ![w] = Nothing]
    BY <1>1, <1>4 DEF save
  <2> QED BY <1>1, <2>1, <2>2, <2>3
<1>5. CASE held[w].table = "chall"
  <2>1. /\ held[w].row \in Challenges
        /\ chall[held[w].row] = held[w].status
    BY <1>2, <1>5 DEF Held, Nothing, HeldCurrent
  <2>2. /\ chall' = [chall EXCEPT ![held[w].row] = held[w].status]
        /\ UNCHANGED <<orders, authz, certs>> /\ held' = [held EXCEPT ![w] = Nothing]
    BY <1>1, <1>5 DEF save
  <2> QED BY <1>1, <2>1, <2>2
<1> QED BY <1>1, <1>3, <1>4, <1>5 DEF save

\* A step that is only about time, or about nothing.
Quiet ==
    /\ \A o \in Orders : orders'[o].status = orders[o].status
    /\ \A a \in Authzs : authz'[a].status = authz[a].status
    /\ UNCHANGED <<chall, certs, pc, loc, crashes>>

\* Time, and save(), are such steps.
LEMMA QuietSteps ==
  ASSUME ~ DBMayFail, TypeOK, HeldCurrent,
         Clock \/ UNCHANGED vars \/ \E w \in Worker : Save(w)
  PROVE  Quiet
<1> USE DEF TypeOK, DBTypeOK
<1>1. CASE \E w \in Worker : Save(w)
  BY <1>1, SaveQuiet DEF Quiet
<1>2. CASE Clock
  BY <1>2 DEF Clock, OrderFallsDue, AuthzFallsDue, OrderRow, AuthzRow, Quiet
<1>3. CASE UNCHANGED vars
  BY <1>3 DEF vars, Quiet
<1> QED BY <1>1, <1>2, <1>3

\* A step of w that no conjunct about orders and certificates sees.
OrderQuiet(w) ==
    /\ \A o \in Orders : orders'[o].status = orders[o].status
    /\ UNCHANGED certs
    /\ pc'[w] \notin OrderLabels \/ (pc'[w] = pc[w] /\ loc'[w] = loc[w])

\* The steps that do concern them: those of an order request, and Order.new.
OrderAction(w) ==
    \/ \E o \in Orders, ids \in IdentifierSets : NewOrder(w, o, ids)
    \/ \E o \in Orders : OrderPost(w, o)
    \/ InvalidateOrder(w) \/ OrderPostChecked(w) \/ LookupOrder(w) \/ LookupAuthzs(w)
    \/ SetReady(w) \/ ProcessPoll(w) \/ ProcessFinalize(w) \/ SetProcessing(w)
    \/ \E names \in CSRs : StoreCsr(w, names)
    \/ Enroll(w) \/ StoreCert(w) \/ StoreCertError(w) \/ SetValid(w)

\* Every step is of one of the two kinds.
LEMMA OrderCases ==
  ASSUME NEW w, Worker = {w}, ~ DBMayFail, TypeOK, HeldCurrent, [Next]_vars
  PROVE  OrderAction(w) \/ OrderQuiet(w)
<1> DEFINE Goal == OrderAction(w) \/ OrderQuiet(w)
<1> USE DEF TypeOK
<1>1. CASE Quiet
  BY <1>1 DEF Quiet, OrderQuiet
<1>2. ASSUME Request(w) PROVE Goal
  <2>1. ASSUME NEW label \in {"invalidateAuthzs", "lookupAuthz", "check"}, NEW l,
               Goto(w, label, l), UNCHANGED dbvars
        PROVE  OrderQuiet(w)
    BY <2>1 DEF Goto, OrderQuiet, dbvars, OrderLabels, WorkersTypeOK
  <2> QED BY <1>2, <2>1 DEF Request, OrderAction, AuthzPost, AuthzGet, ChallengePost
<1>3. ASSUME AuthorizationStep(w) PROVE OrderQuiet(w)
  BY <1>3, AuthorizationFrame DEF Moves, OrderQuiet, OrderLabels, AuthzLabels,
     ChallengeLabels, WorkersTypeOK
<1>4. ASSUME OrderStep(w) PROVE Goal
  <2>1. CASE AddAuthz(w) \/ AnnounceOrder(w) \/ Respond(w)
    BY <2>1 DEF AddAuthz, AnnounceOrder, Respond, Goto, Done, OrderQuiet, OrderLabels,
       WorkersTypeOK, dbvars
  <2> QED BY <1>4, <2>1 DEF OrderStep, OrderAction
<1>5. ASSUME Crash(w) PROVE OrderQuiet(w)
  BY <1>5 DEF Crash, Done, Goto, OrderQuiet, OrderLabels, WorkersTypeOK
<1> QED BY <1>1, <1>2, <1>3, <1>4, <1>5, QuietSteps DEF Next, Step

\* A step of w that no conjunct about authorizations and challenges sees: it
\* neither is nor begins a step of new_set or of a validation.
SetLabels == {"newChallenge", "challValid", "challInvalid", "authzValid", "authzInvalid"}

AuthzQuiet(w) ==
    /\ UNCHANGED <<chall, crashes>>
    /\ \A a \in Authzs :
          \/ authz'[a].status = authz[a].status
          \/ authz[a].status = None /\ authz'[a].status = "pending"
          \/ authz'[a].status = "expired"
    /\ \/ UNCHANGED <<pc, loc>>
       \/ /\ pc[w] \notin SetLabels
          /\ pc'[w] \notin SetLabels
          /\ loc'[w].challs \subseteq loc[w].challs
          /\ loc'[w].ch \in {loc[w].ch, None}

\* The steps that do concern them.
AuthzAction(w) ==
    \/ \E c \in Challenges : ChallengePost(w, c)
    \/ SearchChallenges(w) \/ NewChallenge(w)
    \/ \E c \in Challenges, outcome \in {"ok", "fail", "invalid"} :
          CheckChallenge(w, c, outcome)
    \/ UpdateChallenge(w) \/ UpdateAuthz(w) \/ Crash(w)

\* Whoever is adding an authorization adds one that is missing.
LEMMA AddingIsNew ==
  ASSUME TypeOK, Requested, AuthzHasOrder, NEW w \in Worker, AddAuthz(w), ~ DBMayFail,
         NEW a \in Authzs
  PROVE  \/ authz'[a].status = authz[a].status
         \/ /\ authz[a].status = None /\ authz'[a].status = "pending"
            /\ a[1] = loc[w].order /\ a[2] \in loc[w].adding
            /\ loc'[w].adding = loc[w].adding \ {a[2]}
<1> USE DEF TypeOK, DBTypeOK, WorkersTypeOK
<1>1. PICK i \in loc[w].adding :
         /\ authorization_add(w, <<loc[w].order, i>>)
         /\ Goto(w, "addAuthz", [loc[w] EXCEPT !.adding = @ \ {i}])
  BY DEF AddAuthz
<1>2. authz' = [authz EXCEPT ![<<loc[w].order, i>>] = [status |-> "pending", due |-> FALSE]]
  BY <1>1 DEF authorization_add
<1>3. CASE a = <<loc[w].order, i>>
  <2>1. a[1] = loc[w].order /\ a[2] = i
    BY <1>3
  <2>2. authz'[a].status = "pending"
    BY <1>2, <1>3
  <2>3. authz[a].status = None
    BY <2>1 DEF AuthzHasOrder, AuthzExists, AddAuthz
  <2>4. loc'[w].adding = loc[w].adding \ {i}
    BY <1>1 DEF Goto, Loc
  <2> QED BY <2>1, <2>2, <2>3, <2>4
<1>4. CASE a # <<loc[w].order, i>>
  BY <1>2, <1>4
<1> QED BY <1>3, <1>4

\* Again, every step is of one of the two kinds.
LEMMA AuthzCases ==
  ASSUME NEW w, Worker = {w}, ~ DBMayFail, TypeOK, HeldCurrent, Requested, AuthzHasOrder,
         [Next]_vars
  PROVE  AuthzAction(w) \/ AuthzQuiet(w)
<1> DEFINE Goal == AuthzAction(w) \/ AuthzQuiet(w)
<1> DEFINE Same == UNCHANGED <<chall, crashes>> /\ UNCHANGED authz
<1> USE DEF TypeOK
<1>1. CASE Quiet
  BY <1>1 DEF Quiet, AuthzQuiet
<1>2. ASSUME NEW label, NEW l, Goto(w, label, l), label \notin SetLabels,
             pc[w] \notin SetLabels, l.challs \subseteq loc[w].challs,
             l.ch \in {loc[w].ch, None}
      PROVE  /\ pc[w] \notin SetLabels
             /\ pc'[w] \notin SetLabels
             /\ loc'[w].challs \subseteq loc[w].challs
             /\ loc'[w].ch \in {loc[w].ch, None}
  BY <1>2 DEF Goto, WorkersTypeOK
<1>3. Idle.challs = {} /\ Idle.ch = None
  BY DEF Idle
<1>4. ASSUME Request(w) PROVE Goal
  <2>1. ASSUME NEW o \in Orders, NEW ids \in IdentifierSets, NewOrder(w, o, ids)
        PROVE  AuthzQuiet(w)
    <3> DEFINE l == [Idle EXCEPT !.order = o, !.adding = ids]
    <3>1. l.challs = {} /\ l.ch = None
      BY DEF Idle
    <3> HIDE DEF l
    <3>2. Goto(w, "addAuthz", l) \/ UNCHANGED <<pc, loc>>
      BY <2>1 DEF NewOrder, l
    <3>3. pc[w] = "idle" /\ Same
      BY <2>1 DEF NewOrder
    <3> QED BY <1>2, <3>1, <3>2, <3>3 DEF AuthzQuiet, SetLabels
  <2>2. ASSUME NEW o \in Orders, OrderPost(w, o)
        PROVE  AuthzQuiet(w)
    <3> DEFINE l == [Idle EXCEPT !.order = o, !.dueOrders = orders_invalid_search]
    <3>1. l.challs = {} /\ l.ch = None
      BY DEF Idle
    <3> HIDE DEF l
    <3>2. Goto(w, "invalidateOrders", l) /\ pc[w] = "idle" /\ Same
      BY <2>2 DEF OrderPost, l, dbvars
    <3> QED BY <1>2, <3>1, <3>2 DEF AuthzQuiet, SetLabels
  <2>3. ASSUME NEW a \in Authzs, AuthzPost(w, a)
        PROVE  AuthzQuiet(w)
    <3> DEFINE l == [Idle EXCEPT !.az = a, !.dueAuthzs = authorizations_expired_search]
    <3>1. l.challs = {} /\ l.ch = None
      BY DEF Idle
    <3> HIDE DEF l
    <3>2. Goto(w, "invalidateAuthzs", l) /\ pc[w] = "idle" /\ Same
      BY <2>3 DEF AuthzPost, l, dbvars
    <3> QED BY <1>2, <3>1, <3>2 DEF AuthzQuiet, SetLabels
  <2>4. ASSUME NEW a \in Authzs, AuthzGet(w, a)
        PROVE  AuthzQuiet(w)
    <3> DEFINE l == [Idle EXCEPT !.az = a]
    <3>1. l.challs = {} /\ l.ch = None
      BY DEF Idle
    <3> HIDE DEF l
    <3>2. Goto(w, "lookupAuthz", l) /\ pc[w] = "idle" /\ Same
      BY <2>4 DEF AuthzGet, l, dbvars
    <3> QED BY <1>2, <3>1, <3>2 DEF AuthzQuiet, SetLabels
  <2> QED BY <1>4, <2>1, <2>2, <2>3, <2>4 DEF Request, AuthzAction
<1>5. ASSUME AuthorizationStep(w) PROVE Goal
  <2>1. CASE InvalidateAuthz(w)
    <3>1. PICK a \in loc[w].dueAuthzs :
             /\ authorization_update(w, a, "expired")
             /\ Goto(w, "invalidateAuthzs", [loc[w] EXCEPT !.dueAuthzs = @ \ {a}])
      BY <2>1 DEF InvalidateAuthz
    <3> DEFINE l == [loc[w] EXCEPT !.dueAuthzs = @ \ {a}]
    <3>2. l.challs = loc[w].challs /\ l.ch = loc[w].ch
      BY DEF Loc, WorkersTypeOK
    <3> HIDE DEF l
    <3>3. pc[w] = "invalidateAuthzs" /\ UNCHANGED <<chall, crashes>>
      BY <2>1 DEF InvalidateAuthz
    <3>4. \A b \in Authzs : authz'[b].status = authz[b].status \/ authz'[b].status = "expired"
      BY <3>1 DEF authorization_update, DBTypeOK, AuthzRow
    <3>5. Goto(w, "invalidateAuthzs", l)
      BY <3>1 DEF l
    <3> QED BY <1>2, <3>2, <3>3, <3>4, <3>5 DEF AuthzQuiet, SetLabels
  <2>2. CASE AuthzPostChecked(w) \/ LookupAuthz(w)
    <3>1. \/ \E label \in {"lookupAuthz", "refreshAuthz"} : Goto(w, label, loc[w])
          \/ Goto(w, "idle", Idle)
      BY <2>2 DEF AuthzPostChecked, LookupAuthz, Done
    <3>2. pc[w] \in {"invalidateAuthzs", "lookupAuthz"} /\ Same
      BY <2>2 DEF AuthzPostChecked, LookupAuthz, dbvars
    <3> QED BY <1>2, <1>3, <3>1, <3>2 DEF AuthzQuiet, SetLabels
  <2>3. CASE RefreshAuthz(w)
    <3>1. Goto(w, "readStatus", loc[w]) /\ pc[w] = "refreshAuthz"
          /\ UNCHANGED <<chall, crashes>>
      BY <2>3 DEF RefreshAuthz
    <3>2. \A b \in Authzs : authz'[b].status = authz[b].status
      BY <2>3 DEF RefreshAuthz, authorization_refresh, DBTypeOK, AuthzRow
    <3> QED BY <1>2, <3>1, <3>2 DEF AuthzQuiet, SetLabels
  <2>4. CASE ReadAuthzStatus(w)
    <3> DEFINE l == [loc[w] EXCEPT !.seen = authz[loc[w].az].status]
    <3>1. l.challs = loc[w].challs /\ l.ch = loc[w].ch
      BY DEF Loc, WorkersTypeOK
    <3> HIDE DEF l
    <3>2. Goto(w, "searchChallenges", l) \/ Goto(w, "idle", Idle)
      BY <2>4 DEF ReadAuthzStatus, l, Done
    <3>3. pc[w] = "readStatus" /\ Same
      BY <2>4 DEF ReadAuthzStatus, dbvars
    <3> QED BY <1>2, <1>3, <3>1, <3>2, <3>3 DEF AuthzQuiet, SetLabels
  <2>5. CASE ChallengesChecked(w)
    <3>1. Goto(w, "idle", Idle) /\ pc[w] = "check" /\ Same
      BY <2>5 DEF ChallengesChecked, Done, challenge_keyauthorization
    <3> QED BY <1>2, <1>3, <3>1 DEF AuthzQuiet, SetLabels
  <2> QED BY <1>5, <2>1, <2>2, <2>3, <2>4, <2>5 DEF AuthorizationStep, AuthzAction
<1>6. ASSUME OrderStep(w) PROVE AuthzQuiet(w)
  <2>1. /\ pc[w] \notin SetLabels /\ pc'[w] \notin SetLabels
        /\ UNCHANGED <<chall, crashes>>
    BY <1>6, OrderFrame DEF Moves, NewOrderLabels, OrderLabels, SetLabels, OrderStep,
       AddAuthz, AnnounceOrder, InvalidateOrder, OrderPostChecked, LookupOrder,
       LookupAuthzs, SetReady, ProcessPoll, ProcessFinalize, SetProcessing, StoreCsr,
       Enroll, StoreCert, StoreCertError, SetValid, Respond
  <2>2. \A a \in Authzs :
          \/ authz'[a].status = authz[a].status
          \/ authz[a].status = None /\ authz'[a].status = "pending"
    <3>1. CASE AddAuthz(w)
      BY <3>1, AddingIsNew
    <3>2. CASE UNCHANGED authz
      BY <3>2
    <3> QED BY <1>6, <3>1, <3>2 DEF OrderStep, AnnounceOrder, InvalidateOrder,
               OrderPostChecked, LookupOrder, LookupAuthzs, SetReady, ProcessPoll,
               ProcessFinalize, SetProcessing, StoreCsr, Enroll, StoreCert,
               StoreCertError, SetValid, Respond, dbvars
  <2>3. CASE Done(w)
    BY <1>2, <1>3, <2>1, <2>2, <2>3 DEF Done, AuthzQuiet, SetLabels
  <2>4. CASE ~ Done(w)
    <3>1. loc'[w].challs = loc[w].challs /\ loc'[w].ch = loc[w].ch
      BY <1>6, <2>4, OrderLocals
    <3> QED BY <2>1, <2>2, <3>1 DEF AuthzQuiet
  <2> QED BY <2>3, <2>4
<1>7. ASSUME Crash(w) PROVE Goal
  BY <1>7 DEF AuthzAction
<1> QED BY <1>1, <1>4, <1>5, <1>6, <1>7, QuietSteps DEF Next, Step

-----------------------------------------------------------------------------
(* Orders and certificates.                                                *)

\* What order_update does when the database answers.
LEMMA OrderUpdated ==
  ASSUME ~ DBMayFail, TypeOK, NEW w, NEW o \in Orders, NEW st, order_update(w, o, st)
  PROVE  /\ orders'[o].status = st
         /\ \A p \in Orders : p # o => orders'[p] = orders[p]
  BY DEF order_update, TypeOK, DBTypeOK, OrderRow

\* The status of the order stays as it was read: only the request itself
\* writes between its reads and its writes.
LEMMA OrderAsReadStep ==
  ASSUME NEW w, Worker = {w}, ~ DBMayFail, TypeOK, HeldCurrent, Requested, OrderAsRead,
         [Next]_vars
  PROVE  OrderAsRead'
<1> DEFINE now == orders'[loc'[w].order].status
           Goal == /\ pc'[w] = "lookupAuthzs" => loc'[w].seen = now
                   /\ pc'[w] = "setReady" => now = "pending" /\ loc'[w].seen = "pending"
                   /\ pc'[w] = "setProcessing" => now = "ready"
                   /\ pc'[w] \in MovingLabels \ {"setReady", "setProcessing"} =>
                         now = "processing"
                   /\ pc'[w] = "respond" => loc'[w].seen \in {"pending", now}
<1> SUFFICES Goal
  BY DEF OrderAsRead
<1> USE DEF TypeOK, WorkersTypeOK
<1>1. CASE OrderQuiet(w)
  <2>1. CASE pc'[w] \notin OrderLabels
    BY <2>1 DEF OrderLabels, MovingLabels
  <2>2. CASE pc'[w] = pc[w] /\ loc'[w] = loc[w] /\ pc[w] \in OrderLabels
    BY <1>1, <2>2 DEF OrderQuiet, Requested, OrderAsRead
  <2> QED BY <1>1, <2>1, <2>2 DEF OrderQuiet
<1>2. ASSUME pc'[w] \in {"addAuthz", "idle", "invalidateOrders", "lookupOrder", "process"}
      PROVE  Goal
  BY <1>2 DEF MovingLabels
<1>3. ASSUME NEW o \in Orders, NEW ids \in IdentifierSets, NewOrder(w, o, ids)
      PROVE  Goal
  BY <1>2, <1>3 DEF NewOrder, Goto
<1>4. ASSUME \/ \E o \in Orders : OrderPost(w, o)
             \/ InvalidateOrder(w) \/ OrderPostChecked(w) \/ ProcessPoll(w)
             \/ StoreCertError(w) \/ SetValid(w)
      PROVE  Goal
  BY <1>2, <1>4 DEF OrderPost, InvalidateOrder, OrderPostChecked, ProcessPoll,
     StoreCertError, SetValid, Goto, Done
<1>5. CASE LookupOrder(w)
  <2>1. /\ pc'[w] = "lookupAuthzs" /\ UNCHANGED orders
        /\ loc'[w].seen = orders[loc[w].order].status
        /\ loc'[w].order = loc[w].order
    BY <1>5 DEF LookupOrder, Goto, Loc, dbvars
  <2> QED BY <2>1 DEF MovingLabels
<1>6. CASE LookupAuthzs(w)
  <2>1. /\ UNCHANGED orders /\ loc'[w] = loc[w]
        /\ pc[w] = "lookupAuthzs"
        /\ pc'[w] \in {"setReady", "process", "respond"}
        /\ pc'[w] = "setReady" => loc[w].seen = "pending"
    BY <1>6 DEF LookupAuthzs, AfterLookup, Goto, dbvars
  <2> QED BY <2>1 DEF OrderAsRead, MovingLabels
<1>7. CASE SetReady(w)
  <2>1. loc'[w] = loc[w] /\ pc'[w] \in {"process", "respond"} /\ pc[w] = "setReady"
    BY <1>7 DEF SetReady, AfterLookup, Goto
  <2>2. loc[w].seen = "pending"
    BY <1>7 DEF SetReady, OrderAsRead
  <2> QED BY <2>1, <2>2 DEF MovingLabels
<1>8. CASE ProcessFinalize(w)
  <2>1. \/ /\ pc'[w] = "setProcessing" /\ loc'[w] = loc[w]
           /\ orders'[loc[w].order].status = "ready"
        \/ pc'[w] = "idle"
    BY <1>8 DEF ProcessFinalize, Goto, Done, dbvars
  <2> QED BY <1>2, <2>1 DEF MovingLabels
<1>9. CASE SetProcessing(w)
  <2>1. loc[w].order \in Orders /\ order_update(w, loc[w].order, "processing")
    BY <1>9 DEF SetProcessing, Requested, OrderLabels
  <2>2. orders'[loc[w].order].status = "processing"
    BY <2>1, OrderUpdated
  <2>3. pc'[w] = "idle" \/ (pc'[w] = "storeCsr" /\ loc'[w] = loc[w])
    BY <1>9 DEF SetProcessing, Goto, Done
  <2> QED BY <1>2, <2>2, <2>3
<1>10. ASSUME (\E names \in CSRs : StoreCsr(w, names)) \/ Enroll(w) \/ StoreCert(w)
       PROVE  Goal
  <2>1. /\ pc[w] \in MovingLabels \ {"setReady", "setProcessing"}
        /\ UNCHANGED orders
    BY <1>10 DEF StoreCsr, Enroll, StoreCert, MovingLabels, dbvars
  <2>2. \/ pc'[w] = "idle"
        \/ /\ pc'[w] \in {"enroll", "storeCert", "storeError", "storePoll", "setValid"}
           /\ loc'[w].order = loc[w].order
    BY <1>10 DEF StoreCsr, Enroll, StoreCert, Goto, Done, Loc
  <2> QED BY <1>2, <2>1, <2>2 DEF OrderAsRead
<1>11. OrderAction(w) => Goal
  BY <1>3, <1>4, <1>5, <1>6, <1>7, <1>8, <1>9, <1>10 DEF OrderAction
<1> QED BY <1>1, <1>11, OrderCases

\* Each write of an order's status finds the status it was meant for.
LEMMA ForwardStep ==
  ASSUME NEW w, Worker = {w}, ~ DBMayFail, TypeOK, HeldCurrent, Requested, OrderAsRead,
         [Next]_vars, NEW o \in Orders
  PROVE  Forward(orders[o].status, orders'[o].status)
<1> DEFINE Goal == Forward(orders[o].status, orders'[o].status)
<1> USE DEF TypeOK, WorkersTypeOK
<1>1. ASSUME orders'[o].status = orders[o].status
      PROVE  Goal
  BY <1>1 DEF Forward
<1>2. CASE OrderQuiet(w)
  BY <1>1, <1>2 DEF OrderQuiet
<1>3. ASSUME NEW p \in Orders, NEW ids \in IdentifierSets, NewOrder(w, p, ids)
      PROVE  Goal
  <2>1. CASE p = o
    <3>1. orders[o].status = None
      BY <1>3, <2>1 DEF NewOrder
    <3>2. \A st : order_add(w, o, st, ids) => orders'[o].status = st
      BY DEF order_add, DBTypeOK
    <3> QED BY <1>3, <2>1, <3>1, <3>2 DEF NewOrder, Forward
  <2>2. CASE p # o
    BY <1>1, <1>3, <2>2 DEF NewOrder, order_add, DBTypeOK
  <2> QED BY <2>1, <2>2
<1>4. ASSUME NEW p \in Orders, NEW st, order_update(w, p, st),
             \/ st = "invalid"
             \/ <<orders[p].status, st>> \in {<<"pending", "ready">>,
                   <<"ready", "processing">>, <<"processing", "valid">>}
      PROVE  Goal
  <2>1. orders'[p].status = st
    BY <1>4, OrderUpdated
  <2>2. p # o => orders'[o] = orders[o]
    BY <1>4, OrderUpdated
  <2> QED BY <1>1, <1>4, <2>1, <2>2 DEF Forward
<1>5. CASE InvalidateOrder(w)
  <2>1. PICK p \in loc[w].dueOrders : order_update(w, p, "invalid")
    BY <1>5 DEF InvalidateOrder
  <2>2. p \in Orders
    BY DEF Loc
  <2> QED BY <1>4, <2>1, <2>2
<1>6. CASE SetReady(w) \/ SetProcessing(w) \/ SetValid(w)
  <2>1. loc[w].order \in Orders
    BY <1>6 DEF SetReady, SetProcessing, SetValid, Requested, OrderLabels
  <2>2. \/ order_update(w, loc[w].order, "ready") /\ orders[loc[w].order].status = "pending"
        \/ order_update(w, loc[w].order, "processing") /\ orders[loc[w].order].status = "ready"
        \/ order_update(w, loc[w].order, "valid") /\ orders[loc[w].order].status = "processing"
    BY <1>6 DEF SetReady, SetProcessing, SetValid, OrderAsRead, MovingLabels
  <2> QED BY <1>4, <2>1, <2>2
<1>7. CASE UNCHANGED orders
  BY <1>1, <1>7
<1>8. OrderAction(w) => Goal
  BY <1>3, <1>5, <1>6, <1>7 DEF OrderAction, OrderPost, OrderPostChecked, LookupOrder,
     LookupAuthzs, ProcessPoll, ProcessFinalize, StoreCsr, Enroll, StoreCert,
     StoreCertError, dbvars
<1> QED BY <1>2, <1>8, OrderCases

\* Nothing but _add makes an order pending, nothing but a poll makes it ready.
LEMMA NoWayBack ==
  ASSUME NEW from, NEW to, Forward(from, to),
         from \notin {None, "pending", "ready"}
  PROVE  to \notin {None, "pending", "ready"}
  BY DBstoreAssumption DEF Forward, OrderStatus

\* Only store_csr adds a certificate row, one at a time.
LEMMA WhoAddsCerts ==
  ASSUME NEW w, Worker = {w}, ~ DBMayFail, TypeOK, HeldCurrent, EnrollingRow, [Next]_vars
  PROVE  \/ \A c \in Certs : (certs'[c].status # None) <=> (certs[c].status # None)
         \/ \E names \in CSRs : \E d \in Certs :
               /\ StoreCsr(w, names)
               /\ d[1] = loc[w].order
               /\ \A c \in Certs : certs'[c].status # None => c = d \/ certs[c].status # None
<1> DEFINE Same == \A c \in Certs : (certs'[c].status # None) <=> (certs[c].status # None)
<1> USE DEF TypeOK, DBTypeOK
<1>1. CASE UNCHANGED certs
  BY <1>1
<1>2. ASSUME NEW d \in Certs, NEW st \in CertStatus, certs[d].status # None,
             certificate_update(d, st)
      PROVE  Same
  BY <1>2, NoneIsNoStatus DEF certificate_update, CertRow
<1>3. CASE StoreCert(w) \/ StoreCertError(w)
  <2>1. loc[w].cert \in Certs /\ certs[loc[w].cert].status # None
    BY <1>3, NoneIsNoStatus DEF StoreCert, StoreCertError, EnrollingRow, EnrollLabels,
       CertStatus
  <2> QED BY <1>2, <1>3, <2>1 DEF StoreCert, StoreCertError, CertStatus
<1>4. ASSUME NEW names \in CSRs, StoreCsr(w, names)
      PROVE  \/ Same
             \/ \E d \in Certs :
                  /\ d[1] = loc[w].order
                  /\ \A c \in Certs : certs'[c].status # None => c = d \/ certs[c].status # None
  <2>1. CASE UNCHANGED certs
    BY <1>1, <2>1
  <2>2. ASSUME NEW d \in Certs, d[1] = loc[w].order,
               certs' = [certs EXCEPT ![d] = [status |-> "csr", names |-> names]]
        PROVE  \A c \in Certs : certs'[c].status # None => c = d \/ certs[c].status # None
    BY <2>2
  <2> QED BY <1>4, <2>1, <2>2 DEF StoreCsr
<1>5. OrderAction(w) => \/ UNCHANGED certs \/ StoreCert(w) \/ StoreCertError(w)
                        \/ \E names \in CSRs : StoreCsr(w, names)
  BY DEF OrderAction, NewOrder, OrderPost, InvalidateOrder, OrderPostChecked, LookupOrder,
     LookupAuthzs, SetReady, ProcessPoll, ProcessFinalize, SetProcessing, Enroll, SetValid,
     dbvars
<1>6. OrderQuiet(w) => UNCHANGED certs
  BY DEF OrderQuiet
<1> QED BY <1>1, <1>3, <1>4, <1>5, <1>6, OrderCases

\* When a request comes to store_csr, its order has no certificate row.
LEMMA NoCertYetStep ==
  ASSUME NEW w, Worker = {w}, ~ DBMayFail, TypeOK, HeldCurrent, Requested, OrderAsRead,
         EnrollingRow, NoCertYet, [Next]_vars
  PROVE  NoCertYet'
<1> SUFFICES ASSUME NEW c \in Certs, certs'[c].status # None
             PROVE  /\ orders'[c[1]].status \notin {None, "pending", "ready"}
                    /\ pc'[w] = "storeCsr" => loc'[w].order # c[1]
  BY DEF NoCertYet
<1> USE DEF TypeOK, WorkersTypeOK
<1>0. c[1] \in Orders
  BY DEF Certs
<1>1. ASSUME certs[c].status # None
      PROVE  /\ orders'[c[1]].status \notin {None, "pending", "ready"}
             /\ pc'[w] = "storeCsr" => loc'[w].order # c[1]
  <2>1. orders'[c[1]].status \notin {None, "pending", "ready"}
    <3>1. Forward(orders[c[1]].status, orders'[c[1]].status)
      BY <1>0, ForwardStep
    <3>2. orders[c[1]].status \notin {None, "pending", "ready"}
      BY <1>1 DEF NoCertYet
    <3> QED BY <3>1, <3>2, NoWayBack
  <2>2. ASSUME pc'[w] = "storeCsr" PROVE loc'[w].order # c[1]
    <3>1. CASE pc[w] = "storeCsr" /\ loc'[w] = loc[w]
      BY <1>1, <3>1 DEF NoCertYet
    <3>2. CASE SetProcessing(w)
      <4>1. loc'[w] = loc[w] /\ orders[loc[w].order].status = "ready"
        BY <2>2, <3>2 DEF SetProcessing, Goto, Done, OrderAsRead
      <4> QED BY <1>1, <4>1 DEF NoCertYet
    <3>3. OrderAction(w) => SetProcessing(w)
      <4>1. \A names : ~ StoreCsr(w, names)
        BY <2>2 DEF StoreCsr, Goto, Done
      <4> QED BY <2>2, <4>1 DEF OrderAction, NewOrder, OrderPost, InvalidateOrder,
                 OrderPostChecked, LookupOrder, LookupAuthzs, SetReady, ProcessPoll,
                 ProcessFinalize, Enroll, StoreCert, StoreCertError, SetValid, AfterLookup,
                 Goto, Done
    <3>4. OrderQuiet(w) => pc[w] = "storeCsr" /\ loc'[w] = loc[w]
      BY <2>2 DEF OrderQuiet, OrderLabels
    <3> QED BY <3>1, <3>2, <3>3, <3>4, OrderCases
  <2> QED BY <2>1, <2>2
<1>2. ASSUME certs[c].status = None
      PROVE  /\ orders'[c[1]].status \notin {None, "pending", "ready"}
             /\ pc'[w] = "storeCsr" => loc'[w].order # c[1]
  <2>1. PICK names \in CSRs : StoreCsr(w, names) /\ c[1] = loc[w].order
    BY <1>2, WhoAddsCerts
  <2>2. orders'[c[1]].status = "processing" /\ pc'[w] # "storeCsr"
    BY <2>1 DEF StoreCsr, OrderAsRead, MovingLabels, Goto, Done
  <2> QED BY <2>2, NoneIsNoStatus DEF OrderStatus
<1> QED BY <1>1, <1>2

\* The CA is asked once for an order, so it has one certificate row.
LEMMA OneCertStep ==
  ASSUME NEW w, Worker = {w}, ~ DBMayFail, TypeOK, HeldCurrent, EnrollingRow, NoCertYet,
         OneCert, [Next]_vars
  PROVE  OneCert'
<1>1. CASE \A c \in Certs : (certs'[c].status # None) <=> (certs[c].status # None)
  BY <1>1 DEF OneCert
<1>2. ASSUME NEW names, NEW d \in Certs, StoreCsr(w, names), d[1] = loc[w].order,
             \A c \in Certs : certs'[c].status # None => c = d \/ certs[c].status # None
      PROVE  OneCert'
  <2>1. \A c \in Certs : c[1] = d[1] => certs[c].status = None
    BY <1>2 DEF NoCertYet, StoreCsr
  <2> QED BY <1>2, <2>1 DEF OneCert
<1> QED BY <1>1, <1>2, WhoAddsCerts

\* The certificate of a response is a row of its order.
LEMMA CertOfOrderStep ==
  ASSUME NEW w, Worker = {w}, ~ DBMayFail, TypeOK, TypeOK', HeldCurrent, Requested,
         EnrollingRow, CertOfOrder, Grows, [Next]_vars
  PROVE  CertOfOrder'
<1> DEFINE Goal == (pc'[w] \in OrderLabels /\ loc'[w].cert # None) =>
                       /\ loc'[w].cert \in Certs
                       /\ loc'[w].cert[1] = loc'[w].order
                       /\ certs'[loc'[w].cert].status # None
<1> SUFFICES Goal
  BY DEF CertOfOrder, certificates_of
<1> USE DEF TypeOK, WorkersTypeOK
<1>1. ASSUME pc[w] \in OrderLabels, loc'[w].cert = loc[w].cert, loc'[w].order = loc[w].order
      PROVE  Goal
  BY <1>1 DEF CertOfOrder, certificates_of, Grows
<1>2. ASSUME pc'[w] \notin OrderLabels
      PROVE  Goal
  BY <1>2
<1>3. CASE OrderQuiet(w)
  BY <1>1, <1>2, <1>3 DEF OrderQuiet
<1>4. ASSUME NEW o \in Orders, NEW ids \in IdentifierSets, NewOrder(w, o, ids)
      PROVE  Goal
  BY <1>2, <1>4 DEF NewOrder, Goto, OrderLabels
<1>5. ASSUME NEW o \in Orders, OrderPost(w, o)
      PROVE  Goal
  <2>1. loc'[w].cert = None
    BY <1>5 DEF OrderPost, Goto, Idle
  <2> QED BY <2>1
<1>6. CASE ProcessPoll(w)
  <2>1. /\ loc'[w].cert \in certificates_of(loc[w].order) \cup {None}
        /\ loc'[w].order = loc[w].order
        /\ UNCHANGED certs
    BY <1>6 DEF ProcessPoll, Goto, Loc, dbvars
  <2> QED BY <2>1 DEF certificates_of
<1>7. ASSUME NEW names \in CSRs, StoreCsr(w, names)
      PROVE  Goal
  <2>1. CASE Done(w)
    BY <1>2, <2>1 DEF Done, Goto, OrderLabels
  <2>2. ASSUME NEW c \in Certs, c[1] = loc[w].order,
               certs' = [certs EXCEPT ![c] = [status |-> "csr", names |-> names]],
               Goto(w, "enroll", [loc[w] EXCEPT !.cert = c])
        PROVE  Goal
    <3>1. loc'[w].cert = c /\ loc'[w].order = loc[w].order
      BY <2>2 DEF Goto, Loc
    <3>2. certs'[c].status = "csr"
      BY <2>2 DEF DBTypeOK
    <3> QED BY <2>2, <3>1, <3>2, NoneIsNoStatus DEF CertStatus
  <2> QED BY <1>7, <2>1, <2>2 DEF StoreCsr
<1>8. CASE \/ InvalidateOrder(w) \/ OrderPostChecked(w) \/ LookupOrder(w) \/ LookupAuthzs(w)
           \/ SetReady(w) \/ ProcessFinalize(w) \/ SetProcessing(w)
           \/ Enroll(w) \/ StoreCert(w) \/ StoreCertError(w) \/ SetValid(w)
  <2>1. CASE Done(w)
    BY <1>2, <2>1 DEF Done, Goto, OrderLabels
  <2>2. CASE ~ Done(w)
    <3>1. pc[w] \in OrderLabels
      BY <1>8 DEF InvalidateOrder, OrderPostChecked, LookupOrder, LookupAuthzs, SetReady,
         ProcessFinalize, SetProcessing, Enroll, StoreCert, StoreCertError, SetValid,
         OrderLabels
    <3>2. CASE InvalidateOrder(w) \/ LookupOrder(w)
      BY <1>1, <2>2, <3>1, <3>2 DEF InvalidateOrder, LookupOrder, Goto, Loc
    <3>3. CASE StoreCertError(w) \/ SetValid(w)
      BY <1>1, <2>2, <3>1, <3>3 DEF StoreCertError, SetValid, Goto, Loc
    <3>4. CASE loc'[w] = loc[w]
      BY <1>1, <3>1, <3>4
    <3> QED BY <1>8, <2>2, <3>2, <3>3, <3>4 DEF OrderPostChecked, LookupAuthzs, SetReady,
               ProcessFinalize, SetProcessing, Enroll, StoreCert, Goto
  <2> QED BY <2>1, <2>2
<1>9. OrderAction(w) => Goal
  BY <1>4, <1>5, <1>6, <1>7, <1>8 DEF OrderAction
<1> QED BY <1>3, <1>9, OrderCases

-----------------------------------------------------------------------------
(* What a worker has still to save, and the rows of the authorizations.    *)

\* One worker saves what it wrote before anything else is written.
LEMMA HeldCurrentStep ==
  ASSUME NEW w, Worker = {w}, ~ DBMayFail, TypeOK, TypeOK', Requested, RefreshingRow,
         HeldCurrent, [Next]_vars
  PROVE  HeldCurrent'
<1> DEFINE ChallWritten ==
             held'[w].table = "chall" => chall'[held'[w].row] = held'[w].status
<1> SUFFICES Written(w)' /\ ChallWritten
  BY DEF HeldCurrent
<1>0. held'[w] \in Held \cup {Nothing} /\ held[w] \in Held \cup {Nothing}
  BY DEF TypeOK, DBTypeOK
<1>1. ASSUME held'[w] = Nothing PROVE Written(w)' /\ ChallWritten
  BY <1>1 DEF Written, Nothing
<1>2. CASE Clock \/ UNCHANGED vars
  <2>1. held'[w] = held[w] /\ Quiet
    BY <1>2, QuietSteps DEF Clock, OrderFallsDue, AuthzFallsDue, vars
  <2> QED BY <1>0, <2>1 DEF Quiet, HeldCurrent, Written, Held, Nothing
<1>3. CASE Save(w) \/ Crash(w)
  BY <1>1, <1>3, SaveQuiet DEF Crash, TypeOK, DBTypeOK
<1>4. ASSUME Request(w) \/ OrderStep(w) \/ AuthorizationStep(w), held[w] = Nothing
      PROVE  Written(w)' /\ ChallWritten
  <2>1. held'[w] = Nothing \/ Written(w)'
    BY <1>4, HeldStep DEF HeldKept
  <2> SUFFICES ChallWritten
    BY <1>1, <2>1
  <2>2. ASSUME NEW t, NEW row, NEW st, Hold(w, t, row, st), t # "chall"
        PROVE  ChallWritten
    BY <2>2 DEF Hold, TypeOK, DBTypeOK
  <2>3. ASSUME NEW c \in Challenges, NEW st, Hold(w, "chall", c, st), chall'[c] = st
        PROVE  ChallWritten
    BY <2>3 DEF Hold, TypeOK, DBTypeOK
  <2>4. CASE UNCHANGED held
    BY <1>1, <1>4, <2>4
  <2>5. CASE NewChallenge(w)
    <3>1. PICK t \in loc[w].types : challenge_add(w, loc[w].az, t)
      BY <2>5 DEF NewChallenge
    <3>2. \/ UNCHANGED held
          \/ \E c \in Challenges : /\ chall' = [chall EXCEPT ![c] = "pending"]
                                   /\ Hold(w, "chall", c, "pending")
      BY <3>1 DEF challenge_add
    <3> QED BY <2>3, <2>4, <3>2 DEF TypeOK, DBTypeOK
  <2>6. CASE UpdateChallenge(w)
    <3>1. loc[w].ch \in Challenges
      BY <2>6 DEF UpdateChallenge, Requested
    <3>2. \E st : /\ chall' = [chall EXCEPT ![loc[w].ch] = st]
                  /\ Hold(w, "chall", loc[w].ch, st)
      BY <2>6 DEF UpdateChallenge, challenge_update
    <3> QED BY <2>3, <3>1, <3>2 DEF TypeOK, DBTypeOK
  <2>7. CASE ChallengesChecked(w)
    <3>1. loc[w].ch # None => loc[w].ch \in Challenges
      BY DEF TypeOK, WorkersTypeOK, Loc
    <3> QED BY <2>3, <2>4, <2>7, <3>1 DEF ChallengesChecked, challenge_keyauthorization
  <2>8. CASE InvalidateAuthz(w) \/ UpdateAuthz(w) \/ RefreshAuthz(w) \/ AddAuthz(w)
    BY <2>2, <2>4, <2>8 DEF InvalidateAuthz, UpdateAuthz, RefreshAuthz, AddAuthz,
       authorization_update, authorization_refresh, authorization_add
  <2>9. CASE InvalidateOrder(w) \/ SetReady(w) \/ SetProcessing(w) \/ SetValid(w)
    BY <2>2, <2>4, <2>9 DEF InvalidateOrder, SetReady, SetProcessing, SetValid, order_update
  <2>10. ASSUME Request(w) PROVE ChallWritten
    BY <2>2, <2>4, <2>10 DEF Request, NewOrder, order_add, OrderPost, AuthzPost, AuthzGet,
       ChallengePost, dbvars
  <2>11. ASSUME AuthorizationStep(w) PROVE ChallWritten
    BY <2>4, <2>5, <2>6, <2>7, <2>8, <2>11 DEF AuthorizationStep, AuthzPostChecked,
       LookupAuthz, ReadAuthzStatus, SearchChallenges, CheckChallenge, dbvars
  <2>12. ASSUME OrderStep(w) PROVE ChallWritten
    BY <2>4, <2>8, <2>9, <2>12 DEF OrderStep, AnnounceOrder, OrderPostChecked, LookupOrder,
       LookupAuthzs, ProcessPoll, ProcessFinalize, StoreCsr, Enroll, StoreCert,
       StoreCertError, certificate_update, Respond, dbvars
  <2> QED BY <1>4, <2>10, <2>11, <2>12
<1> QED BY <1>2, <1>3, <1>4 DEF Next, Step, Request

\* An authorization is added to an order that exists, and only once.
LEMMA AuthzHasOrderStep ==
  ASSUME NEW w, Worker = {w}, ~ DBMayFail, TypeOK, TypeOK', HeldCurrent, Requested, RefreshingRow,
         NamedExist, HeldExists, AddingUnannounced, AuthzHasOrder, Keeps, [Next]_vars
  PROVE  AuthzHasOrder'
<1> SUFFICES ASSUME NEW a \in Authzs, AuthzExists(a)'
             PROVE  /\ orders'[a[1]].status # None
                    /\ (pc'[w] = "addAuthz" /\ loc'[w].order = a[1])
                          => a[2] \notin loc'[w].adding
  BY DEF AuthzHasOrder
<1> USE DEF TypeOK, WorkersTypeOK
<1>0. a[1] \in Orders
  BY DEF Authzs
<1>1. CASE ~ AuthzExists(a)
  <2>1. AddAuthz(w) /\ loc[w].order = a[1]
    BY <1>1, WhoAddsRows
  <2>2. orders'[a[1]].status # None
    BY <1>0, <2>1 DEF AddAuthz, AddingUnannounced, Keeps
  <2>3. loc'[w].adding = loc[w].adding \ {a[2]}
    BY <1>1, <2>1, AddingIsNew DEF AuthzExists
  <2> QED BY <2>2, <2>3
<1>2. CASE AuthzExists(a)
  <2>1. orders'[a[1]].status # None
    BY <1>0, <1>2 DEF AuthzHasOrder, Keeps
  <2>2. ASSUME pc'[w] = "addAuthz", loc'[w].order = a[1]
        PROVE  a[2] \notin loc'[w].adding
    <3>1. CASE AddAuthz(w)
      <4>1. loc'[w].order = loc[w].order /\ loc'[w].adding \subseteq loc[w].adding
        BY <3>1 DEF AddAuthz, Goto, Loc
      <4> QED BY <1>2, <2>2, <3>1, <4>1 DEF AddAuthz, AuthzHasOrder
    <3>2. CASE pc[w] = "addAuthz" /\ loc'[w] = loc[w]
      BY <1>2, <2>2, <3>2 DEF AuthzHasOrder
    <3>3. ASSUME NEW o \in Orders, NEW ids, NewOrder(w, o, ids) PROVE FALSE
      <4>1. Goto(w, "addAuthz", [Idle EXCEPT !.order = o, !.adding = ids])
        BY <2>2, <3>3 DEF NewOrder
      <4>2. o = a[1]
        BY <2>2, <4>1 DEF Goto, Idle
      <4> QED BY <1>2, <3>3, <4>2 DEF NewOrder, AuthzHasOrder
    <3>4. ASSUME Request(w) PROVE FALSE
      BY <2>2, <3>3, <3>4 DEF Request, OrderPost, AuthzPost, AuthzGet, ChallengePost, Goto
    <3>5. ASSUME OrderStep(w) PROVE AddAuthz(w)
      BY <2>2, <3>5 DEF OrderStep, AnnounceOrder, InvalidateOrder,
         OrderPostChecked, LookupOrder, LookupAuthzs, SetReady, ProcessPoll,
         ProcessFinalize, SetProcessing, StoreCsr, Enroll, StoreCert, StoreCertError,
         SetValid, Respond, AfterLookup, Goto, Done
    <3>6. ASSUME AuthorizationStep(w) PROVE FALSE
      BY <2>2, <3>6, AuthorizationFrame DEF Moves, AuthzLabels, ChallengeLabels
    <3>7. ASSUME Crash(w) PROVE FALSE
      BY <2>2, <3>7 DEF Crash, Done, Goto
    <3>8. CASE Quiet
      BY <2>2, <3>2, <3>8 DEF Quiet
    <3>9. Clock \/ UNCHANGED vars \/ Save(w) => Quiet
      BY QuietSteps
    <3> QED BY <3>1, <3>4, <3>5, <3>6, <3>7, <3>8, <3>9 DEF Next, Step
  <2> QED BY <2>1, <2>2
<1> QED BY <1>1, <1>2

\* The status of the authorization is as it was read.
LEMMA AuthzAsReadStep ==
  ASSUME NEW w, Worker = {w}, ~ DBMayFail, TypeOK, HeldCurrent, Requested, AuthzAsRead,
         [Next]_vars
  PROVE  AuthzAsRead'
<1> SUFFICES ASSUME pc'[w] = "searchChallenges"
             PROVE  loc'[w].seen = authz'[loc'[w].az].status
  BY DEF AuthzAsRead
<1> USE DEF TypeOK, WorkersTypeOK
<1>1. CASE ReadAuthzStatus(w)
  <2>1. /\ loc'[w].seen = authz[loc[w].az].status /\ loc'[w].az = loc[w].az
        /\ UNCHANGED authz
    BY <1>1 DEF ReadAuthzStatus, Goto, Done, Loc, dbvars
  <2> QED BY <2>1
<1>2. CASE Quiet
  <2>1. pc[w] = "searchChallenges" /\ loc'[w] = loc[w]
    BY <1>2 DEF Quiet
  <2>2. loc[w].az \in Authzs
    BY <2>1 DEF Requested, AuthzLabels
  <2> QED BY <1>2, <2>1, <2>2 DEF Quiet, AuthzAsRead
<1>3. ASSUME Request(w) PROVE FALSE
  BY <1>3, RequestFrame DEF Moves, RequestLabels, Request, NewOrder, OrderPost, AuthzPost,
     AuthzGet, ChallengePost
<1>4. ASSUME OrderStep(w) PROVE FALSE
  BY <1>4, OrderFrame DEF Moves, NewOrderLabels, OrderLabels
<1>5. ASSUME AuthorizationStep(w) PROVE ReadAuthzStatus(w)
  BY <1>5 DEF AuthorizationStep, InvalidateAuthz, AuthzPostChecked, LookupAuthz,
     RefreshAuthz, SearchChallenges, NewChallenge, CheckChallenge, ChallengesChecked,
     UpdateChallenge, UpdateAuthz, Goto, Done
<1>6. ASSUME Crash(w) PROVE FALSE
  BY <1>6 DEF Crash, Done, Goto
<1> QED BY <1>1, <1>2, <1>3, <1>4, <1>5, <1>6, QuietSteps DEF Next, Step

-----------------------------------------------------------------------------
(* The steps of new_set and of a validation, in terms of what they read,   *)
(* write and keep.                                                         *)

\* A request for a challenge that is not valid.
LEMMA PostStep ==
  ASSUME TypeOK, NEW w \in Worker, NEW c \in Challenges, ChallengePost(w, c)
  PROVE  /\ UNCHANGED <<authz, chall, crashes>>
         /\ pc[w] = "idle" /\ pc'[w] = "check"
         /\ chall[c] \notin {None, "valid"}
         /\ loc'[w].challs = {c} /\ loc'[w].ch = None
  BY DEF ChallengePost, Goto, Idle, TypeOK, WorkersTypeOK, dbvars

\* challengeset_get finds no challenge, or goes on with some of those it finds.
LEMMA SearchStep ==
  ASSUME TypeOK, NEW w \in Worker, ~ DBMayFail, SearchChallenges(w)
  PROVE  /\ UNCHANGED <<authz, chall, crashes>>
         /\ pc[w] = "searchChallenges"
         /\ \/ /\ challenges_search(loc[w].az) = {}
               /\ pc'[w] = "newChallenge"
               /\ loc'[w].az = loc[w].az
               /\ loc'[w].types = challenge_types(loc[w].az)
               /\ loc'[w].challs = loc[w].challs /\ loc'[w].ch = loc[w].ch
            \/ /\ loc[w].seen = "pending"
               /\ pc'[w] = "check"
               /\ loc'[w].challs \subseteq challenges_search(loc[w].az)
               /\ loc'[w].ch = loc[w].ch
            \/ pc'[w] = "idle" /\ loc'[w] = Idle
<1> USE DEF TypeOK, WorkersTypeOK
<1> DEFINE found == challenges_search(loc[w].az)
           types == {c[3] : c \in found}
<1>1. pc[w] = "searchChallenges" /\ UNCHANGED <<authz, chall, crashes>>
  BY DEF SearchChallenges, dbvars
<1>2. CASE /\ found = {}
           /\ Goto(w, "newChallenge",
                   [loc[w] EXCEPT !.types = challenge_types(loc[w].az)])
  BY <1>1, <1>2 DEF Goto, Loc
<1>3. ASSUME loc[w].seen = "pending", NEW last \in [types -> found],
             Goto(w, "check", [loc[w] EXCEPT !.challs = {last[t] : t \in types}])
      PROVE  /\ pc'[w] = "check"
             /\ loc'[w].challs \subseteq found
             /\ loc'[w].ch = loc[w].ch
  BY <1>3 DEF Goto, Loc
<1>4. CASE Done(w)
  BY <1>1, <1>4 DEF Done, Goto
<1> HIDE DEF TypeOK, WorkersTypeOK
<1> QED BY <1>1, <1>2, <1>3, <1>4 DEF SearchChallenges

\* new_set adds one challenge, unless there is no room for it.
LEMMA NewStep ==
  ASSUME TypeOK, NEW w \in Worker, ~ DBMayFail, NewChallenge(w)
  PROVE  /\ UNCHANGED <<authz, crashes>>
         /\ pc[w] = "newChallenge"
         /\ \E t \in loc[w].types :
              /\ \/ \E c \in Challenges :
                       /\ AuthzOf(c) = loc[w].az /\ c[3] = t /\ chall[c] = None
                       /\ chall' = [chall EXCEPT ![c] = "pending"]
                 \/ /\ \A c \in Challenges :
                          AuthzOf(c) = loc[w].az /\ c[3] = t => chall[c] # None
                    /\ UNCHANGED chall
              /\ \/ /\ loc[w].types = {t}
                    /\ pc'[w] = "idle" /\ loc'[w] = Idle
                 \/ /\ pc'[w] = "newChallenge"
                    /\ loc'[w].types = loc[w].types \ {t} /\ loc'[w].az = loc[w].az
                    /\ loc'[w].challs = loc[w].challs /\ loc'[w].ch = loc[w].ch
<1> USE DEF TypeOK, WorkersTypeOK
<1>1. PICK t \in loc[w].types :
         /\ challenge_add(w, loc[w].az, t)
         /\ IF loc[w].types = {t}
            THEN Done(w)
            ELSE Goto(w, "newChallenge", [loc[w] EXCEPT !.types = @ \ {t}])
  BY DEF NewChallenge
<1>2. \/ \E c \in Challenges :
            /\ AuthzOf(c) = loc[w].az /\ c[3] = t /\ chall[c] = None
            /\ chall' = [chall EXCEPT ![c] = "pending"]
      \/ /\ \A c \in Challenges : AuthzOf(c) = loc[w].az /\ c[3] = t => chall[c] # None
         /\ UNCHANGED chall
  BY <1>1 DEF challenge_add
<1>3. \/ /\ loc[w].types = {t}
         /\ pc'[w] = "idle" /\ loc'[w] = Idle
      \/ /\ pc'[w] = "newChallenge"
         /\ loc'[w].types = loc[w].types \ {t} /\ loc'[w].az = loc[w].az
         /\ loc'[w].challs = loc[w].challs /\ loc'[w].ch = loc[w].ch
  BY <1>1 DEF Done, Goto, Loc
<1>4. UNCHANGED <<authz, crashes>> /\ pc[w] = "newChallenge"
  BY DEF NewChallenge
<1> QED BY <1>2, <1>3, <1>4

\* _validate takes one of the challenges and goes on with what came of it.
LEMMA CheckStep ==
  ASSUME TypeOK, NEW w \in Worker, NEW c, NEW outcome, CheckChallenge(w, c, outcome)
  PROVE  /\ UNCHANGED <<authz, chall, crashes>>
         /\ pc[w] = "check" /\ pc'[w] \in {"check", "challValid", "challInvalid"}
         /\ c \in loc[w].challs
         /\ loc'[w].challs = loc[w].challs \ {c} /\ loc'[w].ch = c
<1>1. /\ UNCHANGED <<authz, chall, crashes>> /\ pc[w] = "check" /\ c \in loc[w].challs
      /\ \E label \in {"check", "challValid", "challInvalid"} :
            Goto(w, label, [loc[w] EXCEPT !.challs = loc[w].challs \ {c}, !.ch = c])
  BY DEF CheckChallenge, dbvars
<1> QED BY <1>1 DEF Goto, Loc, TypeOK, WorkersTypeOK

\* The outcome is written to the challenge ...
LEMMA WriteStep ==
  ASSUME TypeOK, NEW w \in Worker, ~ DBMayFail, UpdateChallenge(w)
  PROVE  /\ UNCHANGED <<authz, crashes>> /\ loc'[w] = loc[w]
         /\ \/ /\ pc[w] = "challValid" /\ pc'[w] = "authzValid"
               /\ chall' = [chall EXCEPT ![loc[w].ch] = "valid"]
            \/ /\ pc[w] = "challInvalid" /\ pc'[w] = "authzInvalid"
               /\ chall' = [chall EXCEPT ![loc[w].ch] = "invalid"]
  BY DEF UpdateChallenge, challenge_update, Goto, TypeOK, WorkersTypeOK

\* ... and to its authorization.
LEMMA PassStep ==
  ASSUME TypeOK, Requested, NEW w \in Worker, ~ DBMayFail, UpdateAuthz(w)
  PROVE  /\ UNCHANGED <<chall, crashes>> /\ loc'[w] = loc[w] /\ pc'[w] = "check"
         /\ loc[w].ch \in Challenges
         /\ \A a \in Authzs : a # AuthzOf(loc[w].ch) => authz'[a] = authz[a]
         /\ \/ /\ pc[w] = "authzValid"
               /\ authz'[AuthzOf(loc[w].ch)].status = "valid"
            \/ /\ pc[w] = "authzInvalid"
               /\ authz'[AuthzOf(loc[w].ch)].status = "invalid"
<1> USE DEF TypeOK, DBTypeOK, WorkersTypeOK
<1>1. loc[w].ch \in Challenges
  BY DEF UpdateAuthz, Requested
<1>2. AuthzOf(loc[w].ch) \in Authzs
  BY <1>1 DEF AuthzOf, Authzs, Challenges
<1>3. ASSUME NEW a \in Authzs, NEW st, authorization_update(w, a, st)
      PROVE  /\ authz'[a].status = st
             /\ \A b \in Authzs : b # a => authz'[b] = authz[b]
  BY <1>3 DEF authorization_update, AuthzRow
<1>4. UNCHANGED <<chall, crashes>> /\ loc'[w] = loc[w] /\ pc'[w] = "check"
  BY DEF UpdateAuthz, Goto
<1>5. \/ pc[w] = "authzValid" /\ authorization_update(w, AuthzOf(loc[w].ch), "valid")
      \/ pc[w] = "authzInvalid" /\ authorization_update(w, AuthzOf(loc[w].ch), "invalid")
  BY DEF UpdateAuthz
<1> QED BY <1>1, <1>2, <1>3, <1>4, <1>5

\* A kill forgets the request.
LEMMA KillStep ==
  ASSUME TypeOK, NEW w \in Worker, Crash(w)
  PROVE  /\ UNCHANGED <<authz, chall>> /\ crashes' # 0
         /\ pc'[w] = "idle" /\ loc'[w] = Idle
  BY WorkersAssumption DEF Crash, Done, Goto, TypeOK, WorkersTypeOK

\* A challenge that is in the table stays there.
LEMMA ChallengesStay ==
  ASSUME NEW w, Worker = {w}, ~ DBMayFail, TypeOK, HeldCurrent, Requested, AuthzHasOrder,
         [Next]_vars, NEW c \in Challenges, chall[c] # None
  PROVE  chall'[c] # None
<1> USE DEF TypeOK, DBTypeOK
<1>1. CASE UNCHANGED chall
  BY <1>1
<1>2. CASE NewChallenge(w)
  BY <1>2, NewStep
<1>3. CASE UpdateChallenge(w)
  BY <1>3, WriteStep, DBstoreAssumption DEF ChallengeStatus
<1>4. AuthzQuiet(w) => UNCHANGED chall
  BY DEF AuthzQuiet
<1>5. AuthzAction(w) => NewChallenge(w) \/ UpdateChallenge(w) \/ UNCHANGED chall
  BY DEF AuthzAction, ChallengePost, SearchChallenges, CheckChallenge, UpdateAuthz, Crash,
     dbvars
<1> QED BY <1>1, <1>2, <1>3, <1>4, <1>5, AuthzCases

\* A request validates challenges that exist, each of them once.
LEMMA ValidatedExistStep ==
  ASSUME NEW w, Worker = {w}, ~ DBMayFail, TypeOK, TypeOK', HeldCurrent, Requested,
         AuthzHasOrder, ValidatedExist, [Next]_vars
  PROVE  ValidatedExist'
<1> DEFINE Goal == /\ \A c \in loc'[w].challs : chall'[c] # None
                   /\ (loc'[w].ch # None \/ pc'[w] \in ChallengeLabels \ {"check"})
                         => chall'[loc'[w].ch] # None
                   /\ pc'[w] \in ChallengeLabels \ {"check"}
                         => loc'[w].ch \notin loc'[w].challs
                   /\ pc'[w] = "authzValid" => chall'[loc'[w].ch] = "valid"
<1> SUFFICES Goal
  BY DEF ValidatedExist
<1> USE DEF TypeOK, DBTypeOK, WorkersTypeOK
<1>1. loc[w] \in Loc /\ loc[w].challs \subseteq Challenges
  BY DEF Loc
<1>2. ChallengeLabels \ {"check"} = SetLabels \ {"newChallenge"}
  BY DEF ChallengeLabels, SetLabels
<1>3. ASSUME loc'[w].challs \subseteq loc[w].challs, loc'[w].ch \in {loc[w].ch, None},
             pc'[w] \notin ChallengeLabels \ {"check"}
      PROVE  Goal
  <2>1. loc'[w].ch # None => loc[w].ch # None /\ loc[w].ch \in Challenges
    BY <1>3 DEF Loc
  <2> QED BY <1>1, <1>3, <2>1, ChallengesStay DEF ValidatedExist, ChallengeLabels
<1>4. ASSUME loc'[w] = Idle, pc'[w] = "idle" PROVE Goal
  BY <1>3, <1>4 DEF Idle, ChallengeLabels
<1>5. CASE AuthzQuiet(w)
  <2>1. CASE UNCHANGED <<chall, pc, loc>>
    BY <2>1 DEF ValidatedExist
  <2> QED BY <1>2, <1>3, <1>5, <2>1 DEF AuthzQuiet
<1>6. ASSUME NEW c \in Challenges, ChallengePost(w, c) PROVE Goal
  <2>1. loc'[w].challs = {c} /\ chall'[c] # None /\ loc'[w].ch = None /\ pc'[w] = "check"
    BY <1>6, PostStep
  <2> QED BY <2>1
<1>7. CASE SearchChallenges(w)
  <2>1. CASE pc'[w] = "check" /\ loc'[w].challs \subseteq challenges_search(loc[w].az)
             /\ loc'[w].ch = loc[w].ch
    BY <1>7, <2>1, SearchStep DEF challenges_search, ValidatedExist
  <2> QED BY <1>3, <1>4, <1>7, <2>1, SearchStep DEF ChallengeLabels
<1>8. CASE NewChallenge(w)
  BY <1>3, <1>4, <1>8, NewStep DEF ChallengeLabels
<1>9. ASSUME NEW c \in Challenges, NEW outcome, CheckChallenge(w, c, outcome)
      PROVE  Goal
  <2>1. /\ loc'[w].challs = loc[w].challs \ {c} /\ loc'[w].ch = c /\ c \in loc[w].challs
        /\ pc'[w] # "authzValid" /\ UNCHANGED chall
    BY <1>9, CheckStep
  <2> QED BY <2>1 DEF ValidatedExist
<1>10. CASE UpdateChallenge(w)
  <2>1. pc[w] \in {"challValid", "challInvalid"} /\ loc'[w] = loc[w]
    BY <1>10, WriteStep
  <2>2. /\ loc[w].ch \in Challenges /\ chall[loc[w].ch] # None
        /\ loc[w].ch \notin loc[w].challs
        /\ \A c \in loc[w].challs : chall[c] # None
    BY <2>1 DEF Requested, ValidatedExist, ChallengeLabels
  <2>3. /\ \A c \in loc[w].challs : chall'[c] # None
        /\ chall'[loc[w].ch] # None
    BY <1>1, <2>2, ChallengesStay
  <2>4. pc'[w] = "authzValid" => chall'[loc[w].ch] = "valid"
    BY <1>10, <2>2, WriteStep
  <2> QED BY <2>1, <2>2, <2>3, <2>4
<1>11. CASE UpdateAuthz(w)
  BY <1>11, PassStep DEF ValidatedExist, ChallengeLabels
<1>12. CASE Crash(w)
  BY <1>4, <1>12, KillStep
<1> QED BY <1>5, <1>6, <1>7, <1>8, <1>9, <1>10, <1>11, <1>12, AuthzCases DEF AuthzAction

\* Which types an authorization has challenges of: new_set's doing.
LEMMA WhoAddsTypes ==
  ASSUME NEW w, Worker = {w}, ~ DBMayFail, TypeOK, HeldCurrent, Requested, AuthzHasOrder,
         ValidatedExist, [Next]_vars
  PROVE  \/ NewChallenge(w)
         \/ \A c \in Challenges : (chall'[c] # None) <=> (chall[c] # None)
<1> USE DEF TypeOK, DBTypeOK
<1>1. CASE UNCHANGED chall
  BY <1>1
<1>2. CASE UpdateChallenge(w)
  <2>1. loc[w].ch \in Challenges /\ chall[loc[w].ch] # None
    BY <1>2, WriteStep DEF Requested, ValidatedExist, ChallengeLabels
  <2>2. \A c \in Challenges : c # loc[w].ch => chall'[c] = chall[c]
    BY <1>2, WriteStep
  <2> QED BY <2>1, <2>2, ChallengesStay
<1>4. AuthzQuiet(w) => UNCHANGED chall
  BY DEF AuthzQuiet
<1>5. AuthzAction(w) => NewChallenge(w) \/ UpdateChallenge(w) \/ UNCHANGED chall
  BY DEF AuthzAction, ChallengePost, SearchChallenges, CheckChallenge, UpdateAuthz, Crash,
     dbvars
<1> QED BY <1>1, <1>2, <1>4, <1>5, AuthzCases

\* An authorization has one challenge of a type.
LEMMA OneOfATypeStep ==
  ASSUME NEW w, Worker = {w}, ~ DBMayFail, TypeOK, HeldCurrent, Requested, AuthzHasOrder,
         ValidatedExist, OneOfAType, TypesMissing, [Next]_vars
  PROVE  OneOfAType'
<1> USE DEF TypeOK, DBTypeOK
<1>1. CASE \A c \in Challenges : (chall'[c] # None) <=> (chall[c] # None)
  BY <1>1 DEF OneOfAType
<1>2. ASSUME NEW n \in Challenges, NEW t \in loc[w].types, pc[w] = "newChallenge",
             AuthzOf(n) = loc[w].az, n[3] = t, chall' = [chall EXCEPT ![n] = "pending"]
      PROVE  OneOfAType'
  <2>1. t \in ChallengeTypes
    BY DEF WorkersTypeOK, Loc
  <2>2. ~ HasType(loc[w].az, t)
    BY <1>2, <2>1 DEF TypesMissing
  <2>3. \A c \in Challenges : (AuthzOf(c) = AuthzOf(n) /\ c[3] = n[3]) => chall[c] = None
    BY <1>2, <2>2 DEF HasType
  <2>4. \A c \in Challenges : c # n => chall'[c] = chall[c]
    BY <1>2
  <2> QED BY <2>3, <2>4 DEF OneOfAType
<1>3. NewChallenge(w) => OneOfAType'
  BY <1>1, <1>2, NewStep
<1> QED BY <1>1, <1>3, WhoAddsTypes

\* Where new_set adds a challenge of a type, and what that leaves of the others.
LEMMA NewTypes ==
  ASSUME NEW w, Worker = {w}, ~ DBMayFail, TypeOK, HeldCurrent, Requested, AuthzHasOrder,
         [Next]_vars, NewChallenge(w)
  PROVE  \E t \in loc[w].types :
            /\ \A a \in Authzs, u \in ChallengeTypes :
                  IF a = loc[w].az /\ u = t THEN Copies # {} => HasType(a, u)'
                  ELSE HasType(a, u)' <=> HasType(a, u)
            /\ \/ loc[w].types = {t} /\ pc'[w] = "idle" /\ loc'[w] = Idle
               \/ /\ pc'[w] = "newChallenge" /\ loc'[w].az = loc[w].az
                  /\ loc'[w].types = loc[w].types \ {t}
<1> USE DEF TypeOK, DBTypeOK
<1>1. PICK t \in loc[w].types :
         /\ \/ \E c \in Challenges :
                  /\ AuthzOf(c) = loc[w].az /\ c[3] = t /\ chall[c] = None
                  /\ chall' = [chall EXCEPT ![c] = "pending"]
            \/ /\ \A c \in Challenges :
                     AuthzOf(c) = loc[w].az /\ c[3] = t => chall[c] # None
               /\ UNCHANGED chall
         /\ \/ loc[w].types = {t} /\ pc'[w] = "idle" /\ loc'[w] = Idle
            \/ /\ pc'[w] = "newChallenge" /\ loc'[w].az = loc[w].az
               /\ loc'[w].types = loc[w].types \ {t}
  BY NewStep
<1>2. loc[w].az \in Authzs /\ t \in ChallengeTypes
  BY DEF NewChallenge, Requested, AuthzLabels, WorkersTypeOK, Loc
<1>3. ASSUME Copies # {}, NEW a \in Authzs, a = loc[w].az PROVE HasType(a, t)'
  <2>1. CASE \E c \in Challenges :
               /\ AuthzOf(c) = loc[w].az /\ c[3] = t
               /\ chall' = [chall EXCEPT ![c] = "pending"]
    <3>1. PICK c \in Challenges :
             /\ AuthzOf(c) = loc[w].az /\ c[3] = t
             /\ chall' = [chall EXCEPT ![c] = "pending"]
      BY <2>1
    <3>2. chall'[c] = "pending"
      BY <3>1
    <3>3. chall'[c] # None
      BY <3>2, DBstoreAssumption DEF ChallengeStatus
    <3> QED BY <1>2, <1>3, <3>1, <3>3 DEF HasType, AuthzOf
  <2>2. CASE /\ \A c \in Challenges : AuthzOf(c) = loc[w].az /\ c[3] = t => chall[c] # None
             /\ UNCHANGED chall
    <3>1. PICK k \in Copies : TRUE
      BY <1>3
    <3>2. PICK o \in Orders, i \in Identifiers : loc[w].az = <<o, i>>
      BY <1>2 DEF Authzs
    <3>3. <<o, i, t, k>> \in Challenges /\ AuthzOf(<<o, i, t, k>>) = loc[w].az
      BY <1>2, <3>1, <3>2 DEF Challenges, AuthzOf
    <3>4. chall'[<<o, i, t, k>>] # None
      BY <2>2, <3>3
    <3>5. <<o, i, t, k>>[3] = t
      OBVIOUS
    <3> QED BY <1>3, <3>3, <3>4, <3>5 DEF HasType, AuthzOf
  <2> QED BY <1>1, <2>1, <2>2
<1>4. ASSUME NEW a \in Authzs, NEW u \in ChallengeTypes, ~ (a = loc[w].az /\ u = t)
      PROVE  HasType(a, u)' <=> HasType(a, u)
  <2>1. \A c \in Challenges : (AuthzOf(c) = a /\ c[3] = u) => chall'[c] = chall[c]
    BY <1>1, <1>4
  <2> QED BY <2>1 DEF HasType, AuthzOf
<1> QED BY <1>1, <1>3, <1>4

\* Outside new_set, the types stay.
LEMMA TypesStay ==
  ASSUME \A c \in Challenges : (chall'[c] # None) <=> (chall[c] # None)
  PROVE  \A a, t : HasType(a, t)' <=> HasType(a, t)
  BY DEF HasType, AuthzOf

\* How a request gets to new_set: it found no challenge.
LEMMA WhoCreates ==
  ASSUME NEW w, Worker = {w}, ~ DBMayFail, TypeOK, HeldCurrent, Requested, AuthzHasOrder,
         [Next]_vars, pc'[w] = "newChallenge", ~ NewChallenge(w)
  PROVE  \/ pc[w] = "newChallenge" /\ loc'[w] = loc[w]
         \/ /\ SearchChallenges(w)
            /\ challenges_search(loc[w].az) = {}
            /\ loc'[w].az = loc[w].az
            /\ loc'[w].types = challenge_types(loc[w].az)
<1>1. AuthzQuiet(w) => pc[w] = "newChallenge" /\ loc'[w] = loc[w]
  BY DEF AuthzQuiet, SetLabels
<1>2. CASE SearchChallenges(w)
  BY <1>2, SearchStep
<1>3. AuthzAction(w) => SearchChallenges(w)
  BY PostStep, CheckStep, WriteStep, PassStep, KillStep DEF AuthzAction
<1> QED BY <1>1, <1>2, <1>3, AuthzCases

\* What is left to create is missing, and the rest is there.
LEMMA TypesMissingStep ==
  ASSUME NEW w, Worker = {w}, ~ DBMayFail, TypeOK, HeldCurrent, Requested, AuthzHasOrder,
         ValidatedExist, TypesMissing, [Next]_vars
  PROVE  TypesMissing'
<1> SUFFICES ASSUME pc'[w] = "newChallenge", NEW t \in ChallengeTypes
             PROVE  IF t \in loc'[w].types THEN ~ HasType(loc[w].az, t)'
                    ELSE (t \in challenge_types(loc'[w].az) /\ Copies # {})
                             => HasType(loc[w].az, t)'
  BY DEF TypesMissing, challenge_types
<1>1. CASE NewChallenge(w)
  <2>1. PICK n \in loc[w].types :
           /\ \A a \in Authzs, u \in ChallengeTypes :
                 IF a = loc[w].az /\ u = n THEN Copies # {} => HasType(a, u)'
                 ELSE HasType(a, u)' <=> HasType(a, u)
           /\ loc'[w].az = loc[w].az
           /\ loc'[w].types = loc[w].types \ {n}
    BY <1>1, NewTypes
  <2>2. loc[w].az \in Authzs /\ pc[w] = "newChallenge"
    BY <1>1 DEF NewChallenge, Requested, AuthzLabels
  <2>3. PICK a \in Authzs : a = loc[w].az /\ a = loc'[w].az
    BY <2>1, <2>2
  <2>4. IF t = n THEN Copies # {} => HasType(a, t)'
        ELSE HasType(a, t)' <=> HasType(a, t)
    BY <2>1, <2>3
  <2>5. IF t \in loc[w].types THEN ~ HasType(a, t)
        ELSE (t \in challenge_types(a) /\ Copies # {}) => HasType(a, t)
    BY <2>2, <2>3 DEF TypesMissing
  <2>6. HasType(a, t)' <=> HasType(loc[w].az, t)'
    BY <2>3
  <2> QED BY <2>1, <2>3, <2>4, <2>5, <2>6
<1>2. CASE ~ NewChallenge(w)
  <2>1. \A a, u : HasType(a, u)' <=> HasType(a, u)
    BY <1>2, WhoAddsTypes, TypesStay
  <2>2. CASE pc[w] = "newChallenge" /\ loc'[w] = loc[w]
    BY <2>1, <2>2 DEF TypesMissing
  <2>3. CASE challenges_search(loc[w].az) = {} /\ loc'[w].az = loc[w].az
             /\ loc'[w].types = challenge_types(loc[w].az)
    <3>1. ~ HasType(loc[w].az, t)
      BY <2>3 DEF HasType, challenges_search
    <3> QED BY <2>1, <2>3, <3>1
  <2> QED BY <1>2, <2>2, <2>3, WhoCreates
<1> QED BY <1>1, <1>2

\* new_set adds challenges of the types it chose for the identifier.
LEMMA TypesFitStep ==
  ASSUME NEW w, Worker = {w}, ~ DBMayFail, TypeOK, HeldCurrent, Requested, AuthzHasOrder,
         ValidatedExist, TypesFit, [Next]_vars
  PROVE  TypesFit'
<1> SUFFICES /\ \A a \in Authzs, t \in ChallengeTypes :
                   HasType(a, t)' => t \in challenge_types(a)
             /\ pc'[w] = "newChallenge"
                   => loc'[w].types \subseteq challenge_types(loc'[w].az)
  BY DEF TypesFit, challenge_types
<1>1. CASE NewChallenge(w)
  <2>1. PICK n \in loc[w].types :
           /\ \A a \in Authzs, u \in ChallengeTypes :
                 ~ (a = loc[w].az /\ u = n) => (HasType(a, u)' <=> HasType(a, u))
           /\ \/ pc'[w] = "idle"
              \/ /\ loc'[w].az = loc[w].az
                 /\ loc'[w].types = loc[w].types \ {n}
    BY <1>1, NewTypes
  <2>2. loc[w].types \subseteq challenge_types(loc[w].az)
    BY <1>1 DEF NewChallenge, TypesFit
  <2> QED BY <2>1, <2>2 DEF TypesFit
<1>2. CASE ~ NewChallenge(w)
  <2>1. \A a, t : HasType(a, t)' <=> HasType(a, t)
    BY <1>2, WhoAddsTypes, TypesStay
  <2>2. pc'[w] = "newChallenge" =>
            \/ pc[w] = "newChallenge" /\ loc'[w] = loc[w]
            \/ loc'[w].az = loc[w].az /\ loc'[w].types = challenge_types(loc[w].az)
    BY <1>2, WhoCreates
  <2> QED BY <2>1, <2>2 DEF TypesFit
<1> QED BY <1>1, <1>2

\* Unless a worker was killed, each set of challenges is whole, or none, or
\* being created.
LEMMA SetsWholeStep ==
  ASSUME NEW w, Worker = {w}, ~ DBMayFail, TypeOK, HeldCurrent, Requested, AuthzHasOrder,
         ValidatedExist, TypesMissing, TypesFit, SetsWhole, [Next]_vars
  PROVE  SetsWhole'
<1> SUFFICES ASSUME crashes' = 0, NEW a \in Authzs
             PROVE  \/ \A t \in challenge_types(a) : ~ HasType(a, t)'
                    \/ \A t \in challenge_types(a) : HasType(a, t)'
                    \/ pc'[w] = "newChallenge" /\ loc'[w].az = a
  BY DEF SetsWhole, challenge_types
<1>1. crashes = 0 /\ ~ Crash(w)
  <2>1. ~ Crash(w)
    BY KillStep
  <2>2. crashes' = crashes
    BY <2>1, AuthzCases, PostStep, SearchStep, NewStep, CheckStep, WriteStep, PassStep
    DEF AuthzAction, AuthzQuiet
  <2> QED BY <2>1, <2>2
<1>2. \/ \A t \in challenge_types(a) : ~ HasType(a, t)
      \/ \A t \in challenge_types(a) : HasType(a, t)
      \/ pc[w] = "newChallenge" /\ loc[w].az = a
  BY <1>1 DEF SetsWhole
<1>3. CASE NewChallenge(w)
  <2>1. PICK n \in loc[w].types :
           /\ \A b \in Authzs, u \in ChallengeTypes :
                 IF b = loc[w].az /\ u = n THEN Copies # {} => HasType(b, u)'
                 ELSE HasType(b, u)' <=> HasType(b, u)
           /\ \/ loc[w].types = {n}
              \/ pc'[w] = "newChallenge" /\ loc'[w].az = loc[w].az
    BY <1>3, NewTypes
  <2>2. pc[w] = "newChallenge"
    BY <1>3 DEF NewChallenge
  <2>3. CASE a # loc[w].az
    BY <1>2, <2>1, <2>3, TypesOfASet
  <2>4. CASE a = loc[w].az /\ loc[w].types = {n} /\ Copies # {}
    <3>1. \A t \in challenge_types(a) \ {n} : HasType(a, t)
      BY <2>2, <2>4, TypesOfASet DEF TypesMissing
    <3> QED BY <2>1, <2>4, <3>1, TypesOfASet
  <2>5. CASE Copies = {}
    <3>1. Challenges = {}
      BY <2>5 DEF Challenges
    <3> QED BY <3>1 DEF HasType, AuthzOf
  <2> QED BY <2>1, <2>3, <2>4, <2>5
<1>4. CASE ~ NewChallenge(w)
  <2>1. \A t : HasType(a, t)' <=> HasType(a, t)
    BY <1>4, WhoAddsTypes, TypesStay
  <2>2. pc[w] = "newChallenge" => pc'[w] = "newChallenge" /\ loc'[w].az = loc[w].az
    BY <1>1, <1>4, AuthzCases, PostStep, SearchStep, CheckStep, WriteStep, PassStep
    DEF AuthzAction, AuthzQuiet, SetLabels
  <2> QED BY <1>2, <2>1, <2>2
<1> QED BY <1>3, <1>4

\* What makes an authorization valid has a challenge that stays valid.
LEMMA ValidForGoodStep ==
  ASSUME NEW w, Worker = {w}, ~ DBMayFail, TypeOK, HeldCurrent, Requested, AuthzHasOrder,
         AuthzAsRead, ValidatedExist, ValidForGood, [Next]_vars
  PROVE  ValidForGood'
<1> SUFFICES ASSUME NEW a \in Authzs, authz'[a].status = "valid"
             PROVE  \E c \in Challenges :
                       /\ AuthzOf(c) = a
                       /\ chall'[c] = "valid"
                       /\ c \notin loc'[w].challs
                       /\ pc'[w] = "challInvalid" => c # loc'[w].ch
  BY DEF ValidForGood, AuthzOf
<1> DEFINE Safe(c) == /\ chall'[c] = "valid"
                      /\ c \notin loc'[w].challs
                      /\ pc'[w] = "challInvalid" => c # loc'[w].ch
<1> USE DEF TypeOK, DBTypeOK, WorkersTypeOK
<1>1. CASE UpdateAuthz(w) /\ a = AuthzOf(loc[w].ch)
  <2>1. /\ pc[w] = "authzValid" /\ loc[w].ch \in Challenges
        /\ UNCHANGED chall /\ pc'[w] = "check" /\ loc'[w] = loc[w]
    BY <1>1, PassStep
  <2>2. chall[loc[w].ch] = "valid" /\ loc[w].ch \notin loc[w].challs
    BY <2>1 DEF ValidatedExist, ChallengeLabels
  <2> QED BY <1>1, <2>1, <2>2
<1>2. ASSUME ~ (UpdateAuthz(w) /\ a = AuthzOf(loc[w].ch))
      PROVE  authz[a].status = "valid"
  <2>1. CASE AuthzQuiet(w)
    BY <2>1 DEF AuthzQuiet
  <2>2. CASE UpdateAuthz(w)
    BY <1>2, <2>2, PassStep
  <2> QED BY <2>1, <2>2, AuthzCases, PostStep, SearchStep, NewStep, CheckStep, WriteStep,
             KillStep DEF AuthzAction
<1>3. ASSUME NEW c \in Challenges, AuthzOf(c) = a, chall[c] = "valid", c \notin loc[w].challs,
             pc[w] = "challInvalid" => c # loc[w].ch, authz[a].status = "valid"
      PROVE  Safe(c)
  <2>1. CASE AuthzQuiet(w)
    BY <1>3, <2>1 DEF AuthzQuiet, SetLabels
  <2>2. ASSUME NEW d \in Challenges, ChallengePost(w, d) PROVE Safe(c)
    BY <1>3, <2>2, PostStep
  <2>3. CASE SearchChallenges(w)
    <3>1. UNCHANGED chall
      BY <2>3, SearchStep
    <3>2. CASE /\ loc[w].seen = "pending" /\ pc'[w] = "check"
               /\ loc'[w].challs \subseteq challenges_search(loc[w].az)
      <4>1. a # loc[w].az
        BY <1>3, <2>3, <3>2 DEF SearchChallenges, AuthzAsRead
      <4> QED BY <1>3, <3>1, <3>2, <4>1 DEF challenges_search
    <3>3. CASE pc'[w] = "newChallenge" /\ loc'[w].challs = loc[w].challs
      BY <1>3, <3>1, <3>3
    <3>4. CASE pc'[w] = "idle" /\ loc'[w] = Idle
      BY <1>3, <3>1, <3>4 DEF Idle
    <3> QED BY <2>3, <3>2, <3>3, <3>4, SearchStep
  <2>4. CASE NewChallenge(w)
    <3>1. chall'[c] = "valid"
      BY <1>3, <2>4, NewStep, DBstoreAssumption DEF ChallengeStatus
    <3>2. pc'[w] # "challInvalid" /\ loc'[w].challs \subseteq loc[w].challs
      BY <2>4, NewStep DEF Idle
    <3> QED BY <1>3, <3>1, <3>2
  <2>5. ASSUME NEW d \in Challenges, NEW outcome, CheckChallenge(w, d, outcome)
        PROVE  Safe(c)
    BY <1>3, <2>5, CheckStep
  <2>6. CASE UpdateChallenge(w)
    BY <1>3, <2>6, WriteStep
  <2>7. CASE UpdateAuthz(w)
    BY <1>3, <2>7, PassStep
  <2>8. CASE Crash(w)
    BY <1>3, <2>8, KillStep DEF Idle
  <2> QED BY <2>1, <2>2, <2>3, <2>4, <2>5, <2>6, <2>7, <2>8, AuthzCases DEF AuthzAction
<1>4. CASE authz[a].status = "valid"
  BY <1>3, <1>4 DEF ValidForGood
<1> QED BY <1>1, <1>2, <1>4

\* A decision goes to the authorization next.
LEMMA DecisionPassedStep ==
  ASSUME NEW w, Worker = {w}, ~ DBMayFail, TypeOK, HeldCurrent, Requested, AuthzHasOrder,
         ChallengesHaveAuthz, DecisionPassed, [Next]_vars
  PROVE  DecisionPassed'
<1> DEFINE Passed(c) == \/ authz'[AuthzOf(c)].status # "pending"
                        \/ pc'[w] \in {"authzValid", "authzInvalid"} /\ loc'[w].ch = c
<1> SUFFICES ASSUME crashes' = 0, NEW c \in Challenges, chall'[c] \in {"valid", "invalid"}
             PROVE  Passed(c)
  BY DEF DecisionPassed, AuthzOf
<1> USE DEF TypeOK, DBTypeOK
<1>0. AuthzOf(c) \in Authzs
  BY DEF Challenges, Authzs, AuthzOf
<1>1. CASE UpdateChallenge(w) /\ loc[w].ch = c
  BY <1>1, WriteStep
<1>2. ASSUME ~ (UpdateChallenge(w) /\ loc[w].ch = c), crashes = 0
      PROVE  /\ chall[c] \in {"valid", "invalid"}
             /\ \/ authz[AuthzOf(c)].status # "pending"
                \/ pc[w] \in {"authzValid", "authzInvalid"} /\ loc[w].ch = c
  <2>1. chall[c] \in {"valid", "invalid"}
    <3>1. CASE NewChallenge(w)
      BY <3>1, NewStep
    <3>2. CASE UpdateChallenge(w)
      BY <1>2, <3>2, WriteStep
    <3>3. CASE AuthzQuiet(w)
      BY <3>3 DEF AuthzQuiet
    <3> QED BY <3>1, <3>2, <3>3, AuthzCases, PostStep, SearchStep, CheckStep, PassStep,
               KillStep DEF AuthzAction
  <2> QED BY <1>2, <2>1 DEF DecisionPassed
<1>3. CASE Crash(w)
  BY <1>3, KillStep
<1>4. CASE UpdateAuthz(w)
  <2>1. CASE AuthzOf(c) = AuthzOf(loc[w].ch)
    BY <1>4, <2>1, PassStep
  <2>2. CASE AuthzOf(c) # AuthzOf(loc[w].ch)
    <3>1. authz'[AuthzOf(c)] = authz[AuthzOf(c)] /\ crashes = 0
      BY <1>0, <1>4, <2>2, PassStep
    <3>2. c # loc[w].ch /\ ~ UpdateChallenge(w)
      BY <1>4, <2>2, PassStep, WriteStep
    <3> QED BY <1>2, <3>1, <3>2
  <2> QED BY <2>1, <2>2
<1>5. CASE AuthzQuiet(w)
  <2>1. chall[c] = chall'[c] /\ crashes = 0 /\ (UpdateChallenge(w) => UNCHANGED <<pc, loc>>)
    BY <1>5, WriteStep DEF AuthzQuiet, SetLabels
  <2>2. authz[AuthzOf(c)].status # None
    BY <2>1, DBstoreAssumption DEF ChallengesHaveAuthz, AuthzExists, ChallengeStatus
  <2>3. authz[AuthzOf(c)].status # "pending" => authz'[AuthzOf(c)].status # "pending"
    BY <1>0, <1>5, <2>2 DEF AuthzQuiet
  <2>4. ~ UpdateChallenge(w)
    BY <1>5, <2>1, WriteStep DEF AuthzQuiet
  <2>5. pc[w] \in {"authzValid", "authzInvalid"} => pc'[w] = pc[w] /\ loc'[w] = loc[w]
    BY <1>5 DEF AuthzQuiet, SetLabels
  <2> QED BY <1>2, <2>1, <2>3, <2>4, <2>5
<1>6. CASE \/ \E d \in Challenges : ChallengePost(w, d)
           \/ SearchChallenges(w) \/ NewChallenge(w)
           \/ \E d \in Challenges, outcome \in {"ok", "fail", "invalid"} :
                 CheckChallenge(w, d, outcome)
           \/ UpdateChallenge(w)
  <2>1. /\ UNCHANGED <<authz, crashes>>
        /\ pc[w] \notin {"authzValid", "authzInvalid"}
    BY <1>6, PostStep, SearchStep, NewStep, CheckStep, WriteStep
  <2> QED BY <1>1, <1>2, <2>1
<1> QED BY <1>3, <1>4, <1>5, <1>6, AuthzCases DEF AuthzAction

\* An authorization that was decided does not become pending again.
LEMMA DecisionKeptStep ==
  ASSUME NEW w, Worker = {w}, ~ DBMayFail, TypeOK, HeldCurrent, Requested, AuthzHasOrder,
         [Next]_vars, NEW a \in Authzs, authz[a].status \in {"valid", "invalid"}
  PROVE  authz'[a].status # "pending"
<1>1. CASE AuthzQuiet(w)
  BY <1>1, NoneIsNoStatus DEF AuthzQuiet, AuthzStatus
<1>2. CASE UpdateAuthz(w)
  BY <1>2, PassStep
<1> QED BY <1>1, <1>2, AuthzCases, PostStep, SearchStep, NewStep, CheckStep, WriteStep,
           KillStep DEF AuthzAction

-----------------------------------------------------------------------------
(* The theorems.                                                           *)

\* The empty tables and idle workers satisfy the invariant.
LEMMA OneWorkerInit == Init => OneWorkerInv
<1> SUFFICES ASSUME Init PROVE OneWorkerInv
  OBVIOUS
<1>1. IInv /\ RowsInv
  BY InitInv, RowsInit
<1> USE DEF Init, DBInit, WorkersInit
<1>2. \A w \in Worker : pc[w] = "idle" /\ loc[w] = Idle /\ held[w] = Nothing
  OBVIOUS
<1>3. HeldCurrent
  BY <1>2 DEF HeldCurrent, Written, Nothing
<1>4. OrderAsRead /\ CertOfOrder /\ AuthzAsRead /\ TypesMissing /\ TypesFit
  BY <1>2 DEF OrderAsRead, CertOfOrder, AuthzAsRead, TypesMissing, TypesFit, HasType,
     MovingLabels, OrderLabels
<1>5. NoCertYet /\ OneCert /\ AuthzHasOrder /\ OneOfAType
  BY DEF NoCertYet, OneCert, AuthzHasOrder, AuthzExists, OneOfAType
<1>6. ValidatedExist
  BY <1>2 DEF ValidatedExist, Idle, ChallengeLabels
<1>7. SetsWhole
  BY DEF SetsWhole, HasType
<1>8. ValidForGood
  BY NoneIsNoStatus DEF ValidForGood, AuthzStatus
<1>9. DecisionPassed
  BY DBstoreAssumption DEF DecisionPassed, ChallengeStatus
<1> QED BY <1>1, <1>3, <1>4, <1>5, <1>6, <1>7, <1>8, <1>9 DEF OneWorkerInv

\* Every step of the one worker keeps it.
LEMMA OneWorkerStep ==
  ASSUME NEW w, Worker = {w}, ~ DBMayFail, OneWorkerInv, [Next]_vars
  PROVE  OneWorkerInv'
<1> USE DEF OneWorkerInv
<1>1. /\ TypeOK /\ Requested /\ RefreshingRow /\ EnrollingRow
      /\ NamedExist /\ HeldExists /\ AddingUnannounced /\ ChallengesHaveAuthz
  BY DEF IInv, RowsInv
<1>2. IInv' /\ RowsInv'
  BY InvStep, RowsStep
<1>3. TypeOK'
  BY <1>2 DEF IInv
<1>4. Keeps /\ Grows
  BY <1>1, KeepsStep, GrowsStep
<1>5. HeldCurrent'
  BY <1>1, <1>3, HeldCurrentStep
<1>6. OrderAsRead'
  BY <1>1, OrderAsReadStep
<1>7. NoCertYet'
  BY <1>1, NoCertYetStep
<1>8. OneCert'
  BY <1>1, OneCertStep
<1>9. CertOfOrder'
  BY <1>1, <1>3, <1>4, CertOfOrderStep
<1>10. AuthzHasOrder'
  BY <1>1, <1>3, <1>4, AuthzHasOrderStep
<1>11. AuthzAsRead'
  BY <1>1, AuthzAsReadStep
<1>12. ValidatedExist'
  BY <1>1, <1>3, ValidatedExistStep
<1>13. OneOfAType'
  BY <1>1, OneOfATypeStep
<1>14. TypesMissing' /\ TypesFit'
  BY <1>1, TypesMissingStep, TypesFitStep
<1>15. SetsWhole'
  BY <1>1, SetsWholeStep
<1>16. ValidForGood'
  BY <1>1, ValidForGoodStep
<1>17. DecisionPassed'
  BY <1>1, DecisionPassedStep
<1> QED BY <1>2, <1>5, <1>6, <1>7, <1>8, <1>9, <1>10, <1>11, <1>12, <1>13, <1>14, <1>15,
           <1>16, <1>17

\* With one worker and a database that answers, the invariant holds, for every
\* number of orders and kills, and every mix of dns names and TNAuthLists.
THEOREM OneWorkerInvariance ==
  ASSUME NEW w, Worker = {w}, ~ DBMayFail
  PROVE  Spec => []OneWorkerInv
<1>1. OneWorkerInv /\ [Next]_vars => OneWorkerInv'
  BY OneWorkerStep
<1> QED BY OneWorkerInit, <1>1, PTL DEF Spec

\* The status of an order only moves forward: what order_update writes is what
\* comes after the status that is in the table.
THEOREM OrdersForward ==
  ASSUME NEW w, Worker = {w}, ~ DBMayFail
  PROVE  Spec => OrdersMoveForward
<1>1. OneWorkerInv /\ [Next]_vars
        => [\A o \in Orders : Forward(orders[o].status, orders'[o].status)]_vars
  <2> SUFFICES ASSUME OneWorkerInv, [Next]_vars, NEW o \in Orders
               PROVE  Forward(orders[o].status, orders'[o].status)
    OBVIOUS
  <2> QED BY ForwardStep DEF OneWorkerInv, IInv
<1> QED BY OneWorkerInvariance, <1>1, PTL DEF Spec, OrdersMoveForward

\* An authorization that was decided does not become pending again, by a poll
\* that refreshes its expiry or by another request.
THEOREM DecisionsKept ==
  ASSUME NEW w, Worker = {w}, ~ DBMayFail
  PROVE  Spec => DecisionKept
<1>1. OneWorkerInv /\ [Next]_vars
        => [\A az \in Authzs : authz[az].status \in {"valid", "invalid"}
                                   => authz'[az].status # "pending"]_vars
  <2> SUFFICES ASSUME OneWorkerInv, [Next]_vars, NEW az \in Authzs,
                      authz[az].status \in {"valid", "invalid"}
               PROVE  authz'[az].status # "pending"
    OBVIOUS
  <2> QED BY DecisionKeptStep DEF OneWorkerInv, IInv
<1> QED BY OneWorkerInvariance, <1>1, PTL DEF Spec, DecisionKept

\* The response that shows an order as valid links to a row with a certificate:
\* parse reads the status and the name of the row in two lookups, and the row
\* it names is the one that made the order valid.
THEOREM LinkedIsIssued ==
  ASSUME NEW w, Worker = {w}, ~ DBMayFail
  PROVE  Spec => []LinkedCertIssued
<1>1. OneWorkerInv => LinkedCertIssued
  <2> SUFFICES ASSUME OneWorkerInv, pc[w] = "respond", loc[w].seen = "valid",
                      loc[w].cert # None
               PROVE  certs[loc[w].cert].status = "issued"
    BY DEF LinkedCertIssued
  <2> USE DEF OneWorkerInv
  <2>1. loc[w].order \in Orders /\ orders[loc[w].order].status = "valid"
    BY DEF IInv, Requested, OrderLabels, OrderAsRead
  <2>2. PICK c \in Certs : c[1] = loc[w].order /\ certs[c].status = "issued"
    BY <2>1 DEF IInv, ValidOrdersHaveCert
  <2>3. /\ loc[w].cert \in Certs /\ loc[w].cert[1] = loc[w].order
        /\ certs[loc[w].cert].status # None
    BY DEF CertOfOrder, certificates_of, OrderLabels
  <2>4. certs[c].status # None
    BY <2>2, NoneIsNoStatus DEF CertStatus
  <2> QED BY <2>2, <2>3, <2>4 DEF OneCert
<1> QED BY OneWorkerInvariance, <1>1, PTL

\* A set whose elements are all the same has at most one.
LEMMA AtMostOne ==
  ASSUME NEW S, \A x, y \in S : x = y
  PROVE  Cardinality(S) <= 1
<1>1. CASE S = {}
  BY <1>1, FS_EmptySet
<1>2. ASSUME NEW x \in S PROVE S = {x}
  OBVIOUS
<1>3. CASE S # {}
  BY <1>2, <1>3, FS_Singleton
<1> QED BY <1>1, <1>3

\* The CA is asked at most once for an order: a finalization begins at ready,
\* and no order becomes ready again.
THEOREM EnrolledOnce ==
  ASSUME NEW w, Worker = {w}, ~ DBMayFail
  PROVE  Spec => []OneEnrollment
<1>1. OneWorkerInv => OneEnrollment
  <2> SUFFICES ASSUME OneWorkerInv, NEW o \in Orders
               PROVE  Cardinality(certificates_of(o)) <= 1
    BY DEF OneEnrollment
  <2>1. \A c, d \in certificates_of(o) : c = d
    BY DEF OneWorkerInv, OneCert, certificates_of
  <2> QED BY <2>1, AtMostOne
<1> QED BY OneWorkerInvariance, <1>1, PTL

\* An authorization has one set of challenges: new_set is called when there is
\* none, and goes on until there is one of each type.
THEOREM SetsOfChallenges ==
  ASSUME NEW w, Worker = {w}, ~ DBMayFail
  PROVE  Spec => []ChallengeSets
<1>1. OneWorkerInv => ChallengeSets
  <2> SUFFICES ASSUME OneWorkerInv, NEW a \in Authzs
               PROVE  LET rows == challenges_search(a)
                      IN  /\ \A t \in ChallengeTypes :
                                Cardinality({c \in rows : c[3] = t}) <= 1
                          /\ \/ rows = {}
                             \/ {c[3] : c \in rows} = challenge_types(a)
                             \/ \E v \in Worker : pc[v] = "newChallenge" /\ loc[v].az = a
                             \/ crashes > 0
    BY DEF ChallengeSets
  <2> DEFINE rows == challenges_search(a)
  <2> USE DEF OneWorkerInv
  <2>1. ASSUME NEW t \in ChallengeTypes
        PROVE  Cardinality({c \in rows : c[3] = t}) <= 1
    <3>1. \A c, d \in {e \in rows : e[3] = t} : c = d
      BY DEF OneOfAType, challenges_search
    <3> QED BY <3>1, AtMostOne
  <2>2. \A c \in rows : HasType(a, c[3]) /\ c[3] \in challenge_types(a)
    BY DEF challenges_search, HasType, Challenges, TypesFit
  <2>3. \A t : HasType(a, t) => \E c \in rows : c[3] = t
    BY DEF challenges_search, HasType
  <2>4. crashes > 0 \/ crashes = 0
    BY WorkersAssumption DEF IInv, TypeOK, WorkersTypeOK
  <2>5. CASE \A t \in challenge_types(a) : ~ HasType(a, t)
    BY <2>1, <2>2, <2>5
  <2>6. CASE \A t \in challenge_types(a) : HasType(a, t)
    <3>1. {c[3] : c \in rows} = challenge_types(a)
      BY <2>2, <2>3, <2>6
    <3> QED BY <2>1, <3>1
  <2> QED BY <2>1, <2>4, <2>5, <2>6 DEF SetsWhole
<1> QED BY OneWorkerInvariance, <1>1, PTL

\* A challenge that was decided reaches its authorization with the same request,
\* unless the worker is killed between the two writes.
THEOREM DecisionsReach ==
  ASSUME NEW w, Worker = {w}, ~ DBMayFail
  PROVE  Spec => []ChallengeReachesAuthz
<1>1. OneWorkerInv => ChallengeReachesAuthz
  BY DEF OneWorkerInv, DecisionPassed, ChallengeReachesAuthz
<1> QED BY OneWorkerInvariance, <1>1, PTL

\* A valid authorization has a valid challenge, which no later request for the
\* authorization or for one of its challenges makes invalid.
THEOREM ValidKeepsChallenge ==
  ASSUME NEW w, Worker = {w}, ~ DBMayFail
  PROVE  Spec => []ValidAuthzHasChallenge
<1>1. OneWorkerInv => ValidAuthzHasChallenge
  <2> SUFFICES ASSUME OneWorkerInv, NEW a \in Authzs, authz[a].status = "valid"
               PROVE  \E c \in challenges_search(a) : chall[c] = "valid"
    BY DEF ValidAuthzHasChallenge
  <2>1. PICK c \in Challenges : AuthzOf(c) = a /\ chall[c] = "valid"
    BY DEF OneWorkerInv, ValidForGood
  <2>2. chall[c] # None
    BY <2>1, DBstoreAssumption DEF ChallengeStatus
  <2> QED BY <2>1, <2>2 DEF challenges_search
<1> QED BY OneWorkerInvariance, <1>1, PTL
=============================================================================
