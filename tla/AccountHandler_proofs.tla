----------------------- MODULE AccountHandler_proofs -----------------------
(***************************************************************************)
(* Proofs about AccountHandler, for every set of accounts, keys and        *)
(* workers, and every number of kills.                                     *)
(***************************************************************************)
EXTENDS AccountHandler, TLAPS

-----------------------------------------------------------------------------
(* Types.                                                                  *)

\* A step to a label of Labels with a request leaves pc and loc well typed.
LEMMA GotoType ==
  ASSUME AccountTypeOK, NEW w \in Worker, NEW label \in Labels,
         NEW req \in Request \cup {None}, Goto(w, label, req)
  PROVE  /\ pc' \in [Worker -> Labels]
         /\ loc' \in [Worker -> Request \cup {None}]
BY DEF AccountTypeOK, Goto

\* A request keeps its type when its account is filled in.
LEMMA RequestName ==
  ASSUME NEW req \in Request, NEW n \in Names \cup {None}
  PROVE  [req EXCEPT !.name = n] \in Request
BY DEF Request

\* update_or_create leaves the table and the held object well typed.
LEMMA StoreType ==
  ASSUME AccountTypeOK, NEW w \in Worker, NEW n \in Names,
         NEW k \in Jwks \cup {Blank}, Store(w, n, k)
  PROVE  /\ accounts' \in [Names -> Jwks \cup {Blank, None}]
         /\ held' \in [Worker -> Row \cup {None}]
BY DEF AccountTypeOK, Store, Row

\* Types survive every step, where requests have the shape of their task.
LEMMA AccountTypeStep ==
  ASSUME AccountTypeOK, [Next]_vars, \A w \in Worker : RequestShape(w) /\ HeldShape(w)
  PROVE  AccountTypeOK'
<1> USE AccountAssumption
<1> DEFINE PcLoc == /\ pc' \in [Worker -> Labels]
                    /\ loc' \in [Worker -> Request \cup {None}]
           Table == /\ accounts' \in [Names -> Jwks \cup {Blank, None}]
                    /\ held' \in [Worker -> Row \cup {None}]
<1>w. running \subseteq Worker
  BY DEF AccountTypeOK
<1>done. ASSUME NEW w \in Worker, Done(w)
         PROVE  PcLoc
  BY <1>done, GotoType DEF Done, Labels
<1>1. ASSUME NEW w \in Worker, NEW k \in Jwks, NEW p \in Payloads, NewAccount(w, k, p)
      PROVE  AccountTypeOK'
  <2>1. PICK task \in {"register", "existing"} :
           Goto(w, "lookup", [task |-> task, name |-> None, jwk |-> k, oldkey |-> None])
    BY <1>1 DEF NewAccount
  <2>2. PcLoc
    BY <2>1, GotoType DEF Labels, Request, Tasks
  <2> QED BY <1>1, <2>2 DEF NewAccount, AccountTypeOK, settings
<1>2. ASSUME NEW w \in Worker, LookupKey(w)
      PROVE  AccountTypeOK'
  <2>1. loc[w] \in Request
    BY <1>2 DEF LookupKey, At, RequestShape, AccountTypeOK
  <2>2. PcLoc
    BY <1>2, <1>done, <2>1, GotoType, RequestName DEF LookupKey, account_lookup, Labels
  <2> QED BY <1>2, <2>2 DEF LookupKey, AccountTypeOK, settings
<1>3. ASSUME NEW w \in Worker, CreateAccount(w)
      PROVE  AccountTypeOK'
  <2>1. loc[w] \in Request /\ loc[w].jwk \in Jwks
    BY <1>3 DEF CreateAccount, At, RequestShape, AccountTypeOK
  <2>2. PcLoc
    BY <1>3, <2>1, GotoType, RequestName DEF CreateAccount, Labels
  <2>3. Table
    BY <1>3, <2>1, StoreType DEF CreateAccount, AccountTypeOK
  <2> QED BY <1>3, <2>2, <2>3 DEF CreateAccount, AccountTypeOK, settings
<1>4. ASSUME NEW w \in Worker, NEW n \in Names,
             NEW task \in {"deactivate", "contact", "key-change"},
             NEW k \in Jwks \cup {None}, NEW old \in Jwks \cup {None},
             CheckMessage(w, n, task, k, old)
      PROVE  AccountTypeOK'
  <2>1. PcLoc
    BY <1>4, GotoType DEF CheckMessage, FirstLabel, Labels, Request, Tasks
  <2> QED BY <1>4, <2>1 DEF CheckMessage, AccountTypeOK, settings
<1>5. ASSUME NEW w \in Worker, DeleteAccount(w)
      PROVE  AccountTypeOK'
  <2>1. loc[w] \in Request /\ loc[w].name \in Names
    BY <1>5 DEF DeleteAccount, At, RequestShape, AccountTypeOK
  <2>2. PcLoc
    BY <1>5, <1>done, <2>1, GotoType DEF DeleteAccount, Labels
  <2> QED BY <1>5, <2>1, <2>2 DEF DeleteAccount, AccountTypeOK, settings
<1>6. ASSUME NEW w \in Worker, UpdateContact(w)
      PROVE  AccountTypeOK'
  <2>1. loc[w] \in Request /\ loc[w].name \in Names
    BY <1>6 DEF UpdateContact, At, RequestShape, AccountTypeOK
  <2>2. PcLoc
    BY <1>6, <1>done, <2>1, GotoType DEF UpdateContact, Labels
  <2>3. Table
    BY <1>6, <2>1, StoreType DEF UpdateContact, account_update_contact, Exists, AccountTypeOK
  <2> QED BY <1>6, <2>2, <2>3 DEF UpdateContact, AccountTypeOK, settings
<1>7. ASSUME NEW w \in Worker, ReadBack(w) \/ KeyLookup(w) \/ KeyCompare(w) \/ Answer(w)
      PROVE  AccountTypeOK'
  <2>1. PcLoc
    BY <1>7, <1>done, GotoType DEF ReadBack, KeyLookup, KeyCompare, Answer, Labels, AccountTypeOK
  <2> QED BY <1>7, <2>1 DEF ReadBack, KeyLookup, KeyCompare, Answer, AccountTypeOK, settings
<1>8. ASSUME NEW w \in Worker, KeyUpdate(w)
      PROVE  AccountTypeOK'
  <2>1. loc[w] \in Request /\ loc[w].name \in Names /\ loc[w].jwk \in Jwks
    BY <1>8 DEF KeyUpdate, At, RequestShape, AccountTypeOK
  <2>2. PcLoc
    BY <1>8, <1>done, <2>1, GotoType DEF KeyUpdate, Labels
  <2>3. Table
    BY <1>8, <2>1, StoreType DEF KeyUpdate, AccountTypeOK
  <2> QED BY <1>8, <2>2, <2>3 DEF KeyUpdate, AccountTypeOK, settings
<1>9. ASSUME NEW w \in Worker, Save(w)
      PROVE  AccountTypeOK'
  <2>1. held[w] \in Row /\ loc[w] \in Request
    BY <1>9 DEF Save, HeldShape, RequestShape, AccountTypeOK
  <2>2. PcLoc
    BY <1>9, <1>done, <2>1, GotoType, RequestName DEF Save, Labels, AccountTypeOK
  <2>3. Table
    BY <1>9, <2>1 DEF Save, Row, AccountTypeOK
  <2> QED BY <1>9, <2>2, <2>3 DEF Save, AccountTypeOK, settings
<1>10. ASSUME NEW w \in Worker, Crash(w)
       PROVE  AccountTypeOK'
  <2>1. PcLoc
    BY <1>10, <1>done DEF Crash
  <2>2. crashes' \in 0..MaxCrashes
    BY <1>10 DEF Crash, AccountTypeOK
  <2> QED BY <1>10, <2>1, <2>2 DEF Crash, AccountTypeOK, settings
<1>11. CASE UNCHANGED vars
  BY <1>11 DEF vars, AccountTypeOK
<1> QED
  BY <1>w, <1>1, <1>2, <1>3, <1>4, <1>5, <1>6, <1>7, <1>8, <1>9, <1>10, <1>11 DEF Next

-----------------------------------------------------------------------------
(* Who moves.                                                              *)

\* A step is one of a started worker, or none; the settings stay.
LEMMA WhoSteps ==
  ASSUME AccountTypeOK, [Next]_vars
  PROVE  /\ running' = running /\ fallible' = fallible
         /\ \/ UNCHANGED <<accounts, closed, held, pc, loc>>
            \/ \E w \in running : w \in Worker /\ \A v \in Worker \ {w} :
                  held'[v] = held[v] /\ pc'[v] = pc[v] /\ loc'[v] = loc[v]
<1> DEFINE Others(w) == \A v \in Worker \ {w} :
                  held'[v] = held[v] /\ pc'[v] = pc[v] /\ loc'[v] = loc[v]
           Fixed == running' = running /\ fallible' = fallible
<1> USE DEF AccountTypeOK, Goto, Done, settings
<1>1. ASSUME NEW w \in Worker, NEW k \in Jwks, NEW p \in Payloads, NewAccount(w, k, p)
      PROVE  Others(w) /\ Fixed
  BY <1>1 DEF NewAccount
<1>2. ASSUME NEW w \in Worker, LookupKey(w) \/ ReadBack(w) \/ KeyLookup(w) \/ KeyCompare(w)
                               \/ Answer(w) \/ DeleteAccount(w) \/ Crash(w)
      PROVE  Others(w) /\ Fixed
  BY <1>2 DEF LookupKey, ReadBack, KeyLookup, KeyCompare, Answer, DeleteAccount, Crash
<1>3. ASSUME NEW w \in Worker, CreateAccount(w) \/ UpdateContact(w) \/ KeyUpdate(w)
      PROVE  Others(w) /\ Fixed
  BY <1>3 DEF CreateAccount, UpdateContact, KeyUpdate, account_update_contact, Store
<1>4. ASSUME NEW w \in Worker, NEW n, NEW task, NEW k, NEW old, CheckMessage(w, n, task, k, old)
      PROVE  Others(w) /\ Fixed
  BY <1>4 DEF CheckMessage
<1>5. ASSUME NEW w \in Worker, Save(w)
      PROVE  Others(w) /\ Fixed
  BY <1>5 DEF Save
<1>6. CASE UNCHANGED vars
  BY <1>6 DEF vars
<1>7. running \subseteq Worker
  BY AccountAssumption
<1> QED BY <1>1, <1>2, <1>3, <1>4, <1>5, <1>6, <1>7 DEF Next

\* Workers that were not started stay at rest.
LEMMA OthersStep ==
  ASSUME AccountTypeOK, OthersRest, [Next]_vars
  PROVE  OthersRest'
BY WhoSteps DEF OthersRest

-----------------------------------------------------------------------------
(* The shape of requests.                                                  *)

\* A request goes the way of its task, and holds the row it has written.
LEMMA ShapeStep ==
  ASSUME AccountTypeOK, [Next]_vars, \A w \in Worker : RequestShape(w) /\ HeldShape(w)
  PROVE  \A w \in Worker : (RequestShape(w) /\ HeldShape(w))'
<1> DEFINE Shape(w) == RequestShape(w) /\ HeldShape(w)
           Rest(w) == Shape(w)' /\ \A v \in Worker \ {w} :
                  held'[v] = held[v] /\ pc'[v] = pc[v] /\ loc'[v] = loc[v]
<1> USE AccountAssumption DEF AccountTypeOK, RequestShape, HeldShape, Goto, Done, At, Request
<1>1. ASSUME NEW w \in Worker, NEW k \in Jwks, NEW p \in Payloads, NewAccount(w, k, p)
      PROVE  Rest(w)
  <2>1. PICK task \in {"register", "existing"} :
           Goto(w, "lookup", [task |-> task, name |-> None, jwk |-> k, oldkey |-> None])
    BY <1>1 DEF NewAccount
  <2>2. [task |-> task, name |-> None, jwk |-> k, oldkey |-> None] \in Request
    BY DEF Tasks
  <2>3. pc'[w] = "lookup" /\ loc'[w] = [task |-> task, name |-> None, jwk |-> k, oldkey |-> None]
    BY <2>1
  <2>4. held' = held /\ held[w] = None
    BY <1>1 DEF NewAccount
  <2>5. RequestShape(w)' /\ HeldShape(w)'
    BY <2>2, <2>3, <2>4
  <2> QED BY <2>1, <2>4, <2>5
<1>2. ASSUME NEW w \in Worker, LookupKey(w)
      PROVE  Rest(w)
  BY <1>2 DEF LookupKey, account_lookup
<1>3. ASSUME NEW w \in Worker, CreateAccount(w)
      PROVE  Rest(w)
  BY <1>3 DEF CreateAccount, Store
<1>check. ASSUME NEW w \in Worker, NEW n \in Names,
                 NEW task \in {"deactivate", "contact", "key-change"},
                 NEW k \in Jwks \cup {None}, NEW old \in Jwks \cup {None},
                 task = "key-change" => k \in Jwks, CheckMessage(w, n, task, k, old)
          PROVE  Rest(w)
  <2> DEFINE req == [task |-> task, name |-> n, jwk |-> k, oldkey |-> old]
  <2>1. req \in Request /\ Goto(w, FirstLabel(task), req)
    BY <1>check DEF CheckMessage, Tasks
  <2>2. pc'[w] = FirstLabel(task) /\ loc'[w] = req
    BY <2>1
  <2>3. \/ task = "deactivate" /\ FirstLabel(task) = "delete"
        \/ task = "contact" /\ FirstLabel(task) = "contact"
        \/ task = "key-change" /\ FirstLabel(task) = "keyLookup"
    BY DEF FirstLabel
  <2>4. held' = held /\ held[w] = None
    BY <1>check DEF CheckMessage
  <2>5. RequestShape(w)' /\ HeldShape(w)'
    BY <1>check, <2>1, <2>2, <2>3, <2>4
  <2> QED BY <2>1, <2>4, <2>5
<1>4. ASSUME NEW w \in Worker, NEW n \in Names,
             NEW task \in {"deactivate", "contact"}, CheckMessage(w, n, task, None, None)
      PROVE  Rest(w)
  <2>1. task \in {"deactivate", "contact", "key-change"} /\ (task = "key-change" => None \in Jwks)
    OBVIOUS
  <2>2. None \in Jwks \cup {None}
    OBVIOUS
  <2> HIDE DEF Rest, Goto, Done, At, Request, RequestShape, HeldShape, AccountTypeOK
  <2> QED BY <1>4, <2>1, <2>2, <1>check
<1>5. ASSUME NEW w \in Worker, NEW n \in Names, NEW k \in Jwks, NEW old \in Jwks \cup {None},
             CheckMessage(w, n, "key-change", k, old)
      PROVE  Rest(w)
  BY <1>5, <1>check
<1>6. ASSUME NEW w \in Worker, DeleteAccount(w)
      PROVE  Rest(w)
  BY <1>6 DEF DeleteAccount
<1>7. ASSUME NEW w \in Worker, UpdateContact(w)
      PROVE  Rest(w)
  BY <1>7 DEF UpdateContact, account_update_contact, Store
<1>8. ASSUME NEW w \in Worker, ReadBack(w)
      PROVE  Rest(w)
  BY <1>8 DEF ReadBack
<1>9. ASSUME NEW w \in Worker, KeyLookup(w)
      PROVE  Rest(w)
  BY <1>9 DEF KeyLookup
<1>10. ASSUME NEW w \in Worker, KeyCompare(w)
       PROVE  Rest(w)
  BY <1>10 DEF KeyCompare
<1>11. ASSUME NEW w \in Worker, KeyUpdate(w)
       PROVE  Rest(w)
  BY <1>11 DEF KeyUpdate, Store
<1>12. ASSUME NEW w \in Worker, Save(w)
       PROVE  Rest(w)
  BY <1>12 DEF Save
<1>13. ASSUME NEW w \in Worker, Answer(w)
       PROVE  Rest(w)
  BY <1>13 DEF Answer
<1>14. ASSUME NEW w \in Worker, Crash(w)
       PROVE  Rest(w)
  BY <1>14 DEF Crash
<1>15. CASE UNCHANGED vars
  BY <1>15 DEF vars
<1>w. running \subseteq Worker
  OBVIOUS
<1>all. ASSUME NEW w \in Worker, Rest(w)
        PROVE  \A v \in Worker : Shape(v)'
  BY <1>all
<1> HIDE DEF Rest
<1> QED
  BY <1>w, <1>all, <1>1, <1>2, <1>3, <1>4, <1>5, <1>6, <1>7, <1>8, <1>9, <1>10, <1>11,
     <1>12, <1>13, <1>14, <1>15 DEF Next

-----------------------------------------------------------------------------
(* Closed accounts.                                                        *)

\* An account a request is about keeps its row until it is closed, and a row
\* without a key is only made of a closed one.
LEMMA NamesStep ==
  ASSUME AccountTypeOK, \A w \in Worker : RequestShape(w) /\ HeldShape(w),
         NamesWereThere, BlankOnlyAfterClose, [Next]_vars
  PROVE  NamesWereThere' /\ BlankOnlyAfterClose'
<1> DEFINE There(n) == Exists(n) \/ n \in closed
           Shape(w) == RequestShape(w) /\ HeldShape(w)
           Goal == NamesWereThere' /\ BlankOnlyAfterClose'
<1>w. running \subseteq Worker
  BY AccountAssumption DEF AccountTypeOK
<1> USE AccountAssumption DEF AccountTypeOK, NamesWereThere, BlankOnlyAfterClose, Exists
<1> DEFINE Was(v) == /\ pc[v] # "idle" /\ loc[v].name # None => There(loc[v].name)
                     /\ held[v] # None /\ held[v].jwk = Blank => held[v].name \in closed
<1>keep. ASSUME NEW w \in Worker, closed \subseteq closed',
                \A n \in Names : There(n) => There(n)',
                \A n \in Names : accounts'[n] = Blank => accounts[n] = Blank \/ n \in closed',
                \A v \in Worker \ {w} :
                  held'[v] = held[v] /\ pc'[v] = pc[v] /\ loc'[v] = loc[v],
                Was(w)'
         PROVE  Goal
  <2>1. ASSUME NEW v \in Worker, v # w
        PROVE  Was(v)'
    <3>1. pc[v] # "idle" /\ loc[v].name # None => loc[v].name \in Names
      BY DEF RequestShape, Request
    <3>2. Was(v)
      OBVIOUS
    <3> QED BY <1>keep, <2>1, <3>1, <3>2
  <2> QED BY <1>keep, <2>1
<1> USE DEF Goto, Done, At, RequestShape, HeldShape, Request
<1> SUFFICES Goal
  OBVIOUS
<1> HIDE DEF Goal
<1>1. ASSUME NEW w \in Worker, NEW k \in Jwks, NEW p \in Payloads, NewAccount(w, k, p)
      PROVE  Goal
  BY <1>1, <1>keep DEF NewAccount
<1>2. ASSUME NEW w \in Worker, LookupKey(w)
      PROVE  Goal
  BY <1>2, <1>keep DEF LookupKey, account_lookup
<1>3. ASSUME NEW w \in Worker, CreateAccount(w)
      PROVE  Goal
  BY <1>3, <1>keep DEF CreateAccount, Store
<1>4. ASSUME NEW w \in Worker, NEW n \in Names,
             NEW task \in {"deactivate", "contact", "key-change"},
             NEW k \in Jwks \cup {None}, NEW old \in Jwks \cup {None},
             CheckMessage(w, n, task, k, old)
      PROVE  Goal
  BY <1>4, <1>keep DEF CheckMessage
<1>5. ASSUME NEW w \in Worker, DeleteAccount(w)
      PROVE  Goal
  BY <1>5, <1>keep DEF DeleteAccount
<1>6. ASSUME NEW w \in Worker, UpdateContact(w)
      PROVE  Goal
  BY <1>6, <1>keep DEF UpdateContact, account_update_contact, Store
<1>7. ASSUME NEW w \in Worker, ReadBack(w) \/ KeyLookup(w) \/ KeyCompare(w) \/ Answer(w)
      PROVE  Goal
  BY <1>7, <1>keep DEF ReadBack, KeyLookup, KeyCompare, Answer
<1>8. ASSUME NEW w \in Worker, KeyUpdate(w)
      PROVE  Goal
  BY <1>8, <1>keep DEF KeyUpdate, Store
<1>9. ASSUME NEW w \in Worker, Save(w)
      PROVE  Goal
  BY <1>9, <1>keep DEF Save, Row
<1>10. ASSUME NEW w \in Worker, Crash(w)
       PROVE  Goal
  BY <1>10, <1>keep DEF Crash
<1>11. CASE UNCHANGED vars
  BY <1>11 DEF vars, Goal
<1> HIDE DEF Goto, Done, At, Request, RequestShape, HeldShape, AccountTypeOK,
             NamesWereThere, BlankOnlyAfterClose, Exists
<1> QED
  BY <1>w, <1>1, <1>2, <1>3, <1>4, <1>5, <1>6, <1>7, <1>8, <1>9, <1>10, <1>11 DEF Next

-----------------------------------------------------------------------------
(* One worker.                                                             *)

\* A single worker finds the table as it left it; so it gives a key one account
\* only, where calls do not fail, and has stored what it answers, where they do.
LEMMA AloneStep ==
  ASSUME AccountInv, [Next]_vars
  PROVE  NobodyInterferes' /\ OneAccountPerKey' /\ AcknowledgedIsStored'
<1> DEFINE
      InPlace(w) == /\ held[w] # None => accounts[held[w].name] = held[w].jwk
                    /\ pc[w] \in {"delete", "contact", "keyLookup", "keyCompare", "keyUpdate"}
                          => accounts[loc[w].name] \in Jwks
      Unclaimed(w) == pc[w] \in {"create", "keyCompare", "keyUpdate"}
                          => \A n \in Names : accounts[n] # loc[w].jwk
      Unique == \A m, n \in Names : accounts[m] \in Jwks /\ accounts[m] = accounts[n] => m = n
      Stored(w) == At(w, "answer") /\ loc[w].name # None =>
                     \/ loc[w].task = "deactivate" /\ accounts[loc[w].name] = None
                     \/ loc[w].task = "contact" /\ accounts[loc[w].name] \in Jwks
                     \/ /\ loc[w].task \notin {"deactivate", "contact"}
                        /\ accounts[loc[w].name] = loc[w].jwk
      Lone(w) == /\ InPlace(w) /\ Stored(w)
                 /\ ~ fallible => Unclaimed(w) /\ Unique
<1>1. Alone' = Alone /\ running' = running /\ fallible' = fallible
  BY WhoSteps DEF AccountInv, Alone
<1>2. CASE ~ Alone
  BY <1>1, <1>2 DEF NobodyInterferes, OneAccountPerKey, AcknowledgedIsStored
<1>3. CASE Alone
  <2>1. PICK w \in Worker : running = {w}
    BY <1>3 DEF Alone
  <2>2. Lone(w)
    BY <1>3, <2>1 DEF AccountInv, NobodyInterferes, OneAccountPerKey, AcknowledgedIsStored,
       account_lookup
  <2>3. Lone(w)' => NobodyInterferes' /\ OneAccountPerKey' /\ AcknowledgedIsStored'
    BY <1>1, <1>3, <2>1 DEF NobodyInterferes, OneAccountPerKey, AcknowledgedIsStored,
       account_lookup
  <2>4. AccountTypeOK /\ RequestShape(w) /\ HeldShape(w)
    BY DEF AccountInv
  <2> HIDE DEF Lone
  <2> SUFFICES Lone(w)'
    BY <2>3
  <2> USE <2>2, <2>4, AccountAssumption, <1>1
      DEF AccountTypeOK, RequestShape, HeldShape, Goto, Done, At, Request, Row, Lone
  <2>5. ASSUME NEW k \in Jwks, NEW p \in Payloads, NewAccount(w, k, p)
        PROVE  Lone(w)'
    BY <2>5 DEF NewAccount
  <2>6. CASE LookupKey(w)
    BY <2>6 DEF LookupKey, account_lookup
  <2>7. CASE CreateAccount(w)
    BY <2>7 DEF CreateAccount, Store, Exists
  <2>8. ASSUME NEW n \in Names, NEW task \in {"deactivate", "contact", "key-change"},
               NEW k \in Jwks \cup {None}, NEW old \in Jwks \cup {None},
               CheckMessage(w, n, task, k, old)
        PROVE  Lone(w)'
    <3>1. pc'[w] = FirstLabel(task) /\ loc'[w].name = n
      BY <2>8 DEF CheckMessage
    <3>2. FirstLabel(task) \in {"delete", "contact", "keyLookup"}
      BY DEF FirstLabel
    <3> QED BY <2>8, <3>1, <3>2 DEF CheckMessage
  <2>9. CASE DeleteAccount(w)
    BY <2>9 DEF DeleteAccount
  <2>10. CASE UpdateContact(w)
    BY <2>10 DEF UpdateContact, account_update_contact, Store, Exists
  <2>11. CASE ReadBack(w)
    BY <2>11 DEF ReadBack
  <2>12. CASE KeyLookup(w)
    BY <2>12 DEF KeyLookup, account_lookup
  <2>13. CASE KeyCompare(w)
    BY <2>13 DEF KeyCompare
  <2>14. CASE KeyUpdate(w)
    BY <2>14 DEF KeyUpdate, Store
  <2>15. CASE Save(w)
    <3>1. held[w] \in Row /\ held[w] # None
      BY <2>15 DEF Save
    <3>2. accounts' = accounts
      BY <2>15, <3>1 DEF Save
    <3>3. held'[w] = None
      BY <2>15 DEF Save
    <3>4. \/ pc' = pc /\ loc' = loc
          \/ pc'[w] = "answer" /\ loc'[w].name = None
          \/ pc'[w] = "idle"
      BY <2>15, <3>1 DEF Save
    <3> QED BY <3>1, <3>2, <3>3, <3>4
  <2>16. CASE Answer(w)
    BY <2>16 DEF Answer
  <2>17. CASE Crash(w)
    BY <2>17 DEF Crash
  <2>18. CASE UNCHANGED vars
    BY <2>18 DEF vars
  <2> HIDE DEF AccountTypeOK, RequestShape, HeldShape, Goto, Done, At, Request, Row, Lone
  <2> QED
    BY <2>1, <2>5, <2>6, <2>7, <2>8, <2>9, <2>10, <2>11, <2>12, <2>13, <2>14, <2>15,
       <2>16, <2>17, <2>18 DEF Next
<1> QED BY <1>2, <1>3

-----------------------------------------------------------------------------
(* The invariant.                                                          *)

\* The empty table satisfies the invariant.
LEMMA AccountInitInv == Init => AccountInv
BY AccountAssumption
   DEF Init, AccountInv, AccountTypeOK, Labels, RequestShape, HeldShape, NamesWereThere,
       BlankOnlyAfterClose, OthersRest, NobodyInterferes, OneAccountPerKey,
       AcknowledgedIsStored, At

\* Every step keeps the invariant.
LEMMA AccountInvStep ==
  ASSUME AccountInv, [Next]_vars
  PROVE  AccountInv'
<1>1. AccountTypeOK /\ \A w \in Worker : RequestShape(w) /\ HeldShape(w)
  BY DEF AccountInv
<1>2. AccountTypeOK'
  BY <1>1, AccountTypeStep
<1>3. \A w \in Worker : (RequestShape(w) /\ HeldShape(w))'
  BY <1>1, ShapeStep
<1>4. NamesWereThere' /\ BlankOnlyAfterClose'
  BY <1>1, NamesStep DEF AccountInv
<1>5. OthersRest'
  BY <1>1, OthersStep DEF AccountInv
<1>6. NobodyInterferes' /\ OneAccountPerKey' /\ AcknowledgedIsStored'
  BY AloneStep
<1> QED BY <1>2, <1>3, <1>4, <1>5, <1>6 DEF AccountInv

\* The inductive invariant of the account handler, types included.
THEOREM AccountInvariance ==
  Spec => []AccountInv
<1>1. AccountInv /\ [Next]_vars => AccountInv'
  BY AccountInvStep
<1> QED BY AccountInitInv, <1>1, PTL DEF Spec

\* However many workers overlap and however many calls fail, an account without
\* a key is one that was closed while its contact was updated.
THEOREM BlankOnlyOfClosed ==
  Spec => []BlankOnlyAfterClose
<1>1. AccountInv => BlankOnlyAfterClose
  BY DEF AccountInv
<1> QED BY AccountInvariance, <1>1, PTL

\* A single worker, whose calls do not fail, gives every key one account.
THEOREM OneAccountForAKey ==
  Spec => []OneAccountPerKey
<1>1. AccountInv => OneAccountPerKey
  BY DEF AccountInv
<1> QED BY AccountInvariance, <1>1, PTL

\* A single worker answers no success that is not in the table, whichever of
\* its calls fail.
THEOREM AnswersAreStored ==
  Spec => []AcknowledgedIsStored
<1>1. AccountInv => AcknowledgedIsStored
  BY DEF AccountInv
<1> QED BY AccountInvariance, <1>1, PTL

-----------------------------------------------------------------------------
(* Steps.                                                                  *)

\* With any number of workers, a key that has an account is claimed by no
\* further request, and gets no further account once the claims are over.
THEOREM LateClaims ==
  Spec => LateClaimRefused
<1> DEFINE Taken(k) == account_lookup(k) # {}
           Late(k) == /\ Claiming(k)' \subseteq Claiming(k)
                      /\ Claiming(k) \cup Saving(k) = {} =>
                             account_lookup(k)' \subseteq account_lookup(k)
           LateClaim == ~ fallible => \A k \in Jwks : Taken(k) => Late(k)
<1>1. AccountInv /\ [Next]_vars => [LateClaim]_vars
  <2> SUFFICES ASSUME AccountInv, [Next]_vars, ~ fallible, NEW k \in Jwks, Taken(k)
               PROVE  Late(k)
    OBVIOUS
  <2> USE AccountAssumption
  <2>0. AccountTypeOK /\ \A w \in Worker : RequestShape(w) /\ HeldShape(w)
    BY DEF AccountInv
  <2>w. running \subseteq Worker
    BY <2>0 DEF AccountTypeOK
  <2>frame. ASSUME NEW w \in Worker,
                   \A v \in Worker \ {w} : pc'[v] = pc[v] /\ loc'[v] = loc[v],
                   w \in Claiming(k)' => w \in Claiming(k),
                   \A n \in Names : accounts'[n] = k =>
                       accounts[n] = k \/ w \in Claiming(k) \cup Saving(k)
            PROVE  Late(k)
    BY <2>frame DEF Claiming, account_lookup
  <2> USE <2>0 DEF Goto, Done, At, RequestShape, HeldShape, Request, Claiming, Saving,
                   AccountTypeOK
  <2> HIDE DEF Late
  <2>1. ASSUME NEW w \in Worker, NEW j \in Jwks, NEW p \in Payloads, NewAccount(w, j, p)
        PROVE  Late(k)
    BY <2>1, <2>frame DEF NewAccount
  <2>2. ASSUME NEW w \in Worker, LookupKey(w)
        PROVE  Late(k)
    <3>1. /\ accounts' = accounts
          /\ \A v \in Worker \ {w} : pc'[v] = pc[v] /\ loc'[v] = loc[v]
      BY <2>2 DEF LookupKey
    <3>2. w \notin Claiming(k)'
      <4>1. \/ pc'[w] \in {"idle", "answer"}
            \/ /\ pc'[w] = "create" /\ loc'[w] = loc[w]
               /\ account_lookup(loc[w].jwk) = {}
        BY <2>2 DEF LookupKey
      <4> QED BY <4>1
    <3> QED BY <3>1, <3>2, <2>frame
  <2>3. ASSUME NEW w \in Worker, CreateAccount(w)
        PROVE  Late(k)
    BY <2>3, <2>frame DEF CreateAccount, Store
  <2>4. ASSUME NEW w \in Worker, NEW n \in Names,
               NEW task \in {"deactivate", "contact", "key-change"},
               NEW j \in Jwks \cup {None}, NEW old \in Jwks \cup {None},
               CheckMessage(w, n, task, j, old)
        PROVE  Late(k)
    <3>1. FirstLabel(task) \in {"delete", "contact", "keyLookup"}
      BY DEF FirstLabel
    <3> QED BY <2>4, <2>frame, <3>1 DEF CheckMessage
  <2>5. ASSUME NEW w \in Worker, DeleteAccount(w)
        PROVE  Late(k)
    BY <2>5, <2>frame DEF DeleteAccount
  <2>6. ASSUME NEW w \in Worker, UpdateContact(w)
        PROVE  Late(k)
    BY <2>6, <2>frame DEF UpdateContact, account_update_contact, Store
  <2>7. ASSUME NEW w \in Worker, ReadBack(w) \/ KeyCompare(w) \/ Answer(w)
        PROVE  Late(k)
    BY <2>7, <2>frame DEF ReadBack, KeyCompare, Answer
  <2>8. ASSUME NEW w \in Worker, KeyLookup(w)
        PROVE  Late(k)
    BY <2>8, <2>frame DEF KeyLookup
  <2>9. ASSUME NEW w \in Worker, KeyUpdate(w)
        PROVE  Late(k)
    BY <2>9, <2>frame DEF KeyUpdate, Store
  <2>10. ASSUME NEW w \in Worker, Save(w)
         PROVE  Late(k)
    BY <2>10, <2>frame DEF Save, Row
  <2>11. ASSUME NEW w \in Worker, Crash(w)
         PROVE  Late(k)
    BY <2>11, <2>frame DEF Crash
  <2>12. CASE UNCHANGED vars
    BY <2>12 DEF vars, Late, account_lookup
  <2> HIDE DEF Goto, Done, At, RequestShape, HeldShape, Request, Claiming, Saving, AccountTypeOK
  <2> QED
    BY <2>w, <2>1, <2>2, <2>3, <2>4, <2>5, <2>6, <2>7, <2>8, <2>9, <2>10, <2>11, <2>12 DEF Next
<1> QED BY AccountInvariance, <1>1, PTL DEF Spec, LateClaimRefused

\* Whatever overlaps and fails, a closed account that no request under way is
\* about never has a row, or a request, again.
THEOREM ClosedForGood ==
  Spec => ClosedStaysClosed
<1> DEFINE Stays == \A n \in Names : Quiet(n) => Quiet(n)'
<1>1. AccountInv /\ [Next]_vars => [Stays]_vars
  <2> SUFFICES ASSUME AccountInv, [Next]_vars, NEW n \in Names, Quiet(n)
               PROVE  Quiet(n)'
    OBVIOUS
  <2> DEFINE Away(w) == /\ pc[w] # "idle" => loc[w].name # n
                        /\ held[w] # None => held[w].name # n
  <2> USE AccountAssumption
  <2>0. AccountTypeOK /\ \A w \in Worker : RequestShape(w) /\ HeldShape(w)
    BY DEF AccountInv
  <2>w. running \subseteq Worker
    BY <2>0 DEF AccountTypeOK
  <2>q. n \in closed /\ accounts[n] = None /\ \A w \in Worker : Away(w)
    BY DEF Quiet, Exists
  <2>frame. ASSUME NEW w \in Worker, closed \subseteq closed', accounts'[n] = None,
                   \A v \in Worker \ {w} :
                       held'[v] = held[v] /\ pc'[v] = pc[v] /\ loc'[v] = loc[v],
                   Away(w)'
            PROVE  Quiet(n)'
    BY <2>frame, <2>q DEF Quiet, Exists
  <2> USE <2>0, <2>q DEF Goto, Done, At, RequestShape, HeldShape, Request, AccountTypeOK
  <2>1. ASSUME NEW w \in Worker, NEW k \in Jwks, NEW p \in Payloads, NewAccount(w, k, p)
        PROVE  Quiet(n)'
    BY <2>1, <2>frame DEF NewAccount
  <2>2. ASSUME NEW w \in Worker, LookupKey(w)
        PROVE  Quiet(n)'
    BY <2>2, <2>frame DEF LookupKey, account_lookup
  <2>3. ASSUME NEW w \in Worker, CreateAccount(w)
        PROVE  Quiet(n)'
    BY <2>3, <2>frame DEF CreateAccount, Store
  <2>4. ASSUME NEW w \in Worker, NEW m \in Names,
               NEW task \in {"deactivate", "contact", "key-change"},
               NEW k \in Jwks \cup {None}, NEW old \in Jwks \cup {None},
               CheckMessage(w, m, task, k, old)
        PROVE  Quiet(n)'
    BY <2>4, <2>frame DEF CheckMessage
  <2>5. ASSUME NEW w \in Worker, DeleteAccount(w)
        PROVE  Quiet(n)'
    BY <2>5, <2>frame DEF DeleteAccount
  <2>6. ASSUME NEW w \in Worker, UpdateContact(w)
        PROVE  Quiet(n)'
    BY <2>6, <2>frame DEF UpdateContact, account_update_contact, Store
  <2>7. ASSUME NEW w \in Worker, ReadBack(w) \/ KeyLookup(w) \/ KeyCompare(w) \/ Answer(w)
        PROVE  Quiet(n)'
    BY <2>7, <2>frame DEF ReadBack, KeyLookup, KeyCompare, Answer
  <2>8. ASSUME NEW w \in Worker, KeyUpdate(w)
        PROVE  Quiet(n)'
    BY <2>8, <2>frame DEF KeyUpdate, Store
  <2>9. ASSUME NEW w \in Worker, Save(w)
        PROVE  Quiet(n)'
    BY <2>9, <2>frame DEF Save, Row
  <2>10. ASSUME NEW w \in Worker, Crash(w)
         PROVE  Quiet(n)'
    BY <2>10, <2>frame DEF Crash
  <2>11. CASE UNCHANGED vars
    BY <2>11 DEF vars, Quiet, Exists
  <2> HIDE DEF Goto, Done, At, RequestShape, HeldShape, Request, AccountTypeOK
  <2> QED
    BY <2>w, <2>1, <2>2, <2>3, <2>4, <2>5, <2>6, <2>7, <2>8, <2>9, <2>10, <2>11 DEF Next
<1> QED BY AccountInvariance, <1>1, PTL DEF Spec, ClosedStaysClosed

-----------------------------------------------------------------------------
(* AccountHandler implements AccountRegistry.                              *)

\* With one worker, whose calls do not fail, registration, rollover and
\* deactivation are each the one step of the registry that writes the row; no
\* other step shows, a save() included.
THEOREM ImplementsAccountRegistry ==
  Spec => ImplementsRegistry
<1>1. Init => Registry!Init
  BY AccountAssumption DEF Init, Registry!Init, ShownKey
<1>2. AccountInv /\ [Next]_vars =>
         [Alone /\ ~ fallible => [Registry!Next]_<<accounts, closed>>]_vars
  <2> SUFFICES ASSUME AccountInv, [Next]_vars, Alone, ~ fallible
               PROVE  Registry!Next \/ UNCHANGED <<accounts, closed>>
    OBVIOUS
  <2> DEFINE Goal == Registry!Next \/ UNCHANGED <<accounts, closed>>
  <2>1. PICK w \in Worker : running = {w}
    BY DEF Alone
  <2> USE AccountAssumption
  <2>2. AccountTypeOK /\ RequestShape(w) /\ HeldShape(w)
    BY DEF AccountInv
  <2>3. /\ held[w] # None => accounts[held[w].name] = held[w].jwk
        /\ pc[w] \in {"delete", "contact", "keyLookup", "keyCompare", "keyUpdate"}
             => accounts[loc[w].name] \in Jwks
        /\ pc[w] \in {"create", "keyCompare", "keyUpdate"}
             => \A n \in Names : accounts[n] # loc[w].jwk
    BY <2>1 DEF AccountInv, NobodyInterferes, account_lookup
  <2>4. ASSUME NEW n \in Names, NEW k \in Jwks, accounts' = [accounts EXCEPT ![n] = k]
        PROVE  ShownKey' = [ShownKey EXCEPT ![n] = k]
    BY <2>2, <2>4 DEF AccountTypeOK, ShownKey
  <2>5. ASSUME CreateAccount(w)
        PROVE  Goal
    <3>1. loc[w].jwk \in Jwks /\ \A n \in Names : ShownKey[n] # loc[w].jwk
      BY <2>2, <2>3, <2>5 DEF CreateAccount, At, RequestShape, ShownKey
    <3>2. CASE UNCHANGED accounts
      BY <2>5, <3>2 DEF CreateAccount
    <3>3. ASSUME NEW n \in Names \ closed, accounts[n] = None, Store(w, n, loc[w].jwk)
          PROVE  Goal
      <4>1. ShownKey[n] = None /\ ShownKey' = [ShownKey EXCEPT ![n] = loc[w].jwk]
        BY <2>4, <3>1, <3>3 DEF Store, ShownKey
      <4>2. Registry!Register(n, loc[w].jwk)
        BY <2>5, <3>1, <3>3, <4>1 DEF CreateAccount, Registry!Register, Registry!Free
      <4> QED BY <3>1, <4>2 DEF Registry!Next
    <3> QED BY <2>5, <3>2, <3>3 DEF CreateAccount, Exists
  <2>6. ASSUME KeyUpdate(w)
        PROVE  Goal
    <3> DEFINE n == loc[w].name
               k == loc[w].jwk
    <3>1. /\ n \in Names /\ k \in Jwks /\ accounts[n] \in Jwks
          /\ \A m \in Names : ShownKey[m] # k
      BY <2>2, <2>3, <2>6 DEF KeyUpdate, At, RequestShape, ShownKey
    <3>2. CASE UNCHANGED accounts
      BY <2>6, <3>2 DEF KeyUpdate
    <3>3. CASE Store(w, n, k)
      <4>1. ShownKey[n] # None /\ ShownKey' = [ShownKey EXCEPT ![n] = k]
        BY <2>4, <3>1, <3>3 DEF Store, ShownKey
      <4>2. Registry!Rollover(n, k)
        BY <2>6, <3>1, <4>1 DEF KeyUpdate, Registry!Rollover, Registry!Free
      <4> QED BY <3>1, <4>2 DEF Registry!Next
    <3> QED BY <2>6, <3>2, <3>3 DEF KeyUpdate
  <2>7. ASSUME DeleteAccount(w)
        PROVE  Goal
    <3> DEFINE n == loc[w].name
    <3>1. n \in Names /\ accounts[n] \in Jwks
      BY <2>2, <2>3, <2>7 DEF DeleteAccount, At, RequestShape
    <3>2. accounts' = [accounts EXCEPT ![n] = None] /\ closed' = closed \cup {n}
      BY <2>7 DEF DeleteAccount
    <3>3. ShownKey[n] # None /\ ShownKey' = [ShownKey EXCEPT ![n] = None]
      BY <2>2, <3>1, <3>2 DEF AccountTypeOK, ShownKey
    <3>4. Registry!Deactivate(n)
      BY <3>2, <3>3 DEF Registry!Deactivate
    <3>5. \E m \in Names : Registry!Deactivate(m)
      BY <3>1, <3>4
    <3>6. Registry!Next
      BY <3>5 DEF Registry!Next
    <3> QED BY <3>6
  <2>8. ASSUME UpdateContact(w)
        PROVE  Goal
    <3>1. loc[w].name \in Names /\ accounts[loc[w].name] \in Jwks
      BY <2>2, <2>3, <2>8 DEF UpdateContact, At, RequestShape
    <3>2. accounts' = accounts
      BY <2>2, <2>8, <3>1
         DEF UpdateContact, account_update_contact, Store, Exists, AccountTypeOK
    <3> QED BY <2>8, <3>2 DEF UpdateContact
  <2>9. ASSUME Save(w)
        PROVE  Goal
    <3>1. held[w] \in Row /\ accounts[held[w].name] = held[w].jwk
      BY <2>2, <2>3, <2>9 DEF Save, AccountTypeOK
    <3>2. accounts' = accounts
      BY <2>2, <2>9, <3>1 DEF Save, AccountTypeOK
    <3> QED BY <2>9, <3>2 DEF Save
  <2>10. ASSUME NEW k \in Jwks, NEW p \in Payloads, NewAccount(w, k, p)
         PROVE  Goal
    BY <2>10 DEF NewAccount
  <2>11. ASSUME NEW n \in Names, NEW task \in {"deactivate", "contact", "key-change"},
                NEW k \in Jwks \cup {None}, NEW old \in Jwks \cup {None},
                CheckMessage(w, n, task, k, old)
         PROVE  Goal
    BY <2>11 DEF CheckMessage
  <2>12. ASSUME LookupKey(w) \/ ReadBack(w) \/ KeyLookup(w) \/ KeyCompare(w)
                \/ Answer(w) \/ Crash(w)
         PROVE  Goal
    BY <2>12 DEF LookupKey, ReadBack, KeyLookup, KeyCompare, Answer, Crash
  <2>13. CASE UNCHANGED vars
    BY <2>13 DEF vars
  <2> HIDE DEF Goal
  <2>14. ASSUME Next PROVE Goal
    BY <2>14, <2>1, <2>5, <2>6, <2>7, <2>8, <2>9, <2>10, <2>11, <2>12 DEF Next
  <2> QED BY <2>13, <2>14 DEF Goal
<1> QED
  BY AccountInvariance, <1>1, <1>2, PTL DEF Spec, ImplementsRegistry
=============================================================================
