--------------------------- MODULE Message_proofs ---------------------------
(***************************************************************************)
(* Proofs about Message, for every number of workers, nonces and kills.    *)
(***************************************************************************)
EXTENDS Message, TLAPS

-----------------------------------------------------------------------------
(* The invariant.  Nothing is written twice into the nonce table, so a     *)
(* nonce that has left it stays out, and the lookup of the worker that     *)
(* deleted it fails from then on.                                          *)

\* The empty table satisfies the invariant.
LEMMA MessageInit == Init => MessageInv
BY MessageAssumption DEF Init, MessageInv, MessageTypeOK, Labels, Messages,
   PassingNonce, AcceptedWereHanded, AcceptedGone, Accepted, DeletedGone, PassingFresh, OncePerWorker

\* Types survive every step, whether or not the database fails.
LEMMA MessageTypeStep ==
  ASSUME MessageTypeOK, PassingNonce, [Next]_vars
  PROVE  MessageTypeOK' /\ PassingNonce'
<1> USE MessageAssumption DEF MessageTypeOK, PassingNonce, Labels, Messages, Goto, Done
<1>1. ASSUME NEW w \in Worker, NewNonce(w)
      PROVE  MessageTypeOK' /\ PassingNonce'
  BY <1>1 DEF NewNonce, generate_and_add
<1>2. ASSUME NEW w \in Worker, NEW m \in Messages, Receive(w, m)
      PROVE  MessageTypeOK' /\ PassingNonce'
  BY <1>2 DEF Receive
<1>3. ASSUME NEW w \in Worker, NonceCheck(w)
      PROVE  MessageTypeOK' /\ PassingNonce'
  BY <1>3 DEF NonceCheck
<1>4. ASSUME NEW w \in Worker, NonceDelete(w)
      PROVE  MessageTypeOK' /\ PassingNonce'
  BY <1>4 DEF NonceDelete
<1>5. ASSUME NEW w \in Worker, CheckSignature(w)
      PROVE  MessageTypeOK' /\ PassingNonce'
  <2>1. accepted' \in [Nonces -> [Worker -> 0..2]]
    BY <1>5 DEF CheckSignature, Once
  <2>2. nonces' = nonces /\ handed' = handed /\ fallible' = fallible /\ crashes' = crashes
    BY <1>5 DEF CheckSignature
  <2>3. /\ pc' \in [Worker -> Labels] /\ msg' \in [Worker -> Messages \cup {None}]
        /\ PassingNonce'
    BY <1>5 DEF CheckSignature
  <2> QED BY <2>1, <2>2, <2>3
<1>6. ASSUME NEW w \in Worker, Respond(w)
      PROVE  MessageTypeOK' /\ PassingNonce'
  BY <1>6 DEF Respond, generate_and_add
<1>7. ASSUME NEW w \in Worker, Crash(w)
      PROVE  MessageTypeOK' /\ PassingNonce'
  BY <1>7 DEF Crash
<1>8. CASE UNCHANGED vars
  BY <1>8 DEF vars
<1> QED BY <1>1, <1>2, <1>3, <1>4, <1>5, <1>6, <1>7, <1>8 DEF Next

\* Only a request past the lookup is let through, whether or not the database
\* fails.
LEMMA AcceptedStep ==
  ASSUME MessageTypeOK, PassingNonce, AcceptedWereHanded, [Next]_vars
  PROVE  AcceptedWereHanded'
<1> USE DEF MessageTypeOK, PassingNonce, AcceptedWereHanded
<1>1. handed \subseteq handed'
  BY DEF Next, vars, NewNonce, Receive, NonceCheck, NonceDelete, CheckSignature,
     Respond, Crash, generate_and_add
<1>2. ASSUME NEW w \in Worker, CheckSignature(w)
      PROVE  AcceptedWereHanded'
  <2>1. msg[w].nonce \in handed
    BY <1>2 DEF CheckSignature
  <2>2. \A n \in Nonces, v \in Worker :
            n # msg[w].nonce => accepted'[n][v] = accepted[n][v]
    BY <1>2 DEF CheckSignature
  <2> QED BY <1>1, <2>1, <2>2
<1>3. CASE accepted' = accepted
  BY <1>1, <1>3
<1> QED BY <1>2, <1>3 DEF Next, vars, NewNonce, Receive, NonceCheck, NonceDelete,
     Respond, Crash

\* Nobody changes whether calls may fail.
LEMMA FallibleStays ==
  ASSUME [Next]_vars
  PROVE  fallible' = fallible
BY DEF Next, vars, NewNonce, Receive, NonceCheck, NonceDelete, CheckSignature,
   Respond, Crash

\* A nonce that was accepted, or whose deletion a worker has behind it, does
\* not come back; and no worker gets past the lookup with it again.
LEMMA MessageStep ==
  ASSUME MessageInv, [Next]_vars
  PROVE  MessageInv'
<1> USE DEF MessageInv
<1>0. MessageTypeOK' /\ PassingNonce' /\ AcceptedWereHanded'
  BY MessageTypeStep, AcceptedStep
<1> DEFINE Rest == AcceptedGone /\ DeletedGone /\ PassingFresh /\ OncePerWorker
<1> SUFFICES ASSUME ~ fallible, ~ fallible'
               PROVE  Rest'
  BY <1>0, FallibleStays DEF AcceptedGone, DeletedGone, PassingFresh, OncePerWorker
<1> USE DEF AcceptedGone, Accepted, DeletedGone, PassingFresh, OncePerWorker,
            MessageTypeOK, PassingNonce, Goto, Done, Messages
<1>1. ASSUME NEW w \in Worker, NewNonce(w)
      PROVE  Rest'
  BY <1>1 DEF NewNonce, generate_and_add
<1>2. ASSUME NEW w \in Worker, NEW m \in Messages, Receive(w, m)
      PROVE  Rest'
  BY <1>2 DEF Receive
<1>3. ASSUME NEW w \in Worker, NonceCheck(w)
      PROVE  Rest'
  BY <1>3 DEF NonceCheck
<1>4. ASSUME NEW w \in Worker, NonceDelete(w)
      PROVE  Rest'
  BY <1>4 DEF NonceDelete
<1>5. ASSUME NEW w \in Worker, CheckSignature(w)
      PROVE  Rest'
  <2> DEFINE n == msg[w].nonce
  <2>1. /\ pc[w] = "signature" /\ n \in handed \ nonces /\ n \in Nonces
        /\ accepted[n][w] = 0
        /\ UNCHANGED <<nonces, handed>>
    BY <1>5 DEF CheckSignature
  <2>2. \A v \in Worker \ {w} : pc'[v] = pc[v] /\ msg'[v] = msg[v]
    BY <1>5 DEF CheckSignature
  <2>3. pc'[w] \in {"idle", "respond"}
    BY <1>5 DEF CheckSignature
  <2>4. \A k \in Nonces, v \in Worker :
            (k # n \/ v # w) => accepted'[k][v] = accepted[k][v]
    BY <1>5, <2>1 DEF CheckSignature
  <2>5. accepted'[n][w] \in {0, 1}
    BY <1>5, <2>1 DEF CheckSignature, Once
  <2>6. AcceptedGone'
    BY <2>1, <2>4
  <2>7. DeletedGone'
    BY <2>1, <2>2, <2>3
  <2>8. PassingFresh'
    BY <2>2, <2>3, <2>4
  <2>9. OncePerWorker'
    <3>1. \A k \in Nonces, v \in Worker : accepted'[k][v] <= 1
      BY <2>4, <2>5
    <3> QED BY <3>1
  <2> QED BY <2>6, <2>7, <2>8, <2>9
<1>6. ASSUME NEW w \in Worker, Respond(w)
      PROVE  Rest'
  BY <1>6 DEF Respond, generate_and_add
<1>7. ASSUME NEW w \in Worker, Crash(w)
      PROVE  Rest'
  BY <1>7 DEF Crash
<1>8. CASE UNCHANGED vars
  BY <1>8 DEF vars
<1> QED BY <1>1, <1>2, <1>3, <1>4, <1>5, <1>6, <1>7, <1>8 DEF Next

\* The inductive invariant of Message.
THEOREM MessageInvariance ==
  Spec => []MessageInv
<1>1. MessageInv /\ [Next]_vars => MessageInv'
  BY MessageStep
<1> QED BY MessageInit, <1>1, PTL DEF Spec

\* No worker lets a nonce through twice, however many workers there are.
THEOREM NoReplayPerWorker ==
  Spec => []OncePerWorker
<1>1. MessageInv => OncePerWorker
  BY DEF MessageInv
<1> QED BY MessageInvariance, <1>1, PTL

\* However many calls fail, only nonces that were handed out are accepted.
THEOREM OnlyHandedNonces ==
  Spec => []AcceptedWereHanded
<1>1. MessageInv => AcceptedWereHanded
  BY DEF MessageInv
<1> QED BY MessageInvariance, <1>1, PTL

\* Once a nonce was accepted no further request gets past its lookup.
THEOREM LateReplay ==
  Spec => LateReplayRefused
<1> DEFINE Late == ~ fallible => \A n \in Nonces : Accepted(n) => Passing(n)' \subseteq Passing(n)
<1>1. MessageInv /\ [Next]_vars => [Late]_vars
  <2> SUFFICES ASSUME ~ fallible, MessageInv, [Next]_vars, NEW n \in Nonces, Accepted(n),
                      NEW v \in Worker, v \in Passing(n)', v \notin Passing(n)
               PROVE  FALSE
    BY DEF Passing
  <2>1. n \notin nonces
    BY DEF MessageInv, AcceptedGone
  <2> QED
    BY <2>1 DEF MessageInv, MessageTypeOK, Passing, Next, NewNonce, Receive,
       NonceCheck, NonceDelete, CheckSignature, Respond, Crash, Goto, Done, vars
<1> QED BY MessageInvariance, <1>1, PTL DEF Spec, LateReplayRefused

-----------------------------------------------------------------------------
(* Message implements NonceStore, to each worker.                          *)

\* To each of its workers the server implements NonceStore: a nonce it handed
\* out is good for one request there, and then for none; other workers only
\* ever take nonces away from it.
THEOREM MessageImplements ==
  Spec => ImplementsNonceStore
<1>1. Init => \A w \in Worker : Promise(w)!Init
  BY DEF Init, Promise!Init, GoodFor, Undecided, UsedBy
<1>2. MessageInv /\ [Next]_vars /\ ~ fallible =>
        \A w \in Worker : [Promise(w)!Next]_<<GoodFor(w), UsedBy(w)>>
  <2> SUFFICES ASSUME MessageInv, [Next]_vars, ~ fallible, NEW w \in Worker
               PROVE  Promise(w)!Next \/ UNCHANGED <<GoodFor(w), UsedBy(w)>>
    OBVIOUS
  <2> USE DEF MessageInv, MessageTypeOK
  <2> DEFINE Untouched == \/ pc'[w] = pc[w] /\ msg'[w] = msg[w]
                          \/ ~ Undecided(w) /\ ~ Undecided(w)'
  <2>used. ASSUME accepted' = accepted
           PROVE  UsedBy(w)' = UsedBy(w)
    BY <2>used DEF UsedBy
  <2>stay. ASSUME accepted' = accepted, nonces' = nonces,
                  Untouched
           PROVE  UNCHANGED <<GoodFor(w), UsedBy(w)>>
    BY <2>stay, <2>used DEF GoodFor, Undecided
  <2>lose. ASSUME NEW n \in GoodFor(w), GoodFor(w)' = GoodFor(w) \ {n}, accepted' = accepted
           PROVE  Promise(w)!Next
    <3>1. n \in Nonces
      BY DEF GoodFor, Undecided, PassingNonce
    <3>2. Promise(w)!Lose(n)
      BY <2>lose, <2>used DEF Promise!Lose
    <3> QED BY <3>1, <3>2 DEF Promise!Next
  <2>hand. ASSUME generate_and_add, accepted' = accepted,
                  Untouched
           PROVE  Promise(w)!Next
    <3>1. PICK n \in Nonces \ handed : nonces' = nonces \cup {n}
      BY <2>hand DEF generate_and_add
    <3>2. GoodFor(w)' = GoodFor(w) \cup {n}
      BY <2>hand, <3>1 DEF GoodFor, Undecided
    <3>3. n \notin GoodFor(w) \cup UsedBy(w)
      BY <3>1 DEF GoodFor, Undecided, UsedBy, PassingNonce, AcceptedGone, Accepted
    <3>4. Promise(w)!Hand(n)
      BY <2>hand, <2>used, <3>2, <3>3 DEF Promise!Hand
    <3> QED BY <3>1, <3>4 DEF Promise!Next
  <2>1. ASSUME NEW v \in Worker, NewNonce(v)
        PROVE  Promise(w)!Next
    BY <2>1, <2>hand DEF NewNonce
  <2>2. ASSUME NEW v \in Worker, NEW m \in Messages, Receive(v, m)
        PROVE  UNCHANGED <<GoodFor(w), UsedBy(w)>>
    BY <2>2, <2>stay DEF Receive, Undecided
  <2>3. ASSUME NEW v \in Worker, NonceCheck(v)
        PROVE  UNCHANGED <<GoodFor(w), UsedBy(w)>>
    <3>1. GoodFor(w)' = GoodFor(w)
      BY <2>3 DEF NonceCheck, Goto, Done, GoodFor, Undecided
    <3> QED BY <2>3, <2>used, <3>1 DEF NonceCheck
  <2>4. ASSUME NEW v \in Worker, NonceDelete(v)
        PROVE  Promise(w)!Next \/ UNCHANGED <<GoodFor(w), UsedBy(w)>>
    <3> DEFINE n == msg[v].nonce
    <3>1. /\ nonces' = nonces \ {n} /\ accepted' = accepted
          /\ msg' = msg /\ Undecided(w)' = Undecided(w)
      BY <2>4 DEF NonceDelete, Goto, Undecided
    <3>2. \/ GoodFor(w)' = GoodFor(w)
          \/ n \in GoodFor(w) /\ GoodFor(w)' = GoodFor(w) \ {n}
      BY <3>1 DEF GoodFor
    <3> QED BY <3>1, <3>2, <2>used, <2>lose
  <2>5. ASSUME NEW v \in Worker, CheckSignature(v)
        PROVE  Promise(w)!Next \/ UNCHANGED <<GoodFor(w), UsedBy(w)>>
    <3> DEFINE n == msg[v].nonce
    <3>1. /\ nonces' = nonces /\ pc[v] = "signature" /\ n \in Nonces \ nonces
          /\ Undecided(v) /\ ~ Undecided(v)'
      BY <2>5 DEF CheckSignature, PassingNonce, DeletedGone, Goto, Done, Undecided
    <3>2. CASE v = w
      <4>1. n \in GoodFor(w) /\ GoodFor(w)' = GoodFor(w) \ {n}
        BY <3>1, <3>2 DEF GoodFor
      <4>2. CASE accepted' = accepted
        BY <4>1, <4>2, <2>lose
      <4>3. CASE accepted' = [accepted EXCEPT ![n][v] = Once(@)]
        <5>1. \A k \in Nonces : k # n => accepted'[k][w] = accepted[k][w]
          BY <4>3
        <5>2. accepted'[n][w] > 0
          BY <3>1, <3>2, <4>3 DEF Once
        <5>3. UsedBy(w)' = UsedBy(w) \cup {n}
          BY <3>1, <5>1, <5>2 DEF UsedBy
        <5>4. Promise(w)!Use(n)
          BY <4>1, <5>3 DEF Promise!Use
        <5> QED BY <3>1, <5>4 DEF Promise!Next
      <4> QED BY <2>5, <4>2, <4>3 DEF CheckSignature
    <3>3. CASE v # w
      <4>1. \A k \in Nonces : accepted'[k][w] = accepted[k][w]
        BY <2>5, <3>3 DEF CheckSignature
      <4>2. UsedBy(w)' = UsedBy(w)
        BY <4>1 DEF UsedBy
      <4>3. GoodFor(w)' = GoodFor(w)
        BY <2>5, <3>1, <3>3 DEF CheckSignature, Goto, Done, GoodFor, Undecided
      <4> QED BY <4>2, <4>3
    <3> QED BY <3>2, <3>3
  <2>6. ASSUME NEW v \in Worker, Respond(v)
        PROVE  Promise(w)!Next \/ UNCHANGED <<GoodFor(w), UsedBy(w)>>
    BY <2>6, <2>hand, <2>stay DEF Respond, Done, Undecided
  <2>7. ASSUME NEW v \in Worker, Crash(v)
        PROVE  Promise(w)!Next \/ UNCHANGED <<GoodFor(w), UsedBy(w)>>
    <3>1. accepted' = accepted /\ nonces' = nonces
      BY <2>7 DEF Crash
    <3>2. \/ GoodFor(w)' = GoodFor(w)
          \/ msg[w].nonce \in GoodFor(w) /\ GoodFor(w)' = GoodFor(w) \ {msg[w].nonce}
      BY <2>7 DEF Crash, Done, GoodFor, Undecided
    <3> QED BY <3>1, <3>2, <2>used, <2>lose
  <2>8. CASE UNCHANGED vars
    BY <2>8, <2>stay DEF vars
  <2> QED BY <2>1, <2>2, <2>3, <2>4, <2>5, <2>6, <2>7, <2>8 DEF Next
<1> QED
  BY MessageInvariance, <1>1, <1>2, PTL DEF Spec, ImplementsNonceStore
=============================================================================
