------------------------------ MODULE Message ------------------------------
(***************************************************************************)
(* Message.check and Message.prepare_response (acme/message.py) with       *)
(* Nonce (acme/nonce.py) over the nonce table: every POST is checked for   *)
(* replay, then for its signature, and a successful answer carries a new   *)
(* nonce.  Any message may arrive any number of times, at any worker.  A   *)
(* message that cannot be decoded is answered without touching any state   *)
(* and is left out.                                                        *)
(***************************************************************************)
EXTENDS Naturals

CONSTANTS
    Nonces,      \* what uuid4 can return: a value is never drawn twice
    Worker,      \* the worker processes
    MaxCrashes,  \* how many workers are killed mid-request (a bound)
    None

ASSUME MessageAssumption ==
    /\ MaxCrashes \in Nat
    /\ None \notin Nonces

VARIABLES
    nonces,    \* nonce table
    handed,    \* history: every nonce generated so far
    pc, msg,   \* what each worker does next, and the message it handles
    accepted,  \* history: accepted[n][w], how often worker w has let a request
               \* with nonce n through to its handler: 0, 1, or 2 for "again"
    fallible,  \* whether a database call may raise; never changes
    crashes

vars == <<nonces, handed, pc, msg, accepted, fallible, crashes>>

-----------------------------------------------------------------------------
\* What Message.check looks at: the nonce of the protected header, if there
\* is one, and whether the key of the account, or the embedded one, verifies.
Messages == [nonce : Nonces \cup {None}, verifies : BOOLEAN]

Labels == {"idle", "nonceCheck", "nonceDelete", "signature", "respond"}

Init ==
    /\ nonces = {}
    /\ handed = {}
    /\ pc = [w \in Worker |-> "idle"]
    /\ msg = [w \in Worker |-> None]
    /\ accepted = [n \in Nonces |-> [w \in Worker |-> 0]]
    /\ fallible \in BOOLEAN
    /\ crashes = 0

Goto(w, label) == pc' = [pc EXCEPT ![w] = label] /\ UNCHANGED msg

Done(w) ==
    /\ pc' = [pc EXCEPT ![w] = "idle"]
    /\ msg' = [msg EXCEPT ![w] = None]

\* generate_and_add: a nonce is handed out even when it could not be stored.
generate_and_add ==
    \E n \in Nonces \ handed :
        /\ handed' = handed \cup {n}
        /\ \/ nonces' = nonces \cup {n}
           \/ fallible /\ UNCHANGED nonces

-----------------------------------------------------------------------------
\* views.newnonce, and directory and newnonce requests: one call.
NewNonce(w) ==
    /\ pc[w] = "idle"
    /\ generate_and_add
    /\ UNCHANGED <<pc, msg, accepted, fallible, crashes>>

Receive(w, m) ==
    /\ pc[w] = "idle"
    /\ pc' = [pc EXCEPT ![w] = "nonceCheck"]
    /\ msg' = [msg EXCEPT ![w] = m]
    /\ UNCHANGED <<nonces, handed, accepted, fallible, crashes>>

\* Slip: a lookup that raises lets the request through.
NonceCheck_open(w) ==
    /\ pc[w] = "nonceCheck"
    /\ \/ msg[w].nonce \in nonces /\ Goto(w, "nonceDelete")
       \/ fallible /\ msg[w].nonce # None /\ Goto(w, "nonceDelete")
       \/ msg[w].nonce \notin nonces /\ Done(w)
    /\ UNCHANGED <<nonces, handed, accepted, fallible, crashes>>

\* _check_and_delete looks the nonce up; no nonce, an unknown one and a lookup
\* that raises are all badNonce ...
NonceCheck(w) ==
    /\ pc[w] = "nonceCheck"
    /\ \/ msg[w].nonce \in nonces /\ Goto(w, "nonceDelete")
       \/ (fallible \/ msg[w].nonce \notin nonces) /\ Done(w)
    /\ UNCHANGED <<nonces, handed, accepted, fallible, crashes>>

\* Slip: the nonce is deleted only with a message that verifies.
NonceDelete_verified(w) ==
    /\ pc[w] = "nonceDelete"
    /\ nonces' = IF msg[w].verifies THEN nonces \ {msg[w].nonce} ELSE nonces
    /\ Goto(w, "signature")
    /\ UNCHANGED <<handed, accepted, fallible, crashes>>

\* Slip: the nonce is left to a housekeeping job.
NonceDelete_later(w) ==
    /\ pc[w] = "nonceDelete"
    /\ Goto(w, "signature")
    /\ UNCHANGED <<nonces, handed, accepted, fallible, crashes>>

\* ... and then deletes it: by another call, which finds nothing to delete
\* when somebody was faster, and whose failure is only logged.
NonceDelete(w) ==
    /\ pc[w] = "nonceDelete"
    /\ \/ nonces' = nonces \ {msg[w].nonce}
       \/ fallible /\ UNCHANGED nonces
    /\ Goto(w, "signature")
    /\ UNCHANGED <<handed, accepted, fallible, crashes>>

\* Counting: never, once, again (2 is the bound of the counter).
Once(k) == IF k = 0 THEN 1 ELSE 2

\* Signature.check: the handler runs, or the answer is 403 and the nonce is
\* gone.  A lookup of the key that raises is "accountDoesNotExist".
CheckSignature(w) ==
    /\ pc[w] = "signature"
    /\ \/ /\ msg[w].verifies
          /\ accepted' = [accepted EXCEPT ![msg[w].nonce][w] = Once(@)]
          /\ Goto(w, "respond")
       \/ /\ fallible \/ ~ msg[w].verifies
          /\ Done(w)
          /\ UNCHANGED accepted
    /\ UNCHANGED <<nonces, handed, fallible, crashes>>

\* Slip: the answer returns the nonce of the request to the table.
Respond_reuse(w) ==
    /\ pc[w] = "respond"
    /\ nonces' = nonces \cup {msg[w].nonce}
    /\ Done(w)
    /\ UNCHANGED <<handed, accepted, fallible, crashes>>

\* prepare_response: a new nonce, unless the handler failed.  When Nonces is
\* used up (a bound) every answer is like that of a handler that failed.
Respond(w) ==
    /\ pc[w] = "respond"
    /\ generate_and_add \/ UNCHANGED <<nonces, handed>>
    /\ Done(w)
    /\ UNCHANGED <<accepted, fallible, crashes>>

\* A worker is killed, or its request dies of an exception.
Crash(w) ==
    /\ pc[w] # "idle"
    /\ crashes < MaxCrashes
    /\ crashes' = crashes + 1
    /\ Done(w)
    /\ UNCHANGED <<nonces, handed, accepted, fallible>>

Next ==
    \E w \in Worker :
        \/ NewNonce(w)
        \/ \E m \in Messages : Receive(w, m)
        \/ NonceCheck(w)
        \/ NonceDelete(w)
        \/ CheckSignature(w)
        \/ Respond(w)
        \/ Crash(w)

Spec == Init /\ [][Next]_vars

-----------------------------------------------------------------------------
\* Every variable has its type.
MessageTypeOK ==
    /\ nonces \subseteq handed
    /\ handed \subseteq Nonces
    /\ pc \in [Worker -> Labels]
    /\ msg \in [Worker -> Messages \cup {None}]
    /\ accepted \in [Nonces -> [Worker -> 0..2]]
    /\ fallible \in BOOLEAN
    /\ crashes \in 0..MaxCrashes

\* A worker lets a nonce through at most once: the deletion of the request
\* that was let through precedes the next lookup of the same worker.  With one
\* worker this is protection against replay; with several it is all there is.
\* If deletions may fail there is none.
OncePerWorker == ~ fallible => \A n \in Nonces, w \in Worker : accepted[n][w] <= 1

\* Where no call fails, a nonce lets one request through, whichever worker gets
\* it: message.py's "check nonce for anti replay protection".
ReplayRefused ==
    ~ fallible => \A n \in Nonces, v, w \in Worker :
        accepted[n][v] > 0 /\ accepted[n][w] > 0 => v = w

\* Whatever calls fail, no request gets through with a nonce that the server
\* never generated.
AcceptedWereHanded ==
    \A n \in Nonces, w \in Worker : accepted[n][w] > 0 => n \in handed

\* Workers whose request has passed the lookup of n but not the signature.
Passing(n) ==
    {w \in Worker : pc[w] \in {"nonceDelete", "signature"} /\ msg[w].nonce = n}

Accepted(n) == \E w \in Worker : accepted[n][w] > 0

\* Where no call fails, an accepted nonce stops new requests: what may still get
\* through are those that had passed the lookup before.
LateReplayRefused ==
    [][~ fallible =>
          \A n \in Nonces : Accepted(n) => Passing(n)' \subseteq Passing(n)]_vars

-----------------------------------------------------------------------------
(* The inductive invariant behind OncePerWorker.                           *)

\* Who is past the lookup has a nonce.
PassingNonce ==
    \A w \in Worker :
        /\ pc[w] # "idle" => msg[w] \in Messages
        /\ pc[w] \in {"nonceDelete", "signature"} => msg[w].nonce \in handed

\* A nonce that was accepted has left the table ...
AcceptedGone == ~ fallible =>
    \A n \in Nonces : Accepted(n) => n \in handed \ nonces

\* ... and so has the one of a request whose signature is being checked.
DeletedGone == ~ fallible =>
    \A w \in Worker : pc[w] = "signature" => msg[w].nonce \notin nonces

\* A worker past the lookup has not let this nonce through before.
PassingFresh == ~ fallible =>
    \A w \in Worker : pc[w] \in {"nonceDelete", "signature"} =>
        accepted[msg[w].nonce][w] = 0

MessageInv ==
    /\ MessageTypeOK
    /\ PassingNonce
    /\ AcceptedWereHanded
    /\ AcceptedGone
    /\ DeletedGone
    /\ PassingFresh
    /\ OncePerWorker

-----------------------------------------------------------------------------
(* Refinement, worker by worker: to a worker a nonce is good while it is in *)
(* the table, or belongs to the request it has looked up and not decided.   *)

Undecided(w) == pc[w] \in {"nonceDelete", "signature"}

GoodFor(w) == nonces \cup (IF Undecided(w) THEN {msg[w].nonce} ELSE {})

UsedBy(w) == {n \in Nonces : accepted[n][w] > 0}

Promise(w) == INSTANCE NonceStore WITH good <- GoodFor(w), used <- UsedBy(w)

\* To each of its workers the server implements NonceStore, whatever the
\* others do with the same table; to a single worker, that is all there is.
\* Where calls may fail it does not.
\* (\A w \in Worker : Promise(w)!Spec, with the quantifier where TLC reads it.)
ImplementsNonceStore ==
    /\ \A w \in Worker : Promise(w)!Init
    /\ [][~ fallible =>
             \A w \in Worker : [Promise(w)!Next]_<<GoodFor(w), UsedBy(w)>>]_vars
=============================================================================
