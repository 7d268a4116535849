--------------------------- MODULE AccountHandler ---------------------------
(***************************************************************************)
(* acme/account.py over the account table of acme/db_handler.py:           *)
(* registration, deactivation, contact updates and key rollover.           *)
(*                                                                         *)
(* A Jwk stands for the text json.dumps makes of a key: that text is what  *)
(* the code compares.  Names are random strings; a name is never drawn     *)
(* twice.  Of a row only the key is kept: the contact is written together  *)
(* with it by the same calls.  The nonce of a request is checked as in     *)
(* module Message; a request that Message.check refuses does nothing here. *)
(* A writing call is two steps, update_or_create and save() (see DBstore). *)
(***************************************************************************)
EXTENDS Naturals

CONSTANTS
    Names,         \* account names
    Jwks,          \* texts of keys
    Worker,        \* worker processes
    Deployments,   \* the sets of workers the server may be started with
    TosUrl,        \* [Directory] tos_url is set and the check is not disabled
    ContactCheck,  \* contact_check_disable is off
    EccOnly,       \* ecc_only is on
    MaxCrashes,    \* how many workers are killed mid-request (a bound)
    Blank,         \* the key of a row that was created without one
    None

ASSUME AccountAssumption ==
    /\ Deployments \subseteq SUBSET Worker
    /\ {TosUrl, ContactCheck, EccOnly} \subseteq BOOLEAN
    /\ MaxCrashes \in Nat
    /\ Blank # None
    /\ {Blank, None} \cap (Jwks \cup Names) = {}

VARIABLES
    accounts,   \* account table: the key of each row, None if there is no row
    closed,     \* history: accounts whose row their client has deleted
    held,       \* the object a worker still has to save()
    pc, loc,    \* what each worker does next, and its request
    running,    \* the workers the server was started with; never changes
    fallible,   \* a database call may raise; never changes
    crashes     \* history: workers killed so far

vars == <<accounts, closed, held, pc, loc, running, fallible, crashes>>

-----------------------------------------------------------------------------
Tasks == {"register", "existing", "deactivate", "contact", "key-change"}

Labels == {"idle", "lookup", "create", "delete", "contact", "readBack",
           "keyLookup", "keyCompare", "keyUpdate", "answer"}

\* name is the account the request is about, jwk the key it registers or
\* changes to, oldkey the "oldkey" of a key change.
Request == [task : Tasks, name : Names \cup {None},
            jwk : Jwks \cup {None}, oldkey : Jwks \cup {None}]

Row == [name : Names, jwk : Jwks \cup {Blank}]

Init ==
    /\ accounts = [n \in Names |-> None]
    /\ closed = {}
    /\ held = [w \in Worker |-> None]
    /\ pc = [w \in Worker |-> "idle"]
    /\ loc = [w \in Worker |-> None]
    /\ running \in Deployments
    /\ fallible \in BOOLEAN
    /\ crashes = 0

Goto(w, label, req) ==
    /\ pc' = [pc EXCEPT ![w] = label]
    /\ loc' = [loc EXCEPT ![w] = req]

Done(w) == Goto(w, "idle", None)

\* Where a handler is, once its last write is saved.
At(w, label) == pc[w] = label /\ held[w] = None

settings == <<running, fallible>>

-----------------------------------------------------------------------------
(* DBstore                                                                 *)

Exists(n) == accounts[n] # None

\* account_lookup('jwk', k) returns one of these rows.
account_lookup(k) == {n \in Names : accounts[n] = k}

\* The transaction of update_or_create; the object is kept for save().
Store(w, n, k) ==
    /\ accounts' = [accounts EXCEPT ![n] = k]
    /\ held' = [held EXCEPT ![w] = [name |-> n, jwk |-> k]]

\* Slips: the row is taken to be there; the columns not given are reset.
account_update_contact_existing(w, n) == Store(w, n, accounts[n])

account_update_contact_reset(w, n) == Store(w, n, Blank)

\* account_update of the contact: a row that is gone is created, with no key.
account_update_contact(w, n) ==
    Store(w, n, IF Exists(n) THEN accounts[n] ELSE Blank)

\* obj.save(): every column as update_or_create saw it.  A row that was deleted
\* since is inserted again; where another one has taken its name since, that
\* fails.  A failing save() is a failing call.
Save(w) ==
    /\ held[w] # None
    /\ \/ /\ accounts' = [accounts EXCEPT ![held[w].name] = held[w].jwk]
          /\ UNCHANGED <<pc, loc>>
       \/ /\ fallible \/ held[w].name \in closed
          /\ UNCHANGED accounts
          /\ IF loc[w].task = "register"
             THEN Goto(w, "answer", [loc[w] EXCEPT !.name = None])
             ELSE Done(w)
    /\ held' = [held EXCEPT ![w] = None]
    /\ UNCHANGED <<closed, settings, crashes>>

-----------------------------------------------------------------------------
(* Account.new                                                             *)

Payloads == [existing : {"absent", "true", "false"}, tos : BOOLEAN,
             contact : {"none", "empty", "invalid", "valid"}, alg : {"ES", "RS"}]

tos_check(p) == TosUrl => p.tos

contact_check(p) == ContactCheck => p.contact \in {"empty", "valid"}

\* The checks of _add, before it calls the database.
add_check(p) ==
    /\ ContactCheck => p.contact # "empty"
    /\ EccOnly => p.alg = "ES"

\* new(): a payload with onlyReturnExisting registers nothing.
NewAccount(w, k, p) ==
    /\ At(w, "idle")
    /\ \E task \in {"register", "existing"} :
          /\ IF p.existing = "absent"
             THEN task = "register" /\ tos_check(p) /\ contact_check(p)
                     /\ add_check(p)
             ELSE task = "existing" /\ p.existing = "true"
          /\ Goto(w, "lookup",
                  [task |-> task, name |-> None, jwk |-> k, oldkey |-> None])
    /\ UNCHANGED <<accounts, closed, held, settings, crashes>>

\* Slip: the key is not looked up.
LookupKey_blind(w) ==
    /\ At(w, "lookup")
    /\ IF loc[w].task = "register" THEN Goto(w, "create", loc[w]) ELSE Done(w)
    /\ UNCHANGED <<accounts, closed, held, settings, crashes>>

\* The lookup of account_add, or of _onlyreturnexisting: an account with this
\* key is returned.  A lookup that raises makes _add answer 200 all the same,
\* with the account None.
LookupKey(w) ==
    LET found == account_lookup(loc[w].jwk)
    IN  /\ At(w, "lookup")
        /\ \/ \E n \in found : Goto(w, "answer", [loc[w] EXCEPT !.name = n])
           \/ /\ found = {}
              /\ IF loc[w].task = "register"
                 THEN Goto(w, "create", loc[w])
                 ELSE Done(w)
           \/ /\ fallible
              /\ IF loc[w].task = "register"
                 THEN Goto(w, "answer", loc[w])
                 ELSE Done(w)
        /\ UNCHANGED <<accounts, closed, held, settings, crashes>>

\* account_add creates the row, under a name drawn by _add.  Like a call that
\* raises, running out of names (a bound) leaves the answer without one.
CreateAccount(w) ==
    LET fresh == {n \in Names \ closed : ~ Exists(n)}
    IN  /\ At(w, "create")
        /\ \/ \E n \in fresh :
                 /\ Store(w, n, loc[w].jwk)
                 /\ Goto(w, "answer", [loc[w] EXCEPT !.name = n])
           \/ /\ fallible \/ fresh = {}
              /\ Goto(w, "answer", loc[w])
              /\ UNCHANGED <<accounts, held>>
        /\ UNCHANGED <<closed, settings, crashes>>

-----------------------------------------------------------------------------
(* Account.parse                                                           *)

FirstLabel(task) ==
    CASE task = "deactivate" -> "delete"
      [] task = "contact" -> "contact"
      [] task = "key-change" -> "keyLookup"

\* Slip: the key of an account is remembered from an earlier request.
CheckMessage_cached(w, n, task, k, old) ==
    /\ At(w, "idle")
    /\ accounts[n] \in Jwks \/ n \in closed
    /\ Goto(w, FirstLabel(task),
            [task |-> task, name |-> n, jwk |-> k, oldkey |-> old])
    /\ UNCHANGED <<accounts, closed, held, settings, crashes>>

\* Message.check of a request of account n: the row is there, its key can be
\* loaded, and the signature is by that key.  What follows depends on the
\* payload.
CheckMessage(w, n, task, k, old) ==
    /\ At(w, "idle")
    /\ accounts[n] \in Jwks
    /\ Goto(w, FirstLabel(task),
            [task |-> task, name |-> n, jwk |-> k, oldkey |-> old])
    /\ UNCHANGED <<accounts, closed, held, settings, crashes>>

\* Slip: the answer does not wait for the deletion.
DeleteAccount_unchecked(w) ==
    /\ At(w, "delete")
    /\ \/ /\ accounts' = [accounts EXCEPT ![loc[w].name] = None]
          /\ closed' = closed \cup {loc[w].name}
       \/ fallible /\ UNCHANGED <<accounts, closed>>
    /\ Goto(w, "answer", loc[w])
    /\ UNCHANGED <<held, settings, crashes>>

\* _delete: the row, and by cascade all that hangs on it.  delete() reports
\* success whether or not there was a row.
DeleteAccount(w) ==
    /\ At(w, "delete")
    /\ \/ /\ accounts' = [accounts EXCEPT ![loc[w].name] = None]
          /\ closed' = closed \cup {loc[w].name}
          /\ Goto(w, "answer", loc[w])
       \/ fallible /\ Done(w) /\ UNCHANGED <<accounts, closed>>
    /\ UNCHANGED <<held, settings, crashes>>

\* _contacts_update, of a contact that passed _contact_check.
UpdateContact(w) ==
    /\ At(w, "contact")
    /\ \/ /\ account_update_contact(w, loc[w].name)
          /\ Goto(w, "readBack", loc[w])
       \/ fallible /\ Done(w) /\ UNCHANGED <<accounts, held>>
    /\ UNCHANGED <<closed, settings, crashes>>

\* The answer shows the row: it is read again, and parse raises when there is
\* none, or none with a key.
ReadBack(w) ==
    /\ At(w, "readBack")
    /\ \/ accounts[loc[w].name] \in Jwks /\ Goto(w, "answer", loc[w])
       \/ (fallible \/ accounts[loc[w].name] \notin Jwks) /\ Done(w)
    /\ UNCHANGED <<accounts, closed, held, settings, crashes>>

\* Slip: whether the new key is taken is not asked.
KeyLookup_skipped(w) ==
    /\ At(w, "keyLookup")
    /\ Goto(w, "keyCompare", loc[w]) \/ Done(w)
    /\ UNCHANGED <<accounts, closed, held, settings, crashes>>

\* _key_change_validate: "check if we already have the key stored in DB"; a
\* lookup that raises finds nothing.  Then _inner_jws_check and
\* _inner_payload_check may refuse the inner message.
KeyLookup(w) ==
    /\ At(w, "keyLookup")
    /\ \/ /\ fallible \/ account_lookup(loc[w].jwk) = {}
          /\ Goto(w, "keyCompare", loc[w])
       \/ Done(w)
    /\ UNCHANGED <<accounts, closed, held, settings, crashes>>

\* _key_compare: the old key, alg included, is the one of the account.
KeyCompare(w) ==
    /\ At(w, "keyCompare")
    /\ \/ /\ accounts[loc[w].name] = loc[w].oldkey
          /\ Exists(loc[w].name)
          /\ Goto(w, "keyUpdate", loc[w])
       \/ Done(w)
    /\ UNCHANGED <<accounts, closed, held, settings, crashes>>

\* account_update of the key: update_or_create again.
KeyUpdate(w) ==
    /\ At(w, "keyUpdate")
    /\ \/ /\ Store(w, loc[w].name, loc[w].jwk)
          /\ Goto(w, "answer", loc[w])
       \/ fallible /\ Done(w) /\ UNCHANGED <<accounts, held>>
    /\ UNCHANGED <<closed, settings, crashes>>

\* The response, code 200 or 201, of the account loc[w].name.
Answer(w) ==
    /\ At(w, "answer")
    /\ Done(w)
    /\ UNCHANGED <<accounts, closed, held, settings, crashes>>

\* A worker is killed, or its request dies of an exception.
Crash(w) ==
    /\ pc[w] # "idle"
    /\ crashes < MaxCrashes
    /\ crashes' = crashes + 1
    /\ held' = [held EXCEPT ![w] = None]
    /\ Done(w)
    /\ UNCHANGED <<accounts, closed, settings>>

Next ==
    \E w \in running :
        \/ \E k \in Jwks, p \in Payloads : NewAccount(w, k, p)
        \/ LookupKey(w)
        \/ CreateAccount(w)
        \/ \E n \in Names, task \in {"deactivate", "contact"} :
              CheckMessage(w, n, task, None, None)
        \/ \E n \in Names, k \in Jwks, old \in Jwks \cup {None} :
              CheckMessage(w, n, "key-change", k, old)
        \/ DeleteAccount(w)
        \/ UpdateContact(w)
        \/ ReadBack(w)
        \/ KeyLookup(w)
        \/ KeyCompare(w)
        \/ KeyUpdate(w)
        \/ Save(w)
        \/ Answer(w)
        \/ Crash(w)

Spec == Init /\ [][Next]_vars

-----------------------------------------------------------------------------
\* Every variable has its type.
AccountTypeOK ==
    /\ accounts \in [Names -> Jwks \cup {Blank, None}]
    /\ closed \subseteq Names
    /\ held \in [Worker -> Row \cup {None}]
    /\ pc \in [Worker -> Labels]
    /\ loc \in [Worker -> Request \cup {None}]
    /\ running \in Deployments
    /\ fallible \in BOOLEAN
    /\ crashes \in 0..MaxCrashes

\* One worker process: requests do not overlap.
Alone == \E w \in Worker : running = {w}

\* With one worker, and a database that answers, a key has one account: the
\* lookup of account_add and the one of _key_change_validate see to it.
OneAccountPerKey ==
    Alone /\ ~ fallible =>
        \A m, n \in Names : accounts[m] \in Jwks /\ accounts[m] = accounts[n]
                                => m = n

\* With one worker, a request that is answered with an account is done:
\* whatever calls failed on the way, _add, _delete, _contacts_update and
\* _key_change report no success that is not in the table.
AcknowledgedIsStored ==
    \A w \in running :
        Alone /\ At(w, "answer") /\ loc[w].name # None =>
            LET stored == accounts[loc[w].name]
            IN  CASE loc[w].task = "deactivate" -> stored = None
                  [] loc[w].task = "contact" -> stored \in Jwks
                  [] OTHER -> stored = loc[w].jwk

\* Whatever overlaps or fails, an account without a key is what a contact
\* update made of one that was deactivated meanwhile.
BlankOnlyAfterClose ==
    \A n \in Names : accounts[n] = Blank => n \in closed

\* Requests past the lookup that is to keep key k to one account.
Claiming(k) ==
    {w \in Worker : pc[w] \in {"create", "keyCompare", "keyUpdate"}
                        /\ loc[w].jwk = k}

Saving(k) == {w \in Worker : held[w] # None /\ held[w].jwk = k}

\* With any number of workers: once a key has an account, no further request
\* gets past the lookup; and when the requests that did before are over, the
\* key gets no further account.
LateClaimRefused ==
    [][~ fallible =>
        \A k \in Jwks : account_lookup(k) # {} =>
            /\ Claiming(k)' \subseteq Claiming(k)
            /\ Claiming(k) \cup Saving(k) = {} =>
                    account_lookup(k)' \subseteq account_lookup(k)]_vars

\* Account n was deactivated and no request of it is under way any more.
Quiet(n) ==
    /\ n \in closed
    /\ ~ Exists(n)
    /\ \A w \in Worker : /\ pc[w] # "idle" => loc[w].name # n
                         /\ held[w] # None => held[w].name # n

\* Whatever overlaps or fails, a deactivated account comes back only by a
\* request that was under way when it was deleted, never later.
ClosedStaysClosed == [][\A n \in Names : Quiet(n) => Quiet(n)']_vars

-----------------------------------------------------------------------------
(* The inductive invariant behind all of these.                            *)

\* A request is where its task has led it, with what the task has set.
RequestShape(w) ==
    LET req == loc[w]
        is(task, labels) == req.task = task /\ pc[w] \in labels
    IN  IF pc[w] = "idle"
        THEN req = None
        ELSE /\ req \in Request
             /\ \/ /\ is("register", {"lookup", "create"}) \/ is("existing", {"lookup"})
                   /\ req.name = None /\ req.jwk \in Jwks
                \/ /\ is("register", {"answer"}) \/ is("existing", {"answer"})
                   /\ req.jwk \in Jwks
                \/ /\ \/ is("deactivate", {"delete", "answer"})
                      \/ is("contact", {"contact", "readBack", "answer"})
                   /\ req.name \in Names
                \/ /\ is("key-change", {"keyLookup", "keyCompare", "keyUpdate", "answer"})
                   /\ req.name \in Names /\ req.jwk \in Jwks

\* What is to be saved is the row of the request's account, and the key the
\* request writes.
HeldShape(w) ==
    held[w] # None =>
        /\ held[w].name = loc[w].name
        /\ \/ pc[w] = "readBack"
           \/ /\ pc[w] = "answer" /\ loc[w].task \in {"register", "key-change"}
              /\ held[w].jwk = loc[w].jwk

\* An account that a request is about has a row, or had one and was closed; a
\* row without a key is written only where one was closed.
NamesWereThere ==
    \A w \in Worker :
        /\ pc[w] # "idle" /\ loc[w].name # None =>
                Exists(loc[w].name) \/ loc[w].name \in closed
        /\ held[w] # None /\ held[w].jwk = Blank => held[w].name \in closed

\* Workers that were not started do nothing.
OthersRest == \A w \in Worker \ running : pc[w] = "idle" /\ held[w] = None

\* A single worker finds the table as its last step left it: what it has still
\* to save is there already, the account it works for has its key, and nobody
\* has the key it looked up in vain.
NobodyInterferes ==
    \A w \in running : Alone =>
        /\ held[w] # None => accounts[held[w].name] = held[w].jwk
        /\ pc[w] \in {"delete", "contact", "keyLookup", "keyCompare", "keyUpdate"}
                => accounts[loc[w].name] \in Jwks
        /\ ~ fallible /\ pc[w] \in {"create", "keyCompare", "keyUpdate"}
                => account_lookup(loc[w].jwk) = {}

AccountInv ==
    /\ AccountTypeOK
    /\ \A w \in Worker : RequestShape(w) /\ HeldShape(w)
    /\ NamesWereThere
    /\ BlankOnlyAfterClose
    /\ OthersRest
    /\ NobodyInterferes
    /\ OneAccountPerKey
    /\ AcknowledgedIsStored

-----------------------------------------------------------------------------
\* The key of every account; a row without one shows none.
ShownKey == [n \in Names |-> IF accounts[n] = Blank THEN None ELSE accounts[n]]

Registry == INSTANCE AccountRegistry WITH key <- ShownKey

\* With one worker, and a database that answers, the handler implements the
\* registry: registration, rollover and deactivation each take effect in the
\* one step that writes the row, and a crash between two steps leaves nothing
\* in between.
ImplementsRegistry ==
    /\ Registry!Init
    /\ [][Alone /\ ~ fallible => [Registry!Next]_<<accounts, closed>>]_vars
=============================================================================
