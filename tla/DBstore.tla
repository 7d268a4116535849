------------------------------ MODULE DBstore ------------------------------
(***************************************************************************)
(* The tables behind acme/db_handler.py, as far as the order life cycle    *)
(* uses them: orders, authorizations, challenges and certificates.         *)
(*                                                                         *)
(* The application runs with Django's autocommit and in several worker     *)
(* processes, and nothing holds a lock or a transaction across two calls:  *)
(* a reading method is one step.  A writing method is two: the transaction *)
(* of update_or_create, and then obj.save(), which writes every column     *)
(* again as update_or_create saw it.  Names are random strings in the code *)
(* (generate_random_string); here a row is named by its owner and, where   *)
(* one owner may have several, by a copy number.                           *)
(***************************************************************************)
EXTENDS Naturals, FiniteSets

CONSTANTS
    Orders,          \* order names the server can hand out
    Identifiers,     \* the names an order or a CSR may hold
    TNAuthLists,     \* those of type TNAuthList; the others are dns names
    Copies,          \* challenges of a type an authorization can get (a bound)
    CertCopies,      \* certificate rows an order can get (a bound)
    Worker,          \* the worker processes, each with its connection
    DBMayFail,       \* a database call may raise
    None

OrderStatus == {"invalid", "pending", "ready", "processing", "valid"}
AuthzStatus == {"pending", "valid", "invalid", "expired"}
ChallengeStatus == {"pending", "valid", "invalid"}

\* A certificate row: its CSR only, the certificate, or what enrollment left.
CertStatus == {"csr", "issued", "error", "poll"}

\* None stands for "no such row" and for "nothing read yet".
ASSUME DBstoreAssumption ==
    /\ DBMayFail \in BOOLEAN
    /\ TNAuthLists \subseteq Identifiers
    /\ None \notin OrderStatus \cup AuthzStatus \cup ChallengeStatus \cup CertStatus
    /\ None \notin Orders \cup (Orders \X CertCopies)

VARIABLES
    orders,  \* order table
    authz,   \* authorization table; an authorization is <<order, identifier>>
    chall,   \* challenge table; <<order, identifier, type, copy>>
    certs,   \* certificate table; <<order, copy>>
    held     \* the object a worker still has to save()

dbvars == <<orders, authz, chall, certs, held>>

-----------------------------------------------------------------------------
Authzs == Orders \X Identifiers
ChallengeTypes == {"http-01", "dns-01", "tkauth-01"}
Challenges == Orders \X Identifiers \X ChallengeTypes \X Copies
Certs == Orders \X CertCopies

AuthzOf(c) == <<c[1], c[2]>>

\* The types of one set of challenges.  A TNAuthList is one by the name of its
\* type, taken as spelled the way authorization.py compares it.
challenge_types(a) ==
    IF a[2] \in TNAuthLists THEN {"tkauth-01"} ELSE {"http-01", "dns-01"}

\* A row whose status is None does not exist; due is "expires <= now".
OrderRow == [status : OrderStatus \cup {None},
             identifiers : SUBSET Identifiers, due : BOOLEAN]
AuthzRow == [status : AuthzStatus \cup {None}, due : BOOLEAN]
ChallengeRow == ChallengeStatus \cup {None}

\* names is what the CSR names: dns names as SANs, TNAuthLists as extensions.
CertRow == [status : CertStatus \cup {None}, names : SUBSET Identifiers]

\* Of the columns save() writes back only the status matters.  The others never
\* change, except an authorization's expiry, and writing back an older expiry
\* does no more than the clock may do at any time.  A certificate row is
\* written by one worker only, so that its save() changes nothing.
Held == [table : {"orders"}, row : Orders, status : OrderStatus]
            \cup [table : {"authz"}, row : Authzs, status : AuthzStatus]
            \cup [table : {"chall"}, row : Challenges, status : ChallengeRow]

Nothing == [table |-> "none"]

DBTypeOK ==
    /\ held \in [Worker -> Held \cup {Nothing}]
    /\ orders \in [Orders -> OrderRow]
    /\ authz \in [Authzs -> AuthzRow]
    /\ chall \in [Challenges -> ChallengeRow]
    /\ certs \in [Certs -> CertRow]

DBInit ==
    /\ orders = [o \in Orders |->
                    [status |-> None, identifiers |-> {}, due |-> FALSE]]
    /\ authz = [a \in Authzs |-> [status |-> None, due |-> FALSE]]
    /\ chall = [c \in Challenges |-> None]
    /\ certs = [c \in Certs |-> [status |-> None, names |-> {}]]
    /\ held = [w \in Worker |-> Nothing]

-----------------------------------------------------------------------------
(* Reads.                                                                  *)

\* authorization_lookup('order__name', o)
authorization_lookup(o) == {a \in Authzs : a[1] = o /\ authz[a].status # None}

\* challenges_search('authorization__name', a)
challenges_search(a) == {c \in Challenges : AuthzOf(c) = a /\ chall[c] # None}

\* certificate_lookup('order__name', o) returns one of these rows.
certificates_of(o) == {c \in Certs : c[1] = o /\ certs[c].status # None}

\* Slip: an order that reached processing is left to the certificate code.
orders_invalid_search_open ==
    {o \in Orders : orders[o].due /\ orders[o].status \in {"pending", "ready"}}

\* Every order past its expiry whose status id is above 1 ("invalid").
orders_invalid_search ==
    {o \in Orders : /\ orders[o].due
                    /\ orders[o].status \notin {None, "invalid"}}

\* Every authorization past its expiry that is not yet "expired".
authorizations_expired_search ==
    {a \in Authzs : /\ authz[a].due
                    /\ authz[a].status \notin {None, "expired"}}

-----------------------------------------------------------------------------
(* Writes: the transaction of update_or_create.  A caller logs a failed    *)
(* write and goes on, so a write that the caller guards this way is "the   *)
(* row changes, or, when the database may fail, nothing does".             *)

Hold(w, table, row, status) ==
    held' = [held EXCEPT ![w] =
                [table |-> table, row |-> row, status |-> status]]

order_add(w, o, st, ids) ==
    /\ orders' = [orders EXCEPT ![o] =
                     [status |-> st, identifiers |-> ids, due |-> FALSE]]
    /\ Hold(w, "orders", o, st)

order_update(w, o, st) ==
    \/ /\ orders' = [orders EXCEPT ![o].status = st]
       /\ Hold(w, "orders", o, st)
    \/ DBMayFail /\ UNCHANGED <<orders, held>>

authorization_add(w, a) ==
    \/ /\ authz' = [authz EXCEPT ![a] = [status |-> "pending", due |-> FALSE]]
       /\ Hold(w, "authz", a, "pending")
    \/ DBMayFail /\ UNCHANGED <<authz, held>>

\* authorization_update with a status ...
authorization_update(w, a, st) ==
    \/ /\ authz' = [authz EXCEPT ![a].status = st]
       /\ Hold(w, "authz", a, st)
    \/ DBMayFail /\ UNCHANGED <<authz, held>>

\* Slip: the refreshed authorization is to be decided again.
authorization_refresh_pending(w, a) ==
    /\ authz' = [authz EXCEPT ![a] = [status |-> "pending", due |-> FALSE]]
    /\ Hold(w, "authz", a, "pending")

\* ... and with a new token and a new expiry.
authorization_refresh(w, a) ==
    \/ /\ authz' = [authz EXCEPT ![a].due = FALSE]
       /\ Hold(w, "authz", a, authz[a].status)
    \/ DBMayFail /\ UNCHANGED <<authz, held>>

\* challenge_update with a status ...
challenge_update(w, c, st) ==
    \/ /\ chall' = [chall EXCEPT ![c] = st]
       /\ Hold(w, "chall", c, st)
    \/ DBMayFail /\ UNCHANGED <<chall, held>>

\* ... and with a keyAuthorization.
challenge_keyauthorization(w, c) ==
    /\ UNCHANGED chall
    /\ \/ Hold(w, "chall", c, chall[c])
       \/ DBMayFail /\ UNCHANGED held

\* challenge_add of a type: an unused row.  A full table is a failing add.
challenge_add(w, a, t) ==
    LET free == {c \in Challenges :
                    AuthzOf(c) = a /\ c[3] = t /\ chall[c] = None}
    IN  \/ \E c \in free :
              /\ chall' = [chall EXCEPT ![c] = "pending"]
              /\ Hold(w, "chall", c, "pending")
        \/ (DBMayFail \/ free = {}) /\ UNCHANGED <<chall, held>>

\* certificate_add on an existing row: the columns given are overwritten.
certificate_update(c, st) ==
    /\ \/ certs' = [certs EXCEPT ![c].status = st]
       \/ DBMayFail /\ UNCHANGED certs
    /\ UNCHANGED held

\* obj.save()
save(w) ==
    LET row == held[w].row
        status == held[w].status
    IN  /\ \/ /\ held[w].table = "orders"
              /\ orders' = [orders EXCEPT ![row].status = status]
              /\ UNCHANGED <<authz, chall>>
           \/ /\ held[w].table = "authz"
              /\ authz' = [authz EXCEPT ![row].status = status]
              /\ UNCHANGED <<orders, chall>>
           \/ /\ held[w].table = "chall"
              /\ chall' = [chall EXCEPT ![row] = status]
              /\ UNCHANGED <<orders, authz>>
        /\ held' = [held EXCEPT ![w] = Nothing]
        /\ UNCHANGED certs
=============================================================================
