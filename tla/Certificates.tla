---------------------------- MODULE Certificates ----------------------------
(***************************************************************************)
(* The certificate table of acme/db_handler.py, the order table as far as  *)
(* the certificate code writes it, and the processes that do: workers of   *)
(* the WSGI server, and scripts that run Certificate.poll and the jobs of  *)
(* acme/housekeeping.py.                                                   *)
(*                                                                         *)
(* An order has one certificate row here (AcmeServer has the orders that   *)
(* get two), and the database answers every call; a writing call is two    *)
(* steps, update_or_create and save() (see DBstore).                       *)
(***************************************************************************)
EXTENDS Naturals

CONSTANTS
    Orders,       \* orders
    Csrs,         \* CSRs: [key, names], names being the SANs and the CN
    Worker,       \* processes
    Deployments,  \* what may be started, see CertificatesAssumption
    MaxCrashes,   \* how many processes are killed (a bound)
    None,
    Removal       \* "removed by certificates.cleanup() on ..."

\* handler is the CA handler: openssl_ca_handler.py, or one of a CA that needs
\* time, which Certificate.poll and acme/trigger.py are written for.
Handlers == {"openssl", "asynchronous"}

\* issued: the CSRs of orders that have been answered with a certificate before;
\* orders: those of the others that are in use.
ASSUME CertificatesAssumption ==
    /\ Deployments \subseteq [workers : SUBSET Worker, orders : SUBSET Orders,
                              issued : [Orders -> Csrs \cup {None}],
                              handler : Handlers]
    /\ MaxCrashes \in Nat
    /\ None \notin Orders \cup Csrs
    /\ Removal # None
    /\ \A r \in Csrs : DOMAIN r = {"key", "names"}

VARIABLES
    orders,   \* order table: the status
    certs,    \* certificate table; the row of order o, or None
    expired,  \* orders whose certificate's notAfter has passed
    aged,     \* orders whose certificate row is older than two weeks
    held,     \* the object a process still has to save()
    pc, loc,  \* what each process does next, and its local variables
    server,   \* the deployment; never changes
    crashes   \* history: processes killed so far

store == <<orders, certs, held>>
clock == <<expired, aged>>

-----------------------------------------------------------------------------
OrderStatus == {"ready", "processing", "valid", "invalid"}

\* What a CA issues upon the CSR of an order: one certificate, here.
X509 == [csr : Csrs, order : Orders]

\* cert is the text column: a chain, or what cleanup() leaves of one.  raw is
\* cert_raw, dates the certificate issue_uts and expire_uts are of (None: 0).
CertRow == [csr : Csrs, cert : X509 \cup {None, Removal},
            raw : X509 \cup {None}, dates : X509 \cup {None},
            polled : BOOLEAN]

\* A row, or a certificate, is neither NULL nor the text cleanup() leaves.
ASSUME RowAssumption == {None, Removal} \cap (X509 \cup CertRow) = {}

Nothing == [table |-> "none"]

Held == [table : {"orders"}, row : Orders, value : OrderStatus]
            \cup [table : {"certs"}, row : Orders, value : CertRow]

\* order: the order at hand; x: a certificate at hand; todo: what is left of a
\* search result, orders or rows as they were read; crl: the CRL to write.
Loc == [order : Orders \cup {None}, x : X509 \cup {None},
        rows : [Orders -> CertRow \cup {None}], todo : SUBSET Orders,
        crl : SUBSET X509]

Idle == [order |-> None, x |-> None, rows |-> [o \in Orders |-> None],
         todo |-> {}, crl |-> {}]

Labels == {"idle", "storeCsr", "enroll", "bundle", "storeCert", "storeError",
           "storeReject", "setValid", "setInvalid", "pollCA", "triggerSearch",
           "triggerStore", "triggerValid", "clean", "purge", "date",
           "crlRead", "crlOpen", "crlWrite"}

\* Rows and certificates from before.
Issued == {o \in Orders : server.issued[o] # None}

X509Issued(o) == [csr |-> server.issued[o], order |-> o]

StoreInit ==
    /\ server \in Deployments
    /\ orders = [o \in Orders |-> IF o \in Issued THEN "valid" ELSE "ready"]
    /\ certs = [o \in Orders |->
                   IF o \in Issued
                   THEN [csr |-> server.issued[o], cert |-> X509Issued(o),
                         raw |-> X509Issued(o), dates |-> X509Issued(o),
                         polled |-> FALSE]
                   ELSE None]
    /\ expired = {}
    /\ aged = {}
    /\ held = [w \in Worker |-> Nothing]
    /\ pc = [w \in Worker |-> "idle"]
    /\ loc = [w \in Worker |-> Idle]
    /\ crashes = 0

StoreTypeOK ==
    /\ orders \in [Orders -> OrderStatus]
    /\ certs \in [Orders -> CertRow \cup {None}]
    /\ expired \subseteq Orders
    /\ aged \subseteq Orders
    /\ held \in [Worker -> Held \cup {Nothing}]
    /\ pc \in [Worker -> Labels]
    /\ loc \in [Worker -> Loc]
    /\ server \in Deployments
    /\ crashes \in 0..MaxCrashes

Goto(w, label, l) ==
    /\ pc' = [pc EXCEPT ![w] = label]
    /\ loc' = [loc EXCEPT ![w] = l]

Done(w) == Goto(w, "idle", Idle)

\* Where a process is, once its last write is saved.
At(w, label) == pc[w] = label /\ held[w] = Nothing

\* One process: requests and scripts do not overlap.
Alone == \E w \in Worker : server.workers = {w}

-----------------------------------------------------------------------------
Exists(o) == certs[o] # None

Hold(w, table, row, value) ==
    held' = [held EXCEPT ![w] = [table |-> table, row |-> row, value |-> value]]

\* The transaction of order_update.
order_update(w, o, st) ==
    /\ orders' = [orders EXCEPT ![o] = st]
    /\ Hold(w, "orders", o, st)
    /\ UNCHANGED certs

\* certificate_add with a new name and an order: a new row.
certificate_new(w, o, csr) ==
    LET row == [csr |-> csr, cert |-> None, raw |-> None, dates |-> None,
                polled |-> FALSE]
    IN  /\ certs' = [certs EXCEPT ![o] = row]
        /\ Hold(w, "certs", o, row)
        /\ UNCHANGED orders

\* certificate_add of columns of a row, without its order.  If the row is gone
\* it cannot be created again, the order being mandatory: the call raises, and
\* each caller logs that and goes on.
certificate_add(w, o, row) ==
    /\ IF Exists(o)
       THEN /\ certs' = [certs EXCEPT ![o] = row]
            /\ Hold(w, "certs", o, row)
       ELSE UNCHANGED <<certs, held>>
    /\ UNCHANGED orders

\* certificate_delete
certificate_delete(o) ==
    /\ certs' = [certs EXCEPT ![o] = None]
    /\ UNCHANGED <<orders, held>>

\* certificates_search('order__status_id', 4, ...): rows of orders in processing.
processing_search == {o \in Orders : Exists(o) /\ orders[o] = "processing"}

\* certificates_search('expire_uts', now, ..., '<='), 0 included.
expired_search ==
    {o \in Orders : Exists(o) /\ (certs[o].dates = None
                                     \/ certs[o].dates.order \in expired)}

\* obj.save(): every column as update_or_create saw it; a row that was purged
\* since is inserted again.
Save(w) ==
    /\ held[w] # Nothing
    /\ \/ /\ held[w].table = "orders"
          /\ orders' = [orders EXCEPT ![held[w].row] = held[w].value]
          /\ UNCHANGED certs
       \/ /\ held[w].table = "certs"
          /\ certs' = [certs EXCEPT ![held[w].row] = held[w].value]
          /\ UNCHANGED orders
    /\ held' = [held EXCEPT ![w] = Nothing]
    /\ UNCHANGED <<clock, pc, loc, server, crashes>>

-----------------------------------------------------------------------------
\* The clock passes the notAfter of the certificate of o, wherever that is.
CertificateExpires(o) ==
    /\ Exists(o)
    /\ o \notin expired
    /\ expired' = expired \cup {o}
    /\ UNCHANGED <<store, aged, pc, loc, server, crashes>>

\* The certificate row of o becomes two weeks old.
RowAges(o) ==
    /\ Exists(o)
    /\ o \notin aged
    /\ aged' = aged \cup {o}
    /\ UNCHANGED <<store, expired, pc, loc, server, crashes>>
=============================================================================
