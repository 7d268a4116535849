------------------------- MODULE CertificateServer -------------------------
(***************************************************************************)
(* The life of a certificate: the certificate handler, the trigger, the    *)
(* housekeeping jobs and the OpenSSL CA composed, over one certificate     *)
(* table and one CRL file.                                                 *)
(***************************************************************************)
EXTENDS Trigger

\* A process is killed, or dies of an exception.
Crash(w) ==
    /\ pc[w] # "idle"
    /\ crashes < MaxCrashes
    /\ crashes' = crashes + 1
    /\ held' = [held EXCEPT ![w] = Nothing]
    /\ Done(w)
    /\ UNCHANGED <<orders, certs, clock, server, ca, submitted>>

Init == StoreInit /\ CAInit /\ submitted = {}

Next ==
    \/ \E w \in server.workers :
          \/ HandlerStep(w)
          \/ OpensslStep(w) /\ UNCHANGED submitted
          \/ TriggerStep(w)
          \/ Save(w) /\ UNCHANGED <<ca, submitted>>
          \/ Crash(w)
    \/ \E o \in Orders :
          /\ CertificateExpires(o) \/ RowAges(o)
          /\ UNCHANGED <<ca, submitted>>

Spec == Init /\ [][Next]_allvars

-----------------------------------------------------------------------------
\* Every variable has its type.
TypeOK == StoreTypeOK /\ CATypeOK /\ submitted \subseteq X509

\* What a row holds besides its CSR.
Held509(row) == {row.cert, row.raw, row.dates} \ {None, Removal}

\* Whatever overlaps or crashes, a certificate is stored only with a CSR of the
\* same key: what _certname_lookup compares, and what enroll_and_store and poll
\* take for granted.
KeyFits ==
    \A o \in Orders : Exists(o) =>
        \A x \in Held509(certs[o]) : x.csr.key = certs[o].csr.key

\* No name on the black list, SAN or CN, and none outside the white list is in
\* a certificate the OpenSSL CA has signed: "check CN and SAN against
\* black/whitlist".
AllowedNames ==
    \A x \in disk : \A name \in x.csr.names :
        /\ \A regex \in Blacklist : name \notin regex
        /\ Whitelist # {} => name \in UNION Whitelist

\* Whatever overlaps or crashes, a certificate of the OpenSSL CA that is in the
\* table was written to the directory first, the CRL names only such, and none
\* in the directory is for names the lists forbid.
OnDisk ==
    server.handler = "openssl" =>
        /\ \A o \in Orders : Exists(o) => Held509(certs[o]) \subseteq disk
        /\ crl # Truncated => crl \subseteq disk
        /\ AllowedNames

\* With one process, a valid order serves a certificate until that expires;
\* then, once housekeeping has been there, the notice that it was removed.
ValidOrderServes ==
    Alone =>
        \A w \in server.workers, o \in Orders :
          At(w, "idle") /\ orders[o] = "valid" /\ Exists(o) =>
            \/ new_get(o) \in X509
            \/ new_get(o) = Removal /\ certs[o].dates.order \in expired

\* The row of o is emptied or purged in this step.
Removed(o) ==
    /\ Exists(o)
    /\ certs[o].cert # Removal
    /\ certs'[o] = None \/ certs'[o].cert = Removal

\* With one process that is never killed, housekeeping removes only expired
\* certificates, and CSRs that got none in two weeks ("cover cases for
\* enrollments in flight").
CleanupSpares ==
    [][Alone /\ crashes = 0 =>
        \A o \in Orders : Removed(o) =>
            IF certs[o].raw = None THEN o \in aged
                                   ELSE certs[o].raw.order \in expired]_allvars

\* The revocations that have read the CRL and not written it yet.
Revoking == {w \in Worker : pc[w] \in {"crlOpen", "crlWrite"}}

\* The CRL is empty because it is just being written.
BeingWritten == crl = Truncated /\ \E w \in Revoking : pc[w] = "crlWrite"

\* With one process that is never killed, a revocation that was answered with
\* 200 is in the CRL, or in what is just being written to it.
RevokedInCrl ==
    Alone /\ crashes = 0 =>
        \/ crl # Truncated /\ revoked \subseteq crl
        \/ BeingWritten /\ \A w \in Revoking : revoked \subseteq loc[w].crl

\* x is in the CRL, or will be when it is written, and in what every revocation
\* under way has read.
Secured(x) ==
    /\ crl # Truncated => x \in crl
    /\ crl = Truncated => BeingWritten
    /\ \A w \in Revoking : x \in loc[w].crl

\* With any number of processes, and until one is killed, an entry is lost only
\* to a revocation that had read the CRL before the entry was written.
SecuredStays ==
    [][crashes' = 0 => \A x \in X509 : Secured(x) => Secured(x)']_allvars

-----------------------------------------------------------------------------
(* The inductive invariant behind all of these.                            *)

Enrolling == {"storeCsr", "enroll", "bundle", "storeCert", "storeError",
              "storeReject", "setValid", "setInvalid", "pollCA"}

Triggering == {"triggerStore", "triggerValid"}

Jobs == {"clean", "purge", "date"}

\* A process has at hand what its next step takes.
ProcessShape(w) ==
    /\ pc[w] \in Enrolling \cup {"triggerValid"} => loc[w].order \in Orders
    /\ pc[w] \notin {"idle"} \cup Jobs => loc[w].x \in X509
    /\ pc[w] \in Jobs => \A o \in loc[w].todo : loc[w].rows[o] \in CertRow
    /\ held[w] # Nothing /\ held[w].table = "orders" => held[w].value # "ready"

OthersRest ==
    \A w \in Worker \ server.workers : pc[w] = "idle" /\ held[w] = Nothing

\* Row o is to be saved.
InSave(w, o) ==
    held[w] # Nothing /\ held[w].table = "certs" /\ held[w].row = o

\* The certificates that process w may still write to row o.
InHand(w, o) ==
    {x \in X509 :
        \/ pc[w] \in Enrolling /\ loc[w].order = o /\ x = loc[w].x
        \/ pc[w] \in Triggering /\ o \in loc[w].todo /\ x = loc[w].x
        \/ pc[w] \in Jobs /\ o \in loc[w].todo /\ x \in Held509(loc[w].rows[o])
        \/ InSave(w, o) /\ x \in Held509(held[w].value)}

\* Key k is in row o, or on its way there.
Named(o, k) ==
    \/ Exists(o) /\ \/ certs[o].csr.key = k
                    \/ \E x \in Held509(certs[o]) : x.csr.key = k
    \/ \E w \in Worker : \/ InSave(w, o) /\ held[w].value.csr.key = k
                         \/ \E x \in InHand(w, o) : x.csr.key = k

\* All that is ever written to the row of an order is for one key; the CSR with
\* which the order leaves the state ready chooses it.
OneKey ==
    \A o \in Orders :
        /\ \A j, k \in {csr.key : csr \in Csrs} : Named(o, j) /\ Named(o, k) => j = k
        /\ orders[o] = "ready" => \A k \in {csr.key : csr \in Csrs} : ~ Named(o, k)

\* The OpenSSL CA answers at once: nothing waits for it.
NothingPolled ==
    server.handler = "openssl" =>
        /\ submitted = {}
        /\ \A o \in Orders : Exists(o) => ~ certs[o].polled
        /\ \A w \in Worker :
              /\ pc[w] \notin Triggering \cup
                     {"pollCA", "storeReject", "setInvalid", "triggerSearch"}
              /\ \A o \in Orders : InSave(w, o) => ~ held[w].value.polled

\* What a process may still write, to the table or to the CRL, is on disk.
HandOnDisk ==
    server.handler = "openssl" => \A w \in Worker :
        /\ \A o \in Orders :
              /\ InSave(w, o) => Held509(held[w].value) \subseteq disk
              /\ pc[w] \notin {"storeCsr", "enroll", "storeError"} =>
                    InHand(w, o) \subseteq disk
        /\ pc[w] \in {"crlRead", "crlOpen", "crlWrite"} =>
              loc[w].x \in disk /\ loc[w].crl \subseteq disk

\* One process, never killed, finds the CRL as it read it.
CrlUndisturbed ==
    \A w \in server.workers : Alone /\ crashes = 0 =>
        IF pc[w] = "crlWrite"
        THEN crl = Truncated /\ revoked \cup {loc[w].x} \subseteq loc[w].crl
        ELSE /\ crl # Truncated /\ revoked \subseteq crl
             /\ pc[w] = "crlOpen" => crl \cup {loc[w].x} \subseteq loc[w].crl

\* One process finds the rows as it read them.
Undisturbed(w) ==
    /\ held[w] # Nothing =>
          held[w].value = IF held[w].table = "certs" THEN certs[held[w].row]
                                                     ELSE orders[held[w].row]
    /\ pc[w] \in Jobs => \A o \in loc[w].todo :
          Exists(o) /\ loc[w].rows[o] =
                          IF pc[w] = "date" THEN certs[o] ELSE dated(certs[o])
    /\ pc[w] \in Triggering => \A o \in loc[w].todo : orders[o] = "processing"
    /\ pc[w] = "triggerValid" => loc[w].order \notin loc[w].todo

\* A valid order has its certificate or, once that has expired, the notice.
Served(o) ==
    \/ certs[o].cert \in X509 /\ certs[o].raw # None
    \/ /\ certs[o].cert = Removal
       /\ certs[o].dates # None /\ certs[o].dates.order \in expired

\* What the jobs have found and are about to deal with; what is about to become
\* a valid order.
Justified(w) ==
    /\ pc[w] \in {"clean", "purge"} => \A o \in loc[w].todo :
          /\ pc[w] = "clean" => certs[o].cert # Removal
          /\ certs[o].cert # Removal =>
                LET dates == loc[w].rows[o].dates
                IN  IF dates # None THEN dates.order \in expired
                                    ELSE certs[o].raw = None /\ o \in aged
    /\ pc[w] = "date" => \A o \in loc[w].todo :
          certs[o].dates = None /\ certs[o].raw # None
    /\ pc[w] = "storeCsr" => orders[loc[w].order] # "valid"
    /\ pc[w] \in {"setValid", "triggerValid"} /\ Exists(loc[w].order) =>
          certs[loc[w].order].cert \in X509 /\ certs[loc[w].order].raw # None

\* Until a process is killed, dates are those of the certificate, and an order
\* in processing has one only while it is being made valid.
DatesFit(w) ==
    \A o \in Orders : Exists(o) =>
        /\ certs[o].dates # None =>
              certs[o].raw # None /\ certs[o].dates.order = certs[o].raw.order
        /\ orders[o] = "processing" /\ certs[o].raw # None =>
              pc[w] \in {"setValid", "triggerValid"} /\ loc[w].order = o

RowsUndisturbed ==
    \A w \in server.workers : Alone =>
        /\ Undisturbed(w)
        /\ Justified(w)
        /\ \A o \in Orders : orders[o] = "valid" /\ Exists(o) => Served(o)
        /\ crashes = 0 => DatesFit(w)

CertInv ==
    /\ TypeOK
    /\ \A w \in Worker : ProcessShape(w)
    /\ OthersRest
    /\ OneKey
    /\ NothingPolled
    /\ OnDisk
    /\ HandOnDisk
    /\ CrlUndisturbed
    /\ RowsUndisturbed
=============================================================================
