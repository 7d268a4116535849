------------------------- MODULE CertificateHandler -------------------------
(***************************************************************************)
(* acme/certificate.py: enrollment, download, revocation, polling, and the *)
(* two jobs that acme/housekeeping.py runs on the certificate table.       *)
(***************************************************************************)
EXTENDS OpensslCA

VARIABLE submitted   \* what an asynchronous CA has been asked to issue

allvars == <<store, clock, pc, loc, server, crashes, ca, submitted>>

-----------------------------------------------------------------------------
(* Enrollment, from Order._process on: an order that was ready is set to   *)
(* processing.  The steps before, and who comes between them, are module   *)
(* OrderHandler.                                                           *)

Finalize(w, o, csr) ==
    /\ At(w, "idle")
    /\ o \in server.orders
    /\ orders[o] = "ready"
    /\ order_update(w, o, "processing")
    /\ Goto(w, "storeCsr",
            [Idle EXCEPT !.order = o, !.x = [csr |-> csr, order |-> o]])
    /\ UNCHANGED <<clock, server, crashes, ca, submitted>>

\* store_csr; the row stays where _csr_check then refuses the CSR.
StoreCsr(w) ==
    /\ At(w, "storeCsr")
    /\ certificate_new(w, loc[w].order, loc[w].x.csr)
    /\ Goto(w, "enroll", loc[w]) \/ Done(w)
    /\ UNCHANGED <<clock, server, crashes, ca, submitted>>

\* ca_handler.enroll of an asynchronous CA: the certificate, or an error, with
\* a poll identifier or without.
AskCA(w) ==
    /\ At(w, "enroll")
    /\ server.handler = "asynchronous"
    /\ submitted' = submitted \cup {loc[w].x}
    /\ Goto(w, "storeCert", loc[w]) \/ Goto(w, "storeError", loc[w])
    /\ UNCHANGED <<store, clock, server, crashes, ca>>

\* _store_cert with the dates of the certificate, by enroll_and_store and by
\* poll; the caller goes on whether or not that worked.
StoreCert(w) ==
    /\ At(w, "storeCert")
    /\ certificate_add(w, loc[w].order,
            [certs[loc[w].order] EXCEPT
                !.cert = loc[w].x, !.raw = loc[w].x, !.dates = loc[w].x])
    /\ Goto(w, "setValid", loc[w])
    /\ UNCHANGED <<clock, server, crashes, ca, submitted>>

\* _store_cert_error.  A CA that takes its time leaves a poll identifier; one
\* that rejects what it is polled for invalidates the order.
StoreCertError(w) ==
    /\ \/ At(w, "storeError") /\ Done(w)
       \/ At(w, "storeReject") /\ Goto(w, "setInvalid", loc[w])
    /\ certificate_add(w, loc[w].order,
            [certs[loc[w].order] EXCEPT
                !.polled = server.handler = "asynchronous"])
    /\ UNCHANGED <<clock, server, crashes, ca, submitted>>

\* "update order status to 5 (valid)", whatever it is by now.
SetValid(w) ==
    /\ At(w, "setValid")
    /\ order_update(w, loc[w].order, "valid")
    /\ Done(w)
    /\ UNCHANGED <<clock, server, crashes, ca, submitted>>

SetInvalid(w) ==
    /\ At(w, "setInvalid")
    /\ order_update(w, loc[w].order, "invalid")
    /\ Done(w)
    /\ UNCHANGED <<clock, server, crashes, ca, submitted>>

\* poll, run by a script for a row with a poll identifier.
Poll(w, o) ==
    /\ At(w, "idle")
    /\ Exists(o)
    /\ certs[o].polled
    /\ Goto(w, "pollCA", [Idle EXCEPT
            !.order = o, !.x = [csr |-> certs[o].csr, order |-> o]])
    /\ UNCHANGED <<store, clock, server, crashes, ca, submitted>>

\* Slip: whatever the CA answers, the order is finished.
PollCA_unchecked(w) ==
    /\ At(w, "pollCA")
    /\ \E next \in {"storeCert", "setValid", "storeReject"} :
          Goto(w, next, loc[w])
    /\ UNCHANGED <<store, clock, server, crashes, ca, submitted>>

\* ca_handler.poll: the certificate, not yet, or rejected.
PollCA(w) ==
    /\ At(w, "pollCA")
    /\ \E next \in {"storeCert", "storeError", "storeReject"} :
          Goto(w, next, loc[w])
    /\ UNCHANGED <<store, clock, server, crashes, ca, submitted>>

-----------------------------------------------------------------------------
(* Housekeeping                                                            *)

\* Order.invalidate reaches an order that is due: whatever it is but invalid.
InvalidateOrder(w, o) ==
    /\ At(w, "idle")
    /\ o \in server.orders
    /\ orders[o] # "invalid"
    /\ order_update(w, o, "invalid")
    /\ UNCHANGED <<clock, pc, loc, server, crashes, ca, submitted>>

\* Slip: a row without dates counts as expired.
invalidation_check_undated(row, o, purge) ==
    IF row.cert = Removal THEN purge ELSE TRUE

\* _invalidation_check of a row the search found: one that was cleared before
\* is only purged; one without dates goes by its certificate, if it has one,
\* and by its age if it has not.
invalidation_check(row, o, purge) ==
    IF row.cert = Removal THEN purge
    ELSE IF row.dates # None THEN TRUE
    ELSE IF row.raw # None THEN row.raw.order \in expired
    ELSE o \in aged

\* The row as _invalidation_check returns it, with the dates it has found.
dated(row) ==
    IF row.cert # Removal /\ row.dates = None
    THEN [row EXCEPT !.dates = row.raw] ELSE row

\* cleanup: the search, and the check of each row it found.
Cleanup(w, purge) ==
    LET list == {o \in expired_search : invalidation_check(certs[o], o, purge)}
    IN  /\ At(w, "idle")
        /\ list # {}
        /\ Goto(w, IF purge THEN "purge" ELSE "clean",
                [Idle EXCEPT !.todo = list, !.rows =
                    [o \in Orders |-> IF o \in list THEN dated(certs[o])
                                                    ELSE None]])
        /\ UNCHANGED <<store, clock, server, crashes, ca, submitted>>

\* Row o of a search result is dealt with.
RowDone(w, o) ==
    IF loc[w].todo = {o}
    THEN Done(w)
    ELSE Goto(w, pc[w], [loc[w] EXCEPT !.todo = @ \ {o}, !.rows[o] = None])

\* Slip: the notice replaces the raw certificate as well.
CleanRow_raw(w, o) ==
    /\ At(w, "clean")
    /\ o \in loc[w].todo
    /\ certificate_add(w, o,
            [certs[o] EXCEPT !.cert = Removal, !.raw = Removal,
                             !.dates = loc[w].rows[o].dates])
    /\ RowDone(w, o)
    /\ UNCHANGED <<clock, server, crashes, ca, submitted>>

\* cleanup, "we are just modifiying data": the text becomes "removed by
\* certificates.cleanup() ...", the raw certificate is kept, as it was read.
CleanRow(w, o) ==
    /\ At(w, "clean")
    /\ o \in loc[w].todo
    /\ certificate_add(w, o,
            [certs[o] EXCEPT !.cert = Removal, !.raw = loc[w].rows[o].raw,
                             !.dates = loc[w].rows[o].dates])
    /\ RowDone(w, o)
    /\ UNCHANGED <<clock, server, crashes, ca, submitted>>

\* cleanup, "delete entries from certificates table"
PurgeRow(w, o) ==
    /\ At(w, "purge")
    /\ o \in loc[w].todo
    /\ certificate_delete(o)
    /\ RowDone(w, o)
    /\ UNCHANGED <<clock, server, crashes, ca, submitted>>

\* dates_update: rows without dates that hold a certificate ...
DatesUpdate(w) ==
    LET list == {o \in Orders : /\ Exists(o)
                                /\ certs[o].dates = None
                                /\ certs[o].raw # None}
    IN  /\ At(w, "idle")
        /\ list # {}
        /\ Goto(w, "date", [Idle EXCEPT !.todo = list, !.rows =
                [o \in Orders |-> IF o \in list THEN certs[o] ELSE None]])
        /\ UNCHANGED <<store, clock, server, crashes, ca, submitted>>

\* ... are stored again, as they were read, with the dates of the certificate.
DateRow(w, o) ==
    /\ At(w, "date")
    /\ o \in loc[w].todo
    /\ LET row == loc[w].rows[o]
       IN  certificate_add(w, o, [certs[o] EXCEPT
                !.cert = row.cert, !.raw = row.raw, !.dates = row.raw])
    /\ RowDone(w, o)
    /\ UNCHANGED <<clock, server, crashes, ca, submitted>>

-----------------------------------------------------------------------------
\* new_get: the text of the certificate of a valid order, or an error.
new_get(o) ==
    IF Exists(o) /\ orders[o] = "valid" /\ certs[o].cert # None
    THEN certs[o].cert
    ELSE None

\* _revocation_reason_check
AllowedReasons == {0, 1, 3, 4, 5, 6}

\* certificate_account_check: the account owns the order of a row with this
\* certificate.
account_check(x, owner) == owner /\ \E o \in Orders : Exists(o) /\ certs[o].raw = x

\* revoke and _revocation_request_validate; owner: the request is signed by the
\* account of the order.  _authorization_check compares the SANs with the order
\* as _csr_check did.
Revoke(w, x, owner, reason) ==
    /\ At(w, "idle")
    /\ server.handler = "openssl"
    /\ reason \in AllowedReasons
    /\ account_check(x, owner)
    /\ Goto(w, "crlRead", [Idle EXCEPT !.x = x])
    /\ UNCHANGED <<store, clock, server, crashes, ca, submitted>>

\* The jobs of acme/housekeeping.py, run by a script.
Housekeeping(w) ==
    \/ \E purge \in BOOLEAN : Cleanup(w, purge)
    \/ DatesUpdate(w)
    \/ \E o \in Orders : \/ InvalidateOrder(w, o)
                         \/ CleanRow(w, o)
                         \/ PurgeRow(w, o)
                         \/ DateRow(w, o)

HandlerStep(w) ==
    \/ \E o \in Orders, csr \in Csrs : Finalize(w, o, csr)
    \/ StoreCsr(w)
    \/ AskCA(w)
    \/ StoreCert(w)
    \/ StoreCertError(w)
    \/ SetValid(w)
    \/ SetInvalid(w)
    \/ \E o \in Orders : Poll(w, o)
    \/ PollCA(w)
    \/ \E x \in X509, owner \in BOOLEAN, reason \in {0, 2} :
          Revoke(w, x, owner, reason)
    \/ Housekeeping(w)
=============================================================================
