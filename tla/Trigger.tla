------------------------------ MODULE Trigger ------------------------------
(***************************************************************************)
(* acme/trigger.py: the CA pushes a certificate, which is stored with      *)
(* every order in processing whose CSR has the public key of it.           *)
(***************************************************************************)
EXTENDS CertificateHandler

\* parse and _payload_process: ca_handler.trigger returns a certificate that
\* was asked for.
TriggerReceive(w, x) ==
    /\ At(w, "idle")
    /\ x \in submitted
    /\ Goto(w, "triggerSearch", [Idle EXCEPT !.x = x])
    /\ UNCHANGED <<store, clock, server, crashes, ca, submitted>>

\* Slip: the certificate goes to every order that waits for one.
certname_lookup_all(x) == processing_search

\* _certname_lookup
certname_lookup(x) == {o \in processing_search : certs[o].csr.key = x.csr.key}

TriggerSearch(w) ==
    LET list == certname_lookup(loc[w].x)
    IN  /\ At(w, "triggerSearch")
        /\ IF list = {}
           THEN Done(w)
           ELSE Goto(w, "triggerStore", [loc[w] EXCEPT !.todo = list])
        /\ UNCHANGED <<store, clock, server, crashes, ca, submitted>>

\* The chain and the raw certificate are stored, without dates ...
TriggerStore(w, o) ==
    /\ At(w, "triggerStore")
    /\ o \in loc[w].todo
    /\ certificate_add(w, o,
            [certs[o] EXCEPT !.cert = loc[w].x, !.raw = loc[w].x])
    /\ Goto(w, "triggerValid",
            [loc[w] EXCEPT !.order = o, !.todo = @ \ {o}])
    /\ UNCHANGED <<clock, server, crashes, ca, submitted>>

\* ... and the order is "set to 5 (valid)", whatever it is by now.
TriggerValid(w) ==
    /\ At(w, "triggerValid")
    /\ order_update(w, loc[w].order, "valid")
    /\ IF loc[w].todo = {}
       THEN Done(w)
       ELSE Goto(w, "triggerStore", [loc[w] EXCEPT !.order = None])
    /\ UNCHANGED <<clock, server, crashes, ca, submitted>>

TriggerStep(w) ==
    \/ \E x \in X509 : TriggerReceive(w, x)
    \/ TriggerSearch(w)
    \/ \E o \in Orders : TriggerStore(w, o)
    \/ TriggerValid(w)
=============================================================================
