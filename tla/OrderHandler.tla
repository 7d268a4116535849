---------------------------- MODULE OrderHandler ----------------------------
(***************************************************************************)
(* Order.new and Order.parse (acme/order.py), with the part of             *)
(* acme/certificate.py a finalization runs: store_csr, _csr_check and      *)
(* enroll_and_store.                                                       *)
(***************************************************************************)
EXTENDS Workers

CONSTANTS CSRs   \* what the CSRs of clients name: sets of identifiers

ASSUME OrderHandlerAssumption == CSRs \subseteq SUBSET Identifiers

-----------------------------------------------------------------------------
(* Order.new                                                               *)

\* _add: the order row.  A refused identifier list leaves an invalid order
\* nobody is told of; a failing order_add answers malformed.
NewOrder(w, o, ids) ==
    /\ pc[w] = "idle"
    /\ orders[o].status = None
    /\ \/ /\ order_add(w, o, "pending", ids)
          /\ Goto(w, "addAuthz", [Idle EXCEPT !.order = o, !.adding = ids])
       \/ /\ order_add(w, o, "invalid", ids)
          /\ UNCHANGED <<pc, loc>>
       \/ DBMayFail /\ UNCHANGED <<orders, held, pc, loc>>
    /\ UNCHANGED <<authz, chall, certs, announced, passed, crashes>>

\* One authorization per identifier; a failing add is only logged.
AddAuthz(w) ==
    /\ pc[w] = "addAuthz"
    /\ \E i \in loc[w].adding :
          /\ authorization_add(w, <<loc[w].order, i>>)
          /\ Goto(w, "addAuthz", [loc[w] EXCEPT !.adding = @ \ {i}])
    /\ UNCHANGED <<orders, chall, certs, announced, passed, crashes>>

\* The 201 tells the client the order and its authorizations.
AnnounceOrder(w) ==
    /\ pc[w] = "addAuthz"
    /\ loc[w].adding = {}
    /\ announced' = announced \cup {loc[w].order}
    /\ Done(w)
    /\ UNCHANGED <<dbvars, passed, crashes>>

-----------------------------------------------------------------------------
(* Order.parse: a poll of the order or its finalization                    *)

\* parse begins with invalidate(): the search (if it fails, the request dies
\* before it changed anything) ...
OrderPost(w, o) ==
    /\ pc[w] = "idle"
    /\ Goto(w, "invalidateOrders",
            [Idle EXCEPT !.order = o, !.dueOrders = orders_invalid_search])
    /\ UNCHANGED <<dbvars, announced, passed, crashes>>

\* ... and one update for each order found, whatever its status is by then.
InvalidateOrder(w) ==
    /\ pc[w] = "invalidateOrders"
    /\ \E o \in loc[w].dueOrders :
          /\ order_update(w, o, "invalid")
          /\ Goto(w, "invalidateOrders", [loc[w] EXCEPT !.dueOrders = @ \ {o}])
    /\ UNCHANGED <<authz, chall, certs, announced, passed, crashes>>

\* Message.check accepts the request or refuses it; only the client the order
\* was announced to can name it.
OrderPostChecked(w) ==
    /\ pc[w] = "invalidateOrders"
    /\ loc[w].dueOrders = {}
    /\ \/ /\ loc[w].order \in announced
          /\ Goto(w, "lookupOrder", loc[w])
       \/ Done(w)
    /\ UNCHANGED <<dbvars, announced, passed, crashes>>

\* _lookup reads the order ("order not found" when the read fails) ...
LookupOrder(w) ==
    /\ pc[w] = "lookupOrder"
    /\ \/ Goto(w, "lookupAuthzs",
               [loc[w] EXCEPT !.seen = orders[loc[w].order].status])
       \/ DBMayFail /\ Done(w)
    /\ UNCHANGED <<dbvars, announced, passed, crashes>>

\* Where parse goes on after _lookup.
AfterLookup(w) == IF loc[w].second THEN "respond" ELSE "process"

\* Slip: one valid authorization is enough.
AllAuthzsValid_any(o) ==
    \E a \in authorization_lookup(o) : authz[a].status = "valid"

AllAuthzsValid(o) ==
    /\ authorization_lookup(o) # {}
    /\ \A a \in authorization_lookup(o) : authz[a].status = "valid"

\* Slips: the order need not be pending; the authorizations need not be valid.
LookupAuthzs_again(w) ==
    /\ pc[w] = "lookupAuthzs"
    /\ IF AllAuthzsValid(loc[w].order)
       THEN Goto(w, "setReady", loc[w])
       ELSE Goto(w, AfterLookup(w), loc[w])
    /\ UNCHANGED <<dbvars, announced, passed, crashes>>

LookupAuthzs_blind(w) ==
    /\ pc[w] = "lookupAuthzs"
    /\ IF loc[w].seen = "pending"
       THEN Goto(w, "setReady", loc[w])
       ELSE Goto(w, AfterLookup(w), loc[w])
    /\ UNCHANGED <<dbvars, announced, passed, crashes>>

\* ... then its authorizations; all of them valid, and the order read as
\* pending before, makes it ready.  A failing read is an empty list.
LookupAuthzs(w) ==
    /\ pc[w] = "lookupAuthzs"
    /\ LET ready == AllAuthzsValid(loc[w].order) /\ loc[w].seen = "pending"
       IN  \/ ready /\ Goto(w, "setReady", loc[w])
           \/ (DBMayFail \/ ~ ready) /\ Goto(w, AfterLookup(w), loc[w])
    /\ UNCHANGED <<dbvars, announced, passed, crashes>>

\* "update orders status from pending to ready"
SetReady(w) ==
    /\ pc[w] = "setReady"
    /\ order_update(w, loc[w].order, "ready")
    /\ Goto(w, AfterLookup(w), loc[w])
    /\ UNCHANGED <<authz, chall, certs, announced, passed, crashes>>

\* _process, not a finalize URL: the certificate row of the order, if any.
ProcessPoll(w) ==
    /\ pc[w] = "process"
    /\ \E cert \in certificates_of(loc[w].order) \cup {None} :
          /\ cert = None => \/ DBMayFail
                            \/ certificates_of(loc[w].order) = {}
          /\ Goto(w, "lookupOrder",
                  [loc[w] EXCEPT !.cert = cert, !.second = TRUE])
    /\ UNCHANGED <<dbvars, announced, passed, crashes>>

\* Slip: a finalization that failed may be repeated.
ProcessFinalize_again(w) ==
    /\ pc[w] = "process"
    /\ IF orders[loc[w].order].status \in {"ready", "processing"}
       THEN Goto(w, "setProcessing", loc[w])
       ELSE Done(w)
    /\ UNCHANGED <<dbvars, announced, passed, crashes>>

\* _process, finalize: "lookup order-status (must be ready to proceed)"
ProcessFinalize(w) ==
    /\ pc[w] = "process"
    /\ \/ /\ orders[loc[w].order].status = "ready"
          /\ Goto(w, "setProcessing", loc[w])
       \/ /\ DBMayFail \/ orders[loc[w].order].status # "ready"
          /\ Done(w)
    /\ UNCHANGED <<dbvars, announced, passed, crashes>>

\* The order is processing before anybody looks for a CSR in the payload.
SetProcessing(w) ==
    /\ pc[w] = "setProcessing"
    /\ order_update(w, loc[w].order, "processing")
    /\ \/ Goto(w, "storeCsr", loc[w])
       \/ Done(w)
    /\ UNCHANGED <<authz, chall, certs, announced, passed, crashes>>

-----------------------------------------------------------------------------
(* Certificate                                                             *)

\* csr_san_get and csr_extensions_get
csr_sans(names) == names \ TNAuthLists
csr_extensions(names) == names \cap TNAuthLists

\* _identifer_status_list: the CSR has SANs, and each is in the order.
identifer_status_list(ids, names) ==
    csr_sans(names) # {} /\ csr_sans(names) \subseteq ids

\* _identifer_tnauth_list: every identifier of the order is a TNAuthList, and
\* among the CSR's extensions.  SANs and further extensions are not looked at.
identifer_tnauth_list(ids, names) == ids \subseteq csr_extensions(names)

\* Slip: the CSR is not compared with the order.
csr_check_open(o, names) == names # {}

\* _csr_check: one TNAuthList in an order decides which comparison is made.
csr_check(o, names) ==
    LET ids == orders[o].identifiers
    IN  IF ids \cap TNAuthLists # {}
        THEN identifer_tnauth_list(ids, names)
        ELSE identifer_status_list(ids, names)

\* store_csr and _csr_check; a failing add is logged, and then the check
\* fails for want of its row, as it does when one of its reads fails.
StoreCsr(w, names) ==
    /\ pc[w] = "storeCsr"
    /\ LET o == loc[w].order
           free == {c \in Certs : c[1] = o /\ certs[c].status = None}
       IN  \/ \E c \in free :
                 /\ certs' = [certs EXCEPT ![c] =
                                 [status |-> "csr", names |-> names]]
                 /\ \/ /\ csr_check(o, names)
                       /\ Goto(w, "enroll", [loc[w] EXCEPT !.cert = c])
                    \/ (DBMayFail \/ ~ csr_check(o, names)) /\ Done(w)
           \/ /\ DBMayFail \/ free = {}
              /\ UNCHANGED certs
              /\ Done(w)
    /\ UNCHANGED <<orders, authz, chall, held, announced, passed, crashes>>

\* Slip: an error of the CA is taken for a certificate.
Enroll_unchecked(w) ==
    /\ pc[w] = "enroll"
    /\ Goto(w, "storeCert", loc[w]) \/ Goto(w, "setValid", loc[w])
    /\ UNCHANGED <<dbvars, announced, passed, crashes>>

\* The CA handler returns a certificate, an error, or an id to poll for.
Enroll(w) ==
    /\ pc[w] = "enroll"
    /\ \E next \in {"storeCert", "storeError", "storePoll"} :
          Goto(w, next, loc[w])
    /\ UNCHANGED <<dbvars, announced, passed, crashes>>

\* _store_cert: a failing write is logged and the enrollment still succeeds.
StoreCert(w) ==
    /\ pc[w] = "storeCert"
    /\ certificate_update(loc[w].cert, "issued")
    /\ Goto(w, "setValid", loc[w])
    /\ UNCHANGED <<orders, authz, chall, announced, passed, crashes>>

\* Slip: the order goes on as if there was a certificate.
StoreCertError_ignored(w) ==
    /\ pc[w] \in {"storeError", "storePoll"}
    /\ certificate_update(loc[w].cert, "error")
    /\ Goto(w, "setValid", loc[w])
    /\ UNCHANGED <<orders, authz, chall, announced, passed, crashes>>

\* _store_cert_error: the order stays processing.  With a poll id and no
\* error the request is answered like a success.
StoreCertError(w) ==
    /\ \/ /\ pc[w] = "storeError"
          /\ certificate_update(loc[w].cert, "error")
          /\ Done(w)
       \/ /\ pc[w] = "storePoll"
          /\ certificate_update(loc[w].cert, "poll")
          /\ \/ Goto(w, "lookupOrder", [loc[w] EXCEPT !.second = TRUE])
             \/ Done(w)
    /\ UNCHANGED <<orders, authz, chall, announced, passed, crashes>>

SetValid(w) ==
    /\ pc[w] = "setValid"
    /\ order_update(w, loc[w].order, "valid")
    /\ Goto(w, "lookupOrder", [loc[w] EXCEPT !.second = TRUE])
    /\ UNCHANGED <<authz, chall, certs, announced, passed, crashes>>

\* The response of parse: loc[w].seen is the status it shows, loc[w].cert the
\* certificate it links to when that status is valid.
Respond(w) ==
    /\ pc[w] = "respond"
    /\ Done(w)
    /\ UNCHANGED <<dbvars, announced, passed, crashes>>

-----------------------------------------------------------------------------
OrderStep(w) ==
    \/ AddAuthz(w)
    \/ AnnounceOrder(w)
    \/ InvalidateOrder(w)
    \/ OrderPostChecked(w)
    \/ LookupOrder(w)
    \/ LookupAuthzs(w)
    \/ SetReady(w)
    \/ ProcessPoll(w)
    \/ ProcessFinalize(w)
    \/ SetProcessing(w)
    \/ \E names \in CSRs : StoreCsr(w, names)
    \/ Enroll(w)
    \/ StoreCert(w)
    \/ StoreCertError(w)
    \/ SetValid(w)
    \/ Respond(w)
=============================================================================
