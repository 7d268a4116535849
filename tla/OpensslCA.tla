----------------------------- MODULE OpensslCA -----------------------------
(***************************************************************************)
(* openssl_ca_handler.py: a CA whose certificates are files in a directory *)
(* and whose CRL is one file, read and written without a lock.             *)
(***************************************************************************)
EXTENDS Certificates

CONSTANTS
    Whitelist,  \* regular expressions, each the set of names it matches
    Blacklist,
    Truncated   \* a CRL file that was opened for writing and is empty yet

VARIABLES
    disk,    \* certificates in cert_save_path
    crl,     \* the entries of the CRL file, or Truncated
    revoked  \* history: certificates whose revocation was answered with 200

ca == <<disk, crl, revoked>>

CAInit == disk = {X509Issued(o) : o \in Issued} /\ crl = {} /\ revoked = {}

CATypeOK ==
    /\ disk \subseteq X509
    /\ crl \in (SUBSET X509) \cup {Truncated}
    /\ revoked \subseteq X509

-----------------------------------------------------------------------------
\* _list_check: an empty list lets everything pass.
list_check(name, list) == list = {} \/ \E regex \in list : name \in regex

\* _string_wlbl_check
string_wlbl_check(name, white, black) ==
    list_check(name, white) /\ (black # {} => ~ list_check(name, black))

\* _csr_check: every SAN and the CN, and there is one.
csr_check(csr) ==
    Whitelist \cup Blacklist # {} =>
        /\ csr.names # {}
        /\ \A name \in csr.names : string_wlbl_check(name, Whitelist, Blacklist)

\* The file cannot be loaded while it is empty; the certificates from before
\* were signed under the lists that are in force.
ASSUME OpensslAssumption ==
    /\ \A entries \in SUBSET X509 : entries # Truncated
    /\ \A d \in Deployments : \A o \in Orders :
          d.handler = "openssl" /\ d.issued[o] # None => csr_check(d.issued[o])

-----------------------------------------------------------------------------
\* Slip: the certificate is bundled first and written to the directory later.
SignCertificate_unsaved(w) ==
    /\ At(w, "enroll")
    /\ server.handler = "openssl"
    /\ Goto(w, "bundle", loc[w])
    /\ UNCHANGED <<store, clock, server, crashes, ca>>

\* enroll: _config_check finds a file missing; or _csr_check refuses; or
\* something raises; or the certificate is signed and written to the directory.
SignCertificate(w) ==
    /\ At(w, "enroll")
    /\ server.handler = "openssl"
    /\ \/ /\ csr_check(loc[w].x.csr)
          /\ disk' = disk \cup {loc[w].x}
          /\ Goto(w, "bundle", loc[w])
       \/ Goto(w, "storeError", loc[w]) /\ UNCHANGED disk
    /\ UNCHANGED <<store, clock, server, crashes, crl, revoked>>

\* _pemcertchain_generate and the encoding: if a file cannot be read, enroll
\* returns no certificate, although there is one on disk.
BundleCertificate(w) ==
    /\ At(w, "bundle")
    /\ \/ Goto(w, "storeCert", loc[w])
       \/ Goto(w, "storeError", loc[w])
    /\ UNCHANGED <<store, clock, server, crashes, ca>>

-----------------------------------------------------------------------------
(* revoke                                                                  *)

\* Slip: the CRL starts anew.
CrlRead_new(w) ==
    /\ At(w, "crlRead")
    /\ Goto(w, "crlOpen", [loc[w] EXCEPT !.crl = {loc[w].x}])
    /\ UNCHANGED <<store, clock, server, crashes, ca>>

\* The CRL file is read and looked through by _crl_check.  load_crl raises on
\* an empty file, and nobody catches that.
CrlRead(w) ==
    /\ At(w, "crlRead")
    /\ IF crl # Truncated /\ loc[w].x \notin crl
       THEN Goto(w, "crlOpen", [loc[w] EXCEPT !.crl = crl \cup {loc[w].x}])
       ELSE Done(w)
    /\ UNCHANGED <<store, clock, server, crashes, ca>>

\* open(..., 'wb')
CrlOpen(w) ==
    /\ At(w, "crlOpen")
    /\ crl' = Truncated
    /\ Goto(w, "crlWrite", loc[w])
    /\ UNCHANGED <<store, clock, server, crashes, disk, revoked>>

\* Slip: only the new entry is exported.
CrlWrite_entry(w) ==
    /\ At(w, "crlWrite")
    /\ crl' = {loc[w].x}
    /\ revoked' = revoked \cup {loc[w].x}
    /\ Done(w)
    /\ UNCHANGED <<store, clock, server, crashes, disk>>

\* The file is written and closed, the answer is 200.
CrlWrite(w) ==
    /\ At(w, "crlWrite")
    /\ crl' = loc[w].crl
    /\ revoked' = revoked \cup {loc[w].x}
    /\ Done(w)
    /\ UNCHANGED <<store, clock, server, crashes, disk>>

OpensslStep(w) ==
    \/ SignCertificate(w)
    \/ BundleCertificate(w)
    \/ CrlRead(w)
    \/ CrlOpen(w)
    \/ CrlWrite(w)
=============================================================================
