--------------------------- MODULE ZeroSSLHandler ---------------------------
(***************************************************************************)
(* zerossl_ca_handler.py, with the DNS client it registers challenges by   *)
(* (dnsclient/), the cache of prefetched certificates, and the prefetch    *)
(* request of api/views.py that fills it.  ZeroSSL, name.com and redis are *)
(* external: any call to them may fail.                                    *)
(*                                                                         *)
(* An error that enroll() returns and an exception that leaves it are one  *)
(* here: the caller gets no certificate.                                   *)
(***************************************************************************)
EXTENDS Integers, FiniteSets

CONSTANTS
    Worker,
    Name,          \* DNS names, each [prefix, domain]
    ClientCsrs,    \* CSRs of ACME clients: [key, names]
    PrefetchCsrs,  \* CSRs made by prefetch requests, each with a key of its own
    Domains,       \* the configured domains: [domain -> allowed prefixes]
    Suffixes,      \* <<prefix, p>> where the string prefix ends with the string p
    NoPrefix,      \* the empty prefix
    Trials,        \* default of try_verify_domain
    MaxCerts,      \* how many certificates the CA creates (a bound)
    MaxCrashes,    \* how many processes are killed (a bound)
    None

Csr == ClientCsrs \cup PrefetchCsrs
CertId == 1..MaxCerts

ASSUME ZeroSSLAssumption ==
    /\ \A csr \in Csr : csr.names \in SUBSET Name \ {{}}
    /\ Trials \in Nat \ {0}
    /\ MaxCerts \in Nat
    /\ MaxCrashes \in Nat
    /\ None \notin Csr /\ None \notin CertId

VARIABLES
    ca,       \* certificates the CA has created: [csr, status], or None
    dns,      \* CNAME records: [csr, name, id]
    cache,    \* PrefetchingCache: the certificate kept for a set of names, or None
    made,     \* CSRs prefetch requests have made so far
    pc, loc,  \* where each process is, and its local variables
    answers,  \* history: certificates handed out, [csr, id]
    crashes   \* history: processes killed so far

vars == <<ca, dns, cache, made, pc, loc, answers, crashes>>

-----------------------------------------------------------------------------
\* "draft" stands for "expired" too, "issued" for "expiring_soon", and
\* "pending_validation" for "cancelled", which the CA just never issues.
CertificateStatus == {"draft", "pending_validation", "issued"}

CACert == [csr : Csr, status : CertificateStatus]

ASSUME CACertAssumption == {None} \cap CACert = {}

\* The name of a record has a hash of the CSR in it.
Record == [csr : Csr, name : Name, id : CertId]

NameSets == {csr.names : csr \in Csr}

\* todo: names whose record is yet to be created or deleted; bound: the variable
\* all_validations is; failed: there is an error.
Loc == [csr : Csr \cup {None}, id : CertId \cup {None}, prefetch : BOOLEAN,
        trials : 0..Trials, todo : SUBSET Name, bound : BOOLEAN,
        failed : BOOLEAN]

Idle == [csr |-> None, id |-> None, prefetch |-> FALSE, trials |-> Trials,
         todo |-> {}, bound |-> FALSE, failed |-> FALSE]

Labels == {"idle", "getPrefetched", "create", "register",
           "verify", "poll", "cleanup", "download", "setPrefetched"}

Init ==
    /\ ca = [i \in CertId |-> None]
    /\ dns = {}
    /\ cache = [names \in NameSets |-> None]
    /\ made = {}
    /\ pc = [w \in Worker |-> "idle"]
    /\ loc = [w \in Worker |-> Idle]
    /\ answers = {}
    /\ crashes = 0

Goto(w, label, l) ==
    /\ pc' = [pc EXCEPT ![w] = label]
    /\ loc' = [loc EXCEPT ![w] = l]

\* enroll() ends without a certificate.
Fails(w) == Goto(w, "idle", Idle)

\* The answer is a certificate.
Answer(w, id) ==
    /\ answers' = answers \cup {[csr |-> loc[w].csr, id |-> id]}
    /\ Goto(w, "idle", Idle)

\* enroll() returns a certificate: to the client, or to prefetch().
Returns(w, id) ==
    IF loc[w].prefetch
    THEN Goto(w, "setPrefetched", [loc[w] EXCEPT !.id = id]) /\ UNCHANGED answers
    ELSE Answer(w, id)

-----------------------------------------------------------------------------
\* Client.is_same_zone
is_same_zone(prefix, allowed) ==
    \/ allowed = NoPrefix
    \/ prefix = allowed
    \/ <<prefix, allowed>> \in Suffixes

\* Client.verify, of a name and of the record below it.
verify(name) ==
    /\ name.domain \in DOMAIN Domains
    /\ \E allowed \in Domains[name.domain] : is_same_zone(name.prefix, allowed)

\* enroll(csr) is called for a finalize request of a client.
Enroll(w, csr) ==
    /\ pc[w] = "idle"
    /\ Goto(w, "getPrefetched", [Idle EXCEPT !.csr = csr])
    /\ UNCHANGED <<ca, dns, cache, made, answers, crashes>>

\* prefetch(request): a key and a CSR for the domains of the request are made.
Prefetch(w, csr) ==
    /\ pc[w] = "idle"
    /\ csr \notin made
    /\ made' = made \cup {csr}
    /\ Goto(w, "getPrefetched", [Idle EXCEPT !.csr = csr, !.prefetch = TRUE])
    /\ UNCHANGED <<ca, dns, cache, answers, crashes>>

\* PrefetchingCache.get: the entry of exactly these names, if there is one.
prefetched(names) == {cache[names]} \ {None}

\* get_domain_names, and DnsConfigError for a name that is not configured; then
\* get_prefetched, which raises if redis does not answer.
GetPrefetched(w) ==
    LET names == loc[w].csr.names
    IN  /\ pc[w] = "getPrefetched"
        /\ \/ /\ \A name \in names : verify(name)
              /\ \E id \in prefetched(names) : Returns(w, id)
           \/ /\ \A name \in names : verify(name)
              /\ prefetched(names) = {}
              /\ Goto(w, "create", loc[w])
              /\ UNCHANGED answers
           \/ Fails(w) /\ UNCHANGED answers
        /\ UNCHANGED <<ca, dns, cache, made, crashes>>

\* certificate.create.  One that is not a draft is polled for at once.
Create(w) ==
    /\ pc[w] = "create"
    /\ \/ \E id \in CertId, status \in CertificateStatus :
             /\ ca[id] = None
             /\ \A i \in 1..(id - 1) : ca[i] # None
             /\ ca' = [ca EXCEPT ![id] = [csr |-> loc[w].csr, status |-> status]]
             /\ IF status = "draft"
                THEN Goto(w, "register", [loc[w] EXCEPT
                        !.id = id, !.todo = loc[w].csr.names, !.bound = TRUE])
                ELSE Goto(w, "poll", [loc[w] EXCEPT !.id = id])
       \/ Fails(w) /\ UNCHANGED ca
    /\ UNCHANGED <<dns, cache, made, answers, crashes>>

\* create_cname_record for one of the validations.  An error does not end the
\* loop; after it, the records that were made stay.
Register(w, name) ==
    LET l == [loc[w] EXCEPT !.todo = @ \ {name}]
        Onward(failed) ==
            IF l.todo # {} THEN Goto(w, "register", [l EXCEPT !.failed = failed])
            ELSE IF failed THEN Fails(w)
            ELSE Goto(w, "verify", l)
    IN  /\ pc[w] = "register"
        /\ name \in loc[w].todo
        /\ \/ /\ dns' = dns \cup {[csr |-> l.csr, name |-> name, id |-> l.id]}
              /\ Onward(l.failed)
           \/ Onward(TRUE) /\ UNCHANGED dns
        /\ UNCHANGED <<ca, cache, made, answers, crashes>>

-----------------------------------------------------------------------------
(* try_verify_domain                                                       *)

\* The CA finds a record for every name.
Validated(csr) ==
    \A name \in csr.names : \E r \in dns : r.csr = csr /\ r.name = name

\* The answer is the certificate: the CA has found the records.
VerifySucceeds(w) ==
    /\ pc[w] = "verify"
    /\ Validated(loc[w].csr)
    /\ ca' = [ca EXCEPT ![loc[w].id].status =
                 IF @ = "draft" THEN "pending_validation" ELSE @]
    /\ Goto(w, "poll", loc[w])
    /\ UNCHANGED <<dns, cache, made, answers, crashes>>

\* Slip: trials are not counted.
VerifyFails_forever(w) ==
    /\ pc[w] = "verify"
    /\ UNCHANGED <<pc, loc, ca, dns, cache, made, answers, crashes>>

\* Slip: the loop goes on while trials >= 0.
VerifyFails_longer(w) ==
    /\ pc[w] = "verify"
    /\ IF loc[w].trials < 0 THEN Fails(w)
       ELSE Goto(w, "verify", [loc[w] EXCEPT !.trials = @ - 1])
    /\ UNCHANGED <<ca, dns, cache, made, answers, crashes>>

\* success is False: the trials are counted down.  The records stay.
\* (success is True: the question is asked again, and nothing changes.)
VerifyFails(w) ==
    /\ pc[w] = "verify"
    /\ IF loc[w].trials = 1 THEN Fails(w)
       ELSE Goto(w, "verify", [loc[w] EXCEPT !.trials = @ - 1])
    /\ UNCHANGED <<ca, dns, cache, made, answers, crashes>>

\* The request raises, which counts as an error.
VerifyRaises(w) ==
    /\ pc[w] = "verify"
    /\ Fails(w)
    /\ UNCHANGED <<ca, dns, cache, made, answers, crashes>>

-----------------------------------------------------------------------------
\* poll_until_issued, and the finally clause: all_validations is iterated, which
\* raises if it is not bound.
ToCleanup(w, failed) ==
    IF loc[w].bound
    THEN Goto(w, "cleanup", [loc[w] EXCEPT !.todo = loc[w].csr.names,
                                           !.failed = failed])
    ELSE Fails(w)

Polled(w) ==
    /\ pc[w] = "poll"
    /\ ca[loc[w].id].status = "issued"
    /\ ToCleanup(w, FALSE)
    /\ UNCHANGED <<ca, dns, cache, made, answers, crashes>>

\* Slip: a timeout is no error.
PollTimeout_ignored(w) ==
    /\ pc[w] = "poll"
    /\ ToCleanup(w, FALSE)
    /\ UNCHANGED <<ca, dns, cache, made, answers, crashes>>

\* TimeoutError, while the CA may still issue the certificate; an exception of
\* the request goes the same way.
PollTimeout(w) ==
    /\ pc[w] = "poll"
    /\ ToCleanup(w, TRUE)
    /\ UNCHANGED <<ca, dns, cache, made, answers, crashes>>

\* Slip: the records of the name go, whatever CSR they are for.
delete_cname_record_name(csr, name) == {r \in dns : r.name # name}

\* delete_cname_record: all records of that host.
delete_cname_record(csr, name) == {r \in dns : ~ (r.csr = csr /\ r.name = name)}

\* Slip: an error in the cleanup is only logged.
AfterCleanup_logged(w, l, failed) ==
    IF l.todo # {} THEN Goto(w, "cleanup", l)
    ELSE IF l.failed THEN Fails(w)
    ELSE Goto(w, "download", l)

\* One error, before the cleanup or in it, and there is no download.
AfterCleanup(w, l, failed) ==
    IF l.todo # {} THEN Goto(w, "cleanup", [l EXCEPT !.failed = failed])
    ELSE IF failed THEN Fails(w)
    ELSE Goto(w, "download", l)

Cleanup(w, name) ==
    LET l == [loc[w] EXCEPT !.todo = @ \ {name}]
    IN  /\ pc[w] = "cleanup"
        /\ name \in loc[w].todo
        /\ \/ /\ dns' = delete_cname_record(l.csr, name)
              /\ AfterCleanup(w, l, l.failed)
           \/ AfterCleanup(w, l, TRUE) /\ UNCHANGED dns
        /\ UNCHANGED <<ca, cache, made, answers, crashes>>

\* certificate.download_inline
Download(w) ==
    /\ pc[w] = "download"
    /\ \/ Returns(w, loc[w].id)
       \/ Fails(w) /\ UNCHANGED answers
    /\ UNCHANGED <<ca, dns, cache, made, crashes>>

\* prefetch() keeps what enroll() returned, from the cache or not, for another
\* ten hours, and answers with it and the key made for the request.
SetPrefetched(w) ==
    /\ pc[w] = "setPrefetched"
    /\ \/ /\ cache' = [cache EXCEPT ![loc[w].csr.names] = loc[w].id]
          /\ Answer(w, loc[w].id)
       \/ Fails(w) /\ UNCHANGED <<cache, answers>>
    /\ UNCHANGED <<ca, dns, made, crashes>>

-----------------------------------------------------------------------------
\* The CA issues a certificate it has validated the names of.
Issue(id) ==
    /\ ca[id] # None
    /\ ca[id].status = "pending_validation"
    /\ ca' = [ca EXCEPT ![id].status = "issued"]
    /\ UNCHANGED <<dns, cache, made, pc, loc, answers, crashes>>

\* Ten hours have passed.
Expire(names) ==
    /\ cache[names] # None
    /\ cache' = [cache EXCEPT ![names] = None]
    /\ UNCHANGED <<ca, dns, made, pc, loc, answers, crashes>>

Crash(w) ==
    /\ pc[w] # "idle"
    /\ crashes < MaxCrashes
    /\ crashes' = crashes + 1
    /\ Fails(w)
    /\ UNCHANGED <<ca, dns, cache, made, answers>>

\* What a process does next when what it has called answers.
Step(w) ==
    \/ GetPrefetched(w) \/ Create(w)
    \/ \E name \in Name : Register(w, name) \/ Cleanup(w, name)
    \/ VerifySucceeds(w) \/ VerifyFails(w)
    \/ Polled(w) \/ PollTimeout(w)
    \/ Download(w) \/ SetPrefetched(w)

Next ==
    \/ \E w \in Worker : \/ Step(w) \/ VerifyRaises(w) \/ Crash(w)
                         \/ \E csr \in ClientCsrs : Enroll(w, csr)
                         \/ \E csr \in PrefetchCsrs : Prefetch(w, csr)
    \/ \E id \in CertId : Issue(id)
    \/ \E names \in NameSets : Expire(names)

Spec == Init /\ [][Next]_vars

\* A process that is not killed goes on, and every call answers: the CA does not
\* answer "success" to a verification for ever, and the clock of a poll runs.
FairSpec == Spec /\ \A w \in Worker : WF_vars(Step(w))

-----------------------------------------------------------------------------
\* Every variable has its type.
ZeroSSLTypeOK ==
    /\ ca \in [CertId -> CACert \cup {None}]
    /\ dns \subseteq Record
    /\ cache \in [NameSets -> CertId \cup {None}]
    /\ made \subseteq PrefetchCsrs
    /\ pc \in [Worker -> Labels]
    /\ loc \in [Worker -> Loc]
    /\ answers \subseteq [csr : Csr, id : CertId]
    /\ crashes \in 0..MaxCrashes

\* A certificate that is handed out, over the cache or not, whatever timed out
\* before, has been issued by the CA, for exactly the names of the CSR; and if
\* it is not for that CSR, for one that a prefetch request made.
Delivered ==
    \A a \in answers :
        /\ ca[a.id].status = "issued"
        /\ ca[a.id].csr.names = a.csr.names
        /\ ca[a.id].csr \in {a.csr} \cup made

\* No CNAME record of a certificate is left once that is handed out: records
\* are left behind only by an enrollment that failed or was killed, or for one
\* under way.
NoRecordLeft == \A a \in answers, r \in dns : r.id # a.id

\* While the CA looks for the records of a certificate nobody removes one, but
\* the process that cleans up after the very same CSR.
RecordsKept ==
    [][\A w \in Worker :
          pc[w] \in {"register", "verify"} /\ pc'[w] = pc[w] =>
              \A r \in dns : r.id = loc[w].id /\ r \notin dns' =>
                  \E v \in Worker \ {w} :
                      pc[v] = "cleanup" /\ loc[v].csr = loc[w].csr]_vars

\* Whatever records another enrollment removes and however often the CA does
\* not find one, every enrollment ends.
EnrollmentEnds == \A w \in Worker : pc[w] # "idle" ~> pc[w] = "idle"

\* "Take the client's CSR and creates a new certificate" (README.md): what is
\* handed out has the key of the CSR.
CertFitsCsr == \A a \in answers : ca[a.id].csr.key = a.csr.key

-----------------------------------------------------------------------------
(* The inductive invariant behind the safety properties.                   *)

\* Where an enrollment has the certificate it has created to itself.
Enrolling == {"register", "verify", "poll", "cleanup", "download"}

\* The CA has issued certificate id for these names to a prefetch request, and
\* its records are gone.
Kept(id, names) ==
    /\ ca[id] # None
    /\ ca[id].status = "issued"
    /\ ca[id].csr \in made
    /\ ca[id].csr.names = names
    /\ \A r \in dns : r.id # id

\* What an enrollment knows of its certificate.
EnrollmentShape(w) ==
    /\ loc[w].trials >= 1
    /\ pc[w] # "idle" => /\ loc[w].csr \in Csr
                         /\ loc[w].prefetch => loc[w].csr \in made
    /\ pc[w] \in Enrolling => /\ loc[w].id \in CertId
                               /\ ca[loc[w].id] # None
                               /\ ca[loc[w].id].csr = loc[w].csr
    /\ pc[w] = "register" => loc[w].todo \subseteq loc[w].csr.names
    /\ pc[w] = "cleanup" /\ ~ loc[w].failed =>
          /\ ca[loc[w].id].status = "issued"
          /\ \A r \in dns : r.id = loc[w].id => r.name \in loc[w].todo
    /\ pc[w] = "download" =>
          /\ ca[loc[w].id].status = "issued"
          /\ \A r \in dns : r.id # loc[w].id
    /\ pc[w] = "setPrefetched" =>
          /\ loc[w].id \in CertId
          /\ loc[w].prefetch
          /\ Kept(loc[w].id, loc[w].csr.names)

\* Until it is downloaded, nobody else has the certificate of an enrollment.
OwnCertificate(w) ==
    pc[w] \in Enrolling =>
        /\ \A v \in Worker \ {w} :
              pc[v] \in Enrolling \cup {"setPrefetched"} => loc[v].id # loc[w].id
        /\ \A names \in NameSets : cache[names] # loc[w].id
        /\ \A a \in answers : a.id # loc[w].id

CacheShape ==
    \A names \in NameSets : cache[names] # None => Kept(cache[names], names)

\* A record is one that the CA has asked for.
RecordShape ==
    \A r \in dns : /\ ca[r.id] # None
                   /\ ca[r.id].csr = r.csr
                   /\ r.name \in r.csr.names

ZeroSSLInv ==
    /\ ZeroSSLTypeOK
    /\ \A w \in Worker : EnrollmentShape(w) /\ OwnCertificate(w)
    /\ CacheShape
    /\ RecordShape
    /\ \A a \in answers : ca[a.id] # None
    /\ Delivered
    /\ NoRecordLeft
=============================================================================
