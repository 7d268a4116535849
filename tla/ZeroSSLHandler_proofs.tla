----------------------- MODULE ZeroSSLHandler_proofs -----------------------
(***************************************************************************)
(* Proofs about ZeroSSLHandler, for every set of names, CSRs and processes, *)
(* every configuration of domains, and every number of certificates, trials *)
(* and kills.                                                              *)
(***************************************************************************)
EXTENDS ZeroSSLHandler, TLAPS

-----------------------------------------------------------------------------
(* Types.                                                                  *)

\* What an enrollment starts with, and what its steps make of that, is well typed.
LEMMA LocType ==
  /\ Idle \in Loc
  /\ \A csr \in Csr, b \in BOOLEAN : [Idle EXCEPT !.csr = csr, !.prefetch = b] \in Loc
  /\ \A csr \in Csr : [Idle EXCEPT !.csr = csr] \in Loc
  /\ \A l \in Loc, id \in CertId, list \in SUBSET Name, b \in BOOLEAN, n \in 0..Trials :
        /\ [l EXCEPT !.id = id] \in Loc
        /\ [l EXCEPT !.id = id, !.todo = list, !.bound = TRUE] \in Loc
        /\ \A name : [l EXCEPT !.todo = @ \ {name}] \in Loc
        /\ [l EXCEPT !.todo = list, !.failed = b] \in Loc
        /\ [l EXCEPT !.failed = b] \in Loc
        /\ [l EXCEPT !.trials = n] \in Loc
<1>1. Trials \in 0..Trials
  BY ZeroSSLAssumption
<1>2. Idle \in Loc
  BY <1>1 DEF Idle, Loc
<1>3. \A l \in Loc, csr \in Csr, b \in BOOLEAN : [l EXCEPT !.csr = csr, !.prefetch = b] \in Loc
  BY DEF Loc
<1>4. \A l \in Loc, csr \in Csr : [l EXCEPT !.csr = csr] \in Loc
  BY DEF Loc
<1>5. ASSUME NEW l \in Loc, NEW id \in CertId, NEW list \in SUBSET Name, NEW b \in BOOLEAN,
             NEW n \in 0..Trials
      PROVE  /\ [l EXCEPT !.id = id] \in Loc
             /\ [l EXCEPT !.id = id, !.todo = list, !.bound = TRUE] \in Loc
             /\ \A name : [l EXCEPT !.todo = @ \ {name}] \in Loc
             /\ [l EXCEPT !.todo = list, !.failed = b] \in Loc
             /\ [l EXCEPT !.failed = b] \in Loc
             /\ [l EXCEPT !.trials = n] \in Loc
  BY DEF Loc
<1> QED BY <1>2, <1>3, <1>4, <1>5

\* A step to a label of Labels keeps pc and loc well typed, and is one of w alone.
LEMMA GotoFacts ==
  ASSUME ZeroSSLTypeOK, NEW w \in Worker, NEW label \in Labels, NEW l \in Loc, Goto(w, label, l)
  PROVE  /\ pc' \in [Worker -> Labels] /\ loc' \in [Worker -> Loc]
         /\ pc'[w] = label /\ loc'[w] = l
         /\ \A v \in Worker \ {w} : pc'[v] = pc[v] /\ loc'[v] = loc[v]
BY DEF ZeroSSLTypeOK, Goto

\* Only w moves.
Moves(w) ==
    /\ pc' \in [Worker -> Labels] /\ loc' \in [Worker -> Loc]
    /\ \A v \in Worker \ {w} : pc'[v] = pc[v] /\ loc'[v] = loc[v]

-----------------------------------------------------------------------------
(* What a step of process w may change, and what then remains true.        *)

\* What the CA has created stays, and what it has issued stays issued.
CAGrows ==
    /\ \A id \in CertId : ca[id] # None =>
          /\ ca'[id] # None /\ ca'[id].csr = ca[id].csr
          /\ ca[id].status = "issued" => ca'[id].status = "issued"
    /\ made \subseteq made'

\* A new record is for the certificate w is registering.
DnsFlow(w) ==
    \A r \in dns' \ dns :
        /\ pc[w] = "register" /\ r.id = loc[w].id
        /\ r.csr = loc[w].csr /\ r.name \in loc[w].csr.names

\* A new answer is a certificate that was kept, or that w has downloaded.
AnswersFlow(w) ==
    \A a \in answers' \ answers :
        /\ a.csr = loc[w].csr /\ a.id \in CertId /\ ca[a.id] # None
        /\ ca[a.id].status = "issued" /\ ca[a.id].csr.names = a.csr.names
        /\ ca[a.id].csr \in {a.csr} \cup made
        /\ \A r \in dns : r.id # a.id
        /\ pc[w] # "register" /\ pc'[w] = "idle"
        /\ \A v \in Worker \ {w} : pc[v] \in Enrolling => loc[v].id # a.id

\* A new entry of the cache is what w has got.
CacheFlow(w) ==
    \A names \in NameSets :
        \/ cache'[names] = cache[names]
        \/ /\ pc[w] = "setPrefetched" /\ pc'[w] = "idle"
           /\ names = loc[w].csr.names /\ cache'[names] = loc[w].id

\* The certificate of w is the one it had, or a new one, or from the cache.
IdFlow(w) ==
    pc'[w] \in Enrolling \cup {"setPrefetched"} =>
        \/ /\ loc'[w].id = loc[w].id
           /\ pc[w] \in Enrolling \/ pc[w] = pc'[w]
        \/ pc[w] = "create" /\ ca[loc'[w].id] = None
        \/ pc'[w] = "setPrefetched" /\ \E names \in NameSets : cache[names] = loc'[w].id

\* Such a step leaves the invariant intact, if it does so for w.
LEMMA FrameStep ==
  ASSUME ZeroSSLInv, ZeroSSLTypeOK', NEW w \in Worker, Moves(w), CAGrows, DnsFlow(w),
         AnswersFlow(w), CacheFlow(w), IdFlow(w), EnrollmentShape(w)'
  PROVE  ZeroSSLInv'
<1>0. /\ ZeroSSLTypeOK /\ CacheShape /\ RecordShape /\ Delivered /\ NoRecordLeft
      /\ \A v \in Worker : EnrollmentShape(v) /\ OwnCertificate(v)
      /\ \A a \in answers : ca[a.id] # None
  BY DEF ZeroSSLInv
<1>type. /\ None \notin CertId /\ dns \subseteq Record
         /\ cache \in [NameSets -> CertId \cup {None}]
         /\ \A a \in answers : a.id \in CertId
         /\ \A r \in dns : r.id \in CertId
  BY <1>0, ZeroSSLAssumption DEF ZeroSSLTypeOK, Record
<1>kept. ASSUME NEW id \in CertId, NEW names, Kept(id, names),
                pc[w] = "register" => id # loc[w].id
         PROVE  Kept(id, names)'
  BY <1>kept DEF Kept, CAGrows, DnsFlow
<1>1. ASSUME NEW v \in Worker, v # w
      PROVE  EnrollmentShape(v)'
  <2>1. pc'[v] = pc[v] /\ loc'[v] = loc[v] /\ EnrollmentShape(v)
    BY <1>0, <1>1 DEF Moves
  <2>2. pc[v] \in Enrolling \cup {"setPrefetched"} =>
          /\ loc[v].id \in CertId
          /\ pc[w] = "register" => loc[v].id # loc[w].id
    BY <1>0, <1>1, <2>1 DEF EnrollmentShape, OwnCertificate, Enrolling
  <2>3. /\ loc[v].trials >= 1
        /\ pc[v] # "idle" => /\ loc[v].csr \in Csr
                             /\ loc[v].prefetch => loc[v].csr \in made'
        /\ pc[v] = "register" => loc[v].todo \subseteq loc[v].csr.names
    BY <2>1 DEF EnrollmentShape, CAGrows
  <2>4. pc[v] \in Enrolling => /\ loc[v].id \in CertId /\ ca'[loc[v].id] # None
                               /\ ca'[loc[v].id].csr = loc[v].csr
    BY <2>1, <2>2 DEF EnrollmentShape, CAGrows
  <2>5. pc[v] = "cleanup" /\ ~ loc[v].failed =>
          /\ ca'[loc[v].id].status = "issued"
          /\ \A r \in dns' : r.id = loc[v].id => r.name \in loc[v].todo
    BY <2>1, <2>2 DEF EnrollmentShape, CAGrows, DnsFlow, Enrolling
  <2>6. pc[v] = "download" =>
          /\ ca'[loc[v].id].status = "issued"
          /\ \A r \in dns' : r.id # loc[v].id
    BY <2>1, <2>2 DEF EnrollmentShape, CAGrows, DnsFlow, Enrolling
  <2>7. pc[v] = "setPrefetched" =>
          loc[v].id \in CertId /\ loc[v].prefetch /\ Kept(loc[v].id, loc[v].csr.names)'
    <3>1. pc[v] = "setPrefetched" =>
            loc[v].id \in CertId /\ loc[v].prefetch /\ Kept(loc[v].id, loc[v].csr.names)
      BY <2>1 DEF EnrollmentShape
    <3>2. ASSUME pc[v] = "setPrefetched"
          PROVE  Kept(loc[v].id, loc[v].csr.names)'
      BY <2>1, <2>2, <3>1, <3>2 DEF Kept, CAGrows, DnsFlow
    <3> QED BY <3>1, <3>2
  <2> QED BY <2>1, <2>3, <2>4, <2>5, <2>6, <2>7 DEF EnrollmentShape
<1>2. \A v \in Worker : EnrollmentShape(v)'
  BY <1>1
<1>held. ASSUME NEW v \in Worker, pc[v] \in Enrolling
         PROVE  loc[v].id \in CertId /\ ca[loc[v].id] # None
  BY <1>0, <1>held DEF EnrollmentShape
<1>cached. ASSUME NEW names \in NameSets, cache[names] # None
           PROVE  cache[names] \in CertId /\ ca[cache[names]] # None
  BY <1>0, <1>type, <1>cached DEF CacheShape, Kept
<1>3. ASSUME NEW v \in Worker, pc'[v] \in Enrolling, v # w
      PROVE  OwnCertificate(v)'
  <2>1. pc'[v] = pc[v] /\ loc'[v] = loc[v] /\ OwnCertificate(v) /\ pc[v] \in Enrolling
    BY <1>0, <1>3 DEF Moves
  <2>2. pc'[w] \in Enrolling \cup {"setPrefetched"} => loc'[w].id # loc[v].id
    <3>1. pc[w] \in Enrolling \cup {"setPrefetched"} => loc[w].id # loc[v].id
      BY <1>3, <2>1 DEF OwnCertificate
    <3>2. ca[loc[v].id] # None
      BY <1>held, <2>1
    <3>3. \A names \in NameSets : cache[names] # loc[v].id
      BY <2>1 DEF OwnCertificate
    <3> QED BY <3>1, <3>2, <3>3 DEF IdFlow
  <2>3. \A u \in Worker \ {v} : pc'[u] \in Enrolling \cup {"setPrefetched"} => loc'[u].id # loc'[v].id
    <3>1. ASSUME NEW u \in Worker, u # v, u # w, pc'[u] \in Enrolling \cup {"setPrefetched"}
          PROVE  loc'[u].id # loc'[v].id
      <4>1. pc'[u] = pc[u] /\ loc'[u] = loc[u]
        BY <3>1 DEF Moves
      <4> QED BY <2>1, <3>1, <4>1 DEF OwnCertificate
    <3> QED BY <2>1, <2>2, <3>1
  <2>4. \A names \in NameSets : cache'[names] # loc[v].id
    BY <1>3, <2>1 DEF OwnCertificate, CacheFlow
  <2>5. \A a \in answers' : a.id # loc[v].id
    BY <1>3, <2>1 DEF OwnCertificate, AnswersFlow
  <2> QED BY <2>1, <2>3, <2>4, <2>5 DEF OwnCertificate
<1>4. ASSUME pc'[w] \in Enrolling
      PROVE  OwnCertificate(w)'
  <2>0. pc'[w] \notin {"setPrefetched", "idle"}
    BY <1>4 DEF Enrolling
  <2>1. /\ \A names \in NameSets : cache'[names] = cache[names]
        /\ answers' \subseteq answers
    BY <2>0 DEF CacheFlow, AnswersFlow
  <2>2. \A v \in Worker \ {w} : pc'[v] = pc[v] /\ loc'[v] = loc[v]
    BY DEF Moves
  <2>3. CASE loc'[w].id = loc[w].id /\ pc[w] \in Enrolling
    BY <1>0, <2>1, <2>2, <2>3 DEF OwnCertificate
  <2>4. CASE ca[loc'[w].id] = None /\ loc'[w].id \in CertId
    <3>1. \A v \in Worker \ {w} : pc[v] \in Enrolling \cup {"setPrefetched"} => ca[loc[v].id] # None
      BY <1>0 DEF EnrollmentShape, Kept
    <3>2. \A names \in NameSets : cache[names] # loc'[w].id
      BY <1>type, <1>cached, <2>4
    <3> QED BY <1>0, <2>1, <2>2, <2>4, <3>1, <3>2 DEF OwnCertificate
  <2>5. loc'[w].id \in CertId
    BY <1>4 DEF EnrollmentShape
  <2> QED BY <1>4, <2>0, <2>3, <2>4, <2>5 DEF IdFlow
<1>5. \A v \in Worker : OwnCertificate(v)'
  BY <1>3, <1>4 DEF OwnCertificate
<1>6. CacheShape'
  <2>1. ASSUME NEW names \in NameSets, cache'[names] # None
        PROVE  Kept(cache[names], names)'
    <3>1. CASE cache'[names] = cache[names]
      <4>1. Kept(cache[names], names) /\ cache[names] \in CertId
        BY <1>0, <1>type, <2>1, <3>1 DEF CacheShape
      <4>2. pc[w] = "register" => cache[names] # loc[w].id
        BY <1>0 DEF OwnCertificate, Enrolling
      <4> QED BY <3>1, <4>1, <4>2 DEF Kept, CAGrows, DnsFlow
    <3>2. CASE pc[w] = "setPrefetched" /\ names = loc[w].csr.names /\ cache'[names] = loc[w].id
      <4>1. Kept(loc[w].id, names) /\ loc[w].id \in CertId
        BY <1>0, <3>2 DEF EnrollmentShape
      <4> QED BY <3>2, <4>1 DEF Kept, CAGrows, DnsFlow
    <3> QED BY <3>1, <3>2 DEF CacheFlow
  <2> QED BY <2>1 DEF CacheShape
<1>7. RecordShape'
  <2>1. ASSUME NEW r \in dns'
        PROVE  ca'[r.id] # None /\ ca'[r.id].csr = r.csr /\ r.name \in r.csr.names
    <3>1. CASE r \in dns
      BY <1>0, <1>type, <3>1 DEF RecordShape, CAGrows
    <3>2. CASE r \notin dns
      <4>1. /\ pc[w] = "register" /\ r.id = loc[w].id
            /\ r.csr = loc[w].csr /\ r.name \in loc[w].csr.names
        BY <2>1, <3>2 DEF DnsFlow
      <4> QED BY <1>0, <4>1 DEF EnrollmentShape, Enrolling, CAGrows
    <3> QED BY <3>1, <3>2
  <2> QED BY <2>1 DEF RecordShape
<1>8. ASSUME NEW a \in answers'
      PROVE  /\ ca'[a.id] # None /\ ca'[a.id].status = "issued" /\ ca'[a.id].csr.names = a.csr.names
             /\ ca'[a.id].csr \in {a.csr} \cup made'
             /\ \A r \in dns' : r.id # a.id
  <2>1. CASE a \in answers
    <3>1. pc[w] = "register" => a.id # loc[w].id
      BY <1>0, <2>1 DEF OwnCertificate, Enrolling
    <3>2. \A r \in dns' : r.id # a.id
      BY <1>0, <2>1, <3>1 DEF DnsFlow, NoRecordLeft
    <3> QED BY <1>0, <1>type, <2>1, <3>2 DEF CAGrows, Delivered
  <2>2. CASE a \notin answers
    <3>1. /\ a.id \in CertId /\ ca[a.id] # None
          /\ ca[a.id].status = "issued" /\ ca[a.id].csr.names = a.csr.names
          /\ ca[a.id].csr \in {a.csr} \cup made
          /\ \A r \in dns : r.id # a.id
          /\ pc[w] # "register"
      BY <1>8, <2>2 DEF AnswersFlow
    <3>2. \A r \in dns' : r.id # a.id
      BY <3>1 DEF DnsFlow
    <3> QED BY <3>1, <3>2 DEF CAGrows
  <2> QED BY <2>1, <2>2
<1> QED BY <1>2, <1>5, <1>6, <1>7, <1>8 DEF ZeroSSLInv, Delivered, NoRecordLeft

\* All that FrameStep asks of a step of w.
Flows(w) ==
    /\ ZeroSSLTypeOK' /\ Moves(w)
    /\ CAGrows /\ DnsFlow(w) /\ AnswersFlow(w) /\ CacheFlow(w) /\ IdFlow(w)
    /\ EnrollmentShape(w)'

\* What an enrollment that has ended leaves behind.
LEMMA EndedShape ==
  ASSUME ZeroSSLTypeOK, NEW w \in Worker, Goto(w, "idle", Idle)
  PROVE  Moves(w) /\ pc'[w] = "idle" /\ IdFlow(w) /\ EnrollmentShape(w)'
<1>1. Idle \in Loc /\ "idle" \in Labels
  BY LocType DEF Labels
<1>2. Moves(w) /\ pc'[w] = "idle" /\ loc'[w] = Idle
  BY <1>1, GotoFacts DEF Moves
<1>3. Idle.trials >= 1
  BY ZeroSSLAssumption DEF Idle
<1> QED BY <1>2, <1>3 DEF IdFlow, EnrollmentShape, Enrolling

\* A step that changes nothing but where a process is.
LEMMA QuietFlows ==
  ASSUME ZeroSSLTypeOK, NEW w \in Worker, Moves(w), IdFlow(w), EnrollmentShape(w)',
         UNCHANGED <<ca, dns, cache, made, answers>>, crashes' \in 0..MaxCrashes
  PROVE  Flows(w)
BY DEF Flows, ZeroSSLTypeOK, Moves, CAGrows, DnsFlow, AnswersFlow, CacheFlow

\* The requests begin; the verification, the poll and a kill go on or end.
LEMMA QuietSteps ==
  ASSUME ZeroSSLInv, NEW w \in Worker,
         \/ \E csr \in ClientCsrs : Enroll(w, csr)
         \/ VerifyFails(w) \/ VerifyRaises(w) \/ Polled(w) \/ PollTimeout(w) \/ Crash(w)
  PROVE  Flows(w)
<1>0. /\ ZeroSSLTypeOK /\ loc[w] \in Loc /\ EnrollmentShape(w) /\ RecordShape
      /\ crashes \in 0..MaxCrashes /\ MaxCrashes \in Nat
  BY ZeroSSLAssumption DEF ZeroSSLInv, ZeroSSLTypeOK
<1>1. ASSUME NEW csr \in ClientCsrs, Enroll(w, csr)
      PROVE  Flows(w)
  <2> DEFINE l == [Idle EXCEPT !.csr = csr]
  <2>1. l \in Loc /\ csr \in Csr /\ "getPrefetched" \in Labels
    BY LocType DEF Csr, Labels
  <2>2. l.trials >= 1 /\ l.csr = csr /\ l.prefetch = FALSE
    BY ZeroSSLAssumption DEF Idle
  <2> HIDE DEF l
  <2>3. Goto(w, "getPrefetched", l)
    BY <1>1 DEF Enroll, l
  <2>4. Moves(w) /\ pc'[w] = "getPrefetched" /\ loc'[w] = l
    BY <1>0, <2>1, <2>3, GotoFacts DEF Moves
  <2>5. IdFlow(w) /\ EnrollmentShape(w)'
    BY <2>1, <2>2, <2>4 DEF IdFlow, EnrollmentShape, Enrolling
  <2> QED BY <1>0, <1>1, <2>4, <2>5, QuietFlows DEF Enroll
<1>2. ASSUME VerifyFails(w)
      PROVE  Flows(w)
  <2>1. CASE Fails(w)
    BY <1>0, <1>2, <2>1, EndedShape, QuietFlows DEF VerifyFails, Fails
  <2>2. CASE loc[w].trials # 1 /\ Goto(w, "verify", [loc[w] EXCEPT !.trials = @ - 1])
    <3> DEFINE l == [loc[w] EXCEPT !.trials = @ - 1]
    <3>1. loc[w].trials - 1 \in 0..Trials /\ loc[w].trials - 1 >= 1
      BY <1>0, <2>2, ZeroSSLAssumption DEF EnrollmentShape, Loc
    <3>2. /\ l \in Loc /\ l.trials >= 1 /\ l.csr = loc[w].csr /\ l.prefetch = loc[w].prefetch
          /\ l.id = loc[w].id
      BY <1>0, <3>1 DEF Loc
    <3> HIDE DEF l
    <3>3. Goto(w, "verify", l)
      BY <2>2 DEF l
    <3>4. Moves(w) /\ pc'[w] = "verify" /\ loc'[w] = l
      BY <1>0, <3>2, <3>3, GotoFacts DEF Moves, Labels
    <3>5. pc[w] = "verify" /\ UNCHANGED <<ca, dns, cache, made, answers, crashes>>
      BY <1>2 DEF VerifyFails
    <3>6. IdFlow(w) /\ EnrollmentShape(w)'
      BY <1>0, <3>2, <3>4, <3>5 DEF IdFlow, EnrollmentShape, Enrolling
    <3> QED BY <1>0, <3>4, <3>5, <3>6, QuietFlows
  <2> QED BY <1>2, <2>1, <2>2 DEF VerifyFails
<1>3. ASSUME VerifyRaises(w)
      PROVE  Flows(w)
  BY <1>0, <1>3, EndedShape, QuietFlows DEF VerifyRaises, Fails
<1>4. ASSUME Crash(w)
      PROVE  Flows(w)
  <2>1. crashes' \in 0..MaxCrashes
    BY <1>0, <1>4 DEF Crash
  <2> QED BY <1>0, <1>4, <2>1, EndedShape, QuietFlows DEF Crash, Fails
<1>5. ASSUME NEW failed \in BOOLEAN, pc[w] = "poll", ToCleanup(w, failed),
             ~ failed => ca[loc[w].id].status = "issued",
             UNCHANGED <<ca, dns, cache, made, answers, crashes>>
      PROVE  Flows(w)
  <2>1. CASE Fails(w)
    BY <1>0, <1>5, <2>1, EndedShape, QuietFlows DEF Fails
  <2>2. CASE Goto(w, "cleanup", [loc[w] EXCEPT !.todo = loc[w].csr.names, !.failed = failed])
    <3> DEFINE l == [loc[w] EXCEPT !.todo = loc[w].csr.names, !.failed = failed]
    <3>1. loc[w].csr \in Csr /\ loc[w].csr.names \in SUBSET Name
      BY <1>0, <1>5, ZeroSSLAssumption DEF EnrollmentShape
    <3>2. /\ l \in Loc /\ l.trials = loc[w].trials /\ l.csr = loc[w].csr
          /\ l.prefetch = loc[w].prefetch /\ l.id = loc[w].id
          /\ l.todo = loc[w].csr.names /\ l.failed = failed
      BY <1>0, <1>5, <3>1 DEF Loc
    <3> HIDE DEF l
    <3>3. Goto(w, "cleanup", l)
      BY <2>2 DEF l
    <3>4. Moves(w) /\ pc'[w] = "cleanup" /\ loc'[w] = l
      BY <1>0, <3>2, <3>3, GotoFacts DEF Moves, Labels
    <3>5. \A r \in dns : r.id = loc[w].id => r.name \in loc[w].csr.names
      BY <1>0, <1>5 DEF RecordShape, EnrollmentShape, Enrolling
    <3>6. IdFlow(w) /\ EnrollmentShape(w)'
      BY <1>0, <1>5, <3>2, <3>4, <3>5 DEF IdFlow, EnrollmentShape, Enrolling
    <3> QED BY <1>0, <1>5, <3>4, <3>6, QuietFlows
  <2> QED BY <1>5, <2>1, <2>2 DEF ToCleanup
<1>6. ASSUME Polled(w) \/ PollTimeout(w)
      PROVE  Flows(w)
  BY <1>5, <1>6 DEF Polled, PollTimeout
<1> QED BY <1>1, <1>2, <1>3, <1>4, <1>6

\* A prefetch request makes a CSR of its own.
LEMMA PrefetchFlows ==
  ASSUME ZeroSSLInv, NEW w \in Worker, NEW csr \in PrefetchCsrs, Prefetch(w, csr)
  PROVE  Flows(w)
<1> DEFINE l == [Idle EXCEPT !.csr = csr, !.prefetch = TRUE]
<1>0. ZeroSSLTypeOK
  BY DEF ZeroSSLInv
<1>1. l \in Loc /\ csr \in Csr /\ "getPrefetched" \in Labels
  BY LocType DEF Csr, Labels
<1>2. l.trials >= 1 /\ l.csr = csr
  BY ZeroSSLAssumption DEF Idle
<1> HIDE DEF l
<1>3. Goto(w, "getPrefetched", l)
  BY DEF Prefetch, l
<1>4. Moves(w) /\ pc'[w] = "getPrefetched" /\ loc'[w] = l
  BY <1>0, <1>1, <1>3, GotoFacts DEF Moves
<1>5. made' = made \cup {csr} /\ UNCHANGED <<ca, dns, cache, answers, crashes>>
  BY DEF Prefetch
<1>6. IdFlow(w) /\ EnrollmentShape(w)'
  BY <1>1, <1>2, <1>4, <1>5 DEF IdFlow, EnrollmentShape, Enrolling
<1> QED
  BY <1>0, <1>4, <1>5, <1>6
     DEF Flows, ZeroSSLTypeOK, Moves, CAGrows, DnsFlow, AnswersFlow, CacheFlow

\* enroll() returns certificate id, out of the cache or downloaded: it is issued
\* for the names of the request, its records are gone and nobody else uses it.
LEMMA ReturnsFlows ==
  ASSUME ZeroSSLInv, NEW w \in Worker, NEW id \in CertId, Returns(w, id),
         UNCHANGED <<ca, dns, cache, made, crashes>>,
         pc[w] \in {"getPrefetched", "download"},
         ca[id] # None, ca[id].status = "issued", ca[id].csr.names = loc[w].csr.names,
         ca[id].csr \in {loc[w].csr} \cup made,
         \A r \in dns : r.id # id,
         \A v \in Worker \ {w} : pc[v] \in Enrolling => loc[v].id # id,
         \/ pc[w] = "download" /\ loc[w].id = id
         \/ \E names \in NameSets : cache[names] = id
  PROVE  Flows(w)
<1>0. /\ ZeroSSLTypeOK /\ loc[w] \in Loc /\ EnrollmentShape(w)
      /\ loc[w].csr \in Csr /\ answers \subseteq [csr : Csr, id : CertId]
  BY DEF ZeroSSLInv, ZeroSSLTypeOK, EnrollmentShape
<1>1. CASE loc[w].prefetch /\ Goto(w, "setPrefetched", [loc[w] EXCEPT !.id = id]) /\ UNCHANGED answers
  <2> DEFINE l == [loc[w] EXCEPT !.id = id]
  <2>1. /\ l \in Loc /\ l.trials = loc[w].trials /\ l.csr = loc[w].csr
        /\ l.prefetch = loc[w].prefetch /\ l.id = id
    BY <1>0 DEF Loc
  <2> HIDE DEF l
  <2>2. Goto(w, "setPrefetched", l)
    BY <1>1 DEF l
  <2>3. Moves(w) /\ pc'[w] = "setPrefetched" /\ loc'[w] = l
    BY <1>0, <2>1, <2>2, GotoFacts DEF Moves, Labels
  <2>4. ca[id].csr \in made
    BY <1>0, <1>1 DEF EnrollmentShape
  <2>5. IdFlow(w)
    BY <2>1, <2>3 DEF IdFlow, Enrolling
  <2>6. EnrollmentShape(w)'
    <3>1. Kept(id, loc[w].csr.names) /\ UNCHANGED <<ca, dns, made>>
      BY <2>4 DEF Kept
    <3> QED BY <1>0, <1>1, <2>1, <2>3, <3>1 DEF EnrollmentShape, Enrolling, Kept
  <2>7. crashes' \in 0..MaxCrashes
    BY <1>0 DEF ZeroSSLTypeOK
  <2> QED BY <1>0, <1>1, <2>3, <2>5, <2>6, <2>7, QuietFlows
<1>2. CASE Answer(w, id)
  <2>1. Goto(w, "idle", Idle) /\ answers' = answers \cup {[csr |-> loc[w].csr, id |-> id]}
    BY <1>2 DEF Answer
  <2>2. Moves(w) /\ pc'[w] = "idle" /\ IdFlow(w) /\ EnrollmentShape(w)'
    BY <1>0, <2>1, EndedShape
  <2>3. ZeroSSLTypeOK'
    BY <1>0, <2>1, <2>2 DEF ZeroSSLTypeOK, Moves
  <2>4. AnswersFlow(w)
    BY <2>1, <2>2 DEF AnswersFlow
  <2> QED BY <2>2, <2>3, <2>4 DEF Flows, CAGrows, DnsFlow, CacheFlow
<1> QED BY <1>1, <1>2 DEF Returns

\* What the cache has for a set of names has been issued for them, to a prefetch
\* request that is over.
LEMMA GetPrefetchedFlows ==
  ASSUME ZeroSSLInv, NEW w \in Worker, GetPrefetched(w)
  PROVE  Flows(w)
<1>0. /\ ZeroSSLTypeOK /\ loc[w] \in Loc /\ EnrollmentShape(w) /\ CacheShape
      /\ pc[w] = "getPrefetched" /\ UNCHANGED <<ca, dns, cache, made, crashes>>
      /\ loc[w].csr \in Csr /\ loc[w].csr.names \in NameSets
      /\ crashes' \in 0..MaxCrashes
  BY DEF ZeroSSLInv, ZeroSSLTypeOK, GetPrefetched, EnrollmentShape, NameSets
<1>1. ASSUME NEW id \in prefetched(loc[w].csr.names), Returns(w, id)
      PROVE  Flows(w)
  <2>1. id = cache[loc[w].csr.names] /\ id # None /\ id \in CertId
    BY <1>0, <1>1 DEF prefetched, ZeroSSLTypeOK
  <2>2. Kept(id, loc[w].csr.names)
    BY <1>0, <2>1 DEF CacheShape
  <2>3. \A v \in Worker \ {w} : pc[v] \in Enrolling => loc[v].id # id
    BY <1>0, <2>1 DEF ZeroSSLInv, OwnCertificate
  <2> QED BY <1>0, <1>1, <2>1, <2>2, <2>3, ReturnsFlows DEF Kept
<1>2. ASSUME Goto(w, "create", loc[w]), UNCHANGED answers
      PROVE  Flows(w)
  <2>1. Moves(w) /\ pc'[w] = "create" /\ loc'[w] = loc[w]
    BY <1>0, <1>2, GotoFacts DEF Moves, Labels
  <2>2. IdFlow(w) /\ EnrollmentShape(w)'
    BY <1>0, <2>1 DEF IdFlow, EnrollmentShape, Enrolling
  <2> QED BY <1>0, <1>2, <2>1, <2>2, QuietFlows
<1>3. ASSUME Fails(w), UNCHANGED answers
      PROVE  Flows(w)
  BY <1>0, <1>3, EndedShape, QuietFlows DEF Fails
<1> QED BY <1>1, <1>2, <1>3 DEF GetPrefetched

\* A download is of the certificate of the enrollment, whose records are gone.
LEMMA DownloadFlows ==
  ASSUME ZeroSSLInv, NEW w \in Worker, Download(w)
  PROVE  Flows(w)
<1>0. /\ ZeroSSLTypeOK /\ EnrollmentShape(w) /\ OwnCertificate(w)
      /\ pc[w] = "download" /\ UNCHANGED <<ca, dns, cache, made, crashes>>
      /\ crashes' \in 0..MaxCrashes
  BY DEF ZeroSSLInv, ZeroSSLTypeOK, Download
<1>1. CASE Returns(w, loc[w].id)
  <2>1. /\ loc[w].id \in CertId /\ ca[loc[w].id] # None /\ ca[loc[w].id].csr = loc[w].csr
        /\ ca[loc[w].id].status = "issued" /\ \A r \in dns : r.id # loc[w].id
    BY <1>0 DEF EnrollmentShape, Enrolling
  <2>2. \A v \in Worker \ {w} : pc[v] \in Enrolling => loc[v].id # loc[w].id
    BY <1>0 DEF OwnCertificate, Enrolling
  <2> QED BY <1>0, <1>1, <2>1, <2>2, ReturnsFlows
<1>2. CASE Fails(w) /\ UNCHANGED answers
  BY <1>0, <1>2, EndedShape, QuietFlows DEF Fails
<1> QED BY <1>1, <1>2 DEF Download

\* What prefetch() keeps is what enroll() has returned to it.
LEMMA SetPrefetchedFlows ==
  ASSUME ZeroSSLInv, NEW w \in Worker, SetPrefetched(w)
  PROVE  Flows(w)
<1>0. /\ ZeroSSLTypeOK /\ EnrollmentShape(w) /\ pc[w] = "setPrefetched"
      /\ UNCHANGED <<ca, dns, made, crashes>> /\ crashes' \in 0..MaxCrashes
      /\ loc[w].csr \in Csr /\ loc[w].csr.names \in NameSets
      /\ loc[w].id \in CertId /\ Kept(loc[w].id, loc[w].csr.names)
  BY DEF ZeroSSLInv, ZeroSSLTypeOK, SetPrefetched, EnrollmentShape, NameSets
<1>1. CASE /\ cache' = [cache EXCEPT ![loc[w].csr.names] = loc[w].id]
           /\ Answer(w, loc[w].id)
  <2>1. Goto(w, "idle", Idle) /\ answers' = answers \cup {[csr |-> loc[w].csr, id |-> loc[w].id]}
    BY <1>1 DEF Answer
  <2>2. Moves(w) /\ pc'[w] = "idle" /\ IdFlow(w) /\ EnrollmentShape(w)'
    BY <1>0, <2>1, EndedShape
  <2>3. ZeroSSLTypeOK'
    BY <1>0, <1>1, <2>1, <2>2 DEF ZeroSSLTypeOK, Moves
  <2>4. \A v \in Worker \ {w} : pc[v] \in Enrolling => loc[v].id # loc[w].id
    BY <1>0 DEF ZeroSSLInv, OwnCertificate
  <2>5. AnswersFlow(w)
    BY <1>0, <2>1, <2>2, <2>4 DEF AnswersFlow, Kept
  <2>6. CacheFlow(w)
    BY <1>0, <1>1, <2>2 DEF CacheFlow, ZeroSSLTypeOK
  <2> QED BY <1>0, <2>2, <2>3, <2>5, <2>6 DEF Flows, CAGrows, DnsFlow
<1>2. CASE Fails(w) /\ UNCHANGED <<cache, answers>>
  BY <1>0, <1>2, EndedShape, QuietFlows DEF Fails
<1> QED BY <1>1, <1>2 DEF SetPrefetched

\* A created certificate is one nobody knows of yet; its records are to be made
\* for every name of the CSR, if it is a draft.
LEMMA CreateFlows ==
  ASSUME ZeroSSLInv, NEW w \in Worker, Create(w)
  PROVE  Flows(w)
<1>0. /\ ZeroSSLTypeOK /\ loc[w] \in Loc /\ EnrollmentShape(w) /\ pc[w] = "create"
      /\ UNCHANGED <<dns, cache, made, answers, crashes>> /\ crashes' \in 0..MaxCrashes
      /\ loc[w].csr \in Csr /\ loc[w].csr.names \in SUBSET Name
      /\ ca \in [CertId -> CACert \cup {None}]
  BY ZeroSSLAssumption DEF ZeroSSLInv, ZeroSSLTypeOK, Create, EnrollmentShape
<1>1. ASSUME NEW id \in CertId, NEW status \in CertificateStatus, NEW label \in Labels,
             NEW l \in Loc, ca[id] = None,
             ca' = [ca EXCEPT ![id] = [csr |-> loc[w].csr, status |-> status]],
             Goto(w, label, l), label \in {"register", "poll"},
             l.trials = loc[w].trials, l.csr = loc[w].csr, l.prefetch = loc[w].prefetch,
             l.id = id, label = "register" => l.todo = loc[w].csr.names
      PROVE  Flows(w)
  <2>1. Moves(w) /\ pc'[w] = label /\ loc'[w] = l
    BY <1>0, <1>1, GotoFacts DEF Moves
  <2>2. [csr |-> loc[w].csr, status |-> status] \in CACert
    BY <1>0 DEF CACert
  <2>3. /\ ca' \in [CertId -> CACert \cup {None}]
        /\ \A i \in CertId : i # id => ca'[i] = ca[i]
        /\ ca'[id] = [csr |-> loc[w].csr, status |-> status] /\ ca'[id] # None
    BY <1>0, <1>1, <2>2, CACertAssumption
  <2>4. CAGrows
    BY <1>0, <1>1, <2>3 DEF CAGrows
  <2>5. IdFlow(w)
    BY <1>0, <1>1, <2>1 DEF IdFlow
  <2>6. EnrollmentShape(w)'
    BY <1>0, <1>1, <2>1, <2>3 DEF EnrollmentShape, Enrolling
  <2>7. ZeroSSLTypeOK'
    BY <1>0, <2>1, <2>3 DEF ZeroSSLTypeOK, Moves
  <2> QED BY <1>0, <2>1, <2>4, <2>5, <2>6, <2>7
          DEF Flows, DnsFlow, AnswersFlow, CacheFlow
<1>2. ASSUME NEW id \in CertId, NEW status \in CertificateStatus, ca[id] = None,
             ca' = [ca EXCEPT ![id] = [csr |-> loc[w].csr, status |-> status]],
             Goto(w, "register", [loc[w] EXCEPT
                        !.id = id, !.todo = loc[w].csr.names, !.bound = TRUE])
      PROVE  Flows(w)
  <2> DEFINE l == [loc[w] EXCEPT !.id = id, !.todo = loc[w].csr.names, !.bound = TRUE]
  <2>1. /\ l \in Loc /\ l.trials = loc[w].trials /\ l.csr = loc[w].csr
        /\ l.prefetch = loc[w].prefetch /\ l.id = id /\ l.todo = loc[w].csr.names
    BY <1>0 DEF Loc
  <2> HIDE DEF l
  <2>2. Goto(w, "register", l)
    BY <1>2 DEF l
  <2>3. "register" \in Labels
    BY DEF Labels
  <2> QED BY <1>1, <1>2, <2>1, <2>2, <2>3
<1>3. ASSUME NEW id \in CertId, NEW status \in CertificateStatus, ca[id] = None,
             ca' = [ca EXCEPT ![id] = [csr |-> loc[w].csr, status |-> status]],
             Goto(w, "poll", [loc[w] EXCEPT !.id = id])
      PROVE  Flows(w)
  <2> DEFINE l == [loc[w] EXCEPT !.id = id]
  <2>1. /\ l \in Loc /\ l.trials = loc[w].trials /\ l.csr = loc[w].csr
        /\ l.prefetch = loc[w].prefetch /\ l.id = id
    BY <1>0 DEF Loc
  <2> HIDE DEF l
  <2>2. Goto(w, "poll", l)
    BY <1>3 DEF l
  <2>3. "poll" \in Labels
    BY DEF Labels
  <2> QED BY <1>1, <1>3, <2>1, <2>2, <2>3
<1>4. CASE Fails(w) /\ UNCHANGED ca
  BY <1>0, <1>4, EndedShape, QuietFlows DEF Fails
<1> QED BY <1>2, <1>3, <1>4 DEF Create

\* A record is made for a name the CA has asked for, and the next one, the
\* verification or the end follows.
LEMMA RegisterFlows ==
  ASSUME ZeroSSLInv, NEW w \in Worker, NEW name \in Name, Register(w, name)
  PROVE  Flows(w)
<1> DEFINE l == [loc[w] EXCEPT !.todo = @ \ {name}]
           lf(failed) == [l EXCEPT !.failed = failed]
           record == [csr |-> loc[w].csr, name |-> name, id |-> loc[w].id]
<1>0. /\ ZeroSSLTypeOK /\ loc[w] \in Loc /\ EnrollmentShape(w) /\ pc[w] = "register"
      /\ name \in loc[w].todo
      /\ UNCHANGED <<ca, cache, made, answers, crashes>>
      /\ loc[w].csr \in Csr /\ loc[w].id \in CertId /\ dns \subseteq Record
      /\ loc[w].todo \subseteq loc[w].csr.names /\ ca[loc[w].id] # None
      /\ ca[loc[w].id].csr = loc[w].csr
  BY DEF ZeroSSLInv, ZeroSSLTypeOK, Register, EnrollmentShape, Enrolling
<1>1. /\ l \in Loc /\ l.trials = loc[w].trials /\ l.csr = loc[w].csr
      /\ l.prefetch = loc[w].prefetch /\ l.id = loc[w].id
      /\ l.todo = loc[w].todo \ {name} /\ l.failed \in BOOLEAN
  BY <1>0 DEF Loc
<1>2. ASSUME NEW failed \in BOOLEAN
      PROVE  /\ lf(failed) \in Loc /\ lf(failed).trials = loc[w].trials
             /\ lf(failed).csr = loc[w].csr /\ lf(failed).prefetch = loc[w].prefetch
             /\ lf(failed).id = loc[w].id /\ lf(failed).todo = loc[w].todo \ {name}
  BY <1>0, <1>1 DEF Loc
<1>3. dns' = dns \/ dns' = dns \cup {record}
  BY DEF Register
<1>4. \/ Goto(w, "register", lf(l.failed)) \/ Goto(w, "register", lf(TRUE))
      \/ Fails(w) \/ Goto(w, "verify", l)
  BY DEF Register
<1> HIDE DEF l, lf
<1>5. /\ Moves(w) /\ IdFlow(w) /\ EnrollmentShape(w)'
  <2>1. ASSUME NEW k \in Loc, NEW label \in {"register", "verify"}, Goto(w, label, k),
               k.trials = loc[w].trials, k.csr = loc[w].csr, k.prefetch = loc[w].prefetch,
               k.id = loc[w].id, k.todo = loc[w].todo \ {name}
        PROVE  Moves(w) /\ IdFlow(w) /\ EnrollmentShape(w)'
    <3>1. Moves(w) /\ pc'[w] = label /\ loc'[w] = k
      BY <1>0, <2>1, GotoFacts DEF Moves, Labels
    <3> QED BY <1>0, <2>1, <3>1 DEF IdFlow, EnrollmentShape, Enrolling
  <2>2. CASE Fails(w)
    BY <1>0, <2>2, EndedShape DEF Fails
  <2> QED BY <1>1, <1>2, <1>4, <2>1, <2>2
<1>6. DnsFlow(w)
  BY <1>0, <1>3 DEF DnsFlow
<1>7. dns' \subseteq Record
  <2>1. name \in Name /\ record \in Record
    BY <1>0 DEF Record
  <2> QED BY <1>0, <1>3, <2>1
<1>8. ZeroSSLTypeOK'
  BY <1>0, <1>5, <1>7 DEF ZeroSSLTypeOK, Moves
<1> QED BY <1>0, <1>5, <1>6, <1>8 DEF Flows, CAGrows, AnswersFlow, CacheFlow

\* The CA has found the records: the certificate is no draft any more.
LEMMA VerifySucceedsFlows ==
  ASSUME ZeroSSLInv, NEW w \in Worker, VerifySucceeds(w)
  PROVE  Flows(w)
<1> DEFINE id == loc[w].id
           status == IF ca[id].status = "draft" THEN "pending_validation" ELSE ca[id].status
<1>0. /\ ZeroSSLTypeOK /\ loc[w] \in Loc /\ EnrollmentShape(w) /\ pc[w] = "verify"
      /\ UNCHANGED <<dns, cache, made, answers, crashes>>
      /\ ca \in [CertId -> CACert \cup {None}]
      /\ id \in CertId /\ ca[id] # None /\ ca[id].csr = loc[w].csr
      /\ Goto(w, "poll", loc[w])
  BY DEF ZeroSSLInv, ZeroSSLTypeOK, VerifySucceeds, EnrollmentShape, Enrolling
<1>1. Moves(w) /\ pc'[w] = "poll" /\ loc'[w] = loc[w]
  BY <1>0, GotoFacts DEF Moves, Labels
<1>2. ca[id] \in CACert
  BY <1>0
<1>3. ca' = [ca EXCEPT ![id] = [ca[id] EXCEPT !.status = status]]
  BY DEF VerifySucceeds
<1>4. /\ [ca[id] EXCEPT !.status = status] \in CACert
      /\ [ca[id] EXCEPT !.status = status].csr = ca[id].csr
      /\ [ca[id] EXCEPT !.status = status].status = status
  BY <1>2 DEF CACert, CertificateStatus
<1>5. /\ ca' \in [CertId -> CACert \cup {None}]
      /\ \A i \in CertId : i # id => ca'[i] = ca[i]
      /\ ca'[id] # None /\ ca'[id].csr = ca[id].csr /\ ca'[id].status = status
  BY <1>0, <1>3, <1>4, CACertAssumption
<1>6. CAGrows
  BY <1>0, <1>5 DEF CAGrows
<1>7. IdFlow(w) /\ EnrollmentShape(w)'
  BY <1>0, <1>1, <1>5 DEF IdFlow, EnrollmentShape, Enrolling
<1>8. ZeroSSLTypeOK'
  BY <1>0, <1>1, <1>5 DEF ZeroSSLTypeOK, Moves
<1> QED BY <1>0, <1>1, <1>6, <1>7, <1>8 DEF Flows, DnsFlow, AnswersFlow, CacheFlow

\* A record that is removed is one of the CSR's and of that name; when no removal
\* has failed, the records left are those of the names still to do.
LEMMA CleanupFlows ==
  ASSUME ZeroSSLInv, NEW w \in Worker, NEW name \in Name, Cleanup(w, name)
  PROVE  Flows(w)
<1> DEFINE l == [loc[w] EXCEPT !.todo = @ \ {name}]
           lf(failed) == [l EXCEPT !.failed = failed]
<1>0. /\ ZeroSSLTypeOK /\ loc[w] \in Loc /\ EnrollmentShape(w) /\ pc[w] = "cleanup"
      /\ UNCHANGED <<ca, cache, made, answers, crashes>>
      /\ loc[w].csr \in Csr /\ loc[w].id \in CertId /\ dns \subseteq Record
      /\ ca[loc[w].id] # None /\ ca[loc[w].id].csr = loc[w].csr /\ RecordShape
  BY DEF ZeroSSLInv, ZeroSSLTypeOK, Cleanup, EnrollmentShape, Enrolling
<1>1. /\ l \in Loc /\ l.trials = loc[w].trials /\ l.csr = loc[w].csr
      /\ l.prefetch = loc[w].prefetch /\ l.id = loc[w].id
      /\ l.todo = loc[w].todo \ {name} /\ l.failed = loc[w].failed /\ l.failed \in BOOLEAN
  BY <1>0 DEF Loc
<1>2. ASSUME NEW failed \in BOOLEAN
      PROVE  /\ lf(failed) \in Loc /\ lf(failed).trials = loc[w].trials
             /\ lf(failed).csr = loc[w].csr /\ lf(failed).prefetch = loc[w].prefetch
             /\ lf(failed).id = loc[w].id /\ lf(failed).todo = loc[w].todo \ {name}
             /\ lf(failed).failed = failed
  BY <1>0, <1>1 DEF Loc
<1>3. \/ dns' = delete_cname_record(l.csr, name) /\ AfterCleanup(w, l, l.failed)
      \/ dns' = dns /\ AfterCleanup(w, l, TRUE)
  BY DEF Cleanup
<1>4. dns' \subseteq dns
  BY <1>3 DEF delete_cname_record
<1>5. \/ Goto(w, "cleanup", lf(TRUE))
      \/ Fails(w)
      \/ /\ dns' = delete_cname_record(l.csr, name) /\ ~ l.failed
         /\ \/ Goto(w, "cleanup", lf(FALSE))
            \/ l.todo = {} /\ Goto(w, "download", l)
  BY <1>1, <1>3 DEF AfterCleanup
<1> HIDE DEF l, lf
<1>6. ASSUME dns' = delete_cname_record(l.csr, name), ~ l.failed
      PROVE  /\ ca[loc[w].id].status = "issued"
             /\ \A r \in dns' : r.id = loc[w].id => r.name \in loc[w].todo \ {name}
  <2>1. ASSUME NEW r \in dns', r.id = loc[w].id
        PROVE  r.name \in loc[w].todo \ {name}
    <3>1. r \in dns /\ ~ (r.csr = loc[w].csr /\ r.name = name)
      BY <1>1, <1>6, <2>1 DEF delete_cname_record
    <3>2. r.csr = loc[w].csr
      BY <1>0, <2>1, <3>1 DEF RecordShape
    <3>3. r.name \in loc[w].todo
      BY <1>0, <1>1, <1>6, <2>1, <3>1 DEF EnrollmentShape
    <3> QED BY <3>1, <3>2, <3>3
  <2> QED BY <1>0, <1>1, <1>6, <2>1 DEF EnrollmentShape
<1>7. Moves(w) /\ IdFlow(w) /\ EnrollmentShape(w)'
  <2>1. ASSUME NEW k \in Loc, NEW label \in {"cleanup", "download"}, Goto(w, label, k),
               k.trials = loc[w].trials, k.csr = loc[w].csr, k.prefetch = loc[w].prefetch,
               k.id = loc[w].id, k.todo = loc[w].todo \ {name},
               \/ label = "cleanup" /\ k.failed
               \/ /\ ca[loc[w].id].status = "issued"
                  /\ \A r \in dns' : r.id = loc[w].id => r.name \in loc[w].todo \ {name}
                  /\ label = "download" => k.todo = {}
        PROVE  Moves(w) /\ IdFlow(w) /\ EnrollmentShape(w)'
    <3>1. Moves(w) /\ pc'[w] = label /\ loc'[w] = k
      BY <1>0, <2>1, GotoFacts DEF Moves, Labels
    <3>2. label = "cleanup" /\ ~ k.failed =>
            /\ ca'[k.id].status = "issued"
            /\ \A r \in dns' : r.id = k.id => r.name \in k.todo
      BY <1>0, <2>1
    <3>3. label = "download" =>
            /\ ca'[k.id].status = "issued"
            /\ \A r \in dns' : r.id # k.id
      BY <1>0, <2>1
    <3> QED BY <1>0, <2>1, <3>1, <3>2, <3>3 DEF IdFlow, EnrollmentShape, Enrolling
  <2>2. CASE Fails(w)
    BY <1>0, <2>2, EndedShape DEF Fails
  <2>3. CASE Goto(w, "cleanup", lf(TRUE))
    BY <1>2, <2>1, <2>3
  <2>4. CASE /\ dns' = delete_cname_record(l.csr, name) /\ ~ l.failed
             /\ Goto(w, "cleanup", lf(FALSE))
    BY <1>2, <1>6, <2>1, <2>4
  <2>5. CASE /\ dns' = delete_cname_record(l.csr, name) /\ ~ l.failed
             /\ l.todo = {} /\ Goto(w, "download", l)
    BY <1>1, <1>6, <2>1, <2>5
  <2> QED BY <1>5, <2>2, <2>3, <2>4, <2>5
<1>8. DnsFlow(w)
  BY <1>4 DEF DnsFlow
<1>9. ZeroSSLTypeOK'
  BY <1>0, <1>4, <1>7 DEF ZeroSSLTypeOK, Moves
<1> QED BY <1>0, <1>7, <1>8, <1>9 DEF Flows, CAGrows, AnswersFlow, CacheFlow

-----------------------------------------------------------------------------
(* The CA and the clock.                                                   *)

\* No process moves: a certificate is issued, or an entry of the cache goes.
LEMMA ClockStep ==
  ASSUME ZeroSSLInv, CAGrows, ca' \in [CertId -> CACert \cup {None}],
         cache' \in [NameSets -> CertId \cup {None}],
         \A names \in NameSets : cache'[names] \in {cache[names], None},
         UNCHANGED <<dns, made, pc, loc, answers, crashes>>
  PROVE  ZeroSSLInv'
<1>0. /\ ZeroSSLTypeOK /\ CacheShape /\ RecordShape /\ Delivered /\ NoRecordLeft
      /\ \A v \in Worker : EnrollmentShape(v) /\ OwnCertificate(v)
      /\ \A a \in answers : ca[a.id] # None
      /\ \A a \in answers : a.id \in CertId
      /\ \A r \in dns : r.id \in CertId
      /\ None \notin CertId
  BY ZeroSSLAssumption DEF ZeroSSLInv, ZeroSSLTypeOK, Record
<1>kept. ASSUME NEW id \in CertId, NEW names, Kept(id, names)
         PROVE  Kept(id, names)'
  BY <1>kept DEF Kept, CAGrows
<1>1. ZeroSSLTypeOK'
  BY <1>0 DEF ZeroSSLTypeOK
<1>2. ASSUME NEW v \in Worker
      PROVE  EnrollmentShape(v)'
  <2>1. EnrollmentShape(v)
    BY <1>0
  <2>2. pc[v] = "setPrefetched" => Kept(loc[v].id, loc[v].csr.names)'
    BY <2>1, <1>kept DEF EnrollmentShape, Kept, CAGrows
  <2>3. pc[v] \in Enrolling => /\ loc[v].id \in CertId /\ ca'[loc[v].id] # None
                               /\ ca'[loc[v].id].csr = loc[v].csr
    BY <2>1 DEF EnrollmentShape, CAGrows
  <2>4. /\ pc[v] = "cleanup" /\ ~ loc[v].failed => ca'[loc[v].id].status = "issued"
        /\ pc[v] = "download" => ca'[loc[v].id].status = "issued"
    BY <2>1 DEF EnrollmentShape, CAGrows, Enrolling
  <2> QED BY <2>1, <2>2, <2>3, <2>4 DEF EnrollmentShape
<1>3. ASSUME NEW v \in Worker
      PROVE  OwnCertificate(v)'
  <2>1. OwnCertificate(v) /\ EnrollmentShape(v)
    BY <1>0
  <2>2. pc[v] \in Enrolling => \A names \in NameSets : cache'[names] # loc[v].id
    BY <1>0, <2>1 DEF OwnCertificate, EnrollmentShape
  <2> QED BY <2>1, <2>2 DEF OwnCertificate
<1>4. CacheShape'
  <2>1. ASSUME NEW names \in NameSets, cache'[names] # None
        PROVE  cache'[names] = cache[names] /\ Kept(cache[names], names)'
    <3>1. cache'[names] = cache[names] /\ Kept(cache[names], names) /\ cache[names] \in CertId
      BY <1>0, <2>1 DEF CacheShape, ZeroSSLTypeOK
    <3> QED BY <3>1 DEF Kept, CAGrows
  <2> QED BY <2>1 DEF CacheShape, Kept
<1>5. RecordShape'
  BY <1>0 DEF RecordShape, CAGrows
<1>6. /\ \A a \in answers' : ca'[a.id] # None
      /\ Delivered' /\ NoRecordLeft'
  BY <1>0 DEF Delivered, NoRecordLeft, CAGrows
<1> QED BY <1>1, <1>2, <1>3, <1>4, <1>5, <1>6 DEF ZeroSSLInv

\* Issue, Expire, and a step of nobody.
LEMMA ClockSteps ==
  ASSUME ZeroSSLInv,
         \/ \E id \in CertId : Issue(id)
         \/ \E names \in NameSets : Expire(names)
         \/ UNCHANGED vars
  PROVE  ZeroSSLInv'
<1>0. /\ ca \in [CertId -> CACert \cup {None}]
      /\ cache \in [NameSets -> CertId \cup {None}]
  BY DEF ZeroSSLInv, ZeroSSLTypeOK
<1>1. ASSUME NEW id \in CertId, Issue(id)
      PROVE  ZeroSSLInv'
  <2>1. ca[id] \in CACert
    BY <1>0, <1>1 DEF Issue
  <2>2. /\ [ca[id] EXCEPT !.status = "issued"] \in CACert
        /\ [ca[id] EXCEPT !.status = "issued"].csr = ca[id].csr
        /\ [ca[id] EXCEPT !.status = "issued"].status = "issued"
    BY <2>1 DEF CACert, CertificateStatus
  <2>3. /\ ca' = [ca EXCEPT ![id] = [ca[id] EXCEPT !.status = "issued"]]
        /\ UNCHANGED <<dns, cache, made, pc, loc, answers, crashes>>
    BY <1>1 DEF Issue
  <2>4. ca' \in [CertId -> CACert \cup {None}]
    BY <1>0, <2>2, <2>3
  <2>5. CAGrows
    BY <1>0, <2>2, <2>3, CACertAssumption DEF CAGrows
  <2> QED BY <1>0, <2>3, <2>4, <2>5, ClockStep
<1>2. ASSUME NEW names \in NameSets, Expire(names)
      PROVE  ZeroSSLInv'
  <2>1. /\ cache' = [cache EXCEPT ![names] = None]
        /\ UNCHANGED <<ca, dns, made, pc, loc, answers, crashes>>
    BY <1>2 DEF Expire
  <2>2. /\ cache' \in [NameSets -> CertId \cup {None}]
        /\ \A n \in NameSets : cache'[n] \in {cache[n], None}
    BY <1>0, <2>1
  <2>3. CAGrows
    BY <2>1 DEF CAGrows
  <2> QED BY <1>0, <2>1, <2>2, <2>3, ClockStep
<1>3. ASSUME UNCHANGED vars
      PROVE  ZeroSSLInv'
  <2>1. CAGrows
    BY <1>3 DEF CAGrows, vars
  <2> QED BY <1>0, <1>3, <2>1, ClockStep DEF vars
<1> QED BY <1>1, <1>2, <1>3

-----------------------------------------------------------------------------
(* The theorems.                                                           *)

\* Nothing has happened yet.
LEMMA InitZeroSSL == Init => ZeroSSLInv
<1> SUFFICES ASSUME Init
             PROVE  ZeroSSLInv
  OBVIOUS
<1>1. Idle \in Loc /\ Idle.trials >= 1 /\ "idle" \in Labels
  <2>1. Idle.trials >= 1 /\ "idle" \in Labels
    BY ZeroSSLAssumption DEF Idle, Labels
  <2> QED BY <2>1, LocType
<1>2. ZeroSSLTypeOK
  BY <1>1, ZeroSSLAssumption DEF Init, ZeroSSLTypeOK
<1>3. \A w \in Worker : EnrollmentShape(w) /\ OwnCertificate(w)
  BY <1>1 DEF Init, EnrollmentShape, OwnCertificate, Enrolling
<1>4. CacheShape /\ RecordShape /\ Delivered /\ NoRecordLeft /\ answers = {}
  BY DEF Init, CacheShape, RecordShape, Delivered, NoRecordLeft
<1> QED BY <1>2, <1>3, <1>4 DEF ZeroSSLInv

\* Every step keeps the invariant.
LEMMA NextZeroSSL == ZeroSSLInv /\ [Next]_vars => ZeroSSLInv'
<1> SUFFICES ASSUME ZeroSSLInv, [Next]_vars
             PROVE  ZeroSSLInv'
  OBVIOUS
<1>1. ASSUME NEW w \in Worker, Flows(w)
      PROVE  ZeroSSLInv'
  BY <1>1, FrameStep DEF Flows
<1>2. ASSUME NEW w \in Worker, Step(w)
      PROVE  Flows(w)
  BY <1>2, GetPrefetchedFlows, CreateFlows, RegisterFlows, CleanupFlows,
     VerifySucceedsFlows, QuietSteps, DownloadFlows, SetPrefetchedFlows DEF Step
<1>3. ASSUME NEW w \in Worker,
             \/ VerifyRaises(w) \/ Crash(w)
             \/ \E csr \in ClientCsrs : Enroll(w, csr)
             \/ \E csr \in PrefetchCsrs : Prefetch(w, csr)
      PROVE  Flows(w)
  BY <1>3, QuietSteps, PrefetchFlows
<1> QED BY <1>1, <1>2, <1>3, ClockSteps DEF Next

\* A certificate and its records belong to the enrollment that has created it
\* until they are gone and it is downloaded; only then is it kept or handed out.
THEOREM ZeroSSLInvariance == Spec => []ZeroSSLInv
<1>1. Init => ZeroSSLInv
  BY InitZeroSSL
<1>2. ZeroSSLInv /\ [Next]_vars => ZeroSSLInv'
  BY NextZeroSSL
<1> QED BY <1>1, <1>2, PTL DEF Spec

\* Whatever times out, and however often a prefetch request is answered from the
\* cache, enroll() hands out only what the CA has issued, for exactly the names
\* of the CSR, and either for that CSR or for the one of a prefetch request.
THEOREM OnlyIssuedDelivered == Spec => []Delivered
<1>1. ZeroSSLInv => Delivered
  BY DEF ZeroSSLInv
<1> QED BY <1>1, ZeroSSLInvariance, PTL

\* The CNAME records of a certificate are removed before it is handed out.
THEOREM RecordsRemoved == Spec => []NoRecordLeft
<1>1. ZeroSSLInv => NoRecordLeft
  BY DEF ZeroSSLInv
<1> QED BY <1>1, ZeroSSLInvariance, PTL

\* A CNAME record goes only when the enrollment of its CSR is cleaned up.
LEMMA RemovedInCleanup ==
  ASSUME ZeroSSLInv, [Next]_vars, NEW r \in dns, r \notin dns'
  PROVE  \E v \in Worker : pc[v] = "cleanup" /\ loc[v].csr = r.csr
<1>1. dns' # dns
  OBVIOUS
<1>2. PICK v \in Worker : \E name \in Name : Register(v, name) \/ Cleanup(v, name)
  BY <1>1 DEF Next, Step, vars, GetPrefetched, Create, VerifySucceeds, VerifyFails,
     VerifyRaises, Polled, PollTimeout, Download, SetPrefetched, Issue, Expire, Crash,
     Enroll, Prefetch
<1>3. PICK name \in Name : Register(v, name) \/ Cleanup(v, name)
  BY <1>2
<1>4. Cleanup(v, name)
  BY <1>3 DEF Register
<1>5. dns' = delete_cname_record(loc[v].csr, name) /\ pc[v] = "cleanup"
  <2>1. loc[v] \in Loc
    BY DEF ZeroSSLInv, ZeroSSLTypeOK
  <2>2. [loc[v] EXCEPT !.todo = @ \ {name}].csr = loc[v].csr
    BY <2>1 DEF Loc
  <2> QED BY <1>1, <1>4, <2>2 DEF Cleanup
<1> QED BY <1>5 DEF delete_cname_record

\* While an enrollment waits for the CA to find its records, one of them goes
\* only when another enrollment of the very same CSR cleans up.
THEOREM RecordsStay == Spec => RecordsKept
<1> DEFINE Spared == \A w \in Worker :
          pc[w] \in {"register", "verify"} /\ pc'[w] = pc[w] =>
              \A r \in dns : r.id = loc[w].id /\ r \notin dns' =>
                  \E v \in Worker \ {w} :
                      pc[v] = "cleanup" /\ loc[v].csr = loc[w].csr
<1>1. ZeroSSLInv /\ [Next]_vars => [Spared]_vars
  <2> SUFFICES ASSUME ZeroSSLInv, [Next]_vars, NEW w \in Worker,
                      pc[w] \in {"register", "verify"}, NEW r \in dns,
                      r.id = loc[w].id, r \notin dns'
               PROVE  \E v \in Worker \ {w} : pc[v] = "cleanup" /\ loc[v].csr = loc[w].csr
    OBVIOUS
  <2>1. PICK v \in Worker : pc[v] = "cleanup" /\ loc[v].csr = r.csr
    BY RemovedInCleanup
  <2>2. r.csr = loc[w].csr
    BY DEF ZeroSSLInv, RecordShape, EnrollmentShape, Enrolling
  <2> QED BY <2>1, <2>2
<1> HIDE DEF Spared
<1>2. [][Spared]_vars => RecordsKept
  BY DEF Spared, RecordsKept
<1> QED BY <1>1, <1>2, ZeroSSLInvariance, PTL DEF Spec
=============================================================================
