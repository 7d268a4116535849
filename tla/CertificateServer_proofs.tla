---------------------- MODULE CertificateServer_proofs ----------------------
(***************************************************************************)
(* Proofs about CertificateServer, for every set of orders, CSRs and       *)
(* processes, every deployment and every number of kills.                  *)
(***************************************************************************)
EXTENDS CertificateServer, TLAPS

-----------------------------------------------------------------------------
(* Types.                                                                  *)

\* What a process starts a task with is well typed ...
LEMMA FreshLoc ==
  /\ Idle \in Loc
  /\ \A o \in Orders, x \in X509 : [Idle EXCEPT !.order = o, !.x = x] \in Loc
  /\ \A x \in X509 : [Idle EXCEPT !.x = x] \in Loc
  /\ \A list \in SUBSET Orders, rows \in [Orders -> CertRow \cup {None}] :
        [Idle EXCEPT !.todo = list, !.rows = rows] \in Loc
BY DEF Idle, Loc

\* ... and so is what its steps make of that.
LEMMA NextLoc ==
  ASSUME NEW l \in Loc
  PROVE  /\ \A entries \in SUBSET X509 : [l EXCEPT !.crl = entries] \in Loc
         /\ \A list \in SUBSET Orders : [l EXCEPT !.todo = list] \in Loc
         /\ \A o \in Orders \cup {None} : [l EXCEPT !.order = o] \in Loc
         /\ \A o \in Orders :
              /\ [l EXCEPT !.order = o, !.todo = @ \ {o}] \in Loc
              /\ [l EXCEPT !.todo = @ \ {o}, !.rows[o] = None] \in Loc
BY DEF Loc

\* A step to a label of Labels keeps pc and loc well typed.
LEMMA GotoType ==
  ASSUME StoreTypeOK, NEW w \in Worker, NEW label \in Labels, NEW l \in Loc,
         Goto(w, label, l)
  PROVE  pc' \in [Worker -> Labels] /\ loc' \in [Worker -> Loc]
BY DEF StoreTypeOK, Goto

\* An update of columns of a row is a row for the same CSR.
LEMMA RowUpdate ==
  ASSUME NEW row \in CertRow, NEW c \in X509 \cup {None, Removal},
         NEW r \in X509 \cup {None}, NEW d \in X509 \cup {None}
  PROVE  LET new == [row EXCEPT !.cert = c, !.raw = r, !.dates = d]
         IN  /\ new \in CertRow
             /\ new.csr = row.csr /\ new.polled = row.polled
             /\ new.cert = c /\ new.raw = r /\ new.dates = d
BY DEF CertRow

\* The same for the columns that the trigger writes, and for the poll identifier.
LEMMA RowUpdateSome ==
  ASSUME NEW row \in CertRow, NEW x \in X509, NEW b \in BOOLEAN
  PROVE  /\ LET new == [row EXCEPT !.cert = x, !.raw = x]
            IN  /\ new \in CertRow
                /\ new.csr = row.csr /\ new.polled = row.polled
                /\ new.cert = x /\ new.raw = x /\ new.dates = row.dates
         /\ LET new == [row EXCEPT !.polled = b]
            IN  /\ new \in CertRow
                /\ new.csr = row.csr /\ new.polled = b
                /\ new.cert = row.cert /\ new.raw = row.raw /\ new.dates = row.dates
BY DEF CertRow

\* The row that store_csr adds.
LEMMA RowNew ==
  ASSUME NEW csr \in Csrs
  PROVE  LET new == [csr |-> csr, cert |-> None, raw |-> None, dates |-> None, polled |-> FALSE]
         IN  new \in CertRow
BY DEF CertRow

\* A row that was read gets the dates of its certificate.
LEMMA DatedRow ==
  ASSUME NEW row \in CertRow
  PROVE  /\ dated(row) \in CertRow
         /\ dated(row).csr = row.csr /\ dated(row).raw = row.raw /\ dated(row).cert = row.cert
         /\ dated(row).dates = IF row.cert # Removal /\ row.dates = None THEN row.raw ELSE row.dates
BY DEF CertRow, dated

\* The two calls of db_handler.py that write keep the tables well typed.
LEMMA OrderUpdateType ==
  ASSUME StoreTypeOK, NEW w \in Worker, NEW o \in Orders, NEW st \in OrderStatus,
         order_update(w, o, st)
  PROVE  /\ orders' \in [Orders -> OrderStatus] /\ certs' = certs
         /\ held' \in [Worker -> Held \cup {Nothing}]
BY DEF StoreTypeOK, order_update, Hold, Held

\* A row that is written where there was one.
LEMMA CertificateAddType ==
  ASSUME StoreTypeOK, NEW w \in Worker, NEW o \in Orders, NEW row,
         Exists(o) => row \in CertRow, certificate_add(w, o, row)
  PROVE  /\ certs' \in [Orders -> CertRow \cup {None}] /\ orders' = orders
         /\ held' \in [Worker -> Held \cup {Nothing}]
BY DEF StoreTypeOK, certificate_add, Hold, Held

\* Processes of the deployment are processes, and its orders are orders.
LEMMA ServerType ==
  ASSUME StoreTypeOK
  PROVE  server.workers \subseteq Worker /\ server.handler \in Handlers
BY CertificatesAssumption DEF StoreTypeOK

\* What is left when a row of a search result has been dealt with.
LEMMA RowDoneType ==
  ASSUME StoreTypeOK, NEW w \in Worker, NEW o \in Orders, pc[w] \in Labels, RowDone(w, o)
  PROVE  pc' \in [Worker -> Labels] /\ loc' \in [Worker -> Loc]
<1>1. loc[w] \in Loc
  BY DEF StoreTypeOK
<1>2. [loc[w] EXCEPT !.todo = @ \ {o}, !.rows[o] = None] \in Loc
  BY <1>1, NextLoc
<1> QED BY <1>2, FreshLoc, GotoType DEF RowDone, Done, Labels

\* Types survive the steps that write nothing to the tables.
LEMMA TypeReads ==
  ASSUME TypeOK, NEW w \in Worker, ProcessShape(w),
         \/ OpensslStep(w) /\ UNCHANGED submitted
         \/ AskCA(w) \/ PollCA(w) \/ TriggerSearch(w)
         \/ \E o \in Orders : Poll(w, o)
         \/ \E x \in X509 : TriggerReceive(w, x)
         \/ \E x \in X509, owner \in BOOLEAN, reason \in {0, 2} : Revoke(w, x, owner, reason)
         \/ \E purge \in BOOLEAN : Cleanup(w, purge)
         \/ DatesUpdate(w)
  PROVE  TypeOK'
<1> DEFINE PcLoc == pc' \in [Worker -> Labels] /\ loc' \in [Worker -> Loc]
<1>0. StoreTypeOK /\ CATypeOK /\ submitted \subseteq X509 /\ loc[w] \in Loc
  BY DEF TypeOK, StoreTypeOK
<1>done. Done(w) => PcLoc
  BY <1>0, FreshLoc, GotoType DEF Done, Labels
<1>same. \A label \in Labels : Goto(w, label, loc[w]) => PcLoc
  BY <1>0, GotoType
<1>frame. ASSUME PcLoc, UNCHANGED <<store, clock, server, crashes>>
          PROVE  StoreTypeOK'
  BY <1>0, <1>frame DEF StoreTypeOK, store, clock
<1>1. CASE SignCertificate(w) /\ UNCHANGED submitted
  <2>1. PcLoc /\ disk' \subseteq X509
    BY <1>0, <1>1, <1>same DEF SignCertificate, Labels, ProcessShape, At, CATypeOK, Jobs
  <2> QED BY <1>0, <1>1, <1>frame, <2>1 DEF SignCertificate, TypeOK, CATypeOK
<1>2. CASE BundleCertificate(w) /\ UNCHANGED submitted
  BY <1>0, <1>2, <1>same, <1>frame DEF BundleCertificate, Labels, TypeOK, CATypeOK, ca
<1>3. CASE CrlRead(w) /\ UNCHANGED submitted
  <2>1. crl # Truncated => crl \cup {loc[w].x} \in SUBSET X509
    BY <1>0, <1>3 DEF CrlRead, At, ProcessShape, CATypeOK, Jobs
  <2>2. PcLoc
    BY <1>0, <1>3, <1>done, <2>1, NextLoc, GotoType DEF CrlRead, Labels
  <2> QED BY <1>0, <1>3, <1>frame, <2>2 DEF CrlRead, TypeOK, CATypeOK, ca
<1>4. CASE CrlOpen(w) /\ UNCHANGED submitted
  BY <1>0, <1>4, <1>same, <1>frame DEF CrlOpen, Labels, TypeOK, CATypeOK
<1>5. CASE CrlWrite(w) /\ UNCHANGED submitted
  <2>1. loc[w].x \in X509 /\ loc[w].crl \subseteq X509
    BY <1>0, <1>5 DEF CrlWrite, At, ProcessShape, Loc, Jobs
  <2> QED BY <1>0, <1>5, <1>done, <1>frame, <2>1 DEF CrlWrite, TypeOK, CATypeOK
<1>6. CASE AskCA(w)
  <2>1. loc[w].x \in X509
    BY <1>6 DEF AskCA, At, ProcessShape, Jobs
  <2> QED BY <1>0, <1>6, <1>same, <1>frame, <2>1 DEF AskCA, Labels, TypeOK, CATypeOK, ca
<1>7. CASE PollCA(w)
  BY <1>0, <1>7, <1>same, <1>frame DEF PollCA, Labels, TypeOK, CATypeOK, ca
<1>8. CASE TriggerSearch(w)
  <2>1. certname_lookup(loc[w].x) \in SUBSET Orders
    BY DEF certname_lookup, processing_search
  <2>2. PcLoc
    BY <1>0, <1>8, <1>done, <2>1, NextLoc, GotoType DEF TriggerSearch, Labels
  <2> QED BY <1>0, <1>8, <1>frame, <2>2 DEF TriggerSearch, TypeOK, CATypeOK, ca
<1>9. ASSUME NEW o \in Orders, Poll(w, o)
      PROVE  TypeOK'
  <2>1. [csr |-> certs[o].csr, order |-> o] \in X509
    BY <1>0, <1>9 DEF Poll, Exists, StoreTypeOK, CertRow, X509
  <2>2. PcLoc
    BY <1>0, <1>9, <2>1, FreshLoc, GotoType DEF Poll, Labels
  <2> QED BY <1>0, <1>9, <1>frame, <2>2 DEF Poll, TypeOK, CATypeOK, ca
<1>10. ASSUME NEW x \in X509, TriggerReceive(w, x)
       PROVE  TypeOK'
  <2>1. PcLoc
    BY <1>0, <1>10, FreshLoc, GotoType DEF TriggerReceive, Labels
  <2> QED BY <1>0, <1>10, <1>frame, <2>1 DEF TriggerReceive, TypeOK, CATypeOK, ca
<1>11. ASSUME NEW x \in X509, NEW owner, NEW reason, Revoke(w, x, owner, reason)
       PROVE  TypeOK'
  <2>1. PcLoc
    BY <1>0, <1>11, FreshLoc, GotoType DEF Revoke, Labels
  <2> QED BY <1>0, <1>11, <1>frame, <2>1 DEF Revoke, TypeOK, CATypeOK, ca
<1>12. ASSUME NEW purge \in BOOLEAN, Cleanup(w, purge)
       PROVE  TypeOK'
  <2> DEFINE list == {o \in expired_search : invalidation_check(certs[o], o, purge)}
             rows == [o \in Orders |-> IF o \in list THEN dated(certs[o]) ELSE None]
  <2>1. list \in SUBSET Orders /\ \A o \in list : certs[o] \in CertRow
    BY <1>0 DEF expired_search, Exists, StoreTypeOK
  <2>2. rows \in [Orders -> CertRow \cup {None}]
    BY <2>1, DatedRow
  <2>3. PcLoc
    <3> HIDE DEF list, rows
    <3>1. Goto(w, IF purge THEN "purge" ELSE "clean", [Idle EXCEPT !.todo = list, !.rows = rows])
      BY <1>12 DEF Cleanup, list, rows
    <3> QED BY <1>0, <2>1, <2>2, <3>1, FreshLoc, GotoType DEF Labels
  <2> QED BY <1>0, <1>12, <1>frame, <2>3 DEF Cleanup, TypeOK, CATypeOK, ca
<1>13. CASE DatesUpdate(w)
  <2> DEFINE list == {o \in Orders : Exists(o) /\ certs[o].dates = None /\ certs[o].raw # None}
             rows == [o \in Orders |-> IF o \in list THEN certs[o] ELSE None]
  <2>1. list \in SUBSET Orders /\ rows \in [Orders -> CertRow \cup {None}]
    BY <1>0 DEF Exists, StoreTypeOK
  <2>2. PcLoc
    <3> HIDE DEF list, rows
    <3>1. Goto(w, "date", [Idle EXCEPT !.todo = list, !.rows = rows])
      BY <1>13 DEF DatesUpdate, list, rows
    <3> QED BY <1>0, <2>1, <3>1, FreshLoc, GotoType DEF Labels
  <2> QED BY <1>0, <1>13, <1>frame, <2>2 DEF DatesUpdate, TypeOK, CATypeOK, ca
<1> QED
  BY <1>1, <1>2, <1>3, <1>4, <1>5, <1>6, <1>7, <1>8, <1>9, <1>10, <1>11, <1>12, <1>13
     DEF OpensslStep

\* Types survive the steps that write a row, or the order's.
LEMMA TypeWrites ==
  ASSUME TypeOK, NEW w \in Worker, ProcessShape(w),
         \/ \E o \in Orders, csr \in Csrs : Finalize(w, o, csr)
         \/ StoreCsr(w) \/ StoreCert(w) \/ StoreCertError(w) \/ SetValid(w) \/ SetInvalid(w)
         \/ TriggerValid(w)
         \/ \E o \in Orders : \/ InvalidateOrder(w, o) \/ CleanRow(w, o) \/ PurgeRow(w, o)
                              \/ DateRow(w, o) \/ TriggerStore(w, o)
         \/ Save(w) /\ UNCHANGED <<ca, submitted>>
         \/ Crash(w)
  PROVE  TypeOK'
<1> DEFINE PcLoc == pc' \in [Worker -> Labels] /\ loc' \in [Worker -> Loc]
           Tables == /\ orders' \in [Orders -> OrderStatus]
                     /\ certs' \in [Orders -> CertRow \cup {None}]
                     /\ held' \in [Worker -> Held \cup {Nothing}]
<1>0. /\ StoreTypeOK /\ CATypeOK /\ submitted \subseteq X509 /\ loc[w] \in Loc
      /\ pc[w] \in Labels /\ \A o \in Orders : Exists(o) => certs[o] \in CertRow
      /\ CertificatesAssumption
  BY CertificatesAssumption DEF TypeOK, StoreTypeOK, Exists
<1>done. Done(w) => PcLoc
  BY <1>0, FreshLoc, GotoType DEF Done, Labels
<1>same. \A label \in Labels : Goto(w, label, loc[w]) => PcLoc
  BY <1>0, GotoType
<1>frame. ASSUME PcLoc, Tables, UNCHANGED <<clock, server, ca, submitted>>,
                 crashes' \in 0..MaxCrashes
          PROVE  TypeOK'
  BY <1>0, <1>frame DEF TypeOK, StoreTypeOK, CATypeOK, ca, clock
<1>crashes. crashes \in 0..MaxCrashes
  BY <1>0 DEF StoreTypeOK
<1>orders. ASSUME NEW o \in Orders, NEW st \in OrderStatus, order_update(w, o, st)
           PROVE  Tables
  BY <1>0, <1>orders, OrderUpdateType DEF StoreTypeOK
<1>rows. ASSUME NEW o \in Orders, NEW row, Exists(o) => row \in CertRow,
                certificate_add(w, o, row)
         PROVE  Tables
  BY <1>0, <1>rows, CertificateAddType DEF StoreTypeOK
<1>1. ASSUME NEW o \in Orders, NEW csr \in Csrs, Finalize(w, o, csr)
      PROVE  TypeOK'
  <2>1. PcLoc
    BY <1>0, <1>1, FreshLoc, GotoType DEF Finalize, Labels, X509
  <2>2. Tables
    BY <1>1, <1>orders DEF Finalize, OrderStatus
  <2> QED BY <1>1, <1>frame, <1>crashes, <2>1, <2>2 DEF Finalize
<1>2. CASE StoreCsr(w)
  <2>1. loc[w].order \in Orders /\ loc[w].x.csr \in Csrs
    BY <1>2 DEF StoreCsr, At, ProcessShape, Enrolling, Jobs, X509
  <2>2. PcLoc
    BY <1>2, <1>done, <1>same DEF StoreCsr, Labels
  <2>3. Tables
    BY <1>0, <1>2, <2>1, RowNew DEF StoreCsr, certificate_new, Hold, Held, StoreTypeOK
  <2> QED BY <1>2, <1>frame, <1>crashes, <2>2, <2>3 DEF StoreCsr
<1>3. CASE StoreCert(w)
  <2>1. loc[w].order \in Orders /\ loc[w].x \in X509
    BY <1>3 DEF StoreCert, At, ProcessShape, Enrolling, Jobs
  <2>2. PcLoc
    BY <1>3, <1>same DEF StoreCert, Labels
  <2>3. Exists(loc[w].order) =>
          [certs[loc[w].order] EXCEPT !.cert = loc[w].x, !.raw = loc[w].x, !.dates = loc[w].x]
            \in CertRow
    BY <1>0, <2>1, RowUpdate
  <2>4. Tables
    BY <1>3, <1>rows, <2>1, <2>3 DEF StoreCert
  <2> QED BY <1>3, <1>frame, <1>crashes, <2>2, <2>4 DEF StoreCert
<1>4. CASE StoreCertError(w)
  <2>1. loc[w].order \in Orders
    BY <1>4 DEF StoreCertError, At, ProcessShape, Enrolling
  <2>2. PcLoc
    BY <1>4, <1>done, <1>same DEF StoreCertError, Labels
  <2>3. Exists(loc[w].order) =>
          [certs[loc[w].order] EXCEPT !.polled = server.handler = "asynchronous"] \in CertRow
    BY <1>0, <2>1 DEF CertRow
  <2>4. Tables
    BY <1>4, <1>rows, <2>1, <2>3 DEF StoreCertError
  <2> QED BY <1>4, <1>frame, <1>crashes, <2>2, <2>4 DEF StoreCertError
<1>5. CASE SetValid(w) \/ SetInvalid(w)
  <2>1. loc[w].order \in Orders
    BY <1>5 DEF SetValid, SetInvalid, At, ProcessShape, Enrolling
  <2>2. Tables
    BY <1>5, <1>orders, <2>1 DEF SetValid, SetInvalid, OrderStatus
  <2> QED BY <1>5, <1>done, <1>frame, <1>crashes, <2>2 DEF SetValid, SetInvalid
<1>6. CASE TriggerValid(w)
  <2>1. loc[w].order \in Orders
    BY <1>6 DEF TriggerValid, At, ProcessShape
  <2>2. Tables
    BY <1>6, <1>orders, <2>1 DEF TriggerValid, OrderStatus
  <2>3. PcLoc
    BY <1>0, <1>6, <1>done, NextLoc, GotoType DEF TriggerValid, Labels
  <2> QED BY <1>6, <1>frame, <1>crashes, <2>2, <2>3 DEF TriggerValid
<1>7. ASSUME NEW o \in Orders, InvalidateOrder(w, o)
      PROVE  TypeOK'
  <2>1. Tables
    BY <1>7, <1>orders DEF InvalidateOrder, OrderStatus
  <2> QED BY <1>0, <1>7, <1>frame, <1>crashes, <2>1 DEF InvalidateOrder, StoreTypeOK
<1>8. ASSUME NEW o \in Orders, CleanRow(w, o)
      PROVE  TypeOK'
  <2>1. loc[w].rows[o] \in CertRow
    BY <1>8 DEF CleanRow, At, ProcessShape, Jobs
  <2>2. loc[w].rows[o].raw \in X509 \cup {None} /\ loc[w].rows[o].dates \in X509 \cup {None}
    BY <2>1 DEF CertRow
  <2>3. Exists(o) => [certs[o] EXCEPT !.cert = Removal, !.raw = loc[w].rows[o].raw,
                                      !.dates = loc[w].rows[o].dates] \in CertRow
    BY <1>0, <2>2, RowUpdate
  <2>4. Tables
    BY <1>8, <1>rows, <2>3 DEF CleanRow
  <2> QED BY <1>0, <1>8, <1>frame, <1>crashes, <2>4, RowDoneType DEF CleanRow
<1>9. ASSUME NEW o \in Orders, PurgeRow(w, o)
      PROVE  TypeOK'
  <2>1. Tables
    BY <1>0, <1>9 DEF PurgeRow, certificate_delete, StoreTypeOK
  <2> QED BY <1>0, <1>9, <1>frame, <1>crashes, <2>1, RowDoneType DEF PurgeRow
<1>10. ASSUME NEW o \in Orders, DateRow(w, o)
       PROVE  TypeOK'
  <2> DEFINE row == loc[w].rows[o]
  <2>1. row \in CertRow
    BY <1>10 DEF DateRow, At, ProcessShape, Jobs
  <2>2. row.raw \in X509 \cup {None} /\ row.cert \in X509 \cup {None, Removal}
    BY <2>1 DEF CertRow
  <2>3. Exists(o) => [certs[o] EXCEPT !.cert = row.cert, !.raw = row.raw, !.dates = row.raw]
                        \in CertRow
    BY <1>0, <2>2, RowUpdate
  <2>4. Tables
    BY <1>10, <1>rows, <2>3 DEF DateRow
  <2> QED BY <1>0, <1>10, <1>frame, <1>crashes, <2>4, RowDoneType DEF DateRow
<1>11. ASSUME NEW o \in Orders, TriggerStore(w, o)
       PROVE  TypeOK'
  <2>1. loc[w].x \in X509
    BY <1>11 DEF TriggerStore, At, ProcessShape, Jobs
  <2>2. Exists(o) => [certs[o] EXCEPT !.cert = loc[w].x, !.raw = loc[w].x] \in CertRow
    BY <1>0, <2>1, RowUpdateSome
  <2>3. Tables
    BY <1>11, <1>rows, <2>2 DEF TriggerStore
  <2>4. PcLoc
    BY <1>0, <1>11, NextLoc, GotoType DEF TriggerStore, Labels
  <2> QED BY <1>11, <1>frame, <1>crashes, <2>3, <2>4 DEF TriggerStore
<1>12. CASE Save(w) /\ UNCHANGED <<ca, submitted>>
  <2>1. Tables
    BY <1>0, <1>12 DEF Save, StoreTypeOK, Held
  <2> QED BY <1>0, <1>12, <1>frame, <1>crashes, <2>1 DEF Save, StoreTypeOK
<1>13. CASE Crash(w)
  <2>1. crashes' \in 0..MaxCrashes
    BY <1>0, <1>13, <1>crashes DEF Crash
  <2>2. Tables
    BY <1>0, <1>13 DEF Crash, StoreTypeOK
  <2> QED BY <1>13, <1>done, <1>frame, <2>1, <2>2 DEF Crash
<1> QED
  BY <1>1, <1>2, <1>3, <1>4, <1>5, <1>6, <1>7, <1>8, <1>9, <1>10, <1>11, <1>12, <1>13

\* The clock and stuttering change no type.
LEMMA TypeClock ==
  ASSUME TypeOK,
         \/ \E o \in Orders : /\ CertificateExpires(o) \/ RowAges(o)
                              /\ UNCHANGED <<ca, submitted>>
         \/ UNCHANGED allvars
  PROVE  TypeOK'
BY DEF TypeOK, StoreTypeOK, CATypeOK, CertificateExpires, RowAges, allvars, store, clock, ca

\* Types survive every step.
LEMMA TypeStep ==
  ASSUME TypeOK, \A w \in Worker : ProcessShape(w), [Next]_allvars
  PROVE  TypeOK'
<1>1. server.workers \subseteq Worker
  BY ServerType DEF TypeOK
<1> QED
  BY <1>1, TypeReads, TypeWrites, TypeClock
     DEF Next, HandlerStep, TriggerStep, Housekeeping

-----------------------------------------------------------------------------
(* Who moves.                                                              *)

\* Only w moves.
Moves(w) == \A v \in Worker \ {w} : held'[v] = held[v] /\ pc'[v] = pc[v] /\ loc'[v] = loc[v]

\* The steps of w move w alone.
LEMMA OneMoves ==
  ASSUME TypeOK, NEW w \in Worker,
         \/ HandlerStep(w) \/ OpensslStep(w) \/ TriggerStep(w) \/ Save(w) \/ Crash(w)
  PROVE  Moves(w) /\ server' = server
<1> USE DEF Moves, TypeOK, StoreTypeOK, Goto, Done
<1>1. ASSUME NEW o \in Orders, NEW csr \in Csrs, Finalize(w, o, csr)
      PROVE  Moves(w) /\ server' = server
  BY <1>1 DEF Finalize, order_update, Hold
<1>2. ASSUME \/ StoreCsr(w) \/ AskCA(w) \/ StoreCert(w) \/ StoreCertError(w) \/ SetValid(w)
             \/ SetInvalid(w) \/ PollCA(w)
      PROVE  Moves(w) /\ server' = server
  BY <1>2 DEF StoreCsr, certificate_new, AskCA, StoreCert, StoreCertError, certificate_add,
     SetValid, SetInvalid, order_update, Hold, PollCA, store
<1>3. ASSUME NEW o \in Orders, \/ Poll(w, o) \/ InvalidateOrder(w, o)
      PROVE  Moves(w) /\ server' = server
  BY <1>3 DEF Poll, InvalidateOrder, order_update, Hold, store
<1>4. ASSUME NEW o \in Orders, CleanRow(w, o) \/ PurgeRow(w, o) \/ DateRow(w, o)
      PROVE  Moves(w) /\ server' = server
  <2>1. pc' = [pc EXCEPT ![w] = pc'[w]] /\ loc' = [loc EXCEPT ![w] = loc'[w]]
    BY <1>4 DEF CleanRow, PurgeRow, DateRow, RowDone
  <2>2. \A v \in Worker \ {w} : held'[v] = held[v]
    BY <1>4 DEF CleanRow, PurgeRow, DateRow, certificate_add, certificate_delete, Hold
  <2> QED BY <1>4, <2>1, <2>2 DEF CleanRow, PurgeRow, DateRow
<1>5. ASSUME NEW x, NEW owner, NEW reason, Revoke(w, x, owner, reason) \/ TriggerReceive(w, x)
      PROVE  Moves(w) /\ server' = server
  BY <1>5 DEF Revoke, TriggerReceive, store
<1>6. ASSUME NEW purge, Cleanup(w, purge)
      PROVE  Moves(w) /\ server' = server
  BY <1>6 DEF Cleanup, store
<1>7. ASSUME DatesUpdate(w) \/ TriggerSearch(w)
      PROVE  Moves(w) /\ server' = server
  BY <1>7 DEF DatesUpdate, TriggerSearch, store
<1>8. ASSUME NEW o \in Orders, TriggerStore(w, o)
      PROVE  Moves(w) /\ server' = server
  BY <1>8 DEF TriggerStore, certificate_add, Hold
<1>9. ASSUME TriggerValid(w) \/ Save(w) \/ Crash(w)
      PROVE  Moves(w) /\ server' = server
  BY <1>9 DEF TriggerValid, order_update, Hold, Save, Crash
<1>10. ASSUME OpensslStep(w)
       PROVE  Moves(w) /\ server' = server
  BY <1>10 DEF OpensslStep, SignCertificate, BundleCertificate, CrlRead, CrlOpen, CrlWrite, store
<1> HIDE DEF Moves, TypeOK, StoreTypeOK, Goto, Done
<1> QED
  BY <1>1, <1>2, <1>3, <1>4, <1>5, <1>6, <1>7, <1>8, <1>9, <1>10
     DEF HandlerStep, Housekeeping, TriggerStep

\* A step is one of a process of the deployment, of the clock, or none.
LEMMA WhoSteps ==
  ASSUME TypeOK, [Next]_allvars
  PROVE  /\ server' = server
         /\ \/ UNCHANGED <<orders, certs, held, pc, loc, crashes, ca, submitted>>
            \/ \E w \in server.workers : w \in Worker /\ Moves(w)
<1>1. server.workers \subseteq Worker
  BY ServerType DEF TypeOK
<1>2. ASSUME NEW o \in Orders, CertificateExpires(o) \/ RowAges(o), UNCHANGED <<ca, submitted>>
      PROVE  UNCHANGED <<server, orders, certs, held, pc, loc, crashes, ca, submitted>>
  BY <1>2 DEF CertificateExpires, RowAges, store
<1>3. CASE UNCHANGED allvars
  BY <1>3 DEF allvars, store
<1> QED BY <1>1, <1>2, <1>3, OneMoves DEF Next

\* Processes that were not started stay at rest.
LEMMA OthersStep ==
  ASSUME TypeOK, OthersRest, [Next]_allvars
  PROVE  OthersRest'
BY WhoSteps DEF OthersRest, Moves

-----------------------------------------------------------------------------
(* What a process has at hand.                                             *)

\* The jobs go on with rows that they have read.
LEMMA RowDoneShape ==
  ASSUME StoreTypeOK, NEW w \in Worker, NEW o \in Orders, pc[w] \in Jobs, RowDone(w, o),
         \A p \in loc[w].todo : loc[w].rows[p] \in CertRow
  PROVE  \/ pc'[w] = "idle" /\ loc'[w] = Idle
         \/ /\ pc'[w] = pc[w] /\ loc'[w].todo = loc[w].todo \ {o}
            /\ \A p \in loc'[w].todo : loc'[w].rows[p] = loc[w].rows[p]
            /\ \A p \in loc'[w].todo : loc'[w].rows[p] \in CertRow
<1>1. loc[w].rows \in [Orders -> CertRow \cup {None}] /\ loc[w] \in Loc /\ loc[w].todo \subseteq Orders
  BY DEF StoreTypeOK, Loc
<1>2. CASE Done(w)
  BY <1>2 DEF Done, Goto, StoreTypeOK
<1>3. CASE Goto(w, pc[w], [loc[w] EXCEPT !.todo = @ \ {o}, !.rows[o] = None])
  <2> DEFINE l == [loc[w] EXCEPT !.todo = @ \ {o}, !.rows[o] = None]
  <2>1. l.todo = loc[w].todo \ {o} /\ l.rows = [loc[w].rows EXCEPT ![o] = None]
    BY <1>1 DEF Loc
  <2>2. pc'[w] = pc[w] /\ loc'[w] = l
    BY <1>3 DEF Goto, StoreTypeOK
  <2>3. \A p \in l.todo : l.rows[p] = loc[w].rows[p]
    BY <1>1, <2>1
  <2> QED BY <2>1, <2>2, <2>3
<1> QED BY <1>2, <1>3 DEF RowDone

\* The steps of process w leave it with what its next step takes.
LEMMA ShapeMoves ==
  ASSUME TypeOK, NEW w \in Worker, ProcessShape(w),
         \/ HandlerStep(w) \/ OpensslStep(w) \/ TriggerStep(w) \/ Save(w) \/ Crash(w)
  PROVE  ProcessShape(w)'
<1>0. /\ StoreTypeOK /\ loc[w] \in Loc /\ pc[w] \in Labels
      /\ pc \in [Worker -> Labels] /\ loc \in [Worker -> Loc] /\ held \in [Worker -> Held \cup {Nothing}]
      /\ submitted \subseteq X509 /\ CertificatesAssumption
      /\ \A o \in Orders : Exists(o) => certs[o] \in CertRow
  BY CertificatesAssumption DEF TypeOK, StoreTypeOK, Exists
<1> DEFINE Held0 == held'[w] # Nothing /\ held'[w].table = "orders" => held'[w].value # "ready"
           Steps == /\ pc'[w] \in Enrolling \cup {"triggerValid"} => loc'[w].order \in Orders
                    /\ pc'[w] \notin {"idle"} \cup Jobs => loc'[w].x \in X509
                    /\ pc'[w] \in Jobs => \A o \in loc'[w].todo : loc'[w].rows[o] \in CertRow
<1>shape. Held0 /\ Steps => ProcessShape(w)'
  BY DEF ProcessShape
<1>save. held' = held => Held0
  BY DEF ProcessShape
<1>add. ASSUME NEW o, NEW row, certificate_add(w, o, row)
        PROVE  Held0
  BY <1>0, <1>add DEF certificate_add, Hold, ProcessShape
<1>order. ASSUME NEW o, NEW st \in {"processing", "valid", "invalid"}, order_update(w, o, st)
          PROVE  Held0
  BY <1>0, <1>order DEF order_update, Hold
<1>goto. ASSUME NEW label, NEW l, Goto(w, label, l)
         PROVE  pc'[w] = label /\ loc'[w] = l
  BY <1>0, <1>goto DEF Goto
<1>done. Done(w) => Steps
  BY <1>goto DEF Done, Enrolling, Jobs
<1> HIDE DEF Held0
<1>1. ASSUME NEW o \in Orders, NEW csr \in Csrs, Finalize(w, o, csr)
      PROVE  ProcessShape(w)'
  <2> DEFINE l == [Idle EXCEPT !.order = o, !.x = [csr |-> csr, order |-> o]]
  <2>1. Goto(w, "storeCsr", l)
    BY <1>1 DEF Finalize
  <2>2. l.order = o /\ l.x \in X509
    BY DEF Idle, X509
  <2>3. Steps
    <3> HIDE DEF l
    <3> QED BY <1>goto, <2>1, <2>2 DEF Jobs
  <2> QED BY <1>1, <1>order, <1>shape, <2>3 DEF Finalize
<1>2. ASSUME StoreCsr(w) \/ AskCA(w) \/ PollCA(w) \/ SetValid(w) \/ SetInvalid(w)
      PROVE  ProcessShape(w)'
  <2>1. loc[w].order \in Orders /\ loc[w].x \in X509
    BY <1>2 DEF StoreCsr, AskCA, PollCA, SetValid, SetInvalid, At, ProcessShape, Enrolling, Jobs
  <2>2. Steps
    BY <1>2, <1>goto, <1>done, <2>1 DEF StoreCsr, AskCA, PollCA, SetValid, SetInvalid, Jobs
  <2>3. StoreCsr(w) => Held0
    BY <1>0 DEF StoreCsr, certificate_new, Hold, Held0
  <2> QED BY <1>2, <1>order, <1>save, <1>shape, <2>2, <2>3
          DEF AskCA, PollCA, SetValid, SetInvalid, store
<1>3. ASSUME StoreCert(w) \/ StoreCertError(w)
      PROVE  ProcessShape(w)'
  <2>1. loc[w].order \in Orders /\ loc[w].x \in X509
    BY <1>3 DEF StoreCert, StoreCertError, At, ProcessShape, Enrolling, Jobs
  <2>2. Steps
    BY <1>3, <1>goto, <1>done, <2>1 DEF StoreCert, StoreCertError, Jobs
  <2> QED BY <1>3, <1>add, <1>shape, <2>2 DEF StoreCert, StoreCertError
<1>4. ASSUME NEW o \in Orders, Poll(w, o)
      PROVE  ProcessShape(w)'
  <2>1. [csr |-> certs[o].csr, order |-> o] \in X509
    BY <1>0, <1>4 DEF Poll, CertRow, X509
  <2> DEFINE l == [Idle EXCEPT !.order = o, !.x = [csr |-> certs[o].csr, order |-> o]]
  <2>2. Goto(w, "pollCA", l) /\ l.order = o /\ l.x \in X509
    BY <1>4, <2>1 DEF Poll, Idle
  <2>3. Steps
    <3> HIDE DEF l
    <3> QED BY <1>goto, <2>2 DEF Jobs
  <2> QED BY <1>4, <1>save, <1>shape, <2>3 DEF Poll, store
<1>5. ASSUME NEW o \in Orders, InvalidateOrder(w, o)
      PROVE  ProcessShape(w)'
  <2>1. Steps
    BY <1>5 DEF InvalidateOrder, ProcessShape
  <2> QED BY <1>5, <1>order, <1>shape, <2>1 DEF InvalidateOrder
<1>6. ASSUME NEW o \in Orders, CleanRow(w, o) \/ PurgeRow(w, o) \/ DateRow(w, o)
      PROVE  ProcessShape(w)'
  <2>1. pc[w] \in Jobs /\ RowDone(w, o) /\ \A p \in loc[w].todo : loc[w].rows[p] \in CertRow
    BY <1>6 DEF CleanRow, PurgeRow, DateRow, At, ProcessShape, Jobs
  <2>2. Steps
    BY <1>0, <2>1, RowDoneShape DEF Jobs, Enrolling
  <2>3. Held0
    BY <1>6, <1>add, <1>save DEF CleanRow, PurgeRow, DateRow, certificate_delete
  <2> QED BY <1>shape, <2>2, <2>3
<1>7. ASSUME NEW x \in X509, NEW owner, NEW reason, Revoke(w, x, owner, reason) \/ TriggerReceive(w, x)
      PROVE  ProcessShape(w)'
  <2>1. Steps
    BY <1>7, <1>goto DEF Idle, Revoke, TriggerReceive, Enrolling, Jobs
  <2> QED BY <1>7, <1>save, <1>shape, <2>1 DEF Revoke, TriggerReceive, store
<1>8. ASSUME NEW purge \in BOOLEAN, Cleanup(w, purge)
      PROVE  ProcessShape(w)'
  <2> DEFINE list == {o \in expired_search : invalidation_check(certs[o], o, purge)}
             rows == [o \in Orders |-> IF o \in list THEN dated(certs[o]) ELSE None]
  <2>1. \A o \in list : o \in Orders /\ rows[o] \in CertRow
    BY <1>0, DatedRow DEF expired_search
  <2>2. Steps
    <3> DEFINE l == [Idle EXCEPT !.todo = list, !.rows = rows]
    <3>0. l.todo = list /\ l.rows = rows
      BY DEF Idle
    <3> HIDE DEF list, rows, l
    <3>1. Goto(w, IF purge THEN "purge" ELSE "clean", l)
      BY <1>8 DEF Cleanup, list, rows, l
    <3>2. pc'[w] \in {"purge", "clean"} /\ loc'[w].todo = list /\ loc'[w].rows = rows
      BY <1>goto, <3>0, <3>1
    <3> QED BY <2>1, <3>2 DEF Jobs, Enrolling
  <2> QED BY <1>8, <1>save, <1>shape, <2>2 DEF Cleanup, store
<1>9. ASSUME DatesUpdate(w)
      PROVE  ProcessShape(w)'
  <2> DEFINE list == {o \in Orders : Exists(o) /\ certs[o].dates = None /\ certs[o].raw # None}
             rows == [o \in Orders |-> IF o \in list THEN certs[o] ELSE None]
  <2>1. \A o \in list : o \in Orders /\ rows[o] \in CertRow
    BY <1>0
  <2>2. Steps
    <3> DEFINE l == [Idle EXCEPT !.todo = list, !.rows = rows]
    <3>0. l.todo = list /\ l.rows = rows
      BY DEF Idle
    <3> HIDE DEF list, rows, l
    <3>1. Goto(w, "date", l)
      BY <1>9 DEF DatesUpdate, list, rows, l
    <3>2. pc'[w] = "date" /\ loc'[w].todo = list /\ loc'[w].rows = rows
      BY <1>goto, <3>0, <3>1
    <3> QED BY <2>1, <3>2 DEF Jobs, Enrolling
  <2> QED BY <1>9, <1>save, <1>shape, <2>2 DEF DatesUpdate, store
<1>10. ASSUME TriggerSearch(w)
       PROVE  ProcessShape(w)'
  <2>1. loc[w].x \in X509
    BY <1>10 DEF TriggerSearch, At, ProcessShape, Jobs
  <2>2. Steps
    BY <1>0, <1>10, <1>goto, <1>done, <2>1 DEF TriggerSearch, Loc, Jobs, Enrolling
  <2> QED BY <1>10, <1>save, <1>shape, <2>2 DEF TriggerSearch, store
<1>11. ASSUME NEW o \in Orders, TriggerStore(w, o)
       PROVE  ProcessShape(w)'
  <2>1. loc[w].x \in X509
    BY <1>11 DEF TriggerStore, At, ProcessShape, Jobs
  <2>2. Steps
    <3>1. /\ pc'[w] = "triggerValid"
          /\ loc'[w] = [loc[w] EXCEPT !.order = o, !.todo = @ \ {o}]
      BY <1>11, <1>goto DEF TriggerStore
    <3>2. loc'[w].order = o /\ loc'[w].x = loc[w].x
      BY <1>0, <3>1 DEF Loc
    <3> QED BY <2>1, <3>1, <3>2 DEF Jobs, Enrolling
  <2> QED BY <1>11, <1>add, <1>shape, <2>2 DEF TriggerStore
<1>12. ASSUME TriggerValid(w)
       PROVE  ProcessShape(w)'
  <2>1. loc[w].x \in X509
    BY <1>12 DEF TriggerValid, At, ProcessShape, Jobs
  <2>2. Steps
    BY <1>0, <1>12, <1>goto, <1>done, <2>1 DEF TriggerValid, Loc, Jobs, Enrolling
  <2> QED BY <1>12, <1>order, <1>shape, <2>2 DEF TriggerValid
<1>13. ASSUME OpensslStep(w)
       PROVE  ProcessShape(w)'
  <2>1. Steps
    <3>1. pc[w] \in {"enroll", "bundle"} => loc[w].order \in Orders
      BY DEF ProcessShape, Enrolling
    <3>2. pc[w] \in {"enroll", "bundle", "crlRead", "crlOpen", "crlWrite"} => loc[w].x \in X509
      BY DEF ProcessShape, Jobs
    <3> QED
      BY <1>0, <1>13, <1>goto, <1>done, <3>1, <3>2
         DEF OpensslStep, SignCertificate, BundleCertificate, CrlRead, CrlOpen, CrlWrite, At,
             Loc, Jobs, Enrolling
  <2>2. held' = held
    BY <1>13 DEF OpensslStep, SignCertificate, BundleCertificate, CrlRead, CrlOpen, CrlWrite, store
  <2> QED BY <1>save, <1>shape, <2>1, <2>2
<1>14. ASSUME Save(w) \/ Crash(w)
       PROVE  ProcessShape(w)'
  <2>1. Steps
    BY <1>14, <1>done DEF Save, Crash, ProcessShape
  <2>2. Held0
    BY <1>0, <1>14 DEF Save, Crash, Held0
  <2> QED BY <1>shape, <2>1, <2>2
<1> QED
  BY <1>1, <1>2, <1>3, <1>4, <1>5, <1>6, <1>7, <1>8, <1>9, <1>10, <1>11, <1>12, <1>13, <1>14
     DEF HandlerStep, Housekeeping, TriggerStep

-----------------------------------------------------------------------------
(* Where the certificates of a row come from.                              *)

\* The certificates in row o, those that are to be saved to it, and those that
\* a task of process w will write to it.
RowCerts(o) == IF Exists(o) THEN Held509(certs[o]) ELSE {}

HeldHand(w, o) == IF InSave(w, o) THEN Held509(held[w].value) ELSE {}

LocHand(w, o) ==
    {x \in X509 :
        \/ pc[w] \in Enrolling /\ loc[w].order = o /\ x = loc[w].x
        \/ pc[w] \in Triggering /\ o \in loc[w].todo /\ x = loc[w].x
        \/ pc[w] \in Jobs /\ o \in loc[w].todo /\ x \in Held509(loc[w].rows[o])}

\* Where an enrollment has a CSR, and no certificate of it.
Signing == {"storeCsr", "enroll", "storeError"}

\* What process w finds, or has in hand, that the CA has issued.
Sources(w, o) ==
    RowCerts(o) \cup HeldHand(w, o) \cup (IF pc[w] \in Signing THEN {} ELSE LocHand(w, o))

\* Key k is that of the CSR in row o, or of one that w brings along.
KeyAt(w, o, k) ==
    \/ Exists(o) /\ certs[o].csr.key = k
    \/ InSave(w, o) /\ held[w].value.csr.key = k
    \/ \E x \in LocHand(w, o) : x.csr.key = k

\* A step of w puts nothing into row o, or the object to be saved, that was not
\* there or in hand; ...
TableFlow(w, o) ==
    /\ RowCerts(o)' \subseteq Sources(w, o)
    /\ HeldHand(w, o)' \subseteq Sources(w, o)
    /\ Exists(o)' => KeyAt(w, o, certs'[o].csr.key)
    /\ InSave(w, o)' => KeyAt(w, o, held'[w].value.csr.key)

\* ... and takes nothing into its hand but what it has found or asked for, or,
\* with the CSR of a new enrollment, what it is going to ask for.
LocFlow(w, o) ==
    \A x \in LocHand(w, o)' :
        \/ x \in Sources(w, o)
        \/ /\ x \in LocHand(w, o)
           /\ pc'[w] \in Signing \/ x \in disk' \/ server.handler # "openssl"
        \/ /\ pc'[w] = "storeCsr" /\ x = loc'[w].x
           /\ orders[o] = "ready" /\ orders'[o] # "ready"
        \/ /\ pc'[w] \in {"pollCA", "triggerStore"}
           /\ Exists(o) /\ x.csr.key = certs[o].csr.key

\* A row holds certificates.
LEMMA HeldCerts ==
  ASSUME NEW row \in CertRow
  PROVE  Held509(row) \subseteq X509
BY DEF CertRow, Held509

\* InHand is what is to be saved and what the task will write.
LEMMA HandParts ==
  ASSUME StoreTypeOK, NEW w \in Worker, NEW o \in Orders
  PROVE  InHand(w, o) = LocHand(w, o) \cup HeldHand(w, o)
<1>1. InSave(w, o) => held[w].value \in CertRow
  BY DEF InSave, StoreTypeOK, Held
<1> QED BY <1>1, HeldCerts DEF InHand, LocHand, HeldHand

\* Tables that stay as they are.
LEMMA FlowKeep ==
  ASSUME NEW w \in Worker, NEW o \in Orders, UNCHANGED <<certs, held>>
  PROVE  TableFlow(w, o)
BY DEF TableFlow, RowCerts, HeldHand, Sources, KeyAt, Exists, InSave

\* A step that writes the order table, or drops what was to be saved.
LEMMA FlowOrders ==
  ASSUME NEW w \in Worker, NEW o \in Orders, certs' = certs, ~ InSave(w, o)'
  PROVE  TableFlow(w, o)
BY DEF TableFlow, RowCerts, HeldHand, Sources, KeyAt, Exists

\* A row written where there was one, with what the process has in hand.
LEMMA FlowAdd ==
  ASSUME StoreTypeOK, NEW w \in Worker, NEW o \in Orders, NEW p \in Orders, NEW row,
         certificate_add(w, p, row),
         Exists(p) => row.csr = certs[p].csr /\ Held509(row) \subseteq Sources(w, p)
  PROVE  TableFlow(w, o)
<1>1. CASE ~ Exists(p)
  BY <1>1, FlowKeep DEF certificate_add
<1>2. CASE Exists(p)
  <2>1. certs' = [certs EXCEPT ![p] = row]
    BY <1>2 DEF certificate_add
  <2>2. held'[w] = [table |-> "certs", row |-> p, value |-> row]
    BY <1>2 DEF certificate_add, Hold, StoreTypeOK
  <2>3. held'[w].row = p /\ held'[w].value = row
    BY <2>2
  <2>4. InSave(w, o)' => o = p
    BY <2>3 DEF InSave
  <2>5. CASE o = p
    <3>1. certs'[o] = row
      BY <2>1, <2>5 DEF StoreTypeOK
    <3> QED BY <1>2, <2>3, <2>5, <3>1 DEF TableFlow, RowCerts, HeldHand, KeyAt, Exists
  <2>6. CASE o # p
    <3>1. certs'[o] = certs[o]
      BY <2>1, <2>6 DEF StoreTypeOK
    <3> QED BY <2>4, <2>6, <3>1 DEF TableFlow, RowCerts, HeldHand, KeyAt, Sources, Exists
  <2> QED BY <2>5, <2>6
<1> QED BY <1>1, <1>2

\* What every step of a process takes and writes.
LEMMA FlowStep ==
  ASSUME TypeOK, NEW w \in Worker, ProcessShape(w), NEW o \in Orders,
         \/ HandlerStep(w) \/ OpensslStep(w) \/ TriggerStep(w) \/ Save(w) \/ Crash(w)
  PROVE  TableFlow(w, o) /\ LocFlow(w, o)
<1>0. /\ StoreTypeOK /\ loc[w] \in Loc /\ pc[w] \in Labels
      /\ pc \in [Worker -> Labels] /\ loc \in [Worker -> Loc]
      /\ held \in [Worker -> Held \cup {Nothing}]
      /\ orders \in [Orders -> OrderStatus]
      /\ \A p \in Orders : Exists(p) => certs[p] \in CertRow
  BY DEF TypeOK, StoreTypeOK, Exists
<1>rest. ASSUME pc'[w] \notin Enrolling \cup Triggering \cup Jobs
         PROVE  LocFlow(w, o)
  BY <1>rest DEF LocFlow, LocHand
<1>done. Done(w) => LocFlow(w, o)
  BY <1>0, <1>rest DEF Done, Goto, Enrolling, Triggering, Jobs
<1>same. ASSUME NEW label, Goto(w, label, loc[w]), pc[w] \in Enrolling, label \in Enrolling,
                pc[w] \in Signing => label \in Signing \/ server.handler # "openssl" \/ loc[w].x \in disk'
         PROVE  LocFlow(w, o)
  <2>1. pc'[w] = label /\ loc'[w] = loc[w]
    BY <1>0, <1>same DEF Goto
  <2>2. LocHand(w, o)' \subseteq LocHand(w, o) /\ \A x \in LocHand(w, o) : x = loc[w].x
    BY <1>same, <2>1 DEF LocHand, Enrolling, Triggering, Jobs
  <2> QED BY <1>same, <2>1, <2>2 DEF LocFlow, Sources
<1>jobs. ASSUME NEW p \in Orders, pc[w] \in Jobs, RowDone(w, p)
         PROVE  LocFlow(w, o)
  <2>1. \A q \in loc[w].todo : loc[w].rows[q] \in CertRow
    BY <1>jobs DEF ProcessShape
  <2>2. \/ pc'[w] = "idle"
        \/ /\ pc'[w] = pc[w] /\ loc'[w].todo = loc[w].todo \ {p}
           /\ \A q \in loc'[w].todo : loc'[w].rows[q] = loc[w].rows[q]
    BY <1>0, <1>jobs, <2>1, RowDoneShape
  <2>3. LocHand(w, o)' \subseteq LocHand(w, o) /\ pc[w] \notin Signing
    BY <1>jobs, <2>2 DEF LocHand, Enrolling, Triggering, Jobs, Signing
  <2> QED BY <2>3 DEF LocFlow, Sources
<1>fresh. ASSUME NEW label, NEW list \in SUBSET Orders, NEW rows, NEW l,
                 l = [Idle EXCEPT !.todo = list, !.rows = rows],
                 Goto(w, label, l), label \in Jobs,
                 \A p \in list : Exists(p) /\ Held509(rows[p]) \subseteq Held509(certs[p])
          PROVE  LocFlow(w, o)
  <2>1. pc'[w] = label /\ loc'[w].todo = list /\ loc'[w].rows = rows
    BY <1>0, <1>fresh DEF Goto, Idle
  <2>2. LocHand(w, o)' \subseteq RowCerts(o)
    BY <1>fresh, <2>1 DEF LocHand, RowCerts, Enrolling, Triggering, Jobs
  <2> QED BY <2>2 DEF LocFlow, Sources
<1>add. ASSUME NEW p \in Orders, NEW row, certificate_add(w, p, row),
               Exists(p) => row.csr = certs[p].csr /\ Held509(row) \subseteq Sources(w, p)
        PROVE  TableFlow(w, o)
  BY <1>0, <1>add, FlowAdd
<1>order. ASSUME NEW p, NEW st, order_update(w, p, st)
          PROVE  TableFlow(w, o)
  <2>1. held'[w] = [table |-> "orders", row |-> p, value |-> st]
    BY <1>0, <1>order DEF order_update, Hold
  <2>2. ~ InSave(w, o)'
    BY <2>1 DEF InSave
  <2> QED BY <1>order, <2>2, FlowOrders DEF order_update
<1> DEFINE Goal == TableFlow(w, o) /\ LocFlow(w, o)
<1>1. ASSUME NEW p \in Orders, NEW csr \in Csrs, Finalize(w, p, csr)
      PROVE  Goal
  <2> DEFINE l == [Idle EXCEPT !.order = p, !.x = [csr |-> csr, order |-> p]]
  <2>1. pc'[w] = "storeCsr" /\ loc'[w] = l
    BY <1>0, <1>1 DEF Finalize, Goto
  <2>2. l.order = p
    BY DEF Idle
  <2>3. orders[p] = "ready" /\ orders'[p] = "processing"
    BY <1>0, <1>1 DEF Finalize, order_update
  <2>4. \A x \in LocHand(w, o)' : x = loc'[w].x /\ o = p
    <3> HIDE DEF l
    <3> QED BY <2>1, <2>2 DEF LocHand, Triggering, Jobs
  <2>5. LocFlow(w, o)
    BY <2>1, <2>3, <2>4 DEF LocFlow
  <2>6. order_update(w, p, "processing")
    BY <1>1 DEF Finalize
  <2> QED BY <1>order, <2>5, <2>6
<1>2. ASSUME StoreCsr(w)
      PROVE  Goal
  <2> DEFINE p == loc[w].order
             row == [csr |-> loc[w].x.csr, cert |-> None, raw |-> None, dates |-> None, polled |-> FALSE]
  <2>1. p \in Orders /\ loc[w].x \in X509 /\ pc[w] = "storeCsr"
    BY <1>2 DEF StoreCsr, At, ProcessShape, Enrolling, Jobs
  <2>2. row.csr = loc[w].x.csr /\ Held509(row) = {}
    BY DEF Held509
  <2>3. certs' = [certs EXCEPT ![p] = row] /\ held'[w] = [table |-> "certs", row |-> p, value |-> row]
    BY <1>0, <1>2 DEF StoreCsr, certificate_new, Hold
  <2> HIDE DEF row
  <2>4. held'[w].row = p /\ held'[w].value = row
    BY <2>3
  <2>5. TableFlow(w, o)
    <3>1. CASE o = p
      <4>1. certs'[o] = row
        BY <1>0, <2>3, <3>1 DEF StoreTypeOK
      <4>2. loc[w].x \in LocHand(w, o)
        BY <2>1, <3>1 DEF LocHand, Enrolling
      <4> QED BY <2>2, <2>4, <3>1, <4>1, <4>2 DEF TableFlow, RowCerts, HeldHand, KeyAt, Exists
    <3>2. CASE o # p
      <4>1. certs'[o] = certs[o] /\ ~ InSave(w, o)'
        BY <1>0, <2>3, <2>4, <3>2 DEF StoreTypeOK, InSave
      <4> QED BY <4>1 DEF TableFlow, RowCerts, HeldHand, KeyAt, Sources, Exists
    <3> QED BY <3>1, <3>2
  <2>6. LocFlow(w, o)
    BY <1>2, <1>done, <1>same, <2>1 DEF StoreCsr, Enrolling, Signing
  <2> QED BY <2>5, <2>6
<1>3. ASSUME AskCA(w) \/ PollCA(w)
      PROVE  Goal
  BY <1>3, <1>same, FlowKeep DEF AskCA, PollCA, At, store, Enrolling, Signing
<1>4. ASSUME StoreCert(w)
      PROVE  Goal
  <2> DEFINE p == loc[w].order
             row == [certs[p] EXCEPT !.cert = loc[w].x, !.raw = loc[w].x, !.dates = loc[w].x]
  <2>1. p \in Orders /\ loc[w].x \in X509 /\ pc[w] = "storeCert"
    BY <1>4 DEF StoreCert, At, ProcessShape, Enrolling, Jobs
  <2>2. loc[w].x \in Sources(w, p)
    BY <2>1 DEF Sources, LocHand, Signing, Enrolling
  <2>3. Exists(p) => row.csr = certs[p].csr /\ row.cert = loc[w].x /\ row.raw = loc[w].x
                        /\ row.dates = loc[w].x
    BY <1>0, <2>1 DEF CertRow
  <2>4. certificate_add(w, p, row)
    BY <1>4 DEF StoreCert
  <2> HIDE DEF row
  <2>5. Exists(p) => row.csr = certs[p].csr /\ Held509(row) \subseteq Sources(w, p)
    BY <2>2, <2>3 DEF Held509
  <2>6. TableFlow(w, o)
    BY <1>add, <2>1, <2>4, <2>5
  <2> QED BY <1>4, <1>same, <2>1, <2>6 DEF StoreCert, Enrolling, Signing
<1>5. ASSUME StoreCertError(w)
      PROVE  Goal
  <2> DEFINE p == loc[w].order
             row == [certs[p] EXCEPT !.polled = server.handler = "asynchronous"]
  <2>1. p \in Orders /\ pc[w] \in {"storeError", "storeReject"}
    BY <1>5 DEF StoreCertError, At, ProcessShape, Enrolling
  <2>3. Exists(p) => row.csr = certs[p].csr /\ row.cert = certs[p].cert /\ row.raw = certs[p].raw
                        /\ row.dates = certs[p].dates
    BY <1>0, <2>1 DEF CertRow
  <2>4. certificate_add(w, p, row)
    BY <1>5 DEF StoreCertError
  <2> HIDE DEF row
  <2>5. Exists(p) => row.csr = certs[p].csr /\ Held509(row) \subseteq Sources(w, p)
    BY <2>3 DEF Held509, Sources, RowCerts
  <2>6. TableFlow(w, o)
    BY <1>add, <2>1, <2>4, <2>5
  <2> QED BY <1>5, <1>done, <1>same, <2>1, <2>6 DEF StoreCertError, At, Enrolling, Signing
<1>6. ASSUME SetValid(w) \/ SetInvalid(w)
      PROVE  Goal
  BY <1>6, <1>done, <1>order DEF SetValid, SetInvalid
<1>7. ASSUME NEW p \in Orders, Poll(w, p)
      PROVE  Goal
  <2> DEFINE l == [Idle EXCEPT !.order = p, !.x = [csr |-> certs[p].csr, order |-> p]]
  <2>1. pc'[w] = "pollCA" /\ loc'[w] = l /\ Exists(p) /\ UNCHANGED <<certs, held>>
    BY <1>0, <1>7 DEF Poll, Goto, store
  <2>2. l.order = p /\ l.x.csr = certs[p].csr
    BY DEF Idle
  <2>3. \A x \in LocHand(w, o)' : o = p /\ x.csr = certs[p].csr
    <3> HIDE DEF l
    <3> QED BY <2>1, <2>2 DEF LocHand, Triggering, Jobs
  <2> QED BY <2>1, <2>3, FlowKeep DEF LocFlow
<1>8. ASSUME NEW p \in Orders, InvalidateOrder(w, p)
      PROVE  Goal
  <2>1. pc'[w] = "idle"
    BY <1>8 DEF InvalidateOrder, At
  <2> QED BY <1>8, <1>order, <1>rest, <2>1 DEF InvalidateOrder, Enrolling, Triggering, Jobs
<1>9. ASSUME NEW p \in Orders, CleanRow(w, p)
      PROVE  Goal
  <2> DEFINE old == loc[w].rows[p]
             row == [certs[p] EXCEPT !.cert = Removal, !.raw = old.raw, !.dates = old.dates]
  <2>1. pc[w] = "clean" /\ p \in loc[w].todo /\ old \in CertRow /\ certificate_add(w, p, row)
    BY <1>9 DEF CleanRow, At, ProcessShape, Jobs
  <2>2. old.raw \in X509 \cup {None} /\ old.dates \in X509 \cup {None}
    BY <2>1 DEF CertRow
  <2>3. Exists(p) => row.csr = certs[p].csr /\ row.cert = Removal /\ row.raw = old.raw
                        /\ row.dates = old.dates
    BY <1>0, <2>2 DEF CertRow
  <2>4. Held509(old) \subseteq Sources(w, p)
    BY <2>1, HeldCerts DEF Sources, LocHand, Jobs, Signing
  <2> HIDE DEF row
  <2>5. Exists(p) => row.csr = certs[p].csr /\ Held509(row) \subseteq Sources(w, p)
    BY <2>3, <2>4 DEF Held509
  <2> QED BY <1>9, <1>add, <1>jobs, <2>1, <2>5 DEF CleanRow, Jobs
<1>10. ASSUME NEW p \in Orders, DateRow(w, p)
       PROVE  Goal
  <2> DEFINE old == loc[w].rows[p]
             row == [certs[p] EXCEPT !.cert = old.cert, !.raw = old.raw, !.dates = old.raw]
  <2>1. pc[w] = "date" /\ p \in loc[w].todo /\ old \in CertRow /\ certificate_add(w, p, row)
    BY <1>10 DEF DateRow, At, ProcessShape, Jobs
  <2>2. old.raw \in X509 \cup {None} /\ old.cert \in X509 \cup {None, Removal}
    BY <2>1 DEF CertRow
  <2>3. Exists(p) => row.csr = certs[p].csr /\ row.cert = old.cert /\ row.raw = old.raw
                        /\ row.dates = old.raw
    BY <1>0, <2>2 DEF CertRow
  <2>4. Held509(old) \subseteq Sources(w, p)
    BY <2>1, HeldCerts DEF Sources, LocHand, Jobs, Signing
  <2> HIDE DEF row
  <2>5. Exists(p) => row.csr = certs[p].csr /\ Held509(row) \subseteq Sources(w, p)
    BY <2>3, <2>4 DEF Held509
  <2> QED BY <1>10, <1>add, <1>jobs, <2>1, <2>5 DEF DateRow, Jobs
<1>11. ASSUME NEW p \in Orders, PurgeRow(w, p)
       PROVE  Goal
  <2>1. held' = held /\ certs' = [certs EXCEPT ![p] = None]
    BY <1>11 DEF PurgeRow, certificate_delete
  <2>2. certs'[o] = certs[o] \/ ~ Exists(o)'
    BY <1>0, <2>1 DEF Exists, StoreTypeOK
  <2>3. TableFlow(w, o)
    BY <2>1, <2>2 DEF TableFlow, RowCerts, HeldHand, InSave, KeyAt, Sources, Exists
  <2> QED BY <1>11, <1>jobs, <2>3 DEF PurgeRow, At, Jobs
<1>12. ASSUME NEW x \in X509, NEW owner, NEW reason, Revoke(w, x, owner, reason) \/ TriggerReceive(w, x)
       PROVE  Goal
  <2>1. pc'[w] \in {"crlRead", "triggerSearch"} /\ UNCHANGED <<certs, held>>
    BY <1>0, <1>12 DEF Revoke, TriggerReceive, Goto, store
  <2> QED BY <1>rest, <2>1, FlowKeep DEF Enrolling, Triggering, Jobs
<1>13. ASSUME NEW purge \in BOOLEAN, Cleanup(w, purge)
       PROVE  Goal
  <2> DEFINE list == {p \in expired_search : invalidation_check(certs[p], p, purge)}
             rows == [p \in Orders |-> IF p \in list THEN dated(certs[p]) ELSE None]
             l == [Idle EXCEPT !.todo = list, !.rows = rows]
             label == IF purge THEN "purge" ELSE "clean"
  <2>1. list \in SUBSET Orders /\ \A p \in list : Exists(p) /\ rows[p] = dated(certs[p])
    BY DEF expired_search
  <2>2. \A p \in list : Held509(rows[p]) \subseteq Held509(certs[p])
    BY <1>0, <2>1, DatedRow DEF Held509
  <2>3. Goto(w, label, l) /\ UNCHANGED <<certs, held>> /\ label \in Jobs
    BY <1>13 DEF Cleanup, Jobs, store
  <2> HIDE DEF list, rows, label
  <2>4. LocFlow(w, o)
    BY <1>fresh, <2>1, <2>2, <2>3
  <2> QED BY <2>3, <2>4, FlowKeep
<1>14. ASSUME DatesUpdate(w)
       PROVE  Goal
  <2> DEFINE list == {p \in Orders : Exists(p) /\ certs[p].dates = None /\ certs[p].raw # None}
             rows == [p \in Orders |-> IF p \in list THEN certs[p] ELSE None]
             l == [Idle EXCEPT !.todo = list, !.rows = rows]
  <2>1. list \in SUBSET Orders /\ \A p \in list : Exists(p) /\ rows[p] = certs[p]
    OBVIOUS
  <2>2. Goto(w, "date", l) /\ UNCHANGED <<certs, held>>
    BY <1>14 DEF DatesUpdate, store
  <2> HIDE DEF list, rows
  <2>3. LocFlow(w, o)
    BY <1>fresh, <2>1, <2>2 DEF Jobs
  <2> QED BY <2>2, <2>3, FlowKeep
<1>15. ASSUME TriggerSearch(w)
       PROVE  Goal
  <2> DEFINE list == certname_lookup(loc[w].x)
  <2>1. UNCHANGED <<certs, held>>
    BY <1>15 DEF TriggerSearch, store
  <2>2. CASE Done(w)
    BY <1>done, <2>1, <2>2, FlowKeep
  <2>3. CASE Goto(w, "triggerStore", [loc[w] EXCEPT !.todo = list])
    <3>1. pc'[w] = "triggerStore" /\ loc'[w].todo = list /\ loc'[w].x = loc[w].x
      BY <1>0, <2>3 DEF Goto, Loc
    <3>2. \A x \in LocHand(w, o)' : Exists(o) /\ x.csr.key = certs[o].csr.key
      BY <3>1 DEF LocHand, Enrolling, Jobs, certname_lookup, processing_search
    <3> QED BY <2>1, <3>1, <3>2, FlowKeep DEF LocFlow
  <2> QED BY <1>15, <2>2, <2>3 DEF TriggerSearch
<1>16. ASSUME NEW p \in Orders, TriggerStore(w, p)
       PROVE  Goal
  <2> DEFINE row == [certs[p] EXCEPT !.cert = loc[w].x, !.raw = loc[w].x]
  <2>1. pc[w] = "triggerStore" /\ p \in loc[w].todo /\ loc[w].x \in X509 /\ certificate_add(w, p, row)
    BY <1>16 DEF TriggerStore, At, ProcessShape, Jobs
  <2>2. loc[w].x \in Sources(w, p)
    BY <2>1 DEF Sources, LocHand, Signing, Triggering
  <2>3. Exists(p) => row.csr = certs[p].csr /\ row.cert = loc[w].x /\ row.raw = loc[w].x
                        /\ row.dates = certs[p].dates
    BY <1>0, <2>1 DEF CertRow
  <2> HIDE DEF row
  <2>4. Exists(p) => row.csr = certs[p].csr /\ Held509(row) \subseteq Sources(w, p)
    BY <2>2, <2>3 DEF Held509, Sources, RowCerts
  <2>5. pc'[w] = "triggerValid" /\ loc'[w].todo = loc[w].todo \ {p} /\ loc'[w].x = loc[w].x
    BY <1>0, <1>16 DEF TriggerStore, Goto, Loc
  <2>6. LocHand(w, o)' \subseteq LocHand(w, o)
    BY <2>1, <2>5 DEF LocHand, Enrolling, Triggering, Jobs
  <2>7. LocFlow(w, o)
    BY <2>1, <2>6 DEF LocFlow, Sources, Signing
  <2> QED BY <1>add, <2>1, <2>4, <2>7
<1>17. ASSUME TriggerValid(w)
       PROVE  Goal
  <2>1. CASE Done(w)
    BY <1>17, <1>done, <1>order, <2>1 DEF TriggerValid
  <2>2. CASE Goto(w, "triggerStore", [loc[w] EXCEPT !.order = None])
    <3>1. pc'[w] = "triggerStore" /\ loc'[w].todo = loc[w].todo /\ loc'[w].x = loc[w].x
      BY <1>0, <2>2 DEF Goto, Loc
    <3>2. pc[w] = "triggerValid"
      BY <1>17 DEF TriggerValid, At
    <3>3. LocHand(w, o)' \subseteq LocHand(w, o)
      BY <3>1, <3>2 DEF LocHand, Enrolling, Triggering, Jobs
    <3> QED BY <1>17, <1>order, <3>2, <3>3 DEF TriggerValid, LocFlow, Sources, Signing
  <2> QED BY <1>17, <2>1, <2>2 DEF TriggerValid
<1>18. ASSUME SignCertificate(w) \/ BundleCertificate(w)
       PROVE  Goal
  BY <1>18, <1>same, FlowKeep DEF SignCertificate, BundleCertificate, At, store, Enrolling, Signing
<1>19. ASSUME CrlRead(w) \/ CrlOpen(w) \/ CrlWrite(w)
       PROVE  Goal
  <2>1. pc'[w] \in {"idle", "crlOpen", "crlWrite"} /\ UNCHANGED <<certs, held>>
    BY <1>0, <1>19 DEF CrlRead, CrlOpen, CrlWrite, Goto, Done, store
  <2> QED BY <1>rest, <2>1, FlowKeep DEF Enrolling, Triggering, Jobs
<1>20. ASSUME Save(w)
       PROVE  Goal
  <2>1. held'[w] = Nothing /\ pc' = pc /\ loc' = loc
    BY <1>0, <1>20 DEF Save
  <2>2. ~ InSave(w, o)'
    BY <2>1 DEF InSave
  <2>3. certs'[o] = certs[o] \/ (InSave(w, o) /\ certs'[o] = held[w].value)
    <3>1. CASE held[w].table = "orders"
      BY <1>0, <1>20, <3>1 DEF Save
    <3>2. CASE held[w].table = "certs" /\ certs' = [certs EXCEPT ![held[w].row] = held[w].value]
      BY <1>0, <1>20, <3>2 DEF Save, InSave, StoreTypeOK
    <3> QED BY <1>20, <3>1, <3>2 DEF Save
  <2>4. TableFlow(w, o)
    BY <2>2, <2>3 DEF TableFlow, RowCerts, HeldHand, KeyAt, Sources, Exists
  <2>5. LocHand(w, o)' = LocHand(w, o)
    BY <2>1 DEF LocHand
  <2> QED BY <2>1, <2>4, <2>5 DEF LocFlow, Sources
<1>21. ASSUME Crash(w)
       PROVE  Goal
  <2>1. certs' = certs /\ held'[w] = Nothing
    BY <1>0, <1>21 DEF Crash
  <2>2. ~ InSave(w, o)'
    BY <2>1 DEF InSave
  <2> QED BY <1>21, <1>done, <2>1, <2>2, FlowOrders DEF Crash
<1> HIDE DEF Goal
<1>22. Goal
  BY <1>1, <1>2, <1>3, <1>4, <1>5, <1>6, <1>7, <1>8, <1>9, <1>10, <1>11, <1>12, <1>13, <1>14,
     <1>15, <1>16, <1>17, <1>18, <1>19, <1>20, <1>21
     DEF HandlerStep, Housekeeping, TriggerStep, OpensslStep
<1> QED BY <1>22 DEF Goal

-----------------------------------------------------------------------------
(* One key for an order.                                                   *)

\* A step of process w.
Step(w) ==
    \/ HandlerStep(w)
    \/ OpensslStep(w) /\ UNCHANGED submitted
    \/ TriggerStep(w)
    \/ Save(w) /\ UNCHANGED <<ca, submitted>>
    \/ Crash(w)

\* Every step is one of a process, or of the clock, or none.
LEMMA NextCases ==
  ASSUME TypeOK, [Next]_allvars
  PROVE  /\ server.workers \subseteq Worker
         /\ \/ \E w \in server.workers : Step(w)
            \/ \E o \in Orders : /\ CertificateExpires(o) \/ RowAges(o)
                                 /\ UNCHANGED <<ca, submitted>>
            \/ UNCHANGED allvars
BY ServerType DEF Next, Step, TypeOK

\* The clock writes to no table, and to nothing a process has.
LEMMA ClockKeeps ==
  ASSUME \/ \E o \in Orders : /\ CertificateExpires(o) \/ RowAges(o)
                              /\ UNCHANGED <<ca, submitted>>
         \/ UNCHANGED allvars
  PROVE  /\ UNCHANGED <<orders, certs, held, pc, loc, server, crashes, disk, crl, revoked, submitted>>
         /\ expired \subseteq expired' /\ aged \subseteq aged'
BY DEF CertificateExpires, RowAges, allvars, store, clock, ca

\* What holds of every step of a process.
LEMMA StepFacts ==
  ASSUME TypeOK, NEW w \in Worker, ProcessShape(w), Step(w)
  PROVE  /\ Moves(w) /\ server' = server /\ ProcessShape(w)'
         /\ \A o \in Orders : TableFlow(w, o) /\ LocFlow(w, o)
BY OneMoves, ShapeMoves, FlowStep DEF Step

\* What a process has at hand survives every step.
LEMMA ShapeStep ==
  ASSUME TypeOK, \A w \in Worker : ProcessShape(w), [Next]_allvars
  PROVE  \A w \in Worker : ProcessShape(w)'
<1>1. ASSUME NEW w \in Worker, Step(w)
      PROVE  \A v \in Worker : ProcessShape(v)'
  BY <1>1, StepFacts DEF Moves, ProcessShape
<1>2. ASSUME \/ \E o \in Orders : /\ CertificateExpires(o) \/ RowAges(o)
                                  /\ UNCHANGED <<ca, submitted>>
             \/ UNCHANGED allvars
      PROVE  \A v \in Worker : ProcessShape(v)'
  BY <1>2, ClockKeeps DEF ProcessShape
<1> QED BY <1>1, <1>2, NextCases

\* No order becomes ready.
LEMMA ReadyBefore ==
  ASSUME TypeOK, NEW w \in Worker, ProcessShape(w), Step(w), NEW o \in Orders, orders'[o] = "ready"
  PROVE  orders[o] = "ready"
<1>0. orders \in [Orders -> OrderStatus] /\ held[w] \in Held \cup {Nothing}
  BY DEF TypeOK, StoreTypeOK
<1>order. ASSUME NEW p, NEW st \in {"processing", "valid", "invalid"}, order_update(w, p, st)
          PROVE  orders[o] = "ready"
  BY <1>0, <1>order DEF order_update
<1>1. ASSUME NEW p \in Orders, NEW csr \in Csrs, Finalize(w, p, csr)
      PROVE  orders[o] = "ready"
  BY <1>1, <1>order DEF Finalize
<1>2. ASSUME SetValid(w) \/ SetInvalid(w) \/ TriggerValid(w)
      PROVE  orders[o] = "ready"
  BY <1>2, <1>order DEF SetValid, SetInvalid, TriggerValid
<1>3. ASSUME NEW p \in Orders, InvalidateOrder(w, p)
      PROVE  orders[o] = "ready"
  BY <1>3, <1>order DEF InvalidateOrder
<1>4. ASSUME \/ StoreCsr(w) \/ AskCA(w) \/ StoreCert(w) \/ StoreCertError(w) \/ PollCA(w)
             \/ \E p \in Orders : Poll(w, p) \/ CleanRow(w, p) \/ PurgeRow(w, p) \/ DateRow(w, p)
             \/ \E x \in X509, owner \in BOOLEAN, reason \in {0, 2} : Revoke(w, x, owner, reason)
             \/ \E purge \in BOOLEAN : Cleanup(w, purge)
             \/ DatesUpdate(w) \/ OpensslStep(w) \/ TriggerSearch(w) \/ Crash(w)
             \/ \E x \in X509 : TriggerReceive(w, x)
             \/ \E p \in Orders : TriggerStore(w, p)
      PROVE  orders' = orders
  BY <1>4 DEF StoreCsr, certificate_new, AskCA, StoreCert, StoreCertError, certificate_add, PollCA,
     Poll, CleanRow, PurgeRow, certificate_delete, DateRow, Revoke, Cleanup, DatesUpdate, store,
     OpensslStep, SignCertificate, BundleCertificate, CrlRead, CrlOpen, CrlWrite, TriggerSearch,
     Crash, TriggerReceive, TriggerStore
<1>5. ASSUME Save(w)
      PROVE  orders[o] = "ready"
  BY <1>0, <1>5 DEF Save, ProcessShape
<1> QED BY <1>1, <1>2, <1>3, <1>4, <1>5 DEF Step, HandlerStep, Housekeeping, TriggerStep

\* A key gets to an order only when that leaves the state ready, with the CSR.
LEMMA KeyFlow ==
  ASSUME TypeOK, NEW w \in Worker, ProcessShape(w), Step(w), NEW o \in Orders, NEW k, Named(o, k)'
  PROVE  \/ Named(o, k)
         \/ orders[o] = "ready" /\ orders'[o] # "ready" /\ k = loc'[w].x.csr.key
<1>0. TableFlow(w, o) /\ LocFlow(w, o) /\ Moves(w) /\ StoreTypeOK
  BY StepFacts DEF TypeOK
<1>1. StoreTypeOK'
  BY TypeReads, TypeWrites DEF Step, HandlerStep, Housekeeping, TriggerStep, TypeOK
<1>2. \A v \in Worker : /\ InHand(v, o) = LocHand(v, o) \cup HeldHand(v, o)
                        /\ InHand(v, o)' = LocHand(v, o)' \cup HeldHand(v, o)'
  <2>1. ASSUME NEW v \in Worker
        PROVE  InHand(v, o)' = LocHand(v, o)' \cup HeldHand(v, o)'
    <3>1. InSave(v, o)' => held'[v].value \in CertRow
      BY <1>1 DEF InSave, StoreTypeOK, Held
    <3>2. InSave(v, o)' => Held509(held'[v].value) \subseteq X509
      BY <3>1, HeldCerts
    <3> QED BY <3>2 DEF InHand, LocHand, HeldHand, Held509
  <2> QED BY <1>0, <2>1, HandParts
<1>3. KeyAt(w, o, k) => Named(o, k)
  BY <1>2 DEF KeyAt, Named
<1>4. \A x \in Sources(w, o) : Named(o, x.csr.key)
  BY <1>2 DEF Sources, RowCerts, Named
<1>5. CASE Exists(o)' /\ certs'[o].csr.key = k
  BY <1>0, <1>3, <1>5 DEF TableFlow
<1>6. ASSUME Exists(o)', NEW x \in Held509(certs[o])', x.csr.key = k
      PROVE  Named(o, k)
  BY <1>0, <1>4, <1>6 DEF TableFlow, RowCerts
<1>7. ASSUME NEW v \in Worker, v # w, \/ InSave(v, o)' /\ held'[v].value.csr.key = k
                                      \/ \E x \in InHand(v, o)' : x.csr.key = k
      PROVE  Named(o, k)
  <2>1. held'[v] = held[v] /\ pc'[v] = pc[v] /\ loc'[v] = loc[v]
    BY <1>0, <1>7 DEF Moves
  <2>2. (InSave(v, o)' <=> InSave(v, o)) /\ InHand(v, o)' = InHand(v, o)
    BY <2>1 DEF InSave, InHand
  <2> QED BY <1>7, <2>1, <2>2 DEF Named
<1>8. CASE InSave(w, o)' /\ held'[w].value.csr.key = k
  BY <1>0, <1>3, <1>8 DEF TableFlow
<1>9. ASSUME NEW x \in InHand(w, o)', x.csr.key = k
      PROVE  \/ Named(o, k)
             \/ orders[o] = "ready" /\ orders'[o] # "ready" /\ k = loc'[w].x.csr.key
  <2>1. CASE x \in HeldHand(w, o)'
    BY <1>0, <1>4, <1>9, <2>1 DEF TableFlow
  <2>2. CASE x \in LocHand(w, o)'
    <3>1. x \in LocHand(w, o) => Named(o, k)
      BY <1>2, <1>9 DEF Named
    <3>2. Exists(o) /\ x.csr.key = certs[o].csr.key => Named(o, k)
      BY <1>9 DEF Named
    <3> QED BY <1>0, <1>4, <1>9, <2>2, <3>1, <3>2 DEF LocFlow
  <2> QED BY <1>2, <1>9, <2>1, <2>2
<1> QED BY <1>5, <1>6, <1>7, <1>8, <1>9 DEF Named

\* So one key is all there ever is.
LEMMA OneKeyStep ==
  ASSUME TypeOK, \A w \in Worker : ProcessShape(w), OneKey, [Next]_allvars
  PROVE  OneKey'
<1> DEFINE Keys == {csr.key : csr \in Csrs}
<1>0. \A o \in Orders :
        /\ \A j, k \in Keys : Named(o, j) /\ Named(o, k) => j = k
        /\ orders[o] = "ready" => \A k \in Keys : ~ Named(o, k)
  BY DEF OneKey
<1>1. ASSUME NEW w \in Worker, Step(w), NEW o \in Orders
      PROVE  /\ \A j, k \in Keys : Named(o, j)' /\ Named(o, k)' => j = k
             /\ orders'[o] = "ready" => \A k \in Keys : ~ Named(o, k)'
  <2> HIDE DEF Keys
  <2>1. \A k \in Keys : Named(o, k)' =>
           \/ Named(o, k)
           \/ orders[o] = "ready" /\ orders'[o] # "ready" /\ k = loc'[w].x.csr.key
    BY <1>1, KeyFlow
  <2>2. orders'[o] = "ready" => orders[o] = "ready"
    BY <1>1, ReadyBefore
  <2> QED BY <1>0, <2>1, <2>2
<1>2. ASSUME NEW o \in Orders, NEW k, UNCHANGED <<certs, held, pc, loc>>
      PROVE  Named(o, k)' <=> Named(o, k)
  BY <1>2 DEF Named, Exists, InSave, InHand, Held509
<1>3. \/ \E w \in Worker : Step(w)
      \/ UNCHANGED <<orders, certs, held, pc, loc>>
  BY NextCases, ClockKeeps
<1>4. \A o \in Orders :
        /\ \A j, k \in Keys : Named(o, j)' /\ Named(o, k)' => j = k
        /\ orders'[o] = "ready" => \A k \in Keys : ~ Named(o, k)'
  <2> HIDE DEF Keys
  <2> QED BY <1>0, <1>1, <1>2, <1>3
<1> QED BY <1>4 DEF OneKey

-----------------------------------------------------------------------------
(* The OpenSSL CA: nothing is polled, and what is stored is on disk.       *)

\* The step leaves nothing that waits for the CA.
NonePolled(w) ==
    /\ submitted' = {}
    /\ \A o \in Orders : Exists(o)' => ~ certs'[o].polled
    /\ pc'[w] \notin Triggering \cup {"pollCA", "storeReject", "setInvalid", "triggerSearch"}
    /\ \A o \in Orders : InSave(w, o)' => ~ held'[w].value.polled

\* With it, the steps of w leave nothing to poll, and none to be triggered.
LEMMA PolledFlow ==
  ASSUME TypeOK, NEW w \in Worker, ProcessShape(w), NothingPolled, server.handler = "openssl",
         Step(w)
  PROVE  NonePolled(w)
<1> DEFINE Rows == \A o \in Orders : Exists(o)' => ~ certs'[o].polled
           Saved == \A o \in Orders : InSave(w, o)' => ~ held'[w].value.polled
           Label == pc'[w] \notin Triggering \cup
                                  {"pollCA", "storeReject", "setInvalid", "triggerSearch"}
<1> USE DEF NonePolled
<1>0. /\ certs \in [Orders -> CertRow \cup {None}] /\ held \in [Worker -> Held \cup {Nothing}]
      /\ pc \in [Worker -> Labels]
  BY DEF TypeOK, StoreTypeOK
<1>was. /\ submitted = {}
        /\ \A o \in Orders : Exists(o) => ~ certs[o].polled
        /\ pc[w] \notin Triggering \cup {"pollCA", "storeReject", "setInvalid", "triggerSearch"}
        /\ \A o \in Orders : InSave(w, o) => ~ held[w].value.polled
  BY DEF NothingPolled
<1>keep. ASSUME UNCHANGED <<certs, held>>
         PROVE  Rows /\ Saved
  BY <1>was, <1>keep DEF Exists, InSave
<1>goto. ASSUME NEW label, NEW l, Goto(w, label, l),
                label \notin Triggering \cup {"pollCA", "storeReject", "setInvalid", "triggerSearch"}
         PROVE  Label
  BY <1>0, <1>goto DEF Goto
<1>done. Done(w) => Label
  BY <1>goto DEF Done, Triggering
<1>order. ASSUME NEW p, NEW st, order_update(w, p, st)
          PROVE  Rows /\ Saved
  <2>1. held'[w] = [table |-> "orders", row |-> p, value |-> st]
    BY <1>0, <1>order DEF order_update, Hold
  <2>2. Saved
    BY <2>1 DEF InSave
  <2> QED BY <1>was, <1>order, <2>2 DEF order_update, Exists
<1>put. ASSUME NEW p \in Orders, NEW row, row.polled = FALSE,
               certs' = [certs EXCEPT ![p] = row], Hold(w, "certs", p, row)
        PROVE  Rows /\ Saved
  <2>1. held'[w] = [table |-> "certs", row |-> p, value |-> row]
    BY <1>0, <1>put DEF Hold
  <2>2. held'[w].value = row
    BY <2>1
  <2>3. \A o \in Orders : certs'[o] = certs[o] \/ certs'[o] = row
    BY <1>0, <1>put
  <2> QED BY <1>was, <1>put, <2>2, <2>3 DEF Exists
<1>add. ASSUME NEW p \in Orders, NEW row, Exists(p) => row.polled = FALSE, certificate_add(w, p, row)
        PROVE  Rows /\ Saved
  BY <1>add, <1>put, <1>keep DEF certificate_add
<1>row. \A p \in Orders : Exists(p) => certs[p] \in CertRow /\ certs[p].polled = FALSE
  BY <1>0, <1>was DEF Exists, CertRow
<1>1. ASSUME NEW o \in Orders, NEW csr \in Csrs, Finalize(w, o, csr)
      PROVE  NonePolled(w)
  <2>1. pc'[w] = "storeCsr"
    BY <1>0, <1>1 DEF Finalize, Goto
  <2>2. Rows /\ Saved
    BY <1>1, <1>order DEF Finalize
  <2> QED BY <1>1, <1>was, <2>1, <2>2 DEF Finalize, Triggering
<1>2. ASSUME StoreCsr(w)
      PROVE  NonePolled(w)
  <2> DEFINE row == [csr |-> loc[w].x.csr, cert |-> None, raw |-> None, dates |-> None, polled |-> FALSE]
  <2>1. loc[w].order \in Orders
    BY <1>2 DEF StoreCsr, At, ProcessShape, Enrolling
  <2>2. certs' = [certs EXCEPT ![loc[w].order] = row] /\ Hold(w, "certs", loc[w].order, row)
    BY <1>2 DEF StoreCsr, certificate_new
  <2>3. row.polled = FALSE
    OBVIOUS
  <2>4. Rows /\ Saved
    <3> HIDE DEF row, Rows, Saved
    <3> QED BY <1>put, <2>1, <2>2, <2>3
  <2>5. Label
    BY <1>2, <1>goto, <1>done DEF StoreCsr, Triggering
  <2> QED BY <1>2, <1>was, <2>4, <2>5 DEF StoreCsr
<1>3. ASSUME AskCA(w) \/ PollCA(w) \/ SetInvalid(w) \/ TriggerSearch(w) \/ TriggerValid(w)
             \/ (\E o \in Orders : Poll(w, o)) \/ (\E o \in Orders : TriggerStore(w, o))
             \/ (\E x \in X509 : TriggerReceive(w, x))
      PROVE  NonePolled(w)
  BY <1>3, <1>was DEF AskCA, PollCA, SetInvalid, TriggerSearch, TriggerValid, TriggerStore,
     TriggerReceive, Poll, At, Triggering
<1>4. ASSUME StoreCert(w)
      PROVE  NonePolled(w)
  <2> DEFINE p == loc[w].order
             row == [certs[p] EXCEPT !.cert = loc[w].x, !.raw = loc[w].x, !.dates = loc[w].x]
  <2>1. p \in Orders
    BY <1>4 DEF StoreCert, At, ProcessShape, Enrolling
  <2>2. Exists(p) => row.polled = FALSE
    BY <1>row, <2>1 DEF CertRow
  <2>3. certificate_add(w, p, row)
    BY <1>4 DEF StoreCert
  <2>4. Rows /\ Saved
    <3> HIDE DEF row, Rows, Saved
    <3> QED BY <1>add, <2>1, <2>2, <2>3
  <2> QED BY <1>4, <1>was, <1>goto, <2>4 DEF StoreCert, Triggering
<1>5. ASSUME StoreCertError(w)
      PROVE  NonePolled(w)
  <2> DEFINE p == loc[w].order
             row == [certs[p] EXCEPT !.polled = server.handler = "asynchronous"]
  <2>1. p \in Orders /\ pc[w] = "storeError"
    BY <1>5, <1>was DEF StoreCertError, At, ProcessShape, Enrolling
  <2>2. Exists(p) => row.polled = FALSE
    BY <1>row, <2>1 DEF CertRow
  <2>3. certificate_add(w, p, row)
    BY <1>5 DEF StoreCertError
  <2>4. Rows /\ Saved
    <3> HIDE DEF row, Rows, Saved
    <3> QED BY <1>add, <2>1, <2>2, <2>3
  <2>5. Done(w)
    BY <1>5, <2>1 DEF StoreCertError, At
  <2> QED BY <1>5, <1>was, <1>done, <2>4, <2>5 DEF StoreCertError
<1>6. ASSUME SetValid(w)
      PROVE  NonePolled(w)
  BY <1>6, <1>was, <1>order, <1>done DEF SetValid
<1>7. ASSUME NEW o \in Orders, InvalidateOrder(w, o)
      PROVE  NonePolled(w)
  BY <1>7, <1>was, <1>order DEF InvalidateOrder
<1>jobs. ASSUME NEW o, pc[w] \in Jobs, RowDone(w, o)
         PROVE  Label
  BY <1>jobs, <1>goto, <1>done DEF RowDone, Jobs, Triggering
<1>8. ASSUME NEW p \in Orders, CleanRow(w, p)
      PROVE  NonePolled(w)
  <2> DEFINE row == [certs[p] EXCEPT !.cert = Removal, !.raw = loc[w].rows[p].raw,
                                     !.dates = loc[w].rows[p].dates]
  <2>1. Exists(p) => row.polled = FALSE
    BY <1>row DEF CertRow
  <2>2. certificate_add(w, p, row)
    BY <1>8 DEF CleanRow
  <2>3. Rows /\ Saved
    <3> HIDE DEF row, Rows, Saved
    <3> QED BY <1>add, <2>1, <2>2
  <2> QED BY <1>8, <1>was, <1>jobs, <2>3 DEF CleanRow, At, Jobs
<1>9. ASSUME NEW p \in Orders, DateRow(w, p)
      PROVE  NonePolled(w)
  <2> DEFINE old == loc[w].rows[p]
             row == [certs[p] EXCEPT !.cert = old.cert, !.raw = old.raw, !.dates = old.raw]
  <2>1. Exists(p) => row.polled = FALSE
    BY <1>row DEF CertRow
  <2>2. certificate_add(w, p, row)
    BY <1>9 DEF DateRow
  <2>3. Rows /\ Saved
    <3> HIDE DEF row, Rows, Saved
    <3> QED BY <1>add, <2>1, <2>2
  <2> QED BY <1>9, <1>was, <1>jobs, <2>3 DEF DateRow, At, Jobs
<1>10. ASSUME NEW p \in Orders, PurgeRow(w, p)
       PROVE  NonePolled(w)
  <2>1. held' = held /\ certs' = [certs EXCEPT ![p] = None]
    BY <1>10 DEF PurgeRow, certificate_delete
  <2>2. Rows /\ Saved
    BY <1>0, <1>was, <2>1 DEF Exists, InSave
  <2> QED BY <1>10, <1>was, <1>jobs, <2>2 DEF PurgeRow, At, Jobs
<1>11. ASSUME NEW x \in X509, NEW owner, NEW reason, Revoke(w, x, owner, reason)
       PROVE  NonePolled(w)
  BY <1>11, <1>was, <1>keep, <1>goto DEF Revoke, store, Triggering
<1>12. ASSUME NEW purge \in BOOLEAN, Cleanup(w, purge)
       PROVE  NonePolled(w)
  <2>1. pc'[w] \in {"purge", "clean"}
    BY <1>0, <1>12 DEF Cleanup, Goto
  <2> QED BY <1>12, <1>was, <1>keep, <2>1 DEF Cleanup, store, Triggering
<1>13. ASSUME DatesUpdate(w)
       PROVE  NonePolled(w)
  <2>1. pc'[w] = "date"
    BY <1>0, <1>13 DEF DatesUpdate, Goto
  <2> QED BY <1>13, <1>was, <1>keep, <2>1 DEF DatesUpdate, store, Triggering
<1>14. ASSUME OpensslStep(w), UNCHANGED submitted
       PROVE  NonePolled(w)
  BY <1>14, <1>was, <1>keep, <1>goto, <1>done
     DEF OpensslStep, SignCertificate, BundleCertificate, CrlRead, CrlOpen, CrlWrite, store, Triggering
<1>15. ASSUME Save(w), UNCHANGED submitted
       PROVE  NonePolled(w)
  <2>1. held'[w] = Nothing /\ pc' = pc
    BY <1>0, <1>15 DEF Save
  <2>2. Saved
    BY <2>1 DEF InSave
  <2>3. \A o \in Orders : certs'[o] = certs[o] \/ (InSave(w, o) /\ certs'[o] = held[w].value)
    <3>1. CASE held[w].table = "orders" /\ certs' = certs
      BY <3>1
    <3>2. CASE held[w].table = "certs" /\ certs' = [certs EXCEPT ![held[w].row] = held[w].value]
      BY <1>0, <1>15, <3>2 DEF Save, InSave
    <3> QED BY <1>15, <3>1, <3>2 DEF Save
  <2> QED BY <1>15, <1>was, <2>1, <2>2, <2>3 DEF Exists
<1>16. ASSUME Crash(w)
       PROVE  NonePolled(w)
  <2>1. held'[w] = Nothing /\ certs' = certs
    BY <1>0, <1>16 DEF Crash
  <2>2. Rows /\ Saved
    BY <1>was, <2>1 DEF InSave, Exists
  <2> QED BY <1>16, <1>was, <1>done, <2>2 DEF Crash
<1> HIDE DEF NonePolled
<1>17. CASE HandlerStep(w)
  BY <1>1, <1>2, <1>3, <1>4, <1>5, <1>6, <1>7, <1>8, <1>9, <1>10, <1>11, <1>12, <1>13, <1>17
     DEF HandlerStep, Housekeeping
<1>18. CASE TriggerStep(w)
  BY <1>3, <1>18 DEF TriggerStep
<1> QED
  BY <1>14, <1>15, <1>16, <1>17, <1>18 DEF Step

\* Nothing ever waits for the OpenSSL CA.
LEMMA PolledStep ==
  ASSUME TypeOK, \A w \in Worker : ProcessShape(w), NothingPolled, [Next]_allvars
  PROVE  NothingPolled'
<1>1. ASSUME NEW w \in Worker, Step(w)
      PROVE  NothingPolled'
  <2>1. Moves(w) /\ server' = server
    BY <1>1, StepFacts
  <2> QED BY <1>1, <2>1, PolledFlow DEF NonePolled, NothingPolled, Moves, InSave
<1>2. ASSUME UNCHANGED <<certs, held, pc, server, submitted>>
      PROVE  NothingPolled'
  BY <1>2 DEF NothingPolled, Exists, InSave
<1> QED BY <1>1, <1>2, NextCases, ClockKeeps

\* What _csr_check lets through is on the white list, and not on the black one.
LEMMA ListsRespected ==
  ASSUME NEW csr, csr_check(csr), NEW name \in csr.names
  PROVE  /\ \A regex \in Blacklist : name \notin regex
         /\ Whitelist # {} => name \in UNION Whitelist
BY DEF csr_check, string_wlbl_check, list_check

\* The steps of w that matter to the CRL file, and what the others leave alone.
CrlFlow(w) ==
    \/ CrlRead(w)
    \/ CrlOpen(w)
    \/ CrlWrite(w)
    \/ /\ UNCHANGED <<crl, revoked>>
       /\ \/ pc'[w] = pc[w] /\ loc'[w] = loc[w] /\ crashes' = crashes
          \/ pc'[w] = "idle" /\ crashes' = crashes + 1
          \/ /\ pc[w] \notin {"crlRead", "crlOpen", "crlWrite"} /\ crashes' = crashes
             /\ \/ pc'[w] \notin {"crlRead", "crlOpen", "crlWrite"}
                \/ /\ pc'[w] = "crlRead" /\ loc'[w].crl = {}
                   /\ \E o \in Orders : Exists(o) /\ certs[o].raw = loc'[w].x
                   /\ loc'[w].x \in X509

LEMMA CrlFlowStep ==
  ASSUME TypeOK, NEW w \in Worker, ProcessShape(w), Step(w)
  PROVE  CrlFlow(w)
<1>0. pc \in [Worker -> Labels] /\ loc \in [Worker -> Loc] /\ held \in [Worker -> Held \cup {Nothing}]
  BY DEF TypeOK, StoreTypeOK
<1>goto. ASSUME NEW label, NEW l, Goto(w, label, l)
         PROVE  pc'[w] = label /\ loc'[w] = l
  BY <1>0, <1>goto DEF Goto
<1>other. ASSUME UNCHANGED <<crl, revoked, crashes>>,
                 pc[w] \notin {"crlRead", "crlOpen", "crlWrite"},
                 pc'[w] \notin {"crlRead", "crlOpen", "crlWrite"}
          PROVE  CrlFlow(w)
  BY <1>other DEF CrlFlow
<1>1. ASSUME NEW o \in Orders, NEW csr \in Csrs, Finalize(w, o, csr)
      PROVE  CrlFlow(w)
  BY <1>1, <1>goto, <1>other DEF Finalize, At, ca
<1>2. ASSUME StoreCsr(w) \/ AskCA(w) \/ PollCA(w) \/ SetValid(w) \/ SetInvalid(w)
      PROVE  CrlFlow(w)
  BY <1>2, <1>goto, <1>other DEF StoreCsr, AskCA, PollCA, SetValid, SetInvalid, At, ca, Done
<1>3. ASSUME StoreCert(w) \/ StoreCertError(w)
      PROVE  CrlFlow(w)
  BY <1>3, <1>goto, <1>other DEF StoreCert, StoreCertError, At, ca, Done
<1>4. ASSUME NEW o \in Orders, Poll(w, o)
      PROVE  CrlFlow(w)
  BY <1>4, <1>goto, <1>other DEF Poll, At, ca
<1>5. ASSUME NEW o \in Orders, InvalidateOrder(w, o)
      PROVE  CrlFlow(w)
  BY <1>5, <1>other DEF InvalidateOrder, At, ca
<1>6. ASSUME NEW o \in Orders, CleanRow(w, o) \/ PurgeRow(w, o) \/ DateRow(w, o)
      PROVE  CrlFlow(w)
  <2>1. pc[w] \in Jobs /\ pc'[w] \in {"idle", pc[w]} /\ UNCHANGED <<crl, revoked, crashes>>
    BY <1>6, <1>goto DEF CleanRow, PurgeRow, DateRow, At, Jobs, RowDone, Done, ca
  <2> QED BY <1>other, <2>1 DEF Jobs
<1>7. ASSUME NEW x \in X509, NEW owner, NEW reason, Revoke(w, x, owner, reason)
      PROVE  CrlFlow(w)
  <2> DEFINE l == [Idle EXCEPT !.x = x]
  <2>1. l.x = x /\ l.crl = {}
    BY DEF Idle
  <2>2. Goto(w, "crlRead", l) /\ pc[w] = "idle" /\ UNCHANGED <<crl, revoked, crashes>>
    BY <1>7 DEF Revoke, At, ca
  <2>3. \E o \in Orders : Exists(o) /\ certs[o].raw = x
    BY <1>7 DEF Revoke, account_check
  <2> HIDE DEF l
  <2>4. pc'[w] = "crlRead" /\ loc'[w] = l
    BY <1>goto, <2>2
  <2> QED BY <2>1, <2>2, <2>3, <2>4 DEF CrlFlow
<1>8. ASSUME NEW x \in X509, TriggerReceive(w, x)
      PROVE  CrlFlow(w)
  BY <1>8, <1>goto, <1>other DEF TriggerReceive, At, ca
<1>9. ASSUME NEW purge \in BOOLEAN, Cleanup(w, purge)
      PROVE  CrlFlow(w)
  <2>1. pc'[w] \in {"purge", "clean"}
    BY <1>0, <1>9 DEF Cleanup, Goto
  <2> QED BY <1>9, <1>other, <2>1 DEF Cleanup, At, ca
<1>10. ASSUME DatesUpdate(w)
       PROVE  CrlFlow(w)
  <2>1. pc'[w] = "date"
    BY <1>0, <1>10 DEF DatesUpdate, Goto
  <2> QED BY <1>10, <1>other, <2>1 DEF DatesUpdate, At, ca
<1>11. ASSUME TriggerSearch(w) \/ TriggerValid(w)
       PROVE  CrlFlow(w)
  BY <1>11, <1>goto, <1>other DEF TriggerSearch, TriggerValid, At, ca, Done
<1>12. ASSUME NEW o \in Orders, TriggerStore(w, o)
       PROVE  CrlFlow(w)
  BY <1>12, <1>goto, <1>other DEF TriggerStore, At, ca
<1>13. ASSUME OpensslStep(w)
       PROVE  CrlFlow(w)
  <2>1. CASE SignCertificate(w) \/ BundleCertificate(w)
    BY <1>goto, <1>other, <2>1 DEF SignCertificate, BundleCertificate, At, ca
  <2>2. CASE CrlRead(w) \/ CrlOpen(w) \/ CrlWrite(w)
    BY <2>2 DEF CrlFlow
  <2> QED BY <1>13, <2>1, <2>2 DEF OpensslStep
<1>14. ASSUME Save(w), UNCHANGED <<ca, submitted>>
       PROVE  CrlFlow(w)
  BY <1>14 DEF Save, ca, CrlFlow
<1>15. ASSUME Crash(w)
       PROVE  CrlFlow(w)
  BY <1>15, <1>goto DEF Crash, ca, CrlFlow, Done
<1>16. CASE HandlerStep(w)
  BY <1>1, <1>2, <1>3, <1>4, <1>5, <1>6, <1>7, <1>9, <1>10, <1>16 DEF HandlerStep, Housekeeping
<1>17. CASE TriggerStep(w)
  BY <1>8, <1>11, <1>12, <1>17 DEF TriggerStep
<1> QED BY <1>13, <1>14, <1>15, <1>16, <1>17 DEF Step

\* What a step adds to the directory has passed _csr_check.
DiskFlow ==
    /\ disk \subseteq disk'
    /\ \A x \in disk' \ disk : csr_check(x.csr)

LEMMA DiskFlowStep ==
  ASSUME NEW w \in Worker, Step(w)
  PROVE  DiskFlow
<1>1. CASE SignCertificate(w)
  BY <1>1 DEF SignCertificate, DiskFlow
<1>2. ASSUME \/ HandlerStep(w) \/ TriggerStep(w) \/ Crash(w) \/ UNCHANGED ca
             \/ BundleCertificate(w) \/ CrlRead(w) \/ CrlOpen(w) \/ CrlWrite(w)
      PROVE  disk' = disk
  BY <1>2 DEF HandlerStep, Finalize, StoreCsr, AskCA, StoreCert, StoreCertError, SetValid,
     SetInvalid, Poll, PollCA, Revoke, Housekeeping, Cleanup, DatesUpdate, InvalidateOrder,
     CleanRow, PurgeRow, DateRow, TriggerStep, TriggerReceive, TriggerSearch, TriggerStore,
     TriggerValid, Crash, ca, BundleCertificate, CrlRead, CrlOpen, CrlWrite
<1>3. disk' = disk => DiskFlow
  BY DEF DiskFlow
<1> QED BY <1>1, <1>2, <1>3 DEF Step, OpensslStep

\* Whatever is in the table, in the CRL or in hand is on disk.
LEMMA DiskStep ==
  ASSUME TypeOK, \A w \in Worker : ProcessShape(w), NothingPolled, NothingPolled',
         OnDisk, HandOnDisk, [Next]_allvars
  PROVE  OnDisk' /\ HandOnDisk'
<1> DEFINE Hands(v) ==
              /\ \A o \in Orders :
                    /\ InSave(v, o) => Held509(held[v].value) \subseteq disk
                    /\ pc[v] \notin Signing => InHand(v, o) \subseteq disk
              /\ pc[v] \in {"crlRead", "crlOpen", "crlWrite"} =>
                    loc[v].x \in disk /\ loc[v].crl \subseteq disk
           Disk == /\ \A o \in Orders : RowCerts(o) \subseteq disk
                   /\ crl # Truncated => crl \subseteq disk
                   /\ AllowedNames
<1>0. server.handler = "openssl" => Disk /\ \A v \in Worker : Hands(v)
  BY DEF OnDisk, HandOnDisk, RowCerts, Signing
<1>goal. ASSUME server'.handler = "openssl" => Disk' /\ \A v \in Worker : Hands(v)'
         PROVE  OnDisk' /\ HandOnDisk'
  BY <1>goal DEF OnDisk, HandOnDisk, RowCerts, Signing
<1>1. ASSUME NEW w \in Worker, Step(w), server.handler = "openssl"
      PROVE  Disk' /\ \A v \in Worker : Hands(v)'
  <2>0. /\ Moves(w) /\ StoreTypeOK /\ DiskFlow /\ CrlFlow(w)
        /\ \A o \in Orders : TableFlow(w, o) /\ LocFlow(w, o)
        /\ server' = server /\ pc \in [Worker -> Labels] /\ loc \in [Worker -> Loc]
    BY <1>1, StepFacts, CrlFlowStep, DiskFlowStep DEF TypeOK, StoreTypeOK
  <2>1. Disk /\ \A v \in Worker : Hands(v)
    BY <1>0, <1>1
  <2>2. disk \subseteq disk'
    BY <2>0 DEF DiskFlow
  <2>3. AllowedNames'
    <3>1. ASSUME NEW x \in disk', NEW name \in x.csr.names
          PROVE  /\ \A regex \in Blacklist : name \notin regex
                 /\ Whitelist # {} => name \in UNION Whitelist
      <4>1. CASE x \in disk
        BY <2>1, <3>1, <4>1 DEF AllowedNames
      <4>2. CASE csr_check(x.csr)
        BY <3>1, <4>2, ListsRespected
      <4> QED BY <2>0, <3>1, <4>1, <4>2 DEF DiskFlow
    <3> QED BY <3>1 DEF AllowedNames
  <2>4. \A o \in Orders : Sources(w, o) \subseteq disk
    <3>1. ASSUME NEW o \in Orders
          PROVE  Sources(w, o) \subseteq disk
      <4>1. RowCerts(o) \subseteq disk /\ HeldHand(w, o) \subseteq disk
        BY <2>1 DEF HeldHand
      <4>2. pc[w] \notin Signing => LocHand(w, o) \subseteq disk
        BY <2>0, <2>1, HandParts
      <4> QED BY <4>1, <4>2 DEF Sources
    <3> QED BY <3>1
  <2>5. \A o \in Orders : RowCerts(o)' \subseteq disk' /\ HeldHand(w, o)' \subseteq disk'
    BY <2>0, <2>2, <2>4 DEF TableFlow
  <2>6. ASSUME NEW o \in Orders, pc'[w] \notin Signing
        PROVE  LocHand(w, o)' \subseteq disk'
    <3>1. pc'[w] \notin {"pollCA", "triggerStore", "storeCsr"}
      BY <1>1, <2>0, <2>6 DEF NothingPolled, Triggering, Signing
    <3> QED BY <1>1, <2>0, <2>2, <2>4, <2>6, <3>1 DEF LocFlow
  <2>7. crl' # Truncated => crl' \subseteq disk'
    <3>1. CASE CrlWrite(w)
      BY <2>1, <2>2, <3>1 DEF CrlWrite, At
    <3>2. CASE CrlRead(w) \/ CrlOpen(w)
      BY <2>1, <2>2, <3>2 DEF CrlRead, CrlOpen, ca
    <3>3. CASE crl' = crl
      BY <2>1, <2>2, <3>3
    <3> QED BY <2>0, <3>1, <3>2, <3>3 DEF CrlFlow
  <2>8. ASSUME pc'[w] \in {"crlRead", "crlOpen", "crlWrite"}
        PROVE  loc'[w].x \in disk' /\ loc'[w].crl \subseteq disk'
    <3>1. CASE CrlRead(w)
      <4>1. pc[w] = "crlRead" /\ crl # Truncated /\ loc'[w] = [loc[w] EXCEPT !.crl = crl \cup {loc[w].x}]
        BY <2>0, <2>8, <3>1 DEF CrlRead, At, Goto, Done
      <4>2. loc'[w].x = loc[w].x /\ loc'[w].crl = crl \cup {loc[w].x}
        BY <2>0, <4>1 DEF Loc
      <4> QED BY <2>1, <2>2, <4>1, <4>2
    <3>2. CASE CrlOpen(w)
      <4>1. pc[w] = "crlOpen" /\ loc'[w] = loc[w]
        BY <2>0, <3>2 DEF CrlOpen, At, Goto
      <4> QED BY <2>1, <2>2, <4>1
    <3>3. CASE CrlWrite(w)
      BY <2>0, <2>8, <3>3 DEF CrlWrite, Done, Goto
    <3>4. CASE pc'[w] = pc[w] /\ loc'[w] = loc[w]
      BY <2>1, <2>2, <2>8, <3>4
    <3>5. CASE /\ loc'[w].crl = {} /\ \E o \in Orders : Exists(o) /\ certs[o].raw = loc'[w].x
               /\ loc'[w].x \in X509
      <4>1. PICK o \in Orders : Exists(o) /\ certs[o].raw = loc'[w].x
        BY <3>5
      <4>2. loc'[w].x \in RowCerts(o)
        BY <3>5, <4>1, RowAssumption DEF RowCerts, Held509
      <4> QED BY <2>1, <2>2, <3>5, <4>2
    <3> QED BY <2>0, <2>8, <3>1, <3>2, <3>3, <3>4, <3>5 DEF CrlFlow
  <2>9. ASSUME NEW v \in Worker
        PROVE  Hands(v)'
    <3>1. CASE v = w
      <4>1. \A o \in Orders : InHand(w, o)' = LocHand(w, o)' \cup HeldHand(w, o)'
        <5>1. TypeOK'
          BY TypeStep
        <5>2. ASSUME NEW o \in Orders
              PROVE  InHand(w, o)' = LocHand(w, o)' \cup HeldHand(w, o)'
          <6>1. InSave(w, o)' => held'[w].value \in CertRow
            BY <5>1 DEF InSave, TypeOK, StoreTypeOK, Held
          <6>2. InSave(w, o)' => Held509(held'[w].value) \subseteq X509
            BY <6>1, HeldCerts
          <6> QED BY <6>2 DEF InHand, LocHand, HeldHand, Held509
        <5> QED BY <5>2
      <4>2. \A o \in Orders : InSave(w, o)' => Held509(held'[w].value) \subseteq disk'
        BY <2>5 DEF HeldHand, Held509
      <4>3. \A o \in Orders : pc'[w] \notin Signing => InHand(w, o)' \subseteq disk'
        BY <2>5, <2>6, <4>1
      <4> QED BY <2>8, <3>1, <4>2, <4>3 DEF Held509
    <3>2. CASE v # w
      <4>1. held'[v] = held[v] /\ pc'[v] = pc[v] /\ loc'[v] = loc[v]
        BY <2>0, <2>9, <3>2 DEF Moves
      <4>2. \A o \in Orders : (InSave(v, o)' <=> InSave(v, o)) /\ InHand(v, o)' = InHand(v, o)
        BY <4>1 DEF InSave, InHand, Held509
      <4> QED BY <2>1, <2>2, <2>9, <4>1, <4>2 DEF Held509
    <3> QED BY <3>1, <3>2
  <2> QED BY <2>3, <2>5, <2>7, <2>9
<1>2. ASSUME UNCHANGED <<certs, held, pc, loc, server, disk, crl>>
      PROVE  OnDisk' /\ HandOnDisk'
  BY <1>2 DEF OnDisk, HandOnDisk, Exists, Held509, InSave, InHand, AllowedNames
<1>3. ASSUME NEW w \in Worker, Step(w)
      PROVE  OnDisk' /\ HandOnDisk'
  <2>1. server' = server
    BY <1>3, StepFacts
  <2> HIDE DEF Disk, Hands
  <2> QED BY <1>1, <1>3, <1>goal, <2>1
<1> QED BY <1>2, <1>3, NextCases, ClockKeeps

\* One process, never killed, finds the CRL as it read it.
LEMMA CrlStep ==
  ASSUME TypeOK, \A w \in Worker : ProcessShape(w), CrlUndisturbed, [Next]_allvars
  PROVE  CrlUndisturbed'
<1> DEFINE Calm(w) ==
              IF pc[w] = "crlWrite"
              THEN crl = Truncated /\ revoked \cup {loc[w].x} \subseteq loc[w].crl
              ELSE /\ crl # Truncated /\ revoked \subseteq crl
                   /\ pc[w] = "crlOpen" => crl \cup {loc[w].x} \subseteq loc[w].crl
<1>0. /\ server.workers \subseteq Worker /\ crashes \in Nat
      /\ pc \in [Worker -> Labels] /\ loc \in [Worker -> Loc]
  BY ServerType, CertificatesAssumption DEF TypeOK, StoreTypeOK
<1>1. ASSUME NEW w \in server.workers, Step(w), Alone, crashes' = 0
      PROVE  Calm(w)'
  <2>0. CrlFlow(w) /\ w \in Worker
    BY <1>0, <1>1, CrlFlowStep
  <2>1. crashes = 0
    BY <1>0, <1>1, <2>0 DEF CrlFlow, CrlRead, CrlOpen, CrlWrite
  <2>2. Calm(w)
    BY <1>1, <2>1 DEF CrlUndisturbed
  <2>3. CASE CrlRead(w)
    <3>1. pc[w] = "crlRead" /\ UNCHANGED <<crl, revoked>>
      BY <2>3 DEF CrlRead, At, ca
    <3>2. CASE Done(w)
      BY <1>0, <2>0, <2>2, <3>1, <3>2 DEF Done, Goto
    <3>3. CASE Goto(w, "crlOpen", [loc[w] EXCEPT !.crl = crl \cup {loc[w].x}])
      <4>1. pc'[w] = "crlOpen" /\ loc'[w].x = loc[w].x /\ loc'[w].crl = crl \cup {loc[w].x}
        BY <1>0, <2>0, <3>3 DEF Goto, Loc
      <4> QED BY <2>2, <3>1, <4>1
    <3> QED BY <2>3, <3>2, <3>3 DEF CrlRead
  <2>4. CASE CrlOpen(w)
    <3>1. pc[w] = "crlOpen" /\ pc'[w] = "crlWrite" /\ loc'[w] = loc[w]
      BY <1>0, <2>0, <2>4 DEF CrlOpen, At, Goto
    <3> QED BY <2>2, <2>4, <3>1 DEF CrlOpen
  <2>5. CASE CrlWrite(w)
    <3>1. pc[w] = "crlWrite" /\ pc'[w] = "idle"
      BY <1>0, <2>0, <2>5 DEF CrlWrite, At, Done, Goto
    <3>2. loc[w].crl \in SUBSET X509
      BY <1>0, <2>0 DEF Loc
    <3> QED BY <2>2, <2>5, <3>1, <3>2, OpensslAssumption DEF CrlWrite
  <2>6. CASE /\ UNCHANGED <<crl, revoked>>
             /\ pc'[w] = pc[w] /\ loc'[w] = loc[w]
    BY <2>2, <2>6
  <2>7. CASE /\ UNCHANGED <<crl, revoked>>
             /\ pc[w] \notin {"crlOpen", "crlWrite"} /\ pc'[w] \notin {"crlOpen", "crlWrite"}
    BY <2>2, <2>7
  <2>8. crashes' # crashes + 1
    BY <1>0, <1>1, <2>1
  <2> QED BY <2>0, <2>3, <2>4, <2>5, <2>6, <2>7, <2>8 DEF CrlFlow
<1>2. ASSUME NEW w \in server.workers, Step(w), Alone', crashes' = 0, NEW v \in server'.workers
      PROVE  Calm(v)'
  <2>1. server' = server
    BY <1>0, <1>2, StepFacts
  <2>2. Alone /\ v = w
    BY <1>2, <2>1 DEF Alone
  <2> HIDE DEF Calm
  <2> QED BY <1>1, <1>2, <2>2
<1>3. ASSUME UNCHANGED <<pc, loc, server, crl, revoked, crashes>>
      PROVE  CrlUndisturbed'
  BY <1>3 DEF CrlUndisturbed, Alone
<1>4. ASSUME \/ \E o \in Orders : /\ CertificateExpires(o) \/ RowAges(o)
                                  /\ UNCHANGED <<ca, submitted>>
             \/ UNCHANGED allvars
      PROVE  UNCHANGED <<pc, loc, server, crl, revoked, crashes>>
  BY <1>4 DEF CertificateExpires, RowAges, allvars, ca
<1> QED BY <1>2, <1>3, <1>4, NextCases DEF CrlUndisturbed

-----------------------------------------------------------------------------
(* One process finds the rows as it read them.                             *)

\* What w is to save is what is in the table.
HeldFits(w) ==
    held[w] # Nothing =>
        held[w].value = IF held[w].table = "certs" THEN certs[held[w].row]
                                                   ELSE orders[held[w].row]

\* RowsUndisturbed, of the one process.
Calm(w) ==
    /\ Undisturbed(w)
    /\ Justified(w)
    /\ \A o \in Orders : orders[o] = "valid" /\ Exists(o) => Served(o)
    /\ crashes = 0 => DatesFit(w)

\* What a call of certificate_add changes.
LEMMA AddEffect ==
  ASSUME StoreTypeOK, NEW w \in Worker, NEW p \in Orders, NEW row, held[w] = Nothing,
         Exists(p) => row \in CertRow, certificate_add(w, p, row)
  PROVE  /\ orders' = orders /\ HeldFits(w)'
         /\ Exists(p) => certs'[p] = row /\ row # None
         /\ \A o \in Orders : o # p \/ ~ Exists(p) => certs'[o] = certs[o]
<1>1. CASE ~ Exists(p)
  BY <1>1 DEF certificate_add, HeldFits
<1>2. CASE Exists(p)
  <2>1. held'[w] = [table |-> "certs", row |-> p, value |-> row] /\ certs' = [certs EXCEPT ![p] = row]
    BY <1>2 DEF certificate_add, Hold, StoreTypeOK
  <2>2. held'[w].table = "certs" /\ held'[w].row = p /\ held'[w].value = row
    BY <2>1
  <2>3. certs'[p] = row /\ \A o \in Orders : o # p => certs'[o] = certs[o]
    BY <2>1 DEF StoreTypeOK
  <2> QED BY <1>2, <2>2, <2>3, RowAssumption DEF certificate_add, HeldFits
<1> QED BY <1>1, <1>2

\* What a call of order_update changes.
LEMMA OrderEffect ==
  ASSUME StoreTypeOK, NEW w \in Worker, NEW p \in Orders, NEW st, order_update(w, p, st)
  PROVE  /\ certs' = certs /\ HeldFits(w)'
         /\ orders'[p] = st
         /\ \A o \in Orders : o # p => orders'[o] = orders[o]
<1>1. held'[w] = [table |-> "orders", row |-> p, value |-> st] /\ orders' = [orders EXCEPT ![p] = st]
  BY DEF order_update, Hold, StoreTypeOK
<1>2. held'[w].table = "orders" /\ held'[w].row = p /\ held'[w].value = st
  BY <1>1
<1>3. orders'[p] = st /\ \A o \in Orders : o # p => orders'[o] = orders[o]
  BY <1>1 DEF StoreTypeOK
<1> QED BY <1>2, <1>3 DEF order_update, HeldFits

\* A process that goes on, the tables as they are, to where nothing is asked of
\* them.
LEMMA CalmGoesOn ==
  ASSUME NEW w \in Worker, Calm(w), UNCHANGED <<orders, certs, expired, aged>>,
         held'[w] = held[w] \/ held'[w] = Nothing,
         \/ /\ pc[w] \notin {"setValid", "triggerValid"} /\ crashes' = crashes
         \/ crashes' # 0,
         pc'[w] \notin Jobs \cup Triggering \cup {"storeCsr", "setValid"}
  PROVE  Calm(w)'
<1>1. Undisturbed(w)'
  BY DEF Calm, Undisturbed, Triggering
<1>2. Justified(w)'
  BY DEF Justified, Jobs, Triggering
<1>3. \A o \in Orders : (orders[o] = "valid" /\ Exists(o) => Served(o))'
  BY DEF Calm, Served, Exists
<1>4. crashes' = 0 => DatesFit(w)'
  BY DEF Calm, DatesFit, Exists
<1> QED BY <1>1, <1>2, <1>3, <1>4 DEF Calm

\* The same for one that sets the status of an order, and is done with it, or
\* has just begun.
LEMMA CalmOrder ==
  ASSUME StoreTypeOK, NEW w \in Worker, NEW p \in Orders, NEW st, Calm(w), order_update(w, p, st),
         UNCHANGED <<expired, aged, crashes>>,
         st = "valid" /\ Exists(p) => certs[p].cert \in X509 /\ certs[p].raw # None,
         st = "processing" => ~ Exists(p),
         pc[w] \in {"setValid", "triggerValid"} => p = loc[w].order,
         \/ pc'[w] \notin Jobs \cup Triggering \cup {"storeCsr", "setValid"}
         \/ pc'[w] = "storeCsr" /\ loc'[w].order = p /\ st # "valid"
         \/ /\ pc[w] = "triggerValid" /\ pc'[w] = "triggerStore" /\ loc'[w].todo = loc[w].todo
            /\ loc[w].todo \subseteq Orders
  PROVE  Calm(w)'
<1>0. /\ certs' = certs /\ HeldFits(w)' /\ orders'[p] = st
      /\ \A o \in Orders : o # p => orders'[o] = orders[o]
  BY OrderEffect
<1>1. Undisturbed(w)'
  <2>1. pc'[w] \notin Jobs /\ pc'[w] # "triggerValid"
    BY DEF Jobs, Triggering
  <2>2. pc'[w] \in Triggering => \A o \in loc'[w].todo : orders'[o] = "processing"
    BY <1>0 DEF Calm, Undisturbed, Triggering
  <2> QED BY <1>0, <2>1, <2>2 DEF Undisturbed, HeldFits
<1>2. Justified(w)'
  <2>1. pc'[w] \notin Jobs \cup {"setValid", "triggerValid"}
    BY DEF Jobs, Triggering
  <2>2. pc'[w] = "storeCsr" => orders'[loc'[w].order] # "valid"
    BY <1>0 DEF Triggering
  <2> QED BY <2>1, <2>2 DEF Justified, Jobs
<1>3. \A o \in Orders : (orders[o] = "valid" /\ Exists(o) => Served(o))'
  BY <1>0 DEF Calm, Served, Exists
<1>4. crashes' = 0 => DatesFit(w)'
  <2>1. ASSUME NEW o \in Orders, orders'[o] = "processing", Exists(o), certs[o].raw # None, crashes = 0
        PROVE  FALSE
    <3>1. o # p
      BY <1>0, <2>1
    <3>2. orders[o] = "processing"
      BY <1>0, <2>1, <3>1
    <3> QED BY <2>1, <3>1, <3>2 DEF Calm, DatesFit
  <2> QED BY <1>0, <2>1 DEF Calm, DatesFit, Exists
<1> QED BY <1>1, <1>2, <1>3, <1>4 DEF Calm

\* An order that is ready has no row.
LEMMA ReadyNoRow ==
  ASSUME StoreTypeOK, OneKey, NEW o \in Orders, orders[o] = "ready"
  PROVE  ~ Exists(o)
<1>1. Exists(o) => certs[o].csr \in Csrs
  BY DEF Exists, StoreTypeOK, CertRow
<1>2. Exists(o) => Named(o, certs[o].csr.key)
  BY DEF Named
<1> QED BY <1>1, <1>2 DEF OneKey

\* The steps that write no row.
LEMMA CalmReads ==
  ASSUME TypeOK, OneKey, NEW w \in Worker, ProcessShape(w), Calm(w),
         \/ \E o \in Orders, csr \in Csrs : Finalize(w, o, csr)
         \/ AskCA(w) \/ SetValid(w) \/ SetInvalid(w) \/ PollCA(w) \/ TriggerValid(w)
         \/ \E o \in Orders : Poll(w, o) \/ InvalidateOrder(w, o)
         \/ \E x \in X509, owner \in BOOLEAN, reason \in {0, 2} : Revoke(w, x, owner, reason)
         \/ \E x \in X509 : TriggerReceive(w, x)
         \/ OpensslStep(w) \/ Save(w) \/ Crash(w)
  PROVE  Calm(w)'
<1>0. /\ StoreTypeOK /\ loc[w] \in Loc
      /\ pc \in [Worker -> Labels] /\ loc \in [Worker -> Loc] /\ held \in [Worker -> Held \cup {Nothing}]
      /\ crashes \in Nat
  BY CertificatesAssumption DEF TypeOK, StoreTypeOK
<1>goto. ASSUME NEW label, NEW l, Goto(w, label, l)
         PROVE  pc'[w] = label /\ loc'[w] = l
  BY <1>0, <1>goto DEF Goto
<1>1. ASSUME NEW o \in Orders, NEW csr \in Csrs, Finalize(w, o, csr)
      PROVE  Calm(w)'
  <2> DEFINE l == [Idle EXCEPT !.order = o, !.x = [csr |-> csr, order |-> o]]
  <2>1. l.order = o
    BY DEF Idle
  <2> HIDE DEF l
  <2>2. order_update(w, o, "processing") /\ Goto(w, "storeCsr", l) /\ orders[o] = "ready"
    BY <1>1 DEF Finalize, l
  <2>3. pc'[w] = "storeCsr" /\ loc'[w].order = o
    BY <1>goto, <2>1, <2>2
  <2>4. pc[w] = "idle" /\ UNCHANGED <<expired, aged, crashes>>
    BY <1>1 DEF Finalize, At, clock
  <2> QED BY <1>0, <2>2, <2>3, <2>4, ReadyNoRow, CalmOrder
<1>2. ASSUME AskCA(w) \/ PollCA(w) \/ SignCertificate(w) \/ BundleCertificate(w)
      PROVE  Calm(w)'
  <2>1. /\ pc[w] \notin {"setValid", "triggerValid"}
        /\ pc'[w] \notin Jobs \cup Triggering \cup {"storeCsr", "setValid"}
    BY <1>2, <1>goto DEF AskCA, PollCA, SignCertificate, BundleCertificate, At, Jobs, Triggering
  <2> QED BY <1>2, <2>1, CalmGoesOn DEF AskCA, PollCA, SignCertificate, BundleCertificate, store, clock
<1>3. ASSUME NEW st, order_update(w, loc[w].order, st), Done(w), UNCHANGED <<clock, crashes>>,
             \/ pc[w] \in {"setValid", "triggerValid"} /\ st = "valid"
             \/ pc[w] = "setInvalid" /\ st = "invalid"
      PROVE  Calm(w)'
  <2>1. loc[w].order \in Orders
    BY <1>3 DEF ProcessShape, Enrolling
  <2>2. st = "valid" /\ Exists(loc[w].order) =>
           certs[loc[w].order].cert \in X509 /\ certs[loc[w].order].raw # None
    BY <1>3 DEF Calm, Justified
  <2>3. pc'[w] = "idle"
    BY <1>3, <1>goto DEF Done
  <2> QED BY <1>0, <1>3, <2>1, <2>2, <2>3, CalmOrder DEF Jobs, Triggering, clock
<1>4. ASSUME SetValid(w) \/ SetInvalid(w)
      PROVE  Calm(w)'
  BY <1>3, <1>4 DEF SetValid, SetInvalid, At
<1>5. ASSUME TriggerValid(w)
      PROVE  Calm(w)'
  <2>1. pc[w] = "triggerValid" /\ order_update(w, loc[w].order, "valid") /\ UNCHANGED <<clock, crashes>>
    BY <1>5 DEF TriggerValid, At
  <2>2. CASE Done(w)
    BY <1>3, <2>1, <2>2
  <2>3. CASE Goto(w, "triggerStore", [loc[w] EXCEPT !.order = None])
    <3>1. pc'[w] = "triggerStore" /\ loc'[w].todo = loc[w].todo
      BY <1>0, <1>goto, <2>3 DEF Loc
    <3>2. loc[w].order \in Orders /\ loc[w].todo \subseteq Orders
      BY <1>0, <2>1 DEF ProcessShape, Loc
    <3>3. Exists(loc[w].order) =>
             certs[loc[w].order].cert \in X509 /\ certs[loc[w].order].raw # None
      BY <2>1 DEF Calm, Justified
    <3>4. UNCHANGED <<expired, aged, crashes>>
      BY <2>1 DEF clock
    <3> QED BY <1>0, <2>1, <3>1, <3>2, <3>3, <3>4, CalmOrder
  <2> QED BY <1>5, <2>2, <2>3 DEF TriggerValid
<1>6. ASSUME NEW o \in Orders, Poll(w, o)
      PROVE  Calm(w)'
  <2>1. pc[w] = "idle" /\ pc'[w] = "pollCA" /\ UNCHANGED <<orders, certs, held, expired, aged, crashes>>
    BY <1>6, <1>goto DEF Poll, At, store, clock
  <2> QED BY <2>1, CalmGoesOn DEF Jobs, Triggering
<1>7. ASSUME NEW o \in Orders, InvalidateOrder(w, o)
      PROVE  Calm(w)'
  <2>1. pc[w] = "idle" /\ pc'[w] = "idle" /\ order_update(w, o, "invalid")
        /\ UNCHANGED <<expired, aged, crashes>>
    BY <1>7 DEF InvalidateOrder, At, clock
  <2> QED BY <1>0, <2>1, CalmOrder DEF Jobs, Triggering
<1>8. ASSUME NEW x \in X509, NEW owner, NEW reason, Revoke(w, x, owner, reason) \/ TriggerReceive(w, x)
      PROVE  Calm(w)'
  <2>1. /\ pc[w] = "idle" /\ pc'[w] \in {"crlRead", "triggerSearch"}
        /\ UNCHANGED <<orders, certs, held, expired, aged, crashes>>
    BY <1>8, <1>goto DEF Revoke, TriggerReceive, At, store, clock
  <2> QED BY <2>1, CalmGoesOn DEF Jobs, Triggering
<1>9. ASSUME CrlRead(w) \/ CrlOpen(w) \/ CrlWrite(w)
      PROVE  Calm(w)'
  <2>1. /\ pc[w] \in {"crlRead", "crlOpen", "crlWrite"} /\ pc'[w] \in {"idle", "crlOpen", "crlWrite"}
        /\ UNCHANGED <<orders, certs, held, expired, aged, crashes>>
    BY <1>9, <1>goto DEF CrlRead, CrlOpen, CrlWrite, At, Done, store, clock
  <2> QED BY <2>1, CalmGoesOn DEF Jobs, Triggering
<1>10. ASSUME Crash(w)
       PROVE  Calm(w)'
  <2>1. /\ crashes' # 0 /\ pc'[w] = "idle" /\ held'[w] = Nothing
        /\ UNCHANGED <<orders, certs, expired, aged>>
    BY <1>0, <1>10, <1>goto DEF Crash, Done, clock
  <2> QED BY <2>1, CalmGoesOn DEF Jobs, Triggering
<1>11. ASSUME Save(w)
       PROVE  Calm(w)'
  <2>1. held[w] \in Held /\ held[w].row \in Orders /\ HeldFits(w)
    BY <1>0, <1>11 DEF Save, Held, Calm, Undisturbed, HeldFits
  <2>2. UNCHANGED <<orders, certs, pc, loc, expired, aged, crashes>> /\ held'[w] = Nothing
    <3>1. CASE held[w].table = "orders" /\ orders' = [orders EXCEPT ![held[w].row] = held[w].value]
      BY <1>0, <1>11, <2>1, <3>1 DEF Save, HeldFits, StoreTypeOK, clock
    <3>2. CASE held[w].table = "certs" /\ certs' = [certs EXCEPT ![held[w].row] = held[w].value]
      BY <1>0, <1>11, <2>1, <3>2 DEF Save, HeldFits, StoreTypeOK, clock
    <3> QED BY <1>11, <3>1, <3>2 DEF Save
  <2>3. Undisturbed(w)'
    BY <2>2 DEF Calm, Undisturbed, Exists
  <2>4. Justified(w)'
    BY <2>2 DEF Calm, Justified, Exists
  <2>5. \A o \in Orders : (orders[o] = "valid" /\ Exists(o) => Served(o))'
    BY <2>2 DEF Calm, Served, Exists
  <2>6. crashes' = 0 => DatesFit(w)'
    BY <2>2 DEF Calm, DatesFit, Exists
  <2> QED BY <2>3, <2>4, <2>5, <2>6 DEF Calm
<1> QED
  BY <1>1, <1>2, <1>4, <1>5, <1>6, <1>7, <1>8, <1>9, <1>10, <1>11 DEF OpensslStep

\* A row is written, and its task goes on to where nothing is asked of the rows,
\* or to make the order valid.
LEMMA CalmEnrolls ==
  ASSUME TypeOK, NEW w \in Worker, Calm(w), NEW p \in Orders, NEW row \in CertRow,
         orders' = orders, HeldFits(w)',
         certs'[p] = row \/ (~ Exists(p) /\ certs'[p] = certs[p]),
         \A o \in Orders : o # p => certs'[o] = certs[o],
         UNCHANGED <<expired, aged, crashes>>,
         pc[w] \notin {"setValid", "triggerValid"},
         orders[p] = "valid" => \/ row.cert \in X509 /\ row.raw # None
                                \/ /\ Exists(p) /\ row.cert = certs[p].cert
                                   /\ row.raw = certs[p].raw /\ row.dates = certs[p].dates,
         \/ row.dates = None /\ (orders[p] = "processing" => row.raw = None)
         \/ /\ row.dates = row.raw
            /\ orders[p] = "processing" /\ row.raw # None => pc'[w] = "setValid" /\ loc'[w].order = p
         \/ /\ Exists(p) /\ row.raw = certs[p].raw /\ row.dates = certs[p].dates,
         \/ pc'[w] \notin Jobs \cup Triggering \cup {"storeCsr", "setValid"}
         \/ pc'[w] = "setValid" /\ loc'[w].order = p /\ row.cert \in X509 /\ row.raw # None
  PROVE  Calm(w)'
<1>0. crashes = 0 => DatesFit(w)
  BY DEF Calm
<1>row. row # None
  BY RowAssumption
<1>1. Undisturbed(w)'
  BY DEF Undisturbed, HeldFits, Triggering, Jobs
<1>2. Justified(w)'
  <2>1. pc'[w] \notin Jobs \cup {"storeCsr", "triggerValid"}
    BY DEF Jobs, Triggering
  <2>2. pc'[w] = "setValid" => loc'[w].order = p /\ row.cert \in X509 /\ row.raw # None
    OBVIOUS
  <2> QED BY <2>1, <2>2 DEF Justified, Jobs, Exists
<1>3. ASSUME NEW o \in Orders, orders'[o] = "valid", Exists(o)'
      PROVE  Served(o)'
  <2>1. CASE o # p \/ certs'[p] = certs[p]
    BY <1>3, <2>1 DEF Calm, Served, Exists
  <2>2. CASE o = p /\ certs'[p] = row
    BY <1>3, <2>2 DEF Calm, Served, Exists
  <2> QED BY <2>1, <2>2
<1>4. ASSUME crashes' = 0, NEW o \in Orders, Exists(o)'
      PROVE  /\ certs'[o].dates # None =>
                   certs'[o].raw # None /\ certs'[o].dates.order = certs'[o].raw.order
             /\ orders'[o] = "processing" /\ certs'[o].raw # None =>
                   pc'[w] \in {"setValid", "triggerValid"} /\ loc'[w].order = o
  <2>1. CASE o # p \/ certs'[p] = certs[p]
    BY <1>0, <1>4, <2>1 DEF DatesFit, Exists
  <2>2. CASE o = p /\ certs'[p] = row
    BY <1>0, <1>4, <2>2 DEF DatesFit, Exists
  <2> QED BY <2>1, <2>2
<1> QED BY <1>1, <1>2, <1>3, <1>4 DEF Calm, DatesFit

\* The steps of an enrollment, and of a poll, that write the row.
LEMMA CalmStores ==
  ASSUME TypeOK, NEW w \in Worker, ProcessShape(w), Calm(w),
         StoreCsr(w) \/ StoreCert(w) \/ StoreCertError(w)
  PROVE  Calm(w)'
<1>0. /\ StoreTypeOK /\ loc[w] \in Loc /\ loc[w].order \in Orders /\ loc[w].x \in X509
      /\ pc \in [Worker -> Labels] /\ loc \in [Worker -> Loc]
      /\ \A o \in Orders : Exists(o) => certs[o] \in CertRow
  BY DEF TypeOK, StoreTypeOK, ProcessShape, StoreCsr, StoreCert, StoreCertError, At, Enrolling, Jobs,
     Exists
<1>goto. ASSUME NEW label, NEW l, Goto(w, label, l)
         PROVE  pc'[w] = label /\ loc'[w] = l
  BY <1>0, <1>goto DEF Goto
<1>x. loc[w].x # None /\ loc[w].x \notin {None, Removal}
  BY <1>0, RowAssumption
<1> DEFINE p == loc[w].order
<1>1. ASSUME StoreCsr(w)
      PROVE  Calm(w)'
  <2> DEFINE row == [csr |-> loc[w].x.csr, cert |-> None, raw |-> None, dates |-> None, polled |-> FALSE]
  <2>1. pc[w] = "storeCsr" /\ pc'[w] \in {"enroll", "idle"} /\ UNCHANGED <<expired, aged, crashes>>
    BY <1>1, <1>goto DEF StoreCsr, At, Done, clock
  <2>2. orders[p] # "valid"
    BY <2>1 DEF Calm, Justified
  <2>3. certs' = [certs EXCEPT ![p] = row] /\ Hold(w, "certs", p, row) /\ orders' = orders
    BY <1>1 DEF StoreCsr, certificate_new
  <2>4. row \in CertRow /\ row.raw = None /\ row.dates = None
    BY <1>0 DEF CertRow, X509
  <2> HIDE DEF row
  <2>5. held'[w] = [table |-> "certs", row |-> p, value |-> row]
    BY <1>0, <2>3 DEF Hold, StoreTypeOK
  <2>6. held'[w].table = "certs" /\ held'[w].row = p /\ held'[w].value = row
    BY <2>5
  <2>7. certs'[p] = row /\ \A o \in Orders : o # p => certs'[o] = certs[o]
    BY <1>0, <2>3 DEF StoreTypeOK
  <2>8. HeldFits(w)'
    BY <2>6, <2>7 DEF HeldFits
  <2> HIDE DEF p
  <2>9. p \in Orders
    BY <1>0 DEF p
  <2> QED BY <2>1, <2>2, <2>3, <2>4, <2>7, <2>8, <2>9, CalmEnrolls DEF Jobs, Triggering
<1>2. ASSUME StoreCert(w)
      PROVE  Calm(w)'
  <2> DEFINE row == [certs[p] EXCEPT !.cert = loc[w].x, !.raw = loc[w].x, !.dates = loc[w].x]
  <2>1. /\ pc[w] = "storeCert" /\ pc'[w] = "setValid" /\ loc'[w] = loc[w]
        /\ UNCHANGED <<expired, aged, crashes>> /\ held[w] = Nothing
    BY <1>2, <1>goto DEF StoreCert, At, clock
  <2>2. Exists(p) => /\ row \in CertRow /\ row.cert = loc[w].x /\ row.raw = loc[w].x
                     /\ row.dates = loc[w].x
    BY <1>0 DEF CertRow
  <2>3. certificate_add(w, p, row)
    BY <1>2 DEF StoreCert
  <2> HIDE DEF row
  <2>4. /\ orders' = orders /\ HeldFits(w)'
        /\ Exists(p) => certs'[p] = row
        /\ \A o \in Orders : o # p \/ ~ Exists(p) => certs'[o] = certs[o]
    BY <1>0, <2>1, <2>2, <2>3, AddEffect
  <2>5. loc'[w].order = p
    BY <2>1
  <2> HIDE DEF p
  <2>6. p \in Orders
    BY <1>0 DEF p
  <2>7. CASE Exists(p)
    <3>1. row \in CertRow /\ row.cert = loc[w].x /\ row.raw = loc[w].x /\ row.dates = loc[w].x
      BY <2>2, <2>7
    <3>2. certs'[p] = row /\ \A o \in Orders : o # p => certs'[o] = certs[o]
      BY <2>4, <2>7
    <3>3. row.cert \in X509 /\ row.raw # None /\ row.dates = row.raw
      BY <1>0, <1>x, <3>1
    <3> QED BY <2>1, <2>4, <2>5, <2>6, <3>1, <3>2, <3>3, CalmEnrolls
  <2>8. CASE ~ Exists(p)
    <3>1. \A o \in Orders : certs'[o] = certs[o]
      BY <2>4, <2>8
    <3>2. certs'[p] = None
      BY <2>6, <2>8, <3>1 DEF Exists
    <3>3. Undisturbed(w)'
      BY <2>1, <2>4 DEF Undisturbed, HeldFits, Triggering, Jobs
    <3>4. Justified(w)'
      BY <2>1, <2>5, <3>2 DEF Justified, Jobs, Exists
    <3>5. \A o \in Orders : (orders[o] = "valid" /\ Exists(o) => Served(o))'
      BY <2>1, <2>4, <3>1 DEF Calm, Served, Exists
    <3>6. crashes' = 0 => DatesFit(w)'
      BY <2>1, <2>4, <3>1 DEF Calm, DatesFit, Exists
    <3> QED BY <3>3, <3>4, <3>5, <3>6 DEF Calm
  <2> QED BY <2>7, <2>8
<1>3. ASSUME StoreCertError(w)
      PROVE  Calm(w)'
  <2> DEFINE row == [certs[p] EXCEPT !.polled = server.handler = "asynchronous"]
  <2>1. /\ pc[w] \in {"storeError", "storeReject"} /\ pc'[w] \in {"idle", "setInvalid"}
        /\ UNCHANGED <<expired, aged, crashes>> /\ held[w] = Nothing
    BY <1>3, <1>goto DEF StoreCertError, At, Done, clock
  <2>2. Exists(p) => /\ row \in CertRow /\ row.cert = certs[p].cert /\ row.raw = certs[p].raw
                     /\ row.dates = certs[p].dates
    BY <1>0 DEF CertRow
  <2>3. certificate_add(w, p, row)
    BY <1>3 DEF StoreCertError
  <2> HIDE DEF row
  <2>4. /\ orders' = orders /\ HeldFits(w)'
        /\ Exists(p) => certs'[p] = row
        /\ \A o \in Orders : o # p \/ ~ Exists(p) => certs'[o] = certs[o]
    BY <1>0, <2>1, <2>2, <2>3, AddEffect
  <2> HIDE DEF p
  <2>6. p \in Orders
    BY <1>0 DEF p
  <2>9. pc[w] \notin {"setValid", "triggerValid"} /\ pc'[w] \notin Jobs \cup Triggering \cup {"storeCsr", "setValid"}
    BY <2>1 DEF Jobs, Triggering
  <2>7. CASE Exists(p)
    <3>1. row \in CertRow /\ row.cert = certs[p].cert /\ row.raw = certs[p].raw /\ row.dates = certs[p].dates
      BY <2>2, <2>7
    <3>2. certs'[p] = row /\ \A o \in Orders : o # p => certs'[o] = certs[o]
      BY <2>4, <2>7
    <3> QED BY <2>1, <2>4, <2>6, <2>7, <2>9, <3>1, <3>2, CalmEnrolls
  <2>8. CASE ~ Exists(p)
    <3>1. UNCHANGED <<certs, held>>
      BY <2>3, <2>8 DEF certificate_add
    <3> QED BY <2>1, <2>4, <2>9, <3>1, CalmGoesOn
  <2> QED BY <2>7, <2>8
<1> QED BY <1>1, <1>2, <1>3

\* A job has dealt with row o and goes on with the others, which are as it read
\* them.
LEMMA CalmJobs ==
  ASSUME TypeOK, NEW w \in Worker, ProcessShape(w), Calm(w), NEW o \in Orders,
         pc[w] \in Jobs, o \in loc[w].todo, RowDone(w, o),
         orders' = orders, HeldFits(w)', \A p \in Orders : p # o => certs'[p] = certs[p],
         UNCHANGED <<expired, aged, crashes>>,
         orders[o] = "valid" /\ certs'[o] # None => Served(o)',
         crashes = 0 /\ certs'[o] # None =>
            /\ certs'[o].raw = certs[o].raw
            /\ certs'[o].dates # None =>
                  certs'[o].raw # None /\ certs'[o].dates.order = certs'[o].raw.order
  PROVE  Calm(w)'
<1>0. /\ StoreTypeOK /\ loc[w].todo \subseteq Orders
      /\ \A p \in loc[w].todo : loc[w].rows[p] \in CertRow
  BY DEF TypeOK, StoreTypeOK, Loc, ProcessShape
<1>1. \/ pc'[w] = "idle"
      \/ /\ pc'[w] = pc[w] /\ loc'[w].todo = loc[w].todo \ {o}
         /\ \A p \in loc'[w].todo : loc'[w].rows[p] = loc[w].rows[p]
  BY <1>0, RowDoneShape
<1>2. \A p \in loc[w].todo : Exists(p) /\ loc[w].rows[p] =
                                IF pc[w] = "date" THEN certs[p] ELSE dated(certs[p])
  BY DEF Calm, Undisturbed
<1>3. Undisturbed(w)'
  <2>1. ASSUME pc'[w] \in Jobs, NEW p \in loc'[w].todo
        PROVE  (Exists(p) /\ loc[w].rows[p] = IF pc[w] = "date" THEN certs[p] ELSE dated(certs[p]))'
    <3>1. pc'[w] = pc[w] /\ p \in loc[w].todo /\ p # o /\ loc'[w].rows[p] = loc[w].rows[p] /\ p \in Orders
      BY <1>0, <1>1, <2>1 DEF Jobs
    <3>2. certs'[p] = certs[p]
      BY <3>1
    <3> QED BY <1>2, <3>1, <3>2 DEF Exists, dated
  <2>2. pc'[w] \notin Triggering
    BY <1>1 DEF Triggering, Jobs
  <2> QED BY <2>1, <2>2 DEF Undisturbed, HeldFits, Triggering
<1>4. Justified(w)'
  <2>1. ASSUME pc'[w] # "idle", NEW p \in loc'[w].todo
        PROVE  pc'[w] = pc[w] /\ p \in loc[w].todo /\ loc'[w].rows[p] = loc[w].rows[p] /\ certs'[p] = certs[p]
    BY <1>0, <1>1, <2>1
  <2>2. pc'[w] = "idle" \/ pc'[w] = pc[w]
    BY <1>1
  <2>3. pc'[w] \notin {"storeCsr", "setValid", "triggerValid"}
    BY <2>2 DEF Jobs
  <2>4. pc'[w] \in {"clean", "purge"} => \A p \in loc'[w].todo :
          /\ pc'[w] = "clean" => certs'[p].cert # Removal
          /\ certs'[p].cert # Removal =>
                LET dates == loc'[w].rows[p].dates
                IN  IF dates # None THEN dates.order \in expired'
                                    ELSE certs'[p].raw = None /\ p \in aged'
    BY <2>1 DEF Calm, Justified
  <2>5. pc'[w] = "date" => \A p \in loc'[w].todo : certs'[p].dates = None /\ certs'[p].raw # None
    BY <2>1 DEF Calm, Justified
  <2> QED BY <2>3, <2>4, <2>5 DEF Justified
<1>5. \A p \in Orders : (orders[p] = "valid" /\ Exists(p) => Served(p))'
  <2>1. ASSUME NEW p \in Orders, p # o
        PROVE  (orders[p] = "valid" /\ Exists(p) => Served(p))'
    <3>1. certs'[p] = certs[p]
      BY <2>1
    <3> QED BY <3>1 DEF Calm, Served, Exists
  <2> QED BY <2>1 DEF Exists
<1>6. crashes' = 0 => DatesFit(w)'
  <2>1. ASSUME crashes = 0, NEW p \in Orders, certs'[p] # None
        PROVE  /\ certs'[p].raw = certs[p].raw
               /\ certs'[p].dates # None =>
                     certs'[p].raw # None /\ certs'[p].dates.order = certs'[p].raw.order
               /\ ~ (orders[p] = "processing" /\ certs[p].raw # None)
    <3>1. Exists(p)
      BY <1>0, <1>2, <2>1 DEF Exists
    <3>2. ~ (orders[p] = "processing" /\ certs[p].raw # None)
      BY <2>1, <3>1 DEF Calm, DatesFit, Jobs
    <3>3. certs[p].dates # None => certs[p].raw # None /\ certs[p].dates.order = certs[p].raw.order
      BY <2>1, <3>1 DEF Calm, DatesFit
    <3> QED BY <2>1, <3>2, <3>3
  <2> QED BY <2>1 DEF DatesFit, Exists
<1> QED BY <1>3, <1>4, <1>5, <1>6 DEF Calm

\* The jobs deal with their rows.
LEMMA CalmRows ==
  ASSUME TypeOK, NEW w \in Worker, ProcessShape(w), Calm(w), NEW o \in Orders,
         CleanRow(w, o) \/ PurgeRow(w, o) \/ DateRow(w, o)
  PROVE  Calm(w)'
<1>0. /\ StoreTypeOK /\ o \in loc[w].todo /\ pc[w] \in Jobs /\ held[w] = Nothing
      /\ RowDone(w, o) /\ UNCHANGED <<expired, aged, crashes>>
  BY DEF TypeOK, CleanRow, PurgeRow, DateRow, At, Jobs, clock
<1>1. /\ Exists(o) /\ certs[o] \in CertRow
      /\ loc[w].rows[o] = IF pc[w] = "date" THEN certs[o] ELSE dated(certs[o])
  BY <1>0 DEF Calm, Undisturbed, TypeOK, StoreTypeOK, Exists
<1>2. crashes = 0 /\ certs[o].dates # None =>
         certs[o].raw # None /\ certs[o].dates.order = certs[o].raw.order
  BY <1>1 DEF Calm, DatesFit
<1>3. orders[o] = "valid" => Served(o)
  BY <1>1 DEF Calm
<1>4. ASSUME CleanRow(w, o)
      PROVE  Calm(w)'
  <2> DEFINE old == loc[w].rows[o]
             row == [certs[o] EXCEPT !.cert = Removal, !.raw = old.raw, !.dates = old.dates]
  <2>1. pc[w] = "clean" /\ certificate_add(w, o, row)
    BY <1>4 DEF CleanRow, At
  <2>2. /\ certs[o].cert # Removal /\ old.raw = certs[o].raw
        /\ old.dates = IF certs[o].dates = None THEN certs[o].raw ELSE certs[o].dates
        /\ IF old.dates # None THEN old.dates.order \in expired ELSE certs[o].raw = None
    <3>1. certs[o].cert # Removal
      BY <1>0, <2>1 DEF Calm, Justified
    <3>2. old = dated(certs[o])
      BY <1>1, <2>1
    <3>3. IF old.dates # None THEN old.dates.order \in expired ELSE certs[o].raw = None
      BY <1>0, <2>1, <3>1 DEF Calm, Justified
    <3> QED BY <1>1, <3>1, <3>2, <3>3, DatedRow
  <2>3. old.raw \in X509 \cup {None} /\ old.dates \in X509 \cup {None}
    BY <1>1, <2>2 DEF CertRow
  <2>4. row \in CertRow /\ row.cert = Removal /\ row.raw = old.raw /\ row.dates = old.dates
    BY <1>1, <2>3 DEF CertRow
  <2> HIDE DEF row, old
  <2>5. orders' = orders /\ HeldFits(w)' /\ certs'[o] = row /\ \A p \in Orders : p # o => certs'[p] = certs[p]
    BY <1>0, <1>1, <2>1, <2>4, AddEffect
  <2>6. orders[o] = "valid" => Served(o)'
    BY <1>0, <1>3, <2>2, <2>4, <2>5 DEF Served
  <2>7. crashes = 0 => /\ row.raw = certs[o].raw
                       /\ row.dates # None => row.raw # None /\ row.dates.order = row.raw.order
    BY <1>2, <2>2, <2>4
  <2> QED BY <1>0, <2>5, <2>6, <2>7, CalmJobs
<1>5. ASSUME PurgeRow(w, o)
      PROVE  Calm(w)'
  <2>1. UNCHANGED <<orders, held>> /\ certs' = [certs EXCEPT ![o] = None]
    BY <1>5 DEF PurgeRow, certificate_delete
  <2>2. certs'[o] = None /\ \A p \in Orders : p # o => certs'[p] = certs[p]
    BY <1>0, <2>1 DEF StoreTypeOK
  <2>3. HeldFits(w)'
    BY <1>0, <2>1 DEF HeldFits
  <2> QED BY <1>0, <2>1, <2>2, <2>3, CalmJobs
<1>6. ASSUME DateRow(w, o)
      PROVE  Calm(w)'
  <2> DEFINE old == loc[w].rows[o]
             row == [certs[o] EXCEPT !.cert = old.cert, !.raw = old.raw, !.dates = old.raw]
  <2>1. pc[w] = "date" /\ certificate_add(w, o, row)
    BY <1>6 DEF DateRow, At
  <2>2. old = certs[o] /\ certs[o].dates = None /\ certs[o].raw # None
    BY <1>0, <1>1, <2>1 DEF Calm, Justified
  <2>3. row \in CertRow /\ row.cert = certs[o].cert /\ row.raw = certs[o].raw /\ row.dates = certs[o].raw
    BY <1>1, <2>2 DEF CertRow
  <2> HIDE DEF row
  <2>5. orders' = orders /\ HeldFits(w)' /\ certs'[o] = row /\ \A p \in Orders : p # o => certs'[p] = certs[p]
    BY <1>0, <1>1, <2>1, <2>3, AddEffect
  <2>6. orders[o] = "valid" => Served(o)'
    BY <1>0, <1>3, <2>2, <2>3, <2>5 DEF Served
  <2>7. row.raw = certs[o].raw /\ row.raw # None /\ row.dates.order = row.raw.order
    BY <2>2, <2>3
  <2> QED BY <1>0, <2>5, <2>6, <2>7, CalmJobs
<1> QED BY <1>4, <1>5, <1>6

\* Tables and clock as they are, the process at a step that asks of them only
\* what it has just read.
LEMMA CalmReady ==
  ASSUME NEW w \in Worker, Calm(w), UNCHANGED <<orders, certs, held, expired, aged, crashes>>,
         pc[w] \notin {"setValid", "triggerValid"}, Undisturbed(w)', Justified(w)'
  PROVE  Calm(w)'
<1>1. \A o \in Orders : (orders[o] = "valid" /\ Exists(o) => Served(o))'
  BY DEF Calm, Served, Exists
<1>2. crashes' = 0 => DatesFit(w)'
  BY DEF Calm, DatesFit, Exists
<1> QED BY <1>1, <1>2 DEF Calm

\* The jobs begin.
LEMMA CalmBegins ==
  ASSUME TypeOK, NEW w \in Worker, Calm(w),
         (\E purge \in BOOLEAN : Cleanup(w, purge)) \/ DatesUpdate(w)
  PROVE  Calm(w)'
<1>0. /\ pc \in [Worker -> Labels] /\ loc \in [Worker -> Loc]
      /\ \A o \in Orders : Exists(o) => certs[o] \in CertRow
  BY DEF TypeOK, StoreTypeOK, Exists
<1>1. ASSUME NEW purge \in BOOLEAN, Cleanup(w, purge)
      PROVE  Calm(w)'
  <2> DEFINE list == {o \in expired_search : invalidation_check(certs[o], o, purge)}
             rows == [o \in Orders |-> IF o \in list THEN dated(certs[o]) ELSE None]
             l == [Idle EXCEPT !.todo = list, !.rows = rows]
             label == IF purge THEN "purge" ELSE "clean"
  <2>0. l.todo = list /\ l.rows = rows
    BY DEF Idle
  <2>1. ASSUME NEW o \in list
        PROVE  /\ o \in Orders /\ Exists(o) /\ rows[o] = dated(certs[o])
               /\ certs[o].dates = None \/ certs[o].dates.order \in expired
               /\ invalidation_check(certs[o], o, purge)
    BY DEF expired_search
  <2>2. ASSUME NEW o \in list
        PROVE  /\ ~ purge => certs[o].cert # Removal
               /\ certs[o].cert # Removal =>
                     IF rows[o].dates # None THEN rows[o].dates.order \in expired
                                             ELSE certs[o].raw = None /\ o \in aged
    <3>1. /\ Exists(o) /\ certs[o] \in CertRow /\ rows[o] = dated(certs[o])
          /\ certs[o].dates = None \/ certs[o].dates.order \in expired
          /\ invalidation_check(certs[o], o, purge)
      BY <1>0, <2>1
    <3>2. rows[o].dates = IF certs[o].cert # Removal /\ certs[o].dates = None
                          THEN certs[o].raw ELSE certs[o].dates
      BY <3>1, DatedRow
    <3> HIDE DEF list, rows
    <3> QED BY <3>1, <3>2 DEF invalidation_check
  <2> HIDE DEF list, rows, l, label
  <2>3. Goto(w, label, l) /\ label = IF purge THEN "purge" ELSE "clean"
    BY <1>1 DEF Cleanup, list, rows, l, label
  <2>4. pc'[w] = label /\ loc'[w].todo = list /\ loc'[w].rows = rows
    BY <1>0, <2>0, <2>3 DEF Goto
  <2>5. /\ UNCHANGED <<orders, certs, held, expired, aged, crashes>> /\ held[w] = Nothing
        /\ pc[w] = "idle"
    BY <1>1 DEF Cleanup, At, store, clock
  <2>6. Undisturbed(w)'
    <3>1. \A o \in list : certs'[o] # None /\ rows[o] = dated(certs'[o])
      BY <2>1, <2>5 DEF Exists
    <3> QED BY <2>3, <2>4, <2>5, <3>1 DEF Undisturbed, Triggering, Exists
  <2>7. Justified(w)'
    BY <2>2, <2>3, <2>4, <2>5 DEF Justified
  <2> QED BY <2>5, <2>6, <2>7, CalmReady
<1>2. ASSUME DatesUpdate(w)
      PROVE  Calm(w)'
  <2> DEFINE list == {o \in Orders : Exists(o) /\ certs[o].dates = None /\ certs[o].raw # None}
             rows == [o \in Orders |-> IF o \in list THEN certs[o] ELSE None]
             l == [Idle EXCEPT !.todo = list, !.rows = rows]
  <2>0. l.todo = list /\ l.rows = rows
    BY DEF Idle
  <2>1. ASSUME NEW o \in list
        PROVE  /\ o \in Orders /\ Exists(o) /\ rows[o] = certs[o]
               /\ certs[o].dates = None /\ certs[o].raw # None
    OBVIOUS
  <2> HIDE DEF list, rows, l
  <2>3. Goto(w, "date", l)
    BY <1>2 DEF DatesUpdate, list, rows, l
  <2>4. pc'[w] = "date" /\ loc'[w].todo = list /\ loc'[w].rows = rows
    BY <1>0, <2>0, <2>3 DEF Goto
  <2>5. /\ UNCHANGED <<orders, certs, held, expired, aged, crashes>> /\ held[w] = Nothing
        /\ pc[w] = "idle"
    BY <1>2 DEF DatesUpdate, At, store, clock
  <2>6. Undisturbed(w)'
    <3>1. \A o \in list : certs'[o] # None /\ rows[o] = certs'[o]
      BY <2>1, <2>5 DEF Exists
    <3> QED BY <2>4, <2>5, <3>1 DEF Undisturbed, Triggering, Exists
  <2>7. Justified(w)'
    BY <2>1, <2>4, <2>5 DEF Justified
  <2> QED BY <2>5, <2>6, <2>7, CalmReady
<1> QED BY <1>1, <1>2

\* The trigger stores a certificate with orders that it has found in processing.
LEMMA CalmTrigger ==
  ASSUME TypeOK, NEW w \in Worker, ProcessShape(w), Calm(w),
         TriggerSearch(w) \/ \E o \in Orders : TriggerStore(w, o)
  PROVE  Calm(w)'
<1>0. /\ pc \in [Worker -> Labels] /\ loc \in [Worker -> Loc] /\ StoreTypeOK /\ loc[w] \in Loc
      /\ \A o \in Orders : Exists(o) => certs[o] \in CertRow
  BY DEF TypeOK, StoreTypeOK, Exists
<1>1. ASSUME TriggerSearch(w)
      PROVE  Calm(w)'
  <2> DEFINE list == certname_lookup(loc[w].x)
  <2>1. /\ pc[w] = "triggerSearch" /\ held[w] = Nothing
        /\ UNCHANGED <<orders, certs, held, expired, aged, crashes>>
    BY <1>1 DEF TriggerSearch, At, store, clock
  <2>2. CASE Done(w)
    <3>1. pc'[w] = "idle"
      BY <1>0, <2>2 DEF Done, Goto
    <3> QED BY <2>1, <3>1, CalmGoesOn DEF Jobs, Triggering
  <2>3. CASE Goto(w, "triggerStore", [loc[w] EXCEPT !.todo = list])
    <3>1. pc'[w] = "triggerStore" /\ loc'[w].todo = list
      BY <1>0, <2>3 DEF Goto, Loc
    <3>2. \A o \in list : orders[o] = "processing"
      BY DEF certname_lookup, processing_search
    <3> HIDE DEF list
    <3>3. Undisturbed(w)'
      BY <2>1, <3>1, <3>2 DEF Undisturbed, Jobs
    <3>4. Justified(w)'
      BY <3>1 DEF Justified
    <3> QED BY <2>1, <3>3, <3>4, CalmReady
  <2> QED BY <1>1, <2>2, <2>3 DEF TriggerSearch
<1>2. ASSUME NEW o \in Orders, TriggerStore(w, o)
      PROVE  Calm(w)'
  <2> DEFINE row == [certs[o] EXCEPT !.cert = loc[w].x, !.raw = loc[w].x]
  <2>1. /\ pc[w] = "triggerStore" /\ o \in loc[w].todo /\ loc[w].x \in X509 /\ held[w] = Nothing
        /\ certificate_add(w, o, row) /\ UNCHANGED <<expired, aged, crashes>>
    BY <1>2 DEF TriggerStore, At, ProcessShape, Jobs, clock
  <2>2. loc[w].x # None
    BY <2>1, RowAssumption
  <2>3. Exists(o) => /\ row \in CertRow /\ row.cert = loc[w].x /\ row.raw = loc[w].x
                     /\ row.dates = certs[o].dates
    BY <1>0, <2>1 DEF CertRow
  <2> HIDE DEF row
  <2>4. /\ orders' = orders /\ HeldFits(w)'
        /\ Exists(o) => certs'[o] = row /\ row # None
        /\ \A p \in Orders : p # o \/ ~ Exists(o) => certs'[p] = certs[p]
    BY <1>0, <2>1, <2>3, AddEffect
  <2>5. pc'[w] = "triggerValid" /\ loc'[w].todo = loc[w].todo \ {o} /\ loc'[w].order = o
    BY <1>0, <1>2 DEF TriggerStore, Goto, Loc
  <2>6. \A p \in loc[w].todo : orders[p] = "processing"
    BY <2>1 DEF Calm, Undisturbed, Triggering
  <2>7. Undisturbed(w)'
    BY <2>4, <2>5, <2>6 DEF Undisturbed, HeldFits, Jobs
  <2>8. Justified(w)'
    <3>1. certs'[o] # None => certs'[o].cert \in X509 /\ certs'[o].raw # None
      BY <2>1, <2>2, <2>3, <2>4 DEF Exists
    <3> QED BY <2>5, <3>1 DEF Justified, Exists
  <2>9. \A p \in Orders : (orders[p] = "valid" /\ Exists(p) => Served(p))'
    BY <2>1, <2>4, <2>6 DEF Calm, Served, Exists
  <2>10. crashes' = 0 => DatesFit(w)'
    <3>1. ASSUME crashes = 0, NEW p \in Orders, certs'[p] # None, p # o \/ ~ Exists(o)
          PROVE  /\ certs'[p] = certs[p]
                 /\ certs[p].dates # None =>
                       certs[p].raw # None /\ certs[p].dates.order = certs[p].raw.order
                 /\ ~ (orders[p] = "processing" /\ certs[p].raw # None)
      BY <2>1, <2>4, <3>1 DEF Calm, DatesFit, Exists
    <3>2. ASSUME crashes = 0, Exists(o)
          PROVE  certs'[o].dates = None
      <4>1. certs[o].raw = None
        BY <2>1, <2>6, <3>2 DEF Calm, DatesFit
      <4> QED BY <2>3, <2>4, <3>2, <4>1 DEF Calm, DatesFit
    <3>3. crashes = 0 => \A p \in Orders : certs'[p] # None =>
            /\ certs'[p].dates # None =>
                  certs'[p].raw # None /\ certs'[p].dates.order = certs'[p].raw.order
            /\ orders[p] = "processing" /\ certs'[p].raw # None => p = o
      BY <3>1, <3>2
    <3> QED BY <2>1, <2>4, <2>5, <3>3 DEF DatesFit, Exists
  <2> QED BY <2>7, <2>8, <2>9, <2>10 DEF Calm
<1> QED BY <1>1, <1>2

\* Time passes.
LEMMA CalmClock ==
  ASSUME NEW w \in Worker, Calm(w),
         UNCHANGED <<orders, certs, held, pc, loc>>, expired \subseteq expired', aged \subseteq aged',
         crashes' = crashes
  PROVE  Calm(w)'
<1>1. Undisturbed(w)'
  BY DEF Calm, Undisturbed, Exists
<1>2. Justified(w)'
  BY DEF Calm, Justified, Exists
<1>3. \A o \in Orders : (orders[o] = "valid" /\ Exists(o) => Served(o))'
  BY DEF Calm, Served, Exists
<1>4. crashes' = 0 => DatesFit(w)'
  BY DEF Calm, DatesFit, Exists
<1> QED BY <1>1, <1>2, <1>3, <1>4 DEF Calm

\* So one process always finds the rows as it read them.
LEMMA RowsStep ==
  ASSUME TypeOK, \A w \in Worker : ProcessShape(w), OneKey, RowsUndisturbed, [Next]_allvars
  PROVE  RowsUndisturbed'
<1>0. server.workers \subseteq Worker
  BY ServerType DEF TypeOK
<1>1. RowsUndisturbed <=> \A w \in server.workers : Alone => Calm(w)
  BY DEF RowsUndisturbed, Calm
<1>2. RowsUndisturbed' <=> \A w \in server'.workers : Alone' => Calm(w)'
  BY DEF RowsUndisturbed, Calm
<1>3. ASSUME NEW w \in Worker, Calm(w), Step(w)
      PROVE  Calm(w)'
  <2>1. CASE HandlerStep(w)
    BY <1>3, <2>1, CalmReads, CalmStores, CalmRows, CalmBegins DEF HandlerStep, Housekeeping
  <2>2. CASE TriggerStep(w)
    BY <1>3, <2>2, CalmReads, CalmTrigger DEF TriggerStep
  <2> QED BY <1>3, <2>1, <2>2, CalmReads DEF Step
<1>4. ASSUME NEW w \in server.workers, Step(w)
      PROVE  RowsUndisturbed'
  <2>1. server' = server
    BY <1>0, <1>4, StepFacts
  <2>2. ASSUME NEW v \in server.workers, Alone
        PROVE  Calm(v)'
    <3>1. v = w
      BY <1>4, <2>2 DEF Alone
    <3> QED BY <1>0, <1>1, <1>3, <1>4, <2>2, <3>1
  <2> QED BY <1>2, <2>1, <2>2 DEF Alone
<1>5. ASSUME \/ \E o \in Orders : /\ CertificateExpires(o) \/ RowAges(o)
                                  /\ UNCHANGED <<ca, submitted>>
             \/ UNCHANGED allvars
      PROVE  RowsUndisturbed'
  <2>1. /\ UNCHANGED <<orders, certs, held, pc, loc, server>>
        /\ expired \subseteq expired' /\ aged \subseteq aged'
    BY <1>5, ClockKeeps
  <2>2. crashes' = crashes
    BY <1>5 DEF CertificateExpires, RowAges, allvars
  <2> QED BY <1>0, <1>1, <1>2, <2>1, <2>2, CalmClock DEF Alone
<1> QED BY <1>4, <1>5, NextCases

-----------------------------------------------------------------------------
(* The invariant, and what follows from it.                                *)

\* At the start there are the rows and certificates from before.
LEMMA InitInv ==
  ASSUME Init
  PROVE  CertInv
<1>0. /\ server \in Deployments /\ server.workers \subseteq Worker
      /\ server.issued \in [Orders -> Csrs \cup {None}]
      /\ None \notin Csrs /\ Removal # None /\ MaxCrashes \in Nat
  BY CertificatesAssumption DEF Init, StoreInit
<1>1. \A o \in Issued : o \in Orders /\ server.issued[o] \in Csrs /\ X509Issued(o) \in X509
  BY <1>0 DEF Issued, X509, X509Issued
<1>2. /\ \A o \in Orders : Exists(o) <=> o \in Issued
      /\ \A o \in Issued :
            /\ certs[o] \in CertRow
            /\ certs[o].csr = server.issued[o] /\ certs[o].cert = X509Issued(o)
            /\ certs[o].raw = X509Issued(o) /\ certs[o].dates = X509Issued(o)
            /\ certs[o].polled = FALSE
  <2> DEFINE row(o) == [csr |-> server.issued[o], cert |-> X509Issued(o), raw |-> X509Issued(o),
                        dates |-> X509Issued(o), polled |-> FALSE]
  <2>1. \A o \in Orders : certs[o] = IF o \in Issued THEN row(o) ELSE None
    BY DEF Init, StoreInit
  <2>2. ASSUME NEW o \in Issued
        PROVE  /\ row(o) \in CertRow
               /\ row(o).csr = server.issued[o] /\ row(o).cert = X509Issued(o)
               /\ row(o).raw = X509Issued(o) /\ row(o).dates = X509Issued(o) /\ row(o).polled = FALSE
    BY <1>1 DEF CertRow
  <2> HIDE DEF row
  <2> QED BY <1>1, <2>1, <2>2, RowAssumption DEF Exists
<1>3. \A w \in Worker : pc[w] = "idle" /\ held[w] = Nothing
  BY DEF Init, StoreInit
<1>4. \A o \in Orders : orders[o] = IF o \in Issued THEN "valid" ELSE "ready"
  BY DEF Init, StoreInit
<1>5. TypeOK
  <2>1. certs \in [Orders -> CertRow \cup {None}]
    <3>1. \A o \in Orders : certs[o] \in CertRow \cup {None}
      BY <1>2 DEF Exists
    <3>2. certs = [o \in Orders |-> certs[o]]
      BY DEF Init, StoreInit
    <3> QED BY <3>1, <3>2
  <2>2. disk \subseteq X509
    BY <1>1 DEF Init, CAInit
  <2>3. /\ orders \in [Orders -> OrderStatus] /\ held \in [Worker -> Held \cup {Nothing}]
        /\ pc \in [Worker -> Labels] /\ loc \in [Worker -> Loc]
    BY FreshLoc DEF Init, StoreInit, OrderStatus, Labels
  <2>4. /\ expired = {} /\ aged = {} /\ crashes = 0 /\ crl = {} /\ revoked = {} /\ submitted = {}
    BY DEF Init, StoreInit, CAInit
  <2> QED BY <1>0, <2>1, <2>2, <2>3, <2>4 DEF TypeOK, StoreTypeOK, CATypeOK
<1>6. \A w \in Worker : ProcessShape(w)
  BY <1>3 DEF ProcessShape, Enrolling, Jobs
<1>7. \A w \in Worker, o \in Orders : InHand(w, o) = {} /\ ~ InSave(w, o)
  BY <1>3 DEF InHand, InSave, Enrolling, Triggering, Jobs
<1>8. OneKey
  <2>1. ASSUME NEW o \in Orders, NEW k, Named(o, k)
        PROVE  o \in Issued /\ k = server.issued[o].key
    <3>1. o \in Issued
      BY <1>2, <1>7, <2>1 DEF Named
    <3>2. \A x \in Held509(certs[o]) : x = X509Issued(o)
      BY <1>2, <3>1 DEF Held509
    <3>3. X509Issued(o).csr = server.issued[o] /\ certs[o].csr = server.issued[o]
      BY <1>2, <3>1 DEF X509Issued
    <3>4. \/ certs[o].csr.key = k
          \/ \E x \in Held509(certs[o]) : x.csr.key = k
      BY <1>7, <2>1 DEF Named
    <3> QED BY <3>1, <3>2, <3>3, <3>4
  <2> QED BY <1>4, <2>1 DEF OneKey
<1>9. NothingPolled
  BY <1>2, <1>3, <1>7 DEF NothingPolled, Triggering, Init
<1>10. OnDisk
  <2>1. \A o \in Orders : Exists(o) => Held509(certs[o]) \subseteq disk
    BY <1>2 DEF Init, CAInit, Held509
  <2>2. crl = {} /\ disk = {X509Issued(o) : o \in Issued}
    BY DEF Init, CAInit
  <2>3. ASSUME server.handler = "openssl"
        PROVE  AllowedNames
    <3>1. ASSUME NEW x \in disk, NEW name \in x.csr.names
          PROVE  /\ \A regex \in Blacklist : name \notin regex
                 /\ Whitelist # {} => name \in UNION Whitelist
      <4>1. PICK o \in Issued : x = X509Issued(o)
        BY <2>2, <3>1
      <4>2. csr_check(server.issued[o])
        BY <1>0, <2>3, OpensslAssumption DEF Issued
      <4> QED BY <3>1, <4>1, <4>2, ListsRespected DEF X509Issued
    <3> QED BY <3>1 DEF AllowedNames
  <2> QED BY <2>1, <2>2, <2>3 DEF OnDisk
<1>11. HandOnDisk
  BY <1>3, <1>7 DEF HandOnDisk
<1>12. CrlUndisturbed
  <2>1. crl = {} /\ revoked = {} /\ crl # Truncated
    BY OpensslAssumption DEF Init, CAInit
  <2> QED BY <1>0, <1>3, <2>1 DEF CrlUndisturbed
<1>13. RowsUndisturbed
  <2>1. ASSUME NEW w \in server.workers
        PROVE  Undisturbed(w) /\ Justified(w)
    BY <1>0, <1>3 DEF Undisturbed, Justified, Jobs, Triggering
  <2>2. ASSUME NEW o \in Orders, Exists(o)
        PROVE  Served(o)
    BY <1>1, <1>2, <2>2, RowAssumption DEF Served
  <2>3. ASSUME NEW w \in server.workers
        PROVE  DatesFit(w)
    <3>1. ASSUME NEW o \in Orders, Exists(o)
          PROVE  /\ certs[o].raw # None /\ certs[o].dates = certs[o].raw
                 /\ orders[o] # "processing"
      BY <1>1, <1>2, <1>4, <3>1, RowAssumption
    <3> QED BY <3>1 DEF DatesFit
  <2> QED BY <2>1, <2>2, <2>3 DEF RowsUndisturbed
<1>14. OthersRest
  BY <1>3 DEF OthersRest
<1> QED
  BY <1>5, <1>6, <1>8, <1>9, <1>10, <1>11, <1>12, <1>13, <1>14 DEF CertInv

\* CertInv holds in every state of every behaviour: whatever processes overlap,
\* and wherever they are killed, the tables, the CRL and what the processes
\* still have in hand fit together.
THEOREM CertInvariance == Spec => []CertInv
<1>1. Init => CertInv
  BY InitInv
<1>2. CertInv /\ [Next]_allvars => CertInv'
  <2> SUFFICES ASSUME CertInv, [Next]_allvars
               PROVE  CertInv'
    OBVIOUS
  <2>0. /\ TypeOK /\ (\A w \in Worker : ProcessShape(w)) /\ OthersRest /\ OneKey /\ NothingPolled
        /\ OnDisk /\ HandOnDisk /\ CrlUndisturbed /\ RowsUndisturbed
    BY DEF CertInv
  <2>1. TypeOK' /\ (\A w \in Worker : ProcessShape(w)') /\ OthersRest'
    BY <2>0, TypeStep, ShapeStep, OthersStep
  <2>2. OneKey' /\ NothingPolled'
    BY <2>0, OneKeyStep, PolledStep
  <2>3. OnDisk' /\ HandOnDisk'
    BY <2>0, <2>2, DiskStep
  <2>4. CrlUndisturbed' /\ RowsUndisturbed'
    BY <2>0, CrlStep, RowsStep
  <2> QED BY <2>1, <2>2, <2>3, <2>4 DEF CertInv
<1> QED BY <1>1, <1>2, PTL DEF Spec

\* Whatever overlaps or crashes, the certificates that are stored with a row
\* are for the key of its CSR.
THEOREM KeysFit == Spec => []KeyFits
<1>1. CertInv => KeyFits
  <2> SUFFICES ASSUME CertInv, NEW o \in Orders, Exists(o), NEW x \in Held509(certs[o])
               PROVE  x.csr.key = certs[o].csr.key
    BY DEF KeyFits
  <2>1. certs[o] \in CertRow
    BY DEF CertInv, TypeOK, StoreTypeOK, Exists
  <2>2. x.csr \in Csrs /\ certs[o].csr \in Csrs
    BY <2>1, HeldCerts DEF X509, CertRow
  <2>3. Named(o, x.csr.key) /\ Named(o, certs[o].csr.key)
    BY DEF Named
  <2> QED BY <2>2, <2>3 DEF CertInv, OneKey
<1> QED BY <1>1, CertInvariance, PTL

\* Whatever overlaps or crashes, every certificate of the OpenSSL CA that is in
\* the table or in the CRL is in the directory, and for names the lists allow.
THEOREM EverythingOnDisk == Spec => []OnDisk
<1>1. CertInv => OnDisk
  BY DEF CertInv
<1> QED BY <1>1, CertInvariance, PTL

\* With one process, a valid order serves its certificate until that expires.
THEOREM ServedUntilExpired == Spec => []ValidOrderServes
<1>1. CertInv => ValidOrderServes
  <2> SUFFICES ASSUME CertInv, Alone, NEW w \in server.workers, NEW o \in Orders,
                      orders[o] = "valid", Exists(o)
               PROVE  \/ new_get(o) \in X509
                      \/ new_get(o) = Removal /\ certs[o].dates.order \in expired
    BY DEF ValidOrderServes
  <2>1. Served(o)
    BY DEF CertInv, RowsUndisturbed
  <2> QED BY <2>1, RowAssumption, CertificatesAssumption DEF Served, new_get
<1> QED BY <1>1, CertInvariance, PTL

\* With one process that is never killed, what was answered with 200 is in the
\* CRL.
THEOREM AnsweredIsRevoked == Spec => []RevokedInCrl
<1>1. CertInv => RevokedInCrl
  <2> SUFFICES ASSUME CertInv, Alone, crashes = 0
               PROVE  \/ crl # Truncated /\ revoked \subseteq crl
                      \/ BeingWritten /\ \A v \in Revoking : revoked \subseteq loc[v].crl
    BY DEF RevokedInCrl
  <2>1. PICK w \in Worker : server.workers = {w}
    BY DEF Alone
  <2>2. \A v \in Revoking : v = w
    BY <2>1 DEF CertInv, OthersRest, Revoking
  <2>3. IF pc[w] = "crlWrite" THEN crl = Truncated /\ revoked \cup {loc[w].x} \subseteq loc[w].crl
                              ELSE crl # Truncated /\ revoked \subseteq crl
    BY <2>1 DEF CertInv, CrlUndisturbed
  <2> QED BY <2>1, <2>2, <2>3 DEF BeingWritten, Revoking
<1> QED BY <1>1, CertInvariance, PTL

\* With any number of processes, and until one is killed, an entry of the CRL is
\* lost only to a revocation that had read the file before.
THEOREM EntriesStay == Spec => SecuredStays
<1> DEFINE A == crashes' = 0 => \A x \in X509 : Secured(x) => Secured(x)'
<1>1. CertInv /\ [Next]_allvars => [A]_allvars
  <2> SUFFICES ASSUME CertInv, [Next]_allvars, crashes' = 0, NEW x \in X509, Secured(x)
               PROVE  Secured(x)'
    OBVIOUS
  <2>0. /\ TypeOK /\ (\A w \in Worker : ProcessShape(w)) /\ crashes \in Nat
        /\ pc \in [Worker -> Labels] /\ loc \in [Worker -> Loc]
    BY CertificatesAssumption DEF CertInv, TypeOK, StoreTypeOK
  <2>1. ASSUME NEW w \in Worker, Step(w)
        PROVE  Secured(x)'
    <3>0. CrlFlow(w) /\ Moves(w)
      BY <2>0, <2>1, CrlFlowStep, StepFacts
    <3>1. CASE CrlRead(w)
      <4>1. /\ pc[w] = "crlRead" /\ crl' = crl
            /\ \/ pc'[w] = "idle"
               \/ pc'[w] = "crlOpen" /\ crl # Truncated /\ loc'[w].crl = crl \cup {loc[w].x}
        BY <2>0, <3>1 DEF CrlRead, At, Goto, Done, ca, Loc
      <4> QED BY <3>0, <4>1 DEF Secured, BeingWritten, Revoking, Moves
    <3>2. CASE CrlOpen(w)
      <4>1. pc[w] = "crlOpen" /\ crl' = Truncated /\ pc'[w] = "crlWrite" /\ loc'[w] = loc[w]
        BY <2>0, <3>2 DEF CrlOpen, At, Goto
      <4> QED BY <3>0, <4>1 DEF Secured, BeingWritten, Revoking, Moves
    <3>3. CASE CrlWrite(w)
      <4>1. pc[w] = "crlWrite" /\ crl' = loc[w].crl /\ pc'[w] = "idle" /\ loc[w].crl \in SUBSET X509
        BY <2>0, <3>3 DEF CrlWrite, At, Done, Goto, Loc
      <4> QED BY <3>0, <4>1, OpensslAssumption DEF Secured, BeingWritten, Revoking, Moves
    <3>4. CASE /\ crl' = crl
               /\ \/ pc'[w] = pc[w] /\ loc'[w] = loc[w]
                  \/ pc[w] \notin {"crlOpen", "crlWrite"} /\ pc'[w] \notin {"crlOpen", "crlWrite"}
      BY <3>0, <3>4 DEF Secured, BeingWritten, Revoking, Moves
    <3>5. crashes' # crashes + 1
      BY <2>0
    <3> QED BY <3>0, <3>1, <3>2, <3>3, <3>4, <3>5 DEF CrlFlow
  <2>2. ASSUME UNCHANGED <<pc, loc, crl>>
        PROVE  Secured(x)'
    BY <2>2 DEF Secured, BeingWritten, Revoking
  <2> QED BY <2>0, <2>1, <2>2, NextCases, ClockKeeps
<1> QED BY <1>1, CertInvariance, PTL DEF Spec, SecuredStays

\* The steps that write a row, but those of the jobs, neither clear nor purge one.
LEMMA OthersSpare ==
  ASSUME TypeOK, NEW w \in Worker, ProcessShape(w), Calm(w), NEW o \in Orders, Removed(o), Step(w)
  PROVE  CleanRow(w, o) \/ PurgeRow(w, o)
<1>0. /\ StoreTypeOK /\ loc[w] \in Loc /\ Exists(o) /\ certs[o] \in CertRow /\ certs[o].cert # Removal
      /\ certs'[o] = None \/ certs'[o].cert = Removal
  BY DEF TypeOK, StoreTypeOK, Exists, Removed
<1>same. ASSUME certs'[o] = certs[o]
         PROVE  FALSE
  BY <1>0, <1>same DEF Exists
<1>put. ASSUME NEW row, certs'[o] = row, row.cert # Removal, row \in CertRow
        PROVE  FALSE
  BY <1>0, <1>put, RowAssumption
<1>add. ASSUME NEW p \in Orders, NEW row, certificate_add(w, p, row),
               Exists(p) => row.cert # Removal /\ row \in CertRow
        PROVE  FALSE
  <2>1. CASE Exists(p) /\ certs' = [certs EXCEPT ![p] = row]
    BY <1>0, <1>same, <1>put, <1>add, <2>1 DEF StoreTypeOK
  <2>2. CASE certs' = certs
    BY <1>same, <2>2
  <2> QED BY <1>add, <2>1, <2>2 DEF certificate_add
<1>1. ASSUME \/ (\E p \in Orders, csr \in Csrs : Finalize(w, p, csr)) \/ AskCA(w) \/ SetValid(w)
             \/ SetInvalid(w) \/ PollCA(w) \/ TriggerValid(w)
             \/ (\E p \in Orders : Poll(w, p)) \/ (\E p \in Orders : InvalidateOrder(w, p))
             \/ (\E x \in X509, owner \in BOOLEAN, reason \in {0, 2} : Revoke(w, x, owner, reason))
             \/ (\E x \in X509 : TriggerReceive(w, x))
             \/ (\E purge \in BOOLEAN : Cleanup(w, purge)) \/ DatesUpdate(w)
             \/ OpensslStep(w) \/ Crash(w) \/ TriggerSearch(w)
      PROVE  FALSE
  <2>1. certs' = certs
    BY <1>1 DEF Finalize, AskCA, SetValid, SetInvalid, PollCA, TriggerValid, Poll, InvalidateOrder,
       order_update, Revoke, TriggerReceive, Cleanup, DatesUpdate, OpensslStep, SignCertificate,
       BundleCertificate, CrlRead, CrlOpen, CrlWrite, Crash, TriggerSearch, store
  <2> QED BY <1>same, <2>1
<1>2. ASSUME StoreCsr(w)
      PROVE  FALSE
  <2> DEFINE row == [csr |-> loc[w].x.csr, cert |-> None, raw |-> None, dates |-> None, polled |-> FALSE]
  <2>1. loc[w].x.csr \in Csrs /\ Removal # None
    BY <1>2, CertificatesAssumption DEF StoreCsr, At, ProcessShape, Jobs, X509
  <2>2. row \in CertRow /\ row.cert # Removal
    BY <2>1 DEF CertRow
  <2>3. certs' = [certs EXCEPT ![loc[w].order] = row]
    BY <1>2 DEF StoreCsr, certificate_new
  <2> HIDE DEF row
  <2> QED BY <1>0, <1>same, <1>put, <2>2, <2>3 DEF StoreTypeOK
<1>3. ASSUME StoreCert(w) \/ StoreCertError(w)
      PROVE  FALSE
  <2> DEFINE p == loc[w].order
             new == [certs[p] EXCEPT !.cert = loc[w].x, !.raw = loc[w].x, !.dates = loc[w].x]
             old == [certs[p] EXCEPT !.polled = server.handler = "asynchronous"]
  <2>1. /\ p \in Orders /\ loc[w].x \in X509 /\ loc[w].x # Removal
        /\ Exists(p) => certs[p] \in CertRow
    BY <1>0, <1>3, RowAssumption
       DEF StoreCert, StoreCertError, At, ProcessShape, Enrolling, Jobs, Exists, StoreTypeOK
  <2>2. Exists(p) => new \in CertRow /\ new.cert # Removal
    BY <2>1 DEF CertRow
  <2>3. Exists(p) => old \in CertRow /\ old.cert = certs[p].cert
    BY <2>1 DEF CertRow
  <2>4. certificate_add(w, p, new) \/ certificate_add(w, p, old)
    BY <1>3 DEF StoreCert, StoreCertError
  <2> HIDE DEF new, old
  <2>5. CASE certificate_add(w, p, new)
    BY <1>add, <2>1, <2>2, <2>5
  <2>6. CASE certificate_add(w, p, old)
    <3>1. CASE Exists(p) /\ certs' = [certs EXCEPT ![p] = old]
      <4>1. certs'[o] = certs[o] \/ (certs'[o] = old /\ p = o)
        BY <1>0, <2>1, <3>1 DEF StoreTypeOK
      <4> QED BY <1>0, <1>same, <1>put, <2>3, <3>1, <4>1
    <3>2. CASE certs' = certs
      BY <1>same, <3>2
    <3> QED BY <2>6, <3>1, <3>2 DEF certificate_add
  <2> QED BY <2>4, <2>5, <2>6
<1>4. ASSUME NEW p \in Orders, TriggerStore(w, p)
      PROVE  FALSE
  <2> DEFINE row == [certs[p] EXCEPT !.cert = loc[w].x, !.raw = loc[w].x]
  <2>1. loc[w].x \in X509 /\ loc[w].x # Removal /\ (Exists(p) => certs[p] \in CertRow)
    BY <1>0, <1>4, RowAssumption DEF TriggerStore, At, ProcessShape, Jobs, Exists, StoreTypeOK
  <2>2. Exists(p) => row \in CertRow /\ row.cert # Removal
    BY <2>1 DEF CertRow
  <2>3. certificate_add(w, p, row)
    BY <1>4 DEF TriggerStore
  <2> HIDE DEF row
  <2> QED BY <1>add, <2>2, <2>3
<1>5. ASSUME NEW p \in Orders, CleanRow(w, p) \/ PurgeRow(w, p)
      PROVE  p = o
  BY <1>0, <1>5, <1>same DEF CleanRow, PurgeRow, certificate_add, certificate_delete, StoreTypeOK
<1>6. ASSUME NEW p \in Orders, DateRow(w, p)
      PROVE  FALSE
  <2> DEFINE old == loc[w].rows[p]
             row == [certs[p] EXCEPT !.cert = old.cert, !.raw = old.raw, !.dates = old.raw]
  <2>1. old = certs[p] /\ certs[p] \in CertRow
    BY <1>0, <1>6 DEF DateRow, At, Calm, Undisturbed, Jobs, StoreTypeOK, Exists
  <2>2. row \in CertRow /\ row.cert = certs[p].cert
    BY <2>1 DEF CertRow
  <2>3. certificate_add(w, p, row)
    BY <1>6 DEF DateRow
  <2> HIDE DEF row, old
  <2>4. certs' = certs \/ certs' = [certs EXCEPT ![p] = row]
    BY <2>3 DEF certificate_add
  <2>5. certs'[o] = certs[o] \/ (certs'[o] = row /\ p = o)
    BY <1>0, <2>4 DEF StoreTypeOK
  <2> QED BY <1>0, <1>same, <1>put, <2>2, <2>5
<1>7. ASSUME Save(w)
      PROVE  FALSE
  <2>1. certs'[o] = certs[o] \/ (held[w].table = "certs" /\ held[w].row = o /\ certs'[o] = held[w].value)
    <3>1. CASE held[w].table = "orders" /\ certs' = certs
      BY <3>1
    <3>2. CASE held[w].table = "certs" /\ certs' = [certs EXCEPT ![held[w].row] = held[w].value]
      BY <1>0, <3>2 DEF StoreTypeOK
    <3> QED BY <1>7, <3>1, <3>2 DEF Save
  <2> QED BY <1>7, <1>same, <2>1 DEF Save, Calm, Undisturbed
<1>8. CASE HandlerStep(w)
  BY <1>1, <1>2, <1>3, <1>5, <1>6, <1>8 DEF HandlerStep, Housekeeping
<1>9. CASE TriggerStep(w)
  BY <1>1, <1>4, <1>9 DEF TriggerStep
<1> QED BY <1>1, <1>7, <1>8, <1>9 DEF Step

\* With one process that is never killed, housekeeping removes only expired
\* certificates, and CSRs that got none in two weeks.
THEOREM OnlyExpiredRemoved == Spec => CleanupSpares
<1> DEFINE A == Alone /\ crashes = 0 =>
                  \A o \in Orders : Removed(o) =>
                      IF certs[o].raw = None THEN o \in aged ELSE certs[o].raw.order \in expired
<1>1. CertInv /\ [Next]_allvars => [A]_allvars
  <2> SUFFICES ASSUME CertInv, [Next]_allvars, Alone, crashes = 0, NEW o \in Orders, Removed(o)
               PROVE  IF certs[o].raw = None THEN o \in aged ELSE certs[o].raw.order \in expired
    OBVIOUS
  <2>0. TypeOK /\ \A w \in Worker : ProcessShape(w)
    BY DEF CertInv
  <2>1. Exists(o) /\ certs[o] \in CertRow /\ certs[o].cert # Removal /\ certs' # certs
    BY <2>0 DEF Removed, Exists, TypeOK, StoreTypeOK
  <2>2. PICK w \in server.workers : Step(w)
    BY <2>0, <2>1, NextCases, ClockKeeps
  <2>3. w \in Worker /\ Calm(w)
    BY <2>0, NextCases DEF CertInv, RowsUndisturbed, Calm
  <2>4. CleanRow(w, o) \/ PurgeRow(w, o)
    BY <2>0, <2>2, <2>3, OthersSpare
  <2>5. pc[w] \in {"clean", "purge"} /\ o \in loc[w].todo
    BY <2>4 DEF CleanRow, PurgeRow, At
  <2>6. loc[w].rows[o] = dated(certs[o])
    BY <2>3, <2>5 DEF Calm, Undisturbed, Jobs
  <2>7. loc[w].rows[o].dates = IF certs[o].dates = None THEN certs[o].raw ELSE certs[o].dates
    BY <2>1, <2>6, DatedRow
  <2>8. LET dates == loc[w].rows[o].dates
        IN  IF dates # None THEN dates.order \in expired ELSE certs[o].raw = None /\ o \in aged
    BY <2>1, <2>3, <2>5 DEF Calm, Justified
  <2>9. certs[o].dates # None => certs[o].raw # None /\ certs[o].dates.order = certs[o].raw.order
    BY <2>1, <2>3 DEF Calm, DatesFit
  <2> QED BY <2>7, <2>8, <2>9
<1> QED BY <1>1, CertInvariance, PTL DEF Spec, CleanupSpares
=============================================================================
