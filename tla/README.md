# acme2certifier in TLA+

Specifications of the ACME server in this repository: what its handlers do to
the database and to the CA call by call, how the requests of several workers
interleave, what TLC finds on small instances and what TLAPS proves for every
instance.

    tlc -workers 2 -config one_worker.cfg MCAcmeServer.tla
    tlapm AcmeServer_proofs.tla

## 1. The system

An ACME client asks for an order of identifiers, proves control of each by a
challenge, finalizes the order with a CSR and downloads a certificate, which a
CA handler obtains from the real CA. Django views dispatch a request to a
handler object; handlers keep no state between requests, everything is in the
database behind `acme/db_handler.py`.

| Component | State it keeps | Operations | Talks to | What makes it correct |
|---|---|---|---|---|
| database layer (`acme/db_handler.py`, `app/models.py`) | one table per model | lookups and searches; `*_add`, `*_update`: `update_or_create` followed by `save()` | SQL, autocommit | rows change as the callers meant, whoever else writes |
| workers and requests (`wsgi.py`, `app/views.py`) | the request in flight | `neworders`, `order`, `authz`, `chall`, `cert`, ... | handlers | a request that dies leaves tables others can go on with |
| order handler (`acme/order.py`) | orders | `new`, `parse` (poll, finalize), `invalidate` | database, certificate handler | pending, ready, processing, valid in that order; ready only when every authorization is valid |
| authorization handler (`acme/authorization.py`) | authorizations | `new_post`, `new_get`, `invalidate` | database, challenge handler | a decision stands until expiry |
| challenge handler (`acme/challenge.py`) | challenges | `parse`, `challengeset_get`, `new_set`, `_validate` | database, DNS/HTTP/TLS of the client | one set per authorization; what a check found reaches the authorization |
| certificate handler (`acme/certificate.py`) | certificates | `store_csr`, `enroll_and_store`, `poll`, `revoke`, `new_get/new_post`, `cleanup` | database, CA handler | certificates only for proved identifiers; a valid order has one |
| nonce and message check (`nonce.py`, `message.py`, `signature.py`) | nonces | `generate_and_add`, `check`, `prepare_response` | database | a nonce is good for one request |
| account handler (`acme/account.py`) | accounts | `new`, update, key change, deactivation | database | one account per key; a deactivated key signs nothing |
| trigger (`acme/trigger.py`) | certificates, orders | `parse` | database, CA handler | what the CA pushes reaches the right order |
| openssl CA handler | CRL file, certificate store | `enroll`, `revoke` | files | every revocation stays in the CRL |
| zerossl CA handler (with `dnsclient`, prefetching) | DNS records, prefetch cache | `enroll`, `verify_domain`, `poll_until_issued`, `prefetch` | ZeroSSL, name.com, redis | enrollment ends; a cached certificate fits who gets it |
| housekeeping | none | reports, cleanup, invalidation | database | cleanup removes only what expired |
| directory, errors, helpers, time | none | parsing, formatting, crypto | - | their verdicts are inputs of the handlers |
| administration (`manage.py`, `django_update.py`, `csr.py`) | none | command line | - | - |

What is hard here:

- **Interleaving.** No handler uses a transaction or a lock over two calls. Every
  rule of the form "if the row says X, write Y" is a read and a later write, and
  every write is itself `update_or_create` plus a `save()` of the whole row.
  The documented start (`docs/issue_cert.md:46`, `README.md:136`) is gunicorn
  with its default, one synchronous worker: there, requests are handled one
  after the other. `README.md` allows "other options", of which `--workers` is
  the usual one, and `README.md:78` starts Django's threaded development server:
  there they interleave. Both are checked, and their difference is the point of
  half of the runs.
- **Partial failure.** Nearly every database call is wrapped in a `try` whose
  handler logs and goes on.
- **Killed workers.** gunicorn kills a worker at its timeout, and an enrollment may
  well take longer; what was written stays.
- **Expiry** is found by whichever request comes next, and is written to rows that
  moved on since the search.

## 2. The modules

| Module | Models | State |
|---|---|---|
| `DBstore` | order, authorization, challenge and certificate tables and the `DBstore` methods on them | `orders`, `authz`, `chall`, `certs`; `held` |
| `Workers` (extends `DBstore`) | request in flight per worker, kills, clock | `pc`, `loc`, `crashes`; histories `announced`, `passed` |
| `AuthorizationHandler`, `OrderHandler` (extend `Workers`) | the steps of the requests | - |
| `AcmeServer` (extends both) | `Init`, `Next`, properties, inductive invariant, fairness | - |
| `Issuance` | the promise: a certificate for an order once its identifiers are proved, and fitting it | `ordered`, `proved`, `issued` |
| `AcmeInvariants` (extends `AcmeServer`) | the inductive invariants `RowsInv` and `OneWorkerInv` | - |
| `MCAcmeServer` | instances of `AcmeServer` | - |
| `AcmeServer_proofs` | theorems about `AcmeServer` over a database that answers | - |
| `DBFaults_proofs` (extends it) | theorems that need no such database | - |
| `OneWorker_proofs` (extends that) | theorems about one worker | - |
| `Message` | nonce table, `Message.check`, `prepare_response` | `nonces`, `handed`, `pc`, `msg`, `accepted`, `crashes` |
| `NonceStore` | the promise: a nonce is good for one request | `good`, `used` |
| `MCMessage`, `Message_proofs` | instances; theorems | - |
| `AccountHandler` | account table, `Account.new` and `parse` | `accounts`, `closed`, `held`, `pc`, `loc` |
| `AccountRegistry` | the promise: one key an account, one account a key | `key`, `closed` |
| `MCAccount`, `AccountHandler_proofs` | instances; theorems | - |
| `Certificates` | certificate table, statuses of orders, clock | `orders`, `certs`, `expired`, `aged`, `held`, `pc`, `loc` |
| `OpensslCA` (extends `Certificates`) | `openssl_ca_handler.py`: name lists, certificate directory, CRL file | `disk`, `crl`, `revoked` |
| `CertificateHandler` (extends `OpensslCA`) | `Certificate`: enrollment, `poll`, `revoke`, `new_get`, `cleanup`, `dates_update`; the jobs of `housekeeping.py` | `submitted` |
| `Trigger` (extends `CertificateHandler`) | `Trigger.parse` | - |
| `CertificateServer` (extends `Trigger`) | `Init`, `Next`, properties | - |
| `MCCertificate`, `CertificateServer_proofs` | instances; theorems | - |
| `ZeroSSLHandler` | `zerossl_ca_handler.py`, `dnsclient/`, `prefetch` of `api/views.py` | `ca`, `dns`, `cache`, `made`, `pc`, `loc`, `answers` |
| `MCZeroSSL`, `ZeroSSLHandler_proofs` | instances; theorems | - |

Four specifications, each of what shares state: the order life cycle
(`AcmeServer`), the nonces (`Message`), the accounts (`AccountHandler`) and the
certificates with the OpenSSL CA (`CertificateServer`); the ZeroSSL handler
stands by itself, since to its caller it is one call. They meet where one
abstracts another: `AcmeServer` takes any answer of a CA handler and of
`Message.check`; `CertificateServer` starts an enrollment where `Order._process`
has found the order ready, and stands for the rest of the order's life by its
status alone.

**A step is a call.** `pc[w]` names the next database, network or CA call of the
request worker `w` handles, `loc[w]` holds the handler's local variables that a
later call still uses. A reading method of `DBstore` is one step. A writing
method is two: the action of the handler performs `update_or_create` and puts
the row, as it was then, into `held[w]`; the next step of `w` can only be
`Save`, the `obj.save()` that writes this row again. Only the status is kept in
`held`: the other columns never change afterwards, except an authorization's
expiry (writing an older expiry is what the clock may do anyway) and the columns
of a certificate row, which in `AcmeServer` only the worker that created it
writes. In `CertificateServer` and `AccountHandler`, where others write them too,
`held` keeps the whole row.

**Names.** The random names of the code become `<<order, identifier>>` for an
authorization, `<<order, identifier, type, copy>>` for a challenge and
`<<order, copy>>` for a certificate. `Copies` and `CertCopies` bound how many
rows a race may create; a full table acts like a failing add.

**Identifiers and CSRs.** An identifier is a dns name or, when it is in the constant
`TNAuthLists`, a TNAuthList. The type decides which challenges `new_set` creates
(`challenge_types`: http-01 and dns-01, or tkauth-01) and how `_csr_check` compares
the CSR with the order (`csr_check`). For dns names each SAN must be in the order;
the CN is not compared, and a name of the order may be missing. With a TNAuthList in
the order it goes the other way: every identifier of the order must be a TNAuthList
that is among the CSR's extensions, and SANs and further extensions are not looked
at. `Fits` states both of a certificate and the identifiers of its order, apart from
the code's case distinctions. What a CSR names is a set of identifiers, its dns names
for the SANs and its TNAuthLists for the extensions, out of the constant `CSRs`.
Without `tnauthlist_support` such orders are refused when they are placed, the
outcome "invalid" of `NewOrder`, so that `TNAuthLists = {}` is that deployment. One
thing is left out: `certificate.py` compares the type "tnauthlist" in lower case and
`authorization.py` as it is spelled, so that for a "tnauthlist" the sets of
challenges are those of a dns name; the model takes "TNAuthList".

**Time.** `due` says that a row's expiry has passed; `OrderFallsDue` and
`AuthzFallsDue` set it at any time, `authorization_refresh` clears it.

**Outside the handlers.** `passed` records a challenge whose check succeeded on
the network, which is what "proved" means in the properties; `announced` the
orders a client was told of, the only ones it can name afterwards. A check is
"ok", "fail" (nothing changes) or, for http-01 through configured resolvers,
"invalid". A CA handler returns a certificate, an error or an id to poll for.
Message checks accept or refuse; `Message` looks into them separately, and the
two meet only in that a request is let through or not.

**Certificates.** An order has one certificate row in `Certificates`: orders with
two are in `AcmeServer`. `cert` is the text that is served, `raw` is `cert_raw`,
`dates` the certificate `issue_uts` and `expire_uts` belong to: they are separate
because the trigger, `cleanup` and `dates_update` write them separately.
`expired` and `aged` are the clock. A deployment is the processes (workers of the
server and scripts alike), the orders in use, the certificates from before, and
the CA handler: `openssl_ca_handler.py`, which answers at once and can revoke, or
an asynchronous one, which `Certificate.poll` and `trigger.py` are written for.
Such a handler is external: it returns a certificate, an error with or without a
poll identifier, or, polled, a rejection.

**Accounts.** A key is the text `json.dumps` makes of it, since that is what the
code compares; the same key with its members in another order is another text.
`Blank` is the key of a row that a contact update created again.

**ZeroSSL.** The CA validates a certificate while all its CNAME records stand;
a record's host contains a hash of the CSR. Any call may fail at any time. The
"success: true" answer to a verification changes nothing, and is left out of the
steps; see Fairness.

**Slips.** A definition marked `Slip:` is never used by `Next`. It is a plausible
bug in the definition beside it, kept to show that a property notices: put in its
place, TLC finds the property violated (`mutants` in `PROJECT.json`).

## 3. The runs

| Run | Bounds | Question |
|---|---|---|
| `one_worker` | 1 order of 1 dns name, 2 copies, 1 kill, any CSR over 2 names | The order life cycle with the documented deployment |
| `two_workers` | 2 workers, 1 order of 1 TNAuthList, 1 copy, 2 CSRs, no kill | What survives races: the inductive invariant, a certificate behind every valid order, `Issuance` |
| `db_faults` | 1 order of 2 TNAuthLists, any call fails | What survives failing database calls |
| `liveness` | 1 worker, 1 order of 1 TNAuthList, 1 kill | Does a processing order end, does a half-written validation heal? |
| `nonce_workers` | 3 workers, 2 nonces, 1 kill, calls fail or never do | What replay protection is left with several workers; `NonceStore` for each |
| `accounts` | 1 or 2 workers, 3 names, 2 keys, 1 kill, calls fail or never do | The registry with one worker; what is left of it with two |
| `certificates` | 1 process and 2 orders, 2 processes and 1 order, 2 processes and 2 old certificates; both CAs; 1 kill | Whose certificate is stored, served, removed, revoked? |
| `zerossl` | 2 processes, 3 names, 3 clients' CSRs, 1 prefetch, 2 certificates, 2 trials, 1 kill | What is handed out, what is left in DNS, does an enrollment end? |
| `double_finalize`, `lost_decision`, `replay`, `prefetched_key` | 2 workers | What the code breaks (section 5) |

What each property says is in the comment above it. In short:

**Orders, one worker** (`one_worker`):

- `IssuedProved`: a certificate is there only for an order whose identifiers were all
  proved, although authorizations expire and fail again between the reads, and its
  SANs are all in the order (its CN is not compared).
- `OrdersMoveForward`, `DecisionKept`: statuses only move forward or to their
  end; a decided authorization is not pending again.
- `LinkedCertIssued`, `OneEnrollment`: a response never links a row without a
  certificate; the CA is asked once.
- `ChallengeSets`, `ChallengeReachesAuthz`: without kills there is one whole set
  of challenges, and a decided challenge decided its authorization.
  `ValidAuthzHasChallenge` holds with kills, since the challenge is written first.

- `OneWorkerInv`: the inductive invariant behind all of these, type correctness
  and `IInv` included.

**Two workers** break most of these, and `two_workers` shows what stays:
`ReadyOrdersProved` (an order past pending had every identifier proved),
`ValidOrdersHaveCert`, every conjunct of `IInv` and `ImplementsIssuance`. An order
that another worker has moved on may become ready again (`order.py:304` writes
for a status read at line 269), for the same reason as in `double_finalize`.
The order is of a TNAuthList here, so that `IInv` and `Issuance` meet the other
comparison of `csr_check`, with a CSR that lacks the TNAuthList and one that has it
and a SAN besides.

**With a database that may fail** an order may have fewer authorizations than
names (`order.py:84` only logs), so `ReadyOrdersProved` does not hold there;
`ReadyOrdersRowsProved` is what remains.

**Nonces** (`nonce_workers`): `OncePerWorker`, `LateReplayRefused` and
`ImplementsNonceStore` where calls do not fail; `AcceptedWereHanded` always.

**Accounts** (`accounts`): with one worker and a database that answers,
`ImplementsRegistry` and `OneAccountPerKey` (a failing lookup finds no account,
and then a key gets a second one); with one worker whatever fails,
`AcknowledgedIsStored`, for the answers that name an account. `AccountInv` is the
inductive invariant. With two, two requests past the same lookup give a key two
accounts; `LateClaimRefused` says that nobody else can. An update that overtakes a
deactivation brings the account back, with its key (`save()` of a row that is gone
inserts it) or without (`update_or_create`): `BlankOnlyAfterClose` and
`ClosedStaysClosed` say when that may be.

**Certificates** (`certificates`): `KeyFits`, what the trigger's matching by public
key is worth; `ValidOrderServes`, with one process a valid order serves its
certificate, or after expiry the notice `cleanup` has left (with code 200);
`CleanupSpares`; `OnDisk`, with `AllowedNames` as a part; `RevokedInCrl` for one
process and `SecuredStays` for several: a revocation is lost only to another one
that had read the CRL before. `CertInv` is the inductive invariant behind them.

**ZeroSSL** (`zerossl`): `Delivered`, `NoRecordLeft` and `RecordsKept` relate what
is handed out, the cache and the DNS records; `ZeroSSLInv` is the inductive
invariant behind them; `EnrollmentEnds`.

**Why these bounds.** The handlers of two orders touch disjoint rows, apart from
`invalidate()`, which writes the rows of all orders, and does to another order
what it does to its own between a search and an update by a second worker; one
order is enough to meet both. Two workers show every race between a read and a
write; a third adds none to a property about one row, and the proofs need no
bound at all. One kill reaches every point a kill can be at; two names are the
least for "all authorizations", for a SAN that is not in the order and for one beside
a TNAuthList. In `two_workers` the order is of a TNAuthList, whose set of challenges
has one type, and one copy and two CSRs keep the instance at 1.7 million states; sets
of two types, where a second challenge can fail after a first has succeeded, and
orders of dns names are in `one_worker`. The theorems behind both hold for any mix of
the two, also within one order.

`accounts`: two keys and three names are the least for a key with two accounts
whose owner changes to the other key, and for an account after one that is gone.
`certificates`: two orders with the same key, and a CSR with another key whose CN
is on the black list; where two processes run, one order is enough to meet one
another, and revocations, which touch no order, have a deployment of their own
with two certificates. `zerossl`: the two clients' CSRs share a name, one of them
also has a name whose zone only matches by its ending; two certificates are the
least for one that timed out and one that is begun again; two trials for one that
counts.

**Symmetry** is used in runs without fairness only; their properties do not name
an element of a permuted set. In `certificates` processes and orders are permuted:
the orders differ only in what happens to them, since CSRs are chosen per order.

**Deadlock** is checked in every run but `certificates`: an idle server can always
take a request. There, once every order is invalid and nothing is left to remove,
nothing need happen any more.

### Fairness

`FairSpec` assumes:

- weak fairness of `Step(w)`: a request goes on until it is answered or killed;
  database, network and CA calls return, as the HTTP and DNS timeouts of the
  helpers and gunicorn's own timeout make them;
- weak fairness of the expiry of orders: time passes;
- strong fairness of `OrderPost` of *some* order and of `AuthzPost` for every
  authorization: clients keep polling, which RFC 8555 clients do until they have
  an answer; of the message check it is assumed that it does not refuse a
  client's polls for ever;
- `ProofInPlace`: a check made again and again succeeds at some time. This is the
  client's part, and only `DecidedAuthzHeals` needs it.

In `ZeroSSLHandler`, `FairSpec` is weak fairness of each process's steps, not of
kills and raised errors. `poll_until_issued` has a timeout, so `PollTimeout` comes
in the end; the trials of a verification are counted down, so `VerifyFails` does.
What the code does not guarantee and the fairness assumes is that the CA does not
answer "success: true" for ever: then `try_verify_domain` never ends.

`ProcessingEnds` is bounded by the order's expiry: nothing else ends a processing
order whose enrollment failed or whose worker was killed.

## 4. What is proved

`D` stands for `~ DBMayFail`, `1` for `Worker = {w}`.

| Module | Theorem | Statement | Assumes |
|---|---|---|---|
| `AcmeServer_proofs` | `TypeCorrect` | `[]TypeOK` | |
| | `Invariance` | `[]IInv` | D |
| | `ReadyIsProved` | `[]ReadyOrdersProved` | D |
| | `IssuedIsProved` | `[]IssuedProved` | D |
| | `ValidHasCert` | `[]ValidOrdersHaveCert` | D |
| | `Implements` | `ImplementsIssuance` | D |
| `DBFaults_proofs` | `RowsInvariance` | `[]RowsInv` | |
| | `ReadyRowsProved` | `[]ReadyOrdersRowsProved` | |
| `OneWorker_proofs` | `OneWorkerInvariance` | `[]OneWorkerInv` | D, 1 |
| | `OrdersForward` | `OrdersMoveForward` | D, 1 |
| | `DecisionsKept` | `DecisionKept` | D, 1 |
| | `LinkedIsIssued` | `[]LinkedCertIssued` | D, 1 |
| | `EnrolledOnce` | `[]OneEnrollment` | D, 1 |
| | `SetsOfChallenges` | `[]ChallengeSets` | D, 1 |
| | `DecisionsReach` | `[]ChallengeReachesAuthz` | D, 1 |
| | `ValidKeepsChallenge` | `[]ValidAuthzHasChallenge` | D, 1 |
| `Message_proofs` | `MessageInvariance` | `[]MessageInv` | |
| | `NoReplayPerWorker` | `[]OncePerWorker` | |
| | `OnlyHandedNonces` | `[]AcceptedWereHanded` | |
| | `LateReplay` | `LateReplayRefused` | |
| | `MessageImplements` | `ImplementsNonceStore` | |
| `AccountHandler_proofs` | `AccountInvariance` | `[]AccountInv` | |
| | `BlankOnlyOfClosed` | `[]BlankOnlyAfterClose` | |
| | `OneAccountForAKey` | `[]OneAccountPerKey` | |
| | `AnswersAreStored` | `[]AcknowledgedIsStored` | |
| | `LateClaims` | `LateClaimRefused` | |
| | `ClosedForGood` | `ClosedStaysClosed` | |
| | `ImplementsAccountRegistry` | `ImplementsRegistry` | |
| `CertificateServer_proofs` | `CertInvariance` | `[]CertInv` | |
| | `KeysFit` | `[]KeyFits` | |
| | `EverythingOnDisk` | `[]OnDisk` | |
| | `ServedUntilExpired` | `[]ValidOrderServes` | |
| | `AnsweredIsRevoked` | `[]RevokedInCrl` | |
| | `EntriesStay` | `SecuredStays` | |
| | `OnlyExpiredRemoved` | `CleanupSpares` | |
| `ZeroSSLHandler_proofs` | `ZeroSSLInvariance` | `[]ZeroSSLInv` | |
| | `OnlyIssuedDelivered` | `[]Delivered` | |
| | `RecordsRemoved` | `[]NoRecordLeft` | |
| | `RecordsStay` | `RecordsKept` | |

Each is `Spec => ...` for every value of the constants that satisfies the named
assumptions of the modules, so for any number of workers, orders, names, keys,
certificates and kills. In `AcmeServer` the deployment is a constant: whether
calls fail (`DBMayFail`) and how many workers there are. In the other modules it
is a variable that never changes (`fallible`, the set of workers, `server`), and
the properties say themselves where they need one worker, no failing call or no
kill, so those theorems assume nothing: `OncePerWorker`, `LateReplayRefused`,
`ImplementsNonceStore` and `OneAccountPerKey` speak of no failing call,
`RevokedInCrl` and `CleanupSpares` of one process that is never killed. Section 3
says what goes wrong without a restriction.

Every inductive invariant is an invariant of a run, where TLC checks it on a
small instance: `IInv` of `two_workers`, `OneWorkerInv` (with `RowsInv` as a part)
of `one_worker`, the others of the runs of their modules.

**The argument for `IInv`.** "An order past pending was proved" is not inductive:
a worker at `setReady` writes what it concluded from an earlier read, and a
worker inside `save()` writes what it wrote before. The strengthening says for
every place where a worker is about to write a status that it is *entitled* to
it, in terms that no other worker can take back:

- `Cleared(o)`: every identifier of `o` was proved. It only mentions the history
  `passed` and the identifiers of a row, both of which only grow or stay, so
  nothing invalidates it (`GrowsStep`).
- `AnnouncedComplete`, `AddingComplete`: an order a client can name has all its
  authorization rows, so that "all rows are valid" is "all identifiers are".
- `ValidAuthzProved`, `ValidatingChecked`: only a successful check makes an
  authorization valid.
- `MovingCleared`, `PastCleared`: who is about to move an order on, and every
  order that moved on, is cleared.
- `EnrollingRow`, `EnrollingApart`, `IssuedCleared`, `ValidatingHasCert`: a
  certificate row in enrollment belongs to one worker, `Fits` its order since the
  CSR check (`CheckFits`), whose identifiers do not change (`Grows`), and is issued
  before its order is valid.
- `HeldSound`: a pending `save()` writes only what was justified when it was held.
- `Requested`, `RefreshingRow`, `OrderAnnounced`: where a request is in its
  handler, it has the row it is about.

Each conjunct has a lemma with one step per action; `InvStep` puts them together.
`Implements` maps the insertion of an order to `Order` (`BlankRows`: the row that is
filled was empty), a check that succeeds to `Prove`, the write of a certificate to
`Issue`, and every other step to a stutter; `May` is `Fits`.

**The argument for `RowsInv`.** With failing calls an order may be announced with
fewer authorizations than names, or with none, so `AnnouncedComplete` and what
rests on it are gone. What stays is about the rows that are there: `_add` is the
only place that adds one, for an order that no client knows yet
(`AddingUnannounced`) and that one request fills (`AddingApart`). So the set of rows
of an announced order never changes, and "each of them was proved"
(`RowsCleared`) is as stable as `Cleared` is; `MovingRows`, `PastRows` and `HeldRows`
carry it from the read to the write and through `save()`. `update_or_create` and
`save()` insert a row that is missing, which would break this; `NamedExist`,
`HeldExists` and `ChallengesHaveAuthz` say that what a request is about to write was
in the table when it was read, and nothing deletes rows of these tables.

**The argument for `OneWorkerInv`.** With one worker everything a handler has read
is still so when it writes, but only because of what each call leaves behind. The
conjuncts say, label by label, what the request still knows of the tables:
`HeldCurrent` (`save()` finds what `update_or_create` wrote and changes nothing),
`OrderAsRead` and `AuthzAsRead` (the status read is the status), `NoCertYet`, `OneCert`
and `CertOfOrder` (the certificate row comes with the finalization, once),
`AuthzHasOrder` (a row is added once), `ValidatedExist`, `OneOfAType`, `TypesFit`,
`TypesMissing` and `SetsWhole` (which types `new_set` has chosen and still has to
create), `ValidForGood` and
`DecisionPassed` (a decision has reached the authorization or is on its way). A kill
may fall between any two calls; `SetsWhole` and `DecisionPassed` are what it breaks,
and they count only while `crashes = 0`. The proof first classifies every step by what
it does to orders (`OrderAction`, `OrderQuiet`) and to authorizations
(`AuthzAction`, `AuthzQuiet`), so that each conjunct is only proved against the steps
that can disturb it.

**The argument for `MessageInv`** is the one for `IInv` on a small scale: a request
past the deletion has its nonce out of the table, and a request past the lookup has
a nonce that its own worker has not accepted before. To each worker taken alone
the server is then a `NonceStore`: its nonces are those of the table and the one
it has in hand, and what other workers do to them is `Hand` or `Lose`.

**The argument for `AccountInv`.** `RequestShape` and `HeldShape` say what a
request has in hand at each of its calls and what it may still `save()`;
`NamesWereThere` that every name a request or a history mentions was once a row,
so that a row without a key can only come from an update of one that was
deactivated; `NobodyInterferes` that a worker which is alone finds the table as
its last step left it: the key it looked up still free, the account it works for
still there. `ImplementsRegistry` follows step by step: the insert is `Register`,
the write of another key `Rollover`, the deletion `Deactivate`, and everything
else, kills and `save()` included, a stutter.

**The argument for `CertInv`.** `ProcessShape` says what a request of each kind
has in hand at each call. `OneKey`: all that is in the row of an order, or on its
way there, is for one key, chosen when the order leaves `ready`; `KeyFits` is the
part about rows. `NothingPolled`: nothing waits for the OpenSSL CA, which answers
at once. `OnDisk` and `HandOnDisk`: whatever the OpenSSL CA hands out has been
written to its directory, and only for allowed names. `RowsUndisturbed` and
`CrlUndisturbed`: a process that is alone writes back the row, and the CRL, it has
read. `SecuredStays` and `CleanupSpares` are proved from the invariant with one
step per action.

**The argument for `ZeroSSLInv`.** `EnrollmentShape` says what is in hand at each
label; `OwnCertificate` that a certificate at the CA is worked on by the one process
that created it; `CacheShape` that what is cached was issued to a prefetch
request for these names, and that its records are gone; `RecordShape` that a record
is one the CA has asked for. They are what `Delivered` and `NoRecordLeft` need to be
inductive.

**Only model-checked.** `ProcessingEnds`, `DecidedAuthzHeals` and `EnrollmentEnds`:
liveness under fairness, and the `ENABLED` it rests on, are outside what TLAPS can
prove. Every invariant and every action property of the passing runs is a theorem.
The statements of section 5 are false, and TLC shows how. `RowsInv` is proved without
an assumption about failing calls; the runs check it only as a part of
`OneWorkerInv`, where calls do not fail, and `ReadyOrdersRowsProved`, what it is for,
in `db_faults`, where they do. (Added to that configuration, `RowsInv` holds in all
of its 169,682 states.)

## 5. Findings

The first three need more than one worker, or the threaded development server:
each is a statement in the source that the code keeps only as long as requests do
not interleave. The last needs a prefetch request and a client.

- `double_finalize`: `order.py:174` reads the status, 177 writes "processing", and
  line 173 says the order "must be ready to proceed". Two finalizations that both
  read "ready" before either writes both proceed, and both are at the CA for the
  same order (`OneEnrolling`).
- `lost_decision`: the `save()` at `db_handler.py:139` writes the status
  `update_or_create` saw. A poll that only refreshes token and expiry, "just to
  be sure" (`authorization.py:50`), takes back a decision made in between.
- `replay`: `nonce.py` looks a nonce up and deletes it in two calls without
  looking at whether the deletion found it; `message.py:88` calls it "anti
  replay protection".
- `prefetched_key`: `enroll` answers with the certificate cached for the names of
  the CSR, which the CA issued for the key of a prefetch request;
  `README.md:33` says the handler will "Take the client's CSR and [creates a new
  certificate]". The client of the prefetch API gets the key with it, an ACME
  client does not.

Met on the way, not stated as a finding because no line of the repository says
otherwise, or only a wording does:

- Between `order.py:174`, which reads "ready", and 177, which writes "processing", the
  `invalidate()` of another request may make the order invalid because it expired: it
  becomes processing again and is enrolled for. `OrdersMoveForward` holds with one
  worker only.
- For an order with a TNAuthList a CSR may have SANs nobody has ordered, and its
  certificate is issued: `_identifer_tnauth_list` looks for the identifiers among the
  extensions, although its docstring (`certificate.py:200`) is the one of the
  comparison of SANs. `Issuance` allows it.
- Two revocations at two workers lose an entry of the CRL; a worker killed while
  writing it leaves an empty file, and every later revocation raises.
- A contact update that overlaps a key change writes the old key back.
- A key change writes the new key but not its `alg`; a failing `save()` after
  `update_or_create` is answered as a failure although the key has changed.
- The same key with its members in another order gets a second account.
- A process killed between the two writes of a poll, and a push afterwards, leave
  a certificate with the dates of another, by which `cleanup` then goes.
- `is_same_zone` is `endswith` without a dot: a configured prefix "test1" lets
  "xtest1" pass too, where `README.md:108` speaks of subdomains.
- Records of an enrollment that failed before or in its cleanup stay in DNS.
- Prefetch requests answered from the cache renew its ten hours.

## 6. What is not modelled

- Failing database calls in `Certificates`: a failing `_store_cert` before an order
  is set to valid is met in `AcmeServer` and named under the hazards.
- Orders in `CertificateServer` before they are ready: they touch no certificate.
  A composition with `AcmeServer` in one instance is beyond TLC's reach.
- Cascades of a deleted account over its orders: a request of such an order ends
  with an exception, like a kill.
- `housekeeping.py`'s reports and `dbversion_check`, which only read; its
  invalidations of orders and authorizations are the calls with which `Order.parse`
  and `Authorization.new_post` begin, and are in `AcmeServer` as a request that is
  refused. Its default `uts`, computed when the module is loaded, makes rows expire
  later, which the models allow.
- Handlers of other CAs (`examples/ca_handler`): the asynchronous CA of
  `CertificateHandler` is what `certificate.py` expects of them.
- The choice of a DNS client and the pools of connections (`dnsclient/helpers.py`);
  checks of API keys; the making of keys and CSRs.
- Switches that disable checks (`nonce_check_disable`, `signature_check_disable`,
  `challenge_validation_disable`, `expiry_check_disable`): the default is
  modelled. `tos_url`, `contact_check_disable` and `ecc_only` are constants.
- One order with the same identifier twice; a TNAuthList spelled otherwise (section 2);
  an order of a TNAuthList whose support is switched off before it is finalized;
  tkauth-01 challenges without that support (whose `_check` returns "invalid",
  reachable only by changing the configuration between the creation and the check of
  a challenge).
- Formatting, parsing, cryptography, JSON layout, logging and the directory.

## 7. Plan

1. *Done.* Order life cycle: `DBstore`, `Workers`, handlers, `AcmeServer`,
   `Issuance`, theorems.
2. *Done.* Nonces: `Message`, `NonceStore`, theorems.
3. *Done.* Accounts: `AccountHandler`, `AccountRegistry`.
4. *Done.* Certificates, the OpenSSL CA, the trigger and housekeeping:
   `CertificateServer`.
5. *Done.* ZeroSSL, DNS records and prefetching: `ZeroSSLHandler`.
6. *Done.* Theorems about every module: its inductive invariant, and each safety
   and action property its passing runs check.
7. *Done.* `ReadyOrdersRowsProved` under failing calls as a theorem.
8. What several workers still guarantee, as properties and theorems: which of the
   conjuncts of `OneWorkerInv` survive a second worker, and what an authorization
   that was decided may become again.
9. The refinement of `Issuance` with failing calls, where an order promises only
   the identifiers of the rows it has.
10. Lemmas on the database calls (`update_or_create`, `save`) shared by the proof
    modules, to shorten the step proofs.
