# OstrichPKI in TLA+

A verification development for OstrichPKI (Rust crates under `crates/`, servers
under `services/`): TLA+ modules translated from the source, TLC configurations
that check them on small instances, and TLAPS proofs of the main results for
every value of the constants. `PROJECT.json` lists components, runs, mutants,
the definition-to-source map, findings, hazards and theorems.

## 1. The system

OstrichPKI is a set of services (CA, OCSP, ACME, EST, SCMS, KRA, TAMP, notify,
web UI, NPE portal) that share one PostgreSQL database. Almost all state lives
in tables; the services hold caches, locks and keys. The protocol servers call
the CA over mutually authenticated gRPC, and expiry notices travel over NATS
JetStream; otherwise concurrency is that of async handlers, in one or several
processes, whose SQL statements interleave. A statement is atomic; a handler is
a sequence of statements with awaits between them, and only some handlers put
theirs into a transaction or take an advisory or row lock. What can go wrong is
therefore: a value read before an await and used after it, two handlers in the
same sequence of statements, an error or a crash between two statements, a
client that gives up on a commit that still takes effect.

| Component | State | Operations | Interacts with | Hard behaviour | Correct when |
|---|---|---|---|---|---|
| Audit log (`ostrich-audit`, `repository/audit.rs`) | `audit_events`, advisory lock | `record`, `append`, `begin_append`, `commit`, `verify_chain`, `verify_signed_chain` | called by every other component, fails closed | writers on several hosts, clocks that tie or step back, hanging signer, lost commit answers, crash with the lock held | one unbroken chain, append only, truthful answers, lock always released |
| Approval workflow and issuance (`ostrich-ca`: `approval.rs`, `rest.rs`, `issuance.rs`) | `approval_requests`, `approval_decisions`, `certificates` | submit, approve, reject, expire, issue | audit, revocation, bulk | statements without a transaction, two approvers, failures half way | no certificate without somebody else's approval, one approval one certificate |
| Bulk enrolment (`rest.rs`, `repository/bulk_enrollment.rs`) | jobs, items | upload | approval | a failure between a request and its item | the job shows what happened to the archive |
| Revocation and CRLs (`ostrich-ca/revocation.rs`) | revocation columns of `certificates`, `crls` | `revoke`, `generate_crl_by`, `generate_delta_crl_by` | audit, OCSP | list, number and `thisUpdate` are read at different times, the last by another host's clock than the revocations | numbers in order, deltas fit their base, nothing revoked gets lost |
| Sessions (`auth/session.rs`, `repository/session.rs`) | `sessions` | create, validate, unlock, terminate, terminate all, reap | all REST servers | read-decide-write copies against terminations, racing logins, reapers in every server | terminated stays dead, limits hold |
| Account lockout (`auth/password.rs`, `repository/users.rs`) | failure counters and status of `users` | password login, record failure, reset, unlock, set status | sessions | failures, resets and unlocks that meet, locks that expire | every failure counts, a permanent lock stays until an administrator lifts it |
| ACME (`ostrich-acme`) | orders, authorizations, challenges | new order, respond, validate in background, finalize | CA over gRPC | validations against each other and against finalization, retries of a call that is not idempotent, restarts | certificates carry proven identifiers only, a finished order does not stay pending |
| CA client (`grpc_client.rs`) | circuit breaker | call with retries | ACME, EST | calls in flight when the breaker opens | every call returns |
| gRPC listener of the CA (`grpc_tls.rs`, `grpc_authz.rs`) | handshake slots, queue, audit rate limiters | accept, handshake, authorize, deny, flush, stop | audit, issuance | slow clients, windows that roll while counts are taken, stop at any moment | slots come back, every failure is recorded or counted |
| OCSP (`ostrich-ocsp`) | response cache | respond, insert, evict | revocation | a response built before a revocation and cached after it | no `good` beyond the validity of a response |
| EST (`ostrich-est`) | enrolment tokens, enrolments | mint, revoke, enroll, re-enroll, server key generation | CA over gRPC | a use spent before, refunded after or spent after the issuance | uses are bounded, a revoked token stays revoked |
| SCMS (`ostrich-scms`) | tokens, PIN counters, keys | token life cycle, verify, change, unblock | - | read-decide-write without a lock | counter and status agree |
| TAMP (`ostrich-tamp`) | trust anchors, sequence numbers | ingest, issue | - | first messages that race, statements that fail | accepted numbers strictly advance, none is issued twice |
| Notifications (`services/notify-server`, `ca-server/expiry_producer.rs`) | schedules, claimed windows, two JetStream subjects | scan, consume, evaluate, send, re-drive | CA | lost acknowledgements, crashes between claim and publish, tombstones | what was claimed is sent |
| PKCS#11 provider (`ostrich-crypto/pkcs11`) | objects and login of the token | generate, sign, verify, export, wrap, unwrap, destroy, list, random | every signer | one login shared by the sessions of all operations | verify tells a fault from a forgery, a destroyed key is gone |
| Web console sessions (`services/web-ui`) | in-memory sessions, pending OIDC logins | login, callback, validate, proxy, logout, logout-all | CA sessions | copies written back after a logout, callbacks that overlap | an ended session stays ended, one login one session |
| NPE portal certificate (`services/npe-portal/acme.rs`) | certificate served, cached bundle, challenge tokens | enrol, install, cache, renew | ACME server | failed orders, crashes between write and rename, stale bundles | a fresh certificate comes to be served, nothing is left behind |
| KRA (`ostrich-kra`) | escrowed keys, recovery requests, shares | escrow, initiate, submit share, complete | audit | field arithmetic at high share indices, any subset of agents in any order | a quorum recovers the key, fewer learn nothing |

Software cryptography, X.509 encoding and parsing, role tables, web pages, command
line tools and start-up are not state machines of interest here and are listed
in `PROJECT.json` as not modelled with the reason.

## 2. Modules

| Module | Contents |
|---|---|
| `AuditLog` | abstract specification: an append-only log ordered by time, and what callers may be told |
| `AuditChain` | `DatabaseAuditSink::record` and `AuditRepository::append` as client processes, their transactions as server processes; `ImplementsLog` is the refinement of `AuditLog` |
| `IssuancePolicy` | abstract specification of a registration authority: evidence is gathered, a certificate is issued only when the evidence suffices by then, nothing is taken back; `Approval` and `AcmeOrder` implement it |
| `Approval` | REST handlers of the approval workflow and `CertificateIssuer::issue` |
| `BulkEnrollment` | extends `Approval`: `bulk_enroll` queues requests in the same table, beside the other handlers |
| `CrlPublication` | `revoke`, full and delta CRL generation |
| `Sessions` | `SessionManager` over `DbSessionStore`, and the reapers |
| `AcmeOrder` | one order from `new_order` over the validation tasks to `finalize_order` with the retried CA call |
| `GrpcClient` | `with_retry` and the circuit breaker |
| `GrpcListener` | accept loop, handshake tasks, authorization layer, rate-limited audit |
| `EstTokens` | enrolment tokens and the requests of their bearers |
| `OcspCache` | `process_request` and the response cache |
| `Notify` | expiry producer, scheduler replicas, sender |
| `Lockout` | password logins over the lockout columns |
| `Tamp` | `ingest` and the `issue_` operations |
| `ScmsToken` | the handlers that write a hardware token |
| `Pkcs11` | the operations of `Pkcs11Provider` as sequences of PKCS#11 calls |
| `WebSession` | `SessionManager` of the web console and the handlers that use it |
| `PortalCert` | `obtain_certificate`, `acquire_on_startup`, `renewal_loop` and the cache |
| `Shamir` | secret sharing over GF(256), one byte, its arithmetic bit by bit |
| `KeyRecovery` | `escrow_key`, `initiate_recovery`, `submit_share`, `complete_recovery` |
| `MCBackground`, `MCCaServer`, `MCServices`, `MCParts` | instances that check several components in one run: a variable chosen at the start says which of them takes the steps of a behaviour |
| other `MC*` | instances of one component |
| `AuditChainProofs`, `CrlPublicationProofs`, `SessionsProofs`, `AcmeOrderProofs` | TLAPS proofs of the module named |
| `FrontEndProofs` | proofs of `GrpcListener` and `OcspCache` |
| `ApprovalProofs` | proofs of `Approval` and of `BulkEnrollment` |
| `CredentialsProofs` | proofs of `Lockout`, `ScmsToken`, `EstTokens` and `Tamp` |
| `ServicesProofs` | proofs of `WebSession`, `Pkcs11`, `PortalCert` and `Notify` |

### How the modules correspond to the code

*Interleaving.* One action is one SQL statement together with the local
computation up to the next await. A handler's local variables (the row it has
read, the number it has taken) are part of the state, so that they can be stale.

*AuditChain.* A call has a client part (`pc`, `ev`, `head`, `reply`) and a
transaction on the server (`sess`: open, locked, committing, committed,
aborted). `CallRecord`/`CallAppend` open it, `GrantLock` is
`pg_advisory_xact_lock`, `ReadHeadAndLink` reads the head and runs
`apply_chain_timestamp` and `compute_hash`, `Sign` is `sign_bounded`,
`SendCommit` makes the checks of `AuditAppendTx::commit` and sends COMMIT,
`ServerCommits` is the moment it takes effect. `BeginFails`, `SignFails`,
`CommitFails`, `CommitTimesOut` and `Crash` end the client at any point and
leave the transaction to `ServerAborts`, or to `ServerCommits` if COMMIT was
sent. A hash is the tuple of the hashed fields: hashing is taken to be
injective (the code concatenates fields without delimiters; what an ambiguity
of that encoding could do is outside of this model). `details` is reduced to
its reserved key `occurred_at`. `CallAppend` links to a head read without the
lock, as `get_last_hash` gives it.

*Approval.* `request`, `decisions` and `certs` are the three tables, `handler`
holds what each invocation has read and where it is. `Fail` is an error or a
crash after any statement: what was written stays. `approve_request` runs on
into `issue` for issuance and renewal requests and marks the request completed
a second time, as the code does. The approval workflow is taken as required
(`require_approval`, the default of `CertificateIssuer`). An approver's permissions do not change
during a run.

*CrlPublication.* `revokedAt` is the revocation column, `crls` the table. A
generation passes through the stages list, number, build, store, audit in the order of
the code; `seen` is the list of revoked certificates it has read. Revocation times are
the database's `NOW()` and `thisUpdate` is the `Utc::now()` of a CA server: each
is a reading (`Readings`) within `MaxSkew` of `now`, which no program sees, so
the two disagree and step back by up to twice as much. A generation that has
ended forgets its locals (`Forget`). The reason code and the entries' encoding are left out.

*Sessions.* `store` holds status and last activity of each session; a call
fetches copies, decides on them (`Evaluate`, `Unlocked`, terminations) and
writes them back with the guarded UPDATE (`Updated`). A login takes the user's
advisory lock, counts and inserts. Every service runs a reaper (`Reapers`):
`LockIdle` with the cutoff taken when the sweep began, then `DeleteExpired`.
The locals of a call or a sweep that has ended are cleared: no step reads them.
`InMemorySessionStore` is not modelled.

*BulkEnrollment.* `job` and `items` are the rows, the other variables the
locals of `bulk_enroll`. `BulkQueueEntry` is the `Submit` of `Approval` by
another caller, and decisions on a queued request run on while the upload goes
on. `BulkDropped` is a failed `finalize_job`, a lost client or a dead server.

*AcmeOrder.* `Tasks` are background validations, `Handlers` the invocations of
`finalize_order`; both keep the rows they listed. What a validator finds on the
network is a free choice. The CA is external: it may issue and lose the answer,
whereupon `with_retry` calls again. `Restart` forgets tasks and handlers.

*EstTokens.* One request is `EstAuthenticate`, `EstCreate` and then, by kind,
reserve-issue-refund/record (simple enrolment), the prior certificate check
(re-enrolment, which spends nothing) or issue-consume (server key generation).

*OcspCache.* The cache is a sequence in order of insertion; a handler keeps the
status it read until it signs and inserts. Time moves one tick at a time.
`retain` keeps the entries at a set of positions in their order (`Ascending`
enumerates the set), which stands for `HashMap::retain` on entries that carry
their `inserted_at`. `OcspRevoke` is the `revoke` of the CA, which writes its
table and leaves the cache alone.

*Notify.* `Slots` are windows of a subject. A message is delivered at most
`MaxDeliver` times; `Fault` counts crashes and failed statements. An evaluation
of a replica keeps the windows it has yet to look at (`evalLeft`, in any order:
`list_active` has no ORDER BY) and the one it has claimed and not yet published
(`evalNow`). `PublishUnacked` is a job that the stream has stored although
`publish_job` reports an error.

*Lockout, Tamp.* The transactions with `SELECT ... FOR UPDATE` hold the row from
the select to the commit; between them only they may change it. An
administrator lifts a lock with `unlock_account` or sets any status with
`set_user_status`; "suspended" stands for every status that is neither active
nor locked. An account exists throughout: creating and deleting it is left out.

*ScmsToken.* `ScmsLoad` is `find_token` and the checks, the other actions the
UPDATE that follows it, whatever happened in between. The history `overtaken`
says that, since the SO-PIN last unblocked the token, `verify_pin` has decremented
a counter that was no longer the one it had read, or a handler that passed its
check has written after the last attempt was used up.

*GrpcClient.* `cooling` is what is left of the breaker's timeout; opening the
breaker, also when it is open already, starts it anew (`opened_at`).

*GrpcListener.* `connPc` follows a connection through loop, task, queue, layer
and handler; `task` is the `LimiterDecision` its task acts on. `flushing` is
what `flush_expired`, `flush_all` and `drop` have taken and not yet written. A
certificate's static checks are the set `Entitled`, its expiry a step.

*Pkcs11.* One action is one PKCS#11 call; `hsmPc` is the call an operation makes
next. The token is external: private objects are visible only while it is logged
in, C_Logout invalidates the handles of private objects, closing the last
session logs out. `TokenFault` is a failing call, after which most operations
return without a logout. `disturbed` records that another operation has logged
the token out.

*WebSession.* `validate_session` is `GetSession`, which copies the entry and
decides, and `ValidateExpired` or `ValidateUpdates`, which remove the entry or
write the copy back; `Proceed` is what the caller does then. `TakeState` is the removal of the
OAuth state at the start of `exchange_code`, `CodeExchanged` the end of the
callback. `RequestDropped` is a client that goes away at an await.

*PortalCert.* A certificate is the time it has left. The process is one thread of
control (`portalPc`), since the renewal task starts when enrolment has ended.
`WriteTmp` takes two steps, so that a crash may leave a torn temporary file.

*Shamir, KeyRecovery.* A number is the set of its one bits, so that xor, shifts
and the width of u8 and u16 are those of the code; the KEK is one byte, since
bytes are shared independently. The KEK in `escrow` stands for the wrapped key,
which only that KEK opens (AES-GCM). `attempt` is the last `complete_recovery`
with the shares and the threshold its caller passed. `Shamir` has RECURSIVE
operators (the loops of `gf_div_u16` and `gf_inv`) and is used by TLC alone.

## 3. Runs

| Run | Result | Shows |
|---|---|---|
| `background` | passes | audit log: `ChainIntact`, `OriginalTimeKept`, `ReplyTruthful`, `DeletionDetected`, `AppendOnly`, refinement of `AuditLog` (`ImplementsLog`); notices: `NoticeOnce`; OCSP: `OcspSound`; PKCS#11: `HsmTruthful`; SCMS: `PinLockout`; KRA: `QuorumRecovers` |
| `ca_server` | passes | `CertificateApproved`, `StatusBacked`, `JobHonest` and the refinement of `IssuancePolicy` (`ApprovalImplementsPolicy`) for uploads, submissions, decisions and issuances side by side; `NumbersInOrder`, `DeltaOnlyChanges`, `RevocationTruthful` for CRLs and revocations |
| `services` | passes | ACME: `CertificateProven`, `ReadyNotLost`, `ValidHasCertificate`, refinement of `IssuancePolicy` (`AcmeImplementsPolicy`); sessions: `TerminatedStaysDead`, `LoginsWithinLimit`, `TerminateAllComplete`; lockout: `FailuresLock`, `PermanentUntilAdmin`; web console: `WebSessionsEnd`; EST: `TokenBalance`; TAMP: `TampSequences` |
| `parts` | passes | `LockReleased`, `CallReturns` (audit), `OcspForgets`, `NoticeDelivered`, `CallsReturn` (CA client), `SlotsFreed`, `SummaryReported`, `FailuresAccounted` (listener), `PortalRenews`, `NothingLeftBehind` (NPE portal) |
| `approval_usedonce` | violated | one approval, two certificates |
| `crl_stale` | violated | a later CRL without a revocation that an earlier one lists |
| `crl_deltagap` | violated | a revocation in neither the base CRL nor its deltas |
| `sessions_limit` | violated | more active sessions than the limit, through lock, login, unlock |
| `est_revoked` | violated | a refund revives a revoked enrolment token |
| `ocsp_invalidated` | violated | a good answer stays cached when its certificate is revoked |
| `notify_tombstone` | violated | a live certificate never announced |
| `scms_blocked` | violated | a blocked token that the SO-PIN cannot unblock |

### Bounds and why they are enough

- `background`, audit: three calls, two clock readings (so that times tie, step back
  and advance), both APIs, a signing sink, `occurred_at` set by the caller or
  not. Two calls make a race for the head; the third appends behind a row whose
  timestamp was moved, or after an aborted writer. Notices: two replicas that
  evaluate one window, a stream of two messages (so that a second job for a
  window would show), two deliveries, one fault. OCSP: two requests for two keys
  over a cache of one entry, so that every insert evicts. PKCS#11: two operations
  of any kind and one key besides the wrapping key: one operation ends, or
  destroys the key, at every point of the other. SCMS: two handlers of any kind
  over one token with three attempts. KRA: 255 shares, of which the first, the
  last and the one whose index is the high bit alone take part, every threshold
  up to three, KEK bytes 0x00, 0x53 and 0xFF, and every sequence of up to three
  shares with every threshold a caller may pass; apart from that `gf_inv` is
  checked at all of its 255 arguments. About 1.9 million states.
- `ca_server`, issuance: one request, three users who all hold the approval
  permission (one is the requestor), two handlers that decide or issue, and an
  upload of two entries, one of them no certificate request. Handlers of
  different requests share no row. Batch: two requests of one archive, and one
  handler that decides on the first while the second is queued, fails or is
  lost. Revocation: one certificate, two revocations of it, three generations of
  which two may overlap (a full base, and a delta on it beside another one), two
  ticks, and clocks that are off by up to one: a delta then does repeat an entry
  of its base. About 3.3 million states.
- `approval_usedonce` has three handlers; two racing issuances suffice. `crl_stale`
  and `crl_deltagap` have clocks that agree: the violations need no skew.
- `services`, ACME: one order for a wildcard DNS name and an IP address, so that the
  rules of both apply; two validations and two finalizations at a time, three
  responses, one attempt at the CA call, which may issue and lose its answer, one
  restart. The retry inside a call is covered by the proofs, which hold for every
  `MaxRetries`. Sessions: one user (logins of different users do not share a
  lock or a row), two sessions, two calls of any kind, limit 1, idle timeout 1,
  absolute timeout 2 and a clock up to 3, so that a session passes its idle and
  its absolute timeout; one reaper in TLC, any number in the proof. Lockout:
  three logins, a limit of two failures, a permanent lock after two locks: two
  failures race for the limit and a third login meets the lock. Web console: two
  tokens, two requests, one OIDC login, a session that locks one tick after its
  last use and expires one later, a clock of two ticks. EST: one token of up to
  two uses, two requests: they meet at the last use. TAMP: two messages of one
  signer that race for its first number, and two outbound operations over one
  key. About 2.2 million states.
- `parts`, audit: two calls of `record()`, one waiting for the lock the other
  holds. OCSP: two keys for a cache of one entry, two handlers. Notify: one
  certificate, one period, one replica, two faults and one delivery, so that a
  single fault of the sender makes the deliveries run out and the re-drive has to
  help. Client: two calls, a threshold of two failures, so that the failures of
  both open the breaker, three attempts, a timeout of two ticks that a late failure
  starts again. Listener: three connections, two of one source, two slots
  of which a source may have one, a queue of one, one record per window: every
  limit is reached and exceeded. Portal: two domains, a certificate of three
  ticks that is due at the last one, three faults: a failed order, a failed write
  and a crash in one behaviour.

Symmetry reduces over interchangeable calls, handlers, jobs and sessions, in
runs without liveness. Where a run has several components, some of them share a
set of values, and a permutation acts on all of them at once: only one of them
leaves its initial state in a behaviour. `CHECK_DEADLOCK FALSE` is set wherever calls are
finite in number and the system may come to rest.

### Fairness

Liveness is checked in `parts`. In `PartsSpec` each assumption holds only in
the behaviours of its component.

- Audit: a transaction does not stay open for ever, because `begin_append` sets
  `lock_timeout`, `statement_timeout` and
  `idle_in_transaction_session_timeout` (audit.rs:50-70). Nothing is assumed of
  the signer or of the client, so `LockReleased` holds with clients that hang
  or are gone. `ClientFairness`, a premise of `CallReturns` alone, says that
  the client's tokio timeouts (begin, sign, commit) fire.
- OCSP: time passes, and a handler that was started goes on.
- Notify: the interval timers fire, JetStream delivers again what was not
  acknowledged, and faults, which are bounded, end. `LiveCertNotified` is
  violated under the same fairness.
- CA client: every call has a deadline and every sleep ends.
- Listener: tokio runs the tasks that are ready, `tokio::time::timeout` ends a
  handshake, and the window of a limiter ends. Nothing is assumed of clients,
  of tonic taking connections, or of the operating system delivering any.

- Portal: the process and its timers run, what is down is started again by its
  supervisor (the reason the code gives for not exiting on a failed enrolment is
  that it would be), time passes, and faults, which are bounded, end.

### Findings

Each is a violation run with its trace; `PROJECT.json` quotes the lines.

1. **One approval, two certificates** (`issuance.rs:568`): the check that the
   request is unused, the insert of the certificate and the mark are three
   statements. A failure between the insert and the mark has the same effect
   without any overlap: the next call finds the approval unused.
2. **A CRL takes a revocation back** (`revocation.rs:500`): the list is read
   before the number.
3. **Delta gap** (`revocation.rs:717`): `thisUpdate` is taken after the list
   was read; revocations between the two are in no CRL until the next full one.
4. **Session limit** (`session.rs:692`): locked sessions give their place up
   and take it back without being counted.
5. **Revoked enrolment token revived** (`repository/est.rs:398`): the refund
   does not look at `revoked_at`, and neither do the queries that accept a token.
6. **Cached answers survive a revocation** (`responder.rs:318`): "Cache
   invalidation: Automatic on certificate revocation" (`responder.rs:117`, and
   `cache.rs:18` and 218 alike), but `invalidate_cache` has no caller: a good
   answer that is cached at the revocation is served until it expires.
   `OcspForgets` is what holds instead.
7. **Live certificate never announced** (`expiry_producer.rs:142`): schedules
   are keyed by subject and every scan ends with the tombstones.
8. **Blocked for good** (`scms/rest.rs:912`): the PIN counter is written as it
   was read; a PIN change that overlaps the last wrong PIN leaves a blocked
   token that counts as not locked.

### Observations without a run

- When `commit()` returns an error, `record()` alerts "audit record NOT written
  (fail closed)" (`sink.rs:59`; also the comment at 392-393), but the error may be that of a connection
  lost after COMMIT took effect (`sink.rs:455`). `ReplyTruthful` is therefore
  stated for success and for errors before the commit; in the refinement a
  commit error tells the caller "unknown".
- `update_request_status` and `mark_request_completed` update `WHERE id` only
  (`repository/approval.rs:152`), so overlapping deciders leave the transitions
  documented at `approval.rs:129-133` (approved to rejected, completed to
  approved). `StatusBacked` is what holds instead.
- `approve_request` goes on to issue for renewal requests too
  (`rest.rs:2212-2214`), and `issue()` refuses every type but issuance
  (`issuance.rs:554`): approving a renewal always ends in an error.
- With `lock_on_inactivity = false` an idle session is marked expired before
  its `expires_at`; a late touch can make it active again after
  `terminate_user_sessions` has skipped it. `TerminateAllComplete` is stated
  for `lock_on_inactivity = true`, the value of both built-in configurations.
- ACME: `respond_to_challenge` may be called again for an order that is already
  processing or valid, and the validation then sets it to ready: it can be
  finalized again. An error of the CA leaves the order processing. The client
  retries `issue_certificate` (`acme/ca_integration.rs:128`) although the EST
  client declines to, because a retry could mint a duplicate
  (`est/ca_integration.rs:260`).
- EST: re-enrolment by the bearer of a token spends no use, and server key
  generation spends its use only after the issuance.
- OCSP: `thisUpdate` is taken after the status was read (`responder.rs:272`), and
  a request that read `good` before a revocation may insert after one that read
  `revoked`: the later `good` then replaces the `revoked` in the cache until it
  expires.
- CRLs: revocation times are the database's, `thisUpdate` the CA's
  (`revocation.rs:717`). With the database ahead a delta repeats entries of its
  base, harmlessly; with the CA ahead the gap of finding 3 widens by the skew.
- Notifications are sent at least once; a lost acknowledgement repeats one.
- Lockout: a successful login that read the row before a racing failure locked
  it lifts the temporary lock. `is_locked` is false for a permanent lock once
  `locked_until` has passed; the status column still refuses the login.
- TAMP: two updates may be applied in another order than that of their numbers.
  `apply_apex_update` removes only the row of the same key, so replacing the
  apex by another key meets the unique index for one apex. `reset_seq` has no caller.
- SCMS: `verify_pin` does not look at the status beyond "blocked", so a token
  that is not personalized, or revoked, can be blocked by wrong PINs and be
  unblocked to active. `initialized_at` is written by a second statement.
- Bulk: a failed `finalize_job` leaves a job processing; an upload that fails
  at `create_item` leaves one queued request that no item shows, which
  `JobHonest` bounds to one.
- Listener: handshakes in flight when the loop stops may fail after the last
  `flush_all`; `drop` then writes their summary as long as the runtime lives.
- PKCS#11: when another operation logs the token out between the login and the
  first search of `destroy_key` (`pkcs11/mod.rs:1102`), the private object is not
  visible, only the public one is destroyed, and the answer is Ok ("Destroy both
  the private and public key objects in the HSM", line 1092). Without the
  condition on `disturbed`, `HsmTruthful` fails with two operations. The other
  operations then fail with an error and can be repeated.
- Web console: a `validate_session` that read the session before the inactivity
  limit and writes after another one has locked it unlocks it again. `logout`
  ends the console's session only, the CA session it is bound to goes on until
  its own timeout; `logout_all` ends both. `unlock_session` has no caller.
- KRA: `submit_share` inserts a row without `submitted_at`, which
  `count_submitted_shares` asks for, so `shares_collected` is always 0; the share's
  index is not stored. `initiate_recovery` writes 3 of 5 whatever the escrow's
  threshold was. `complete_recovery` takes shares and threshold from its caller:
  two shares of one index, or a threshold of 0, end in a panic
  (`shamir.rs:250`, `shamir.rs:154`) instead of an error.

### Mutants

Every property of a passing run has a mutant: a variant of a mapped definition
with a plausible bug (a dropped guard, a missing lock, an off-by-one in a
comparison), under which TLC finds the property violated in the same
configuration. The variants stand before the definitions they replace.

## 4. Proofs

All theorems hold for arbitrary sets of calls, handlers, users, certificates,
sessions and so on, under the `ASSUME`s of the modules, which TLC evaluates.

**`AuditChainProofs`.** The chain alone is not inductive: that an append keeps
it intact depends on the head being current. `IInv` adds that one transaction
at most holds the lock (`LockInv`), that client and server agree on how far a
call is (`ProgressInv`), that the head a lock holder has read is still the head
(`HeadInv`), that hash and signature cover what will be inserted (`EventInv`),
and that the rows are the events of the committed transactions (`RowsInv`).
`ServerCommits` then puts a row behind all others that links to the last.
`AuditInv` adds `TimeInv`, from the call to the commit: the time the caller
gave is the timestamp, or `occurred_at` once `apply_chain_timestamp` has moved
the timestamp. Proved: `TypeOK`, `ChainIntact`, `ReplyTruthful`,
`DeletionDetected`, `AppendOnly`, `OriginalTimeKept`, `ImplementsLog`.

**`ApprovalProofs`.** `ApprovalInv` says what a handler that is between two
statements relies on (`HandlersBacked`): facts that never become false again,
namely who may decide, recorded decisions and stored certificates; the status,
which others may overwrite, is not among them. `BulkInv` goes through the loop
of `bulk_enroll`: it is at the entry after the last item (`LoopInv`), the two
counters count the items stored and the one at hand (`CountInv`), and the
request of the item at hand is the only one no item shows (`TagInv`). The
request table underneath is the one the other handlers write, so the invariant
includes `ApprovalInv`. Proved: `CertificateApproved`, `StatusBacked`,
`JobHonest`.

**`CrlPublicationProofs`.** Numbers are read without a lock. What makes their
order right is that they have no gap (`NumbersContiguous`) and that a number
waiting to be used follows a stored one (`NumberTaken`): if it is still free
at the INSERT it is the highest. `DeltaOnlyChanges` holds for every `MaxSkew`: what
a generation has read was revoked by the time of its `thisUpdate`, give or take one
reading of each clock (`ReadingsNear`), so a recorded time is never later than the
`thisUpdate` of a CRL that lists it by more than both. Proved: `NumbersInOrder`, `DeltaOnlyChanges`,
`RevocationTruthful`.

**`SessionsProofs`.** The limit is about a count taken earlier. `LoginInv`
keeps, for the login that holds the user's lock, that the place it counted is
still free; everything else that happens only shrinks the set of sessions
active since their login (`SetKeeps`, from `FiniteSetTheorems`).
`TerminateAllInv` keeps that every session the call is to end is still on its
list or out of use for good. Proved: `TerminatedStaysDead`,
`LoginsWithinLimit`, `TerminateAllComplete`.

**`CredentialsProofs`.** Four stores, one argument each.
`LockoutInv` (`RowInv`): a login between the SELECT ... FOR UPDATE and its
UPDATE owns the row and has read what it still holds, so no failure is lost.
Proved: `FailuresLock`, and the action property `PermanentUntilAdmin`: no login,
not even one that passed its checks before the lock, takes a permanent lock or a
suspension back.
`PinInv` (`AttemptRead`): a verification that goes on to write has read that an
attempt is left. Nothing locks the row, so what it read may be out of date:
`PinLockout` says what holds until such a write happens, for any number of handlers
that overlap, and `scms_blocked` what one such write can do. Proved: `PinLockout`,
whichever statements fail.
`EstInv`: `TokenBalance` counts the requests of a token that hold or have spent
a use; `KindInv` says that only simple enrolments reserve, refund and record.
Cardinalities come from `FiniteSetTheorems`. Proved: `TokenBalance`.
`TampInv`: a message about to write owns its signer's row, whose number is still
below its own (`IngestInv`), and the stored numbers bound those accepted and
those handed out (`BoundInv`).
It leaves out the types of the trust anchors, which `Written` computes by
recursion over the edits of a message and no other part depends on. Proved:
`TampSequences`.

**`ServicesProofs`.** `WebInv`: a request that goes on after the read names a
token that was generated (`TokensKnown`), and an OAuth state is pending, held by
one callback or used up (`StatesInv`). Proved: `WebSessionsEnd`.
`HsmInv`: `DestroyProgress` follows an undisturbed `destroy_key` from call to
call: still logged in, the handles it found are all the objects of the class,
private ones gone before public ones are looked for. `VerdictInv` and
`KeysInv` relate answers to what the token said and labels to the keys handed
out. Proved: `HsmTruthful`.
`PortalInv`: tokens served belong to the order in flight (`TokensTracked`) and
the temporary file is whole before the rename (`BundleWhole`). Proved:
`NothingLeftBehind`.

**`AcmeOrderProofs`.** `AcmeInv` carries a proof of control from the validator
to the certificate: a task writes valid only for a challenge in `proven` that
was offered for the identifier (`TasksInv`), a valid authorization is of a
proven identifier (`AuthzProven`), and a finalization past its checks holds the
identifiers of its order, all proven, although the rows it listed may change
(`FinalizeInv`); `OrdersKnown` says that an order's identifiers no longer
change. Proved: `CertificateProven`, `ReadyNotLost`, `ValidHasCertificate`.

**`FrontEndProofs`, listener.** `ListenerInv` is `SlotsBalanced` (permits, the one in
the loop's hands and handshakes in flight add up, in total and per source),
`TaskInv` (a task owes the log what the limiter told it and nothing after it has
written) and `FailuresAccounted`, which sums over the tasks. The sum is the
`SumFunctionOnSet` of the community modules; that it changes by what one task
changes by (`SumChanges`) needs induction over finite sets, which is made here
with the least element of a set of naturals (`WFMin`) rather than with the
library's induction theorems. `Conns` is assumed finite: a count of failures is
one of finitely many connections. Proved: `SlotsBalanced`, `FailuresAccounted`.

**`FrontEndProofs`, OCSP.** `OcspSound` says that the cache keeps its bound and
that no answer was never true, in the cache or on its way to a client. The second
half rests on statuses that only move from unknown to good to revoked, so a
status read before any number of awaits stays one that was true (`Truthful`).
The first half is about `insert`: what `retain` returns is made of entries of
the old cache and is no longer than it (`RetainFacts`, for which the ascending
enumeration of a finite set of positions has to exist: `AscendingExists`, by
induction on its size with the least counterexample), and the eviction before
the append makes room (`InsertFacts`).

**`ServicesProofs`, notices.** `NoticeOnce` alone is not inductive. `NotifyInv`
adds `JobsBacked` (every job is of a claimed window, so `ON CONFLICT DO NOTHING`
refuses the window to every other replica while a job exists) and
`EvaluationsBacked` (a replica publishes only what it has claimed and re-drives
only what is no longer fresh). The list of the re-drive is read long before
its last publish; that it stays right needs that a claim never becomes fresh
or free again. Proved: `NotifyInv`, `NoticeOnce`.

**Refinement of `IssuancePolicy`.** `ApprovalRefinesPolicy` and
`BulkRefinesPolicy` map the decisions to the evidence, the certificates with
requestor and type of their request to the issuances; `AcmeRefinesPolicy` maps
the validated challenges and the CA's issuances with the identifiers of their
order. Every step of the implementation is then a `Gather`, a `Certify` or a
stutter. Two things have to be shown beyond the invariants: that at the step that
stores a certificate the evidence is already there (`HandlersBacked`,
`FinalizeInv`: it was established before an await and cannot be withdrawn), and
that no step changes what an earlier certificate was issued for, since the
mapping reads the current row of its request or order. That is why `Certify`
holds of a retried CA call too: each of its certificates is covered. The two
systems promise the same in different terms, and the theorems say so with one
abstract specification.

The inductive invariants (`AuditInv`, `BulkInv`, `CrlInv`, `AcmeInv`, `HsmInv`,
`WebInv`, `PortalInv`, `ListenerInv`, `NotifyInv`, `OcspInv`, `LockoutInv`, `PinInv`, `EstInv`,
`TampInv`) hold on the instances of the runs when added there as an
`INVARIANT`; the runs list their parts that matter.

Only model-checked:

- liveness, that is the other properties of `parts`: temporal reasoning under
  fairness is out of the prover's reach;
- `QuorumRecovers`: what the loops of the field arithmetic compute, with
  RECURSIVE operators, over bytes;
- the violations, which are counterexamples.

## 5. Not modelled

- **Recovery agents and request states of the KRA.** `update_agent_status`,
  `update_recovery_request_status` and `submit_recovery_share` have no caller.
- **Software cryptography, X.509 building, parsing and validation.** Pure
  functions over byte strings; their correctness is that of encodings and
  algorithms. Where they matter to a protocol (hash chain, signatures,
  identifier checks) the modules model what they decide.
- **Creating, editing and deleting accounts.** Single statements over the row that
  `Lockout` follows; none writes its lockout columns.
- **Authentication providers and roles, method and profile tables.** Checks
  without state; the models take their verdicts as parameters.
- **Web pages, command line tools, start-up.** Rendering and one-shot input and
  output.
- **gRPC issuance.** The handlers behind the listener call the same issuer
  without an approval request.
- ACME accounts, nonces and JWS; the in-memory session store and lockout
  manager, which the servers do not use with a database.

The map covers the state machines. Most of the repository is encodings,
cryptography, request and response types, pages and tests inside source files,
which have no state a model checker could explore, so the share of lines that
can be mapped faithfully stays small.

## 6. Plan

Done: every component that keeps shared state is modelled, and every safety
property of the passing runs is proved for all values of the constants, except
for `QuorumRecovers`. `GrpcClient` alone has a liveness property only:
a caller relies on the return of its call, and the breaker's counter promises
nothing exact (calls in flight race for it). What may follow: the laws of GF(256) that `QuorumRecovers` rests on, stated without
recursion, and the age of a `good` answer of OCSP as a safety property with a
clock in the state, and the in-call retry of ACME in a run of its own.
