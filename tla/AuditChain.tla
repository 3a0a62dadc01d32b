----------------------------- MODULE AuditChain -----------------------------
(***************************************************************************)
(* The hash-chained audit log that every OstrichPKI service appends to.    *)
(*                                                                         *)
(* Client side: DatabaseAuditSink::record (crates/ostrich-audit/src/       *)
(* sink.rs), one process per call, in any service.  Server side: the       *)
(* PostgreSQL transaction behind AuditRepository::begin_append and         *)
(* AuditAppendTx::commit (crates/ostrich-db/src/repository/audit.rs).      *)
(* The two halves are kept apart because a client that gives up (error,    *)
(* timeout, crash) leaves its transaction, and the advisory lock that the  *)
(* transaction holds, to the server.                                       *)
(***************************************************************************)
EXTENDS Integers

CONSTANTS
    Calls,          \* calls of the audit API, each with a fresh event id
    Times,          \* clock readings an event may be created with
    CallerTimes,    \* details.occurred_at values a caller may have set
    SignerConfigs,  \* subset of BOOLEAN: is the sink given a signing key?
    Kinds           \* subset of {"record", "append"}: which API is called

NoTime == -1        \* None of an optional timestamp; earlier than any time
NoHash == <<>>      \* None of an optional hash or signature

ASSUME TimesAssumption == Times \subseteq Nat
ASSUME CallerTimesAssumption == CallerTimes \subseteq Nat \union {NoTime}
ASSUME SignerConfigsAssumption == SignerConfigs \subseteq BOOLEAN
ASSUME KindsAssumption == Kinds \subseteq {"record", "append"}

VARIABLES
    rows,     \* the table audit_events, a set: rows carry no position
    pc,       \* where each call is in its client code
    input,    \* what each call was given: kind, signer, creation time
    ev,       \* the AuditEvent each call is preparing
    head,     \* the head of the chain read into each call's AuditAppendTx
    sess,     \* each call's database transaction, as the server sees it
    reply     \* what each call reported to its caller

vars == <<rows, pc, input, ev, head, sess, reply>>

clientVars == <<pc, input, ev, head, reply>>

-----------------------------------------------------------------------------
(* Types.  A hash is modelled as the tuple of the fields it covers, so two  *)
(* hashes are equal exactly when all the hashed fields are (SHA-256 is      *)
(* taken to be collision free).  Hashes nest, so the record shape is stated *)
(* without a set of all hashes.                                             *)

PCs == {"new", "begin", "sign", "commit", "committing", "done"}
SessionStates == {"none", "open", "locked", "committing", "committed", "aborted"}
Replies == {"none", "ok", "failed", "commit_err", "unknown", "crashed"}

\* Transactions that hold the chain's advisory lock.
Holding == {"locked", "committing"}

IsEvent(v) ==
    /\ v = [id |-> v.id, timestamp |-> v.timestamp,
            occurred_at |-> v.occurred_at,
            caller_occurred_at |-> v.caller_occurred_at,
            previous_hash |-> v.previous_hash,
            event_hash |-> v.event_hash, signature |-> v.signature]
    /\ v.id \in Calls
    /\ v.timestamp \in Nat
    /\ v.occurred_at \in Nat \union {NoTime}
    /\ v.caller_occurred_at \in Nat \union {NoTime}

IsHeadRecord(h) ==
    /\ h = [event_hash |-> h.event_hash, timestamp |-> h.timestamp]
    /\ h.timestamp \in Nat \union {NoTime}

TypeOK ==
    /\ \A r \in rows : IsEvent(r)
    /\ pc \in [Calls -> PCs]
    /\ input \in [Calls -> [kind : {"record", "append"}, signer : BOOLEAN, created : Nat]]
    /\ ev = [e \in Calls |-> ev[e]]
    /\ \A e \in Calls : IsEvent(ev[e])
    /\ head = [e \in Calls |-> head[e]]
    /\ \A e \in Calls : IsHeadRecord(head[e])
    /\ sess \in [Calls -> SessionStates]
    /\ reply \in [Calls -> Replies]

-----------------------------------------------------------------------------
(* Hashing, linking and verification.                                      *)

Digest(id, ts, occurred, caller, prev) == <<id, ts, occurred, caller, prev>>

ComputeHash(v) ==
    Digest(v.id, v.timestamp, v.occurred_at, v.caller_occurred_at, v.previous_hash)

\* An event as its creator hands it over, not yet linked or hashed.
NewEvent(id, ts, caller) ==
    [id |-> id, timestamp |-> ts, occurred_at |-> caller, caller_occurred_at |-> NoTime,
     previous_hash |-> NoHash, event_hash |-> NoHash, signature |-> NoHash]

\* An event linked to prev and hashed over all of its fields.
HashedEvent(id, ts, occurred, caller, prev) ==
    [id |-> id, timestamp |-> ts, occurred_at |-> occurred, caller_occurred_at |-> caller,
     previous_hash |-> prev, event_hash |-> Digest(id, ts, occurred, caller, prev),
     signature |-> NoHash]

ChainTimestamp(timestamp, headTime) ==
    IF timestamp <= headTime THEN headTime + 1 ELSE timestamp

\* A linking that hashes the event before its link is set.
LinkHashedFirst(v, h) ==
    LET ts == ChainTimestamp(v.timestamp, h.timestamp)
    IN  [HashedEvent(v.id, ts, NoTime, NoTime, NoHash) EXCEPT !.previous_hash = h.event_hash]

\* A linking that keeps an occurred_at found in the caller's details.
LinkTrustingCaller(v, h) ==
    LET ts == ChainTimestamp(v.timestamp, h.timestamp)
        occurred == IF v.occurred_at = NoTime /\ ts # v.timestamp
                    THEN v.timestamp ELSE v.occurred_at
    IN  HashedEvent(v.id, ts, occurred, NoTime, h.event_hash)

\* The event after linking: previous_hash set from the head, timestamp moved
\* behind the head (apply_chain_timestamp: the original time goes to
\* occurred_at, a caller's own occurred_at is set aside), then hashed.
Link(v, h) ==
    LET ts == ChainTimestamp(v.timestamp, h.timestamp)
        occurred == IF ts # v.timestamp THEN v.timestamp ELSE NoTime
        caller == IF v.occurred_at = occurred THEN NoTime ELSE v.occurred_at
    IN  HashedEvent(v.id, ts, occurred, caller, h.event_hash)

NoHead == [event_hash |-> NoHash, timestamp |-> NoTime]

\* SELECT event_hash, timestamp FROM audit_events ORDER BY timestamp DESC
\* LIMIT 1: every answer the query may give (several, should times tie).
Heads(table) ==
    IF table = {} THEN {NoHead}
    ELSE { [event_hash |-> r.event_hash, timestamp |-> r.timestamp] :
             r \in { r \in table : \A s \in table : s.timestamp <= r.timestamp } }

Earlier(table, r) == { s \in table : s.timestamp < r.timestamp }

\* verify_chain: in timestamp order every row links to the one before it,
\* the first to none, and its hash recomputes.
LinksBack(table, r) ==
    IF Earlier(table, r) = {} THEN r.previous_hash = NoHash
    ELSE \E s \in Earlier(table, r) :
            /\ \A q \in Earlier(table, r) : q.timestamp <= s.timestamp
            /\ r.previous_hash = s.event_hash

HashesRecompute(table) ==
    \A r \in table : r.event_hash = ComputeHash(r)

VerifyChain(table) ==
    \A r \in table : LinksBack(table, r) /\ r.event_hash = ComputeHash(r)

\* verify_signed_chain: the chain, and every signature that is present.
VerifySignedChain(table) ==
    /\ VerifyChain(table)
    /\ \A r \in table : r.signature # NoHash => r.signature = r.event_hash

-----------------------------------------------------------------------------
Init ==
    /\ rows = {}
    /\ pc = [e \in Calls |-> "new"]
    /\ input = [e \in Calls |-> [kind |-> "record", signer |-> FALSE, created |-> 0]]
    /\ ev = [e \in Calls |-> NewEvent(e, 0, NoTime)]
    /\ head = [e \in Calls |-> NoHead]
    /\ sess = [e \in Calls |-> "none"]
    /\ reply = [e \in Calls |-> "none"]

\* The call ends on the client; its transaction is left to the server.
Return(e, r) ==
    /\ pc' = [pc EXCEPT ![e] = "done"]
    /\ reply' = [reply EXCEPT ![e] = r]

\* record() is called with an event created at time t, its details possibly
\* holding an occurred_at of the caller's; begin_append opens a transaction.
CallRecord(e, t, c, s) ==
    /\ pc[e] = "new"
    /\ "record" \in Kinds
    /\ input' = [input EXCEPT ![e] = [kind |-> "record", signer |-> s, created |-> t]]
    /\ ev' = [ev EXCEPT ![e] = NewEvent(e, t, c)]
    /\ pc' = [pc EXCEPT ![e] = "begin"]
    /\ sess' = [sess EXCEPT ![e] = "open"]
    /\ UNCHANGED <<rows, head, reply>>

\* AuditRepository::append is called with a fully prepared event, linked to
\* a head that was read without the lock (get_last_hash) and may be stale.
CallAppend(e, t) ==
    /\ pc[e] = "new"
    /\ "append" \in Kinds
    /\ input' = [input EXCEPT ![e] = [kind |-> "append", signer |-> FALSE, created |-> t]]
    /\ \E h \in Heads(rows) :
         ev' = [ev EXCEPT ![e] = HashedEvent(e, t, NoTime, NoTime, h.event_hash)]
    /\ pc' = [pc EXCEPT ![e] = "begin"]
    /\ sess' = [sess EXCEPT ![e] = "open"]
    /\ UNCHANGED <<rows, head, reply>>

\* begin_append fails: no connection, lock_timeout, AUDIT_BEGIN_TIMEOUT.
NeverGivesUpWaiting(e) ==
    /\ pc[e] = "begin"
    /\ sess[e] = "none"
    /\ Return(e, "failed")
    /\ UNCHANGED <<rows, input, ev, head, sess>>

BeginFails(e) ==
    /\ pc[e] = "begin"
    /\ Return(e, "failed")
    /\ UNCHANGED <<rows, input, ev, head, sess>>

\* The head is read under the lock; record() links, stamps and hashes.
ReadHeadAndLink(e) ==
    /\ pc[e] = "begin"
    /\ sess[e] = "locked"
    /\ \E h \in Heads(rows) :
         /\ head' = [head EXCEPT ![e] = h]
         /\ ev' = IF input[e].kind = "record"
                  THEN [ev EXCEPT ![e] = Link(ev[e], h)]
                  ELSE ev
    /\ pc' = [pc EXCEPT ![e] = IF input[e].signer THEN "sign" ELSE "commit"]
    /\ UNCHANGED <<rows, input, sess, reply>>

SignHash(v, hash) ==
    [id |-> v.id, timestamp |-> v.timestamp, occurred_at |-> v.occurred_at,
     caller_occurred_at |-> v.caller_occurred_at, previous_hash |-> v.previous_hash,
     event_hash |-> v.event_hash, signature |-> hash]

\* sign_bounded answers: the signature covers the event hash.
Sign(e) ==
    /\ pc[e] = "sign"
    /\ ev' = [ev EXCEPT ![e] = SignHash(ev[e], ev[e].event_hash)]
    /\ pc' = [pc EXCEPT ![e] = "commit"]
    /\ UNCHANGED <<rows, input, head, sess, reply>>

\* The signer fails, or AUDIT_SIGN_TIMEOUT passes while it hangs.
SignFails(e) ==
    /\ pc[e] = "sign"
    /\ Return(e, "failed")
    /\ UNCHANGED <<rows, input, ev, head, sess>>

\* AuditAppendTx::commit's checks pass, the row is inserted and COMMIT sent.
SendCommit(e) ==
    /\ pc[e] = "commit"
    /\ sess[e] = "locked"
    /\ ev[e].previous_hash = head[e].event_hash
    /\ ev[e].timestamp > head[e].timestamp
    /\ pc' = [pc EXCEPT ![e] = "committing"]
    /\ sess' = [sess EXCEPT ![e] = "committing"]
    /\ UNCHANGED <<rows, input, ev, head, reply>>

\* commit() returns Err: the link is refused, the INSERT fails (the session
\* may have been killed), or the connection breaks around COMMIT.
CommitFails(e) ==
    /\ pc[e] \in {"commit", "committing"}
    /\ Return(e, "commit_err")
    /\ UNCHANGED <<rows, input, ev, head, sess>>

\* AUDIT_COMMIT_TIMEOUT: the outcome is reported as unknown.
CommitTimesOut(e) ==
    /\ pc[e] \in {"commit", "committing"}
    /\ Return(e, "unknown")
    /\ UNCHANGED <<rows, input, ev, head, sess>>

CommitReturnsEarly(e) ==
    /\ pc[e] = "committing"
    /\ Return(e, "ok")
    /\ UNCHANGED <<rows, input, ev, head, sess>>

CommitReturns(e) ==
    /\ pc[e] = "committing"
    /\ sess[e] = "committed"
    /\ Return(e, "ok")
    /\ UNCHANGED <<rows, input, ev, head, sess>>

\* The process making the call dies.
Crash(e) ==
    /\ pc[e] \notin {"new", "done"}
    /\ Return(e, "crashed")
    /\ UNCHANGED <<rows, input, ev, head, sess>>

-----------------------------------------------------------------------------
(* PostgreSQL.                                                             *)

LockFree == \A e \in Calls : sess[e] \notin Holding

\* pg_advisory_xact_lock; the client may no longer be waiting for it.
GrantUnserialised(e) ==
    /\ sess[e] = "open"
    /\ sess' = [sess EXCEPT ![e] = "locked"]
    /\ UNCHANGED <<rows, clientVars>>

GrantLock(e) ==
    /\ sess[e] = "open"
    /\ LockFree
    /\ sess' = [sess EXCEPT ![e] = "locked"]
    /\ UNCHANGED <<rows, clientVars>>

\* COMMIT takes effect: the row becomes visible and the lock is released,
\* whether or not the client still waits for the answer.
ServerCommits(e) ==
    /\ sess[e] = "committing"
    /\ rows' = rows \union {ev[e]}
    /\ sess' = [sess EXCEPT ![e] = "committed"]
    /\ UNCHANGED clientVars

\* Rollback of a dropped transaction, lock_timeout, statement_timeout,
\* idle_in_transaction_session_timeout, a lost connection, a failed COMMIT.
AbortsOnlyWaiting(e) ==
    /\ sess[e] \in {"open", "committing"}
    /\ sess' = [sess EXCEPT ![e] = "aborted"]
    /\ UNCHANGED <<rows, clientVars>>

ServerAborts(e) ==
    /\ sess[e] \in {"open", "locked", "committing"}
    /\ sess' = [sess EXCEPT ![e] = "aborted"]
    /\ UNCHANGED <<rows, clientVars>>

ServerEnds(e) == ServerCommits(e) \/ ServerAborts(e)

-----------------------------------------------------------------------------
ClientStep(e) ==
    \/ \E t \in Times, c \in CallerTimes, s \in SignerConfigs : CallRecord(e, t, c, s)
    \/ \E t \in Times : CallAppend(e, t)
    \/ BeginFails(e)
    \/ ReadHeadAndLink(e)
    \/ Sign(e)
    \/ SignFails(e)
    \/ SendCommit(e)
    \/ CommitFails(e)
    \/ CommitTimesOut(e)
    \/ CommitReturns(e)
    \/ Crash(e)

ServerStep(e) ==
    \/ GrantLock(e)
    \/ ServerCommits(e)
    \/ ServerAborts(e)

Next == \E e \in Calls : ClientStep(e) \/ ServerStep(e)

Spec == Init /\ [][Next]_vars

\* The server ends every transaction (idle_in_transaction_session_timeout,
\* statement_timeout and lock_timeout bound each of its states).
ServerFairness == \A e \in Calls : WF_vars(ServerEnds(e))

\* The client's own tokio timeouts fire; the signer itself may hang for ever.
ClientFairness ==
    \A e \in Calls :
        /\ WF_vars(BeginFails(e))
        /\ WF_vars(SignFails(e))
        /\ WF_vars(CommitTimesOut(e))

FairSpec == Spec /\ ServerFairness

-----------------------------------------------------------------------------
(* Properties.                                                             *)

\* verify_chain and verify_signed_chain accept the log in every reachable
\* state, whatever the writers, their clocks, crashes and timeouts do: the
\* chain never forks and no record is unlinked (begin_append's lock, the
\* re-stamping of apply_chain_timestamp and commit's checks together).
ChainIntact == VerifySignedChain(rows)

\* Timestamp order is a total order of the log: no two rows tie, so that
\* "ORDER BY timestamp" is the order in which records were chained.
TimestampsDistinct ==
    \A r, s \in rows : r.timestamp = s.timestamp => r = s

\* What record() reports is what happened: Ok means the row is in the log;
\* an error before commit means that it is not and, since the call's
\* transaction can no longer commit, never will be.
ReplyTruthful ==
    \A e \in Calls :
        /\ reply[e] = "ok" => \E r \in rows : r.id = e
        /\ reply[e] = "failed" => \A r \in rows : r.id # e

\* The time at which an event happened can be read from its row although its
\* chain timestamp may have been moved and the caller may have put an
\* occurred_at of its own into the details (apply_chain_timestamp).
OriginalTimeKept ==
    \A r \in rows :
        input[r.id].created =
            IF r.occurred_at = NoTime THEN r.timestamp ELSE r.occurred_at

\* The chain detects the loss of any record but its newest: without it
\* verify_chain fails.
DeletionDetected ==
    \A r \in rows :
        (\E s \in rows : r.timestamp < s.timestamp) => ~VerifyChain(rows \ {r})

\* A step only ever adds one row, later than all rows there are: nothing is
\* rewritten, removed or inserted in the past.
AppendOnly ==
    [][ /\ rows \subseteq rows'
        /\ \A r \in rows' \ rows, s \in rows : s.timestamp < r.timestamp
        /\ \A r, s \in rows' \ rows : r = s ]_rows

(* The inductive invariant behind ChainIntact, ReplyTruthful and           *)
(* OriginalTimeKept.                                                       *)

\* At most one transaction holds the advisory lock.
LockInv ==
    \A e, f \in Calls : sess[e] \in Holding /\ sess[f] \in Holding => e = f

\* Client and server halves of a call agree on how far it has come.
ProgressInv ==
    \A e \in Calls :
        /\ pc[e] = "new" <=> sess[e] = "none"
        /\ sess[e] \in {"committing", "committed"} => pc[e] \in {"committing", "done"}
        /\ pc[e] \in {"sign", "commit"} => sess[e] \in {"locked", "aborted"}
        /\ pc[e] = "committing" => sess[e] \in {"committing", "committed", "aborted"}
        /\ pc[e] # "done" => reply[e] = "none"
        /\ reply[e] = "ok" => sess[e] = "committed"
        /\ reply[e] = "failed" => /\ pc[e] = "done"
                                  /\ sess[e] \notin {"committing", "committed"}

\* While its transaction holds the lock, the head a call linked to is still
\* the head of the chain, and what is about to be committed links to it.
HeadInv ==
    \A e \in Calls :
        /\ sess[e] \in Holding /\ pc[e] \in {"sign", "commit"} => head[e] \in Heads(rows)
        /\ sess[e] = "committing" =>
             /\ head[e] \in Heads(rows)
             /\ ev[e].previous_hash = head[e].event_hash
             /\ ev[e].timestamp > head[e].timestamp

\* Once linked, an event's hash and signature cover what will be inserted.
EventInv ==
    \A e \in Calls :
        /\ ev[e].id = e
        /\ pc[e] \in {"new", "begin", "sign"} => ev[e].signature = NoHash
        /\ ev[e].signature \in {NoHash, ev[e].event_hash}
        /\ \/ pc[e] \in {"sign", "commit"}
           \/ pc[e] = "begin" /\ input[e].kind = "append"
           \/ sess[e] \in {"committing", "committed"}
           => ev[e].event_hash = ComputeHash(ev[e])

\* The rows are exactly the events of the committed transactions.
RowsInv ==
    /\ \A r \in rows : sess[r.id] = "committed" /\ r = ev[r.id]
    /\ \A e \in Calls : sess[e] = "committed" => ev[e] \in rows

\* The inductive invariant: with it, an append keeps the chain intact.
IInv ==
    /\ TypeOK
    /\ LockInv
    /\ ProgressInv
    /\ HeadInv
    /\ EventInv
    /\ RowsInv
    /\ TimestampsDistinct
    /\ VerifyChain(rows)

\* A call's event carries the time it was created with: as its timestamp
\* until it is linked, from then on as apply_chain_timestamp leaves it.
TimeInv ==
    \A e \in Calls :
        /\ pc[e] = "begin" =>
             /\ ev[e].timestamp = input[e].created
             /\ input[e].kind = "append" => ev[e].occurred_at = NoTime
        /\ pc[e] \in {"sign", "commit"} \/ sess[e] \in {"committing", "committed"} =>
             input[e].created = IF ev[e].occurred_at = NoTime
                                THEN ev[e].timestamp ELSE ev[e].occurred_at

\* Both together: what makes the chain's and the times' properties inductive.
AuditInv == IInv /\ TimeInv

(* Refinement.  An error of commit() and a crash leave the caller as little *)
(* informed as a commit timeout does.                                       *)
logBar == { [id |-> r.id, timestamp |-> r.timestamp] : r \in rows }

Answer == [none |-> "nothing", ok |-> "written", failed |-> "not_written",
           commit_err |-> "unknown", unknown |-> "unknown", crashed |-> "unknown"]

toldBar == [e \in Calls |-> Answer[reply[e]]]

Log == INSTANCE AuditLog WITH log <- logBar, told <- toldBar

\* AuditChain implements AuditLog: readers of audit_events and callers of
\* record() see an append-only log and answers that are true.
ImplementsLog == Log!Spec

\* However a client ends or hangs, the server alone frees the chain lock.
LockReleased ==
    \A e \in Calls : sess[e] \in Holding ~> sess[e] \notin Holding

\* If its own timeouts fire, every call returns to its caller although the
\* signer may hang for ever and other writers may hold the lock.
CallReturns == ClientFairness => \A e \in Calls : pc[e] # "new" ~> pc[e] = "done"
=============================================================================
