---------------------------- MODULE GrpcListener ----------------------------
(***************************************************************************)
(* The CA's gRPC listener (crates/ostrich-common/src/grpc_tls.rs): the     *)
(* accept loop with its handshake slots, the handshake tasks, the per-call *)
(* authorization layer, and the two rate-limited audit trails, one for     *)
(* failed handshakes and one for denied calls, that report what they       *)
(* suppress in summaries.                                                  *)
(*                                                                         *)
(* A connection is handled by the loop, then by its handshake task, then   *)
(* by tonic; a task that has a failure to audit first asks the limiter,    *)
(* which may hand it the summary of an earlier window, and then writes.    *)
(* Each connection makes one call.  The audit sink never refuses here.     *)
(***************************************************************************)
EXTENDS Naturals, FiniteSets, Functions

CONSTANTS
    Conns,          \* connections
    Sources,        \* source_key of their addresses
    SourceOf,       \* a function from Conns to Sources
    Entitled,       \* connections whose leaf and call pass the static checks
    Limits          \* configurations: [inflight, per_source, queue, audit]

Limiters == {"handshake", "denial"}

ASSUME ListenerAssumption ==
    /\ IsFiniteSet(Conns)
    /\ SourceOf \in [Conns -> Sources]
    /\ Entitled \subseteq Conns
    /\ Limits \subseteq [inflight : Nat \ {0}, per_source : Nat \ {0},
                         queue : Nat \ {0}, audit : Nat \ {0}]

VARIABLES
    limits,         \* GrpcListenerLimits and INCOMING_QUEUE_DEPTH
    open,           \* whether the server still holds the stream of connections
    loopPc,         \* where accept_loop is
    permits,        \* the free permits of the semaphore
    perSource,      \* per_source
    connPc,         \* where each connection is
    task,           \* what the connection's task has been told to write
    stale,          \* connections whose leaf has expired
    recorded,       \* AuditRateLimiter::recorded
    suppressed,     \* AuditRateLimiter::suppressed
    windowOver,     \* whether the limiter's window has ended
    flushing,       \* the sum of the summaries that flushes are writing
    owed            \* history: failures to be audited less those the log tells of

loopVars == <<loopPc, permits, perSource>>
rateVars == <<recorded, suppressed, windowOver>>
listenerVars == <<limits, open, loopVars, connPc, task, stale, rateVars, flushing, owed>>

Idle == [limiter |-> "handshake", summary |-> 0, record |-> FALSE]

ListenerTypeOK ==
    /\ limits \in Limits
    /\ open \in BOOLEAN
    /\ loopPc \in {"permit", "accept", "stopped"}
    /\ permits \in 0..limits.inflight
    /\ perSource \in [Sources -> 0..limits.per_source]
    /\ connPc \in [Conns -> {"new", "handshake", "failed", "send", "queued", "served",
                             "handling", "denied", "summary", "record", "closed"}]
    /\ task \in [Conns -> [limiter : Limiters, summary : Nat, record : BOOLEAN]]
    /\ stale \subseteq Conns
    /\ recorded \in [Limiters -> 0..limits.audit]
    /\ suppressed \in [Limiters -> Nat]
    /\ windowOver \in [Limiters -> BOOLEAN]
    /\ flushing \in [Limiters -> Nat]
    /\ owed \in [Limiters -> Nat]

ListenerInit ==
    /\ limits \in Limits
    /\ open = TRUE
    /\ loopPc = "permit"
    /\ permits = limits.inflight
    /\ perSource = [s \in Sources |-> 0]
    /\ connPc = [c \in Conns |-> "new"]
    /\ task = [c \in Conns |-> Idle]
    /\ stale = {}
    /\ recorded = [l \in Limiters |-> 0]
    /\ suppressed = [l \in Limiters |-> 0]
    /\ windowOver = [l \in Limiters |-> FALSE]
    /\ flushing = [l \in Limiters |-> 0]
    /\ owed = [l \in Limiters |-> 0]

ConnAt(c, p) == connPc' = [connPc EXCEPT ![c] = p]

\* take_suppressed, for a flush that will write it.
TakeSuppressed(l) ==
    /\ flushing' = [flushing EXCEPT ![l] = @ + suppressed[l]]
    /\ suppressed' = [suppressed EXCEPT ![l] = 0]

-----------------------------------------------------------------------------
(* The accept loop.                                                        *)

AcquirePermit ==
    /\ loopPc = "permit"
    /\ permits > 0
    /\ permits' = permits - 1
    /\ loopPc' = "accept"
    /\ UNCHANGED <<limits, open, perSource, connPc, task, stale, rateVars, flushing, owed>>

\* accept() fails: the permit is dropped and the loop starts over.
AcceptFails ==
    /\ loopPc = "accept"
    /\ permits' = permits + 1
    /\ loopPc' = "permit"
    /\ UNCHANGED <<limits, open, perSource, connPc, task, stale, rateVars, flushing, owed>>

\* try_acquire_source: at the cap of its source a connection is dropped with
\* its permit and audited; else a handshake task takes both slots along.
AcceptConn(c) ==
    LET s == SourceOf[c] IN
    /\ loopPc = "accept"
    /\ connPc[c] = "new"
    /\ loopPc' = "permit"
    /\ IF perSource[s] >= limits.per_source
       THEN /\ permits' = permits + 1
            /\ ConnAt(c, "failed")
            /\ UNCHANGED perSource
       ELSE /\ perSource' = [perSource EXCEPT ![s] = @ + 1]
            /\ ConnAt(c, "handshake")
            /\ UNCHANGED permits
    /\ UNCHANGED <<limits, open, task, stale, rateVars, flushing, owed>>

\* The stream was dropped: the loop ends and takes what was suppressed.
LoopStops ==
    /\ ~ open
    /\ loopPc \in {"permit", "accept"}
    /\ loopPc' = "stopped"
    /\ permits' = IF loopPc = "accept" THEN permits + 1 ELSE permits
    /\ TakeSuppressed("handshake")
    /\ UNCHANGED <<limits, open, perSource, connPc, task, stale, recorded, windowOver, owed>>

-----------------------------------------------------------------------------
(* The handshake task.                                                     *)

\* Both slots are dropped.
Release(c) ==
    /\ permits' = permits + 1
    /\ perSource' = [perSource EXCEPT ![SourceOf[c]] = @ - 1]

\* The slots stay with the connection.
EndsHoldingSlots(c, p) ==
    /\ connPc[c] = "handshake"
    /\ ConnAt(c, p)
    /\ IF p = "send" THEN UNCHANGED <<permits, perSource>> ELSE Release(c)
    /\ UNCHANGED <<limits, open, loopPc, task, stale, rateVars, flushing, owed>>

\* The handshake ends within its timeout, the slots are released before
\* anything else, and the connection is queued for tonic ("send"), audited
\* (an error, no ALPN h2, the timeout: "failed") or, when the peer just went
\* away, forgotten ("closed").
HandshakeEnds(c, p) ==
    /\ connPc[c] = "handshake"
    /\ ConnAt(c, p)
    /\ Release(c)
    /\ UNCHANGED <<limits, open, loopPc, task, stale, rateVars, flushing, owed>>

InQueue == { c \in Conns : connPc[c] = "queued" }

\* tx.send waits for room; it fails only when the server has gone.
Send(c) ==
    /\ connPc[c] = "send"
    /\ \/ open /\ Cardinality(InQueue) < limits.queue /\ ConnAt(c, "queued")
       \/ ~ open /\ ConnAt(c, "closed")
    /\ UNCHANGED <<limits, open, loopVars, task, stale, rateVars, flushing, owed>>

-----------------------------------------------------------------------------
(* tonic and the authorization layer.                                      *)

Serve(c) ==
    /\ open
    /\ connPc[c] = "queued"
    /\ ConnAt(c, "served")
    /\ UNCHANGED <<limits, open, loopVars, task, stale, rateVars, flushing, owed>>

\* The leaf of a connection that outlives it expires.
LeafExpires(c) ==
    /\ connPc[c] = "served"
    /\ c \notin stale
    /\ stale' = stale \union {c}
    /\ UNCHANGED <<limits, open, loopVars, connPc, task, rateVars, flushing, owed>>

\* authorize_peer_at: the leaf must be valid now; its EKU, issuer and
\* subject, the role's methods and the admin anchor are the static checks.
Authorized(c) == c \notin stale /\ c \in Entitled

Call(c) ==
    /\ connPc[c] = "served"
    /\ ConnAt(c, IF Authorized(c) THEN "handling" ELSE "denied")
    /\ UNCHANGED <<limits, open, loopVars, task, stale, rateVars, flushing, owed>>

\* The handler binds the requestor and the profile the client asserts to the
\* peer: deny_with_message, through the same limiter, or the CA's operation.
Bind(c) ==
    /\ connPc[c] = "handling"
    /\ ConnAt(c, "closed") \/ ConnAt(c, "denied")
    /\ UNCHANGED <<limits, open, loopVars, task, stale, rateVars, flushing, owed>>

\* serve returns once the calls in flight have: connections are dropped with
\* the stream, and flush_suppressed_audit takes what the layer has suppressed.
ServerStops ==
    /\ open
    /\ \A c \in Conns : connPc[c] \notin {"handling", "denied"}
    /\ open' = FALSE
    /\ connPc' = [c \in Conns |-> IF connPc[c] \in {"queued", "served"} THEN "closed" ELSE connPc[c]]
    /\ TakeSuppressed("denial")
    /\ UNCHANGED <<limits, loopVars, task, stale, recorded, windowOver, owed>>

-----------------------------------------------------------------------------
(* The rate-limited audit trail.                                           *)

\* The clock; a window without a record has suppressed nothing.
WindowEnds(l) ==
    /\ ~ windowOver[l]
    /\ recorded[l] > 0
    /\ windowOver' = [windowOver EXCEPT ![l] = TRUE]
    /\ UNCHANGED <<limits, open, loopVars, connPc, task, stale, recorded, suppressed, flushing, owed>>

LimiterOf(c) == IF connPc[c] = "failed" THEN "handshake" ELSE "denial"

\* A roll that starts the count of the new window and forgets the old one.
AdmitForgets(c) ==
    LET l == LimiterOf(c)
        used == IF windowOver[l] THEN 0 ELSE recorded[l]
        kept == IF windowOver[l] THEN 0 ELSE suppressed[l]
        record == used < limits.audit IN
    /\ connPc[c] \in {"failed", "denied"}
    /\ task' = [task EXCEPT ![c] = [limiter |-> l, summary |-> 0, record |-> record]]
    /\ recorded' = [recorded EXCEPT ![l] = IF record THEN used + 1 ELSE used]
    /\ suppressed' = [suppressed EXCEPT ![l] = IF record THEN kept ELSE kept + 1]
    /\ windowOver' = [windowOver EXCEPT ![l] = FALSE]
    /\ owed' = [owed EXCEPT ![l] = @ + 1]
    /\ ConnAt(c, IF record THEN "record" ELSE "closed")
    /\ UNCHANGED <<limits, open, loopVars, stale, flushing>>

\* admit: on_event rolls a window that has ended, which takes what it
\* suppressed, and records the failure or counts it as suppressed.
Admit(c) ==
    LET l == LimiterOf(c)
        used == IF windowOver[l] THEN 0 ELSE recorded[l]
        flushed == IF windowOver[l] THEN suppressed[l] ELSE 0
        kept == suppressed[l] - flushed
        record == used < limits.audit IN
    /\ connPc[c] \in {"failed", "denied"}
    /\ task' = [task EXCEPT ![c] = [limiter |-> l, summary |-> flushed, record |-> record]]
    /\ recorded' = [recorded EXCEPT ![l] = IF record THEN used + 1 ELSE used]
    /\ suppressed' = [suppressed EXCEPT ![l] = IF record THEN kept ELSE kept + 1]
    /\ windowOver' = [windowOver EXCEPT ![l] = FALSE]
    /\ owed' = [owed EXCEPT ![l] = @ + 1]
    /\ ConnAt(c, IF flushed > 0 THEN "summary" ELSE IF record THEN "record" ELSE "closed")
    /\ UNCHANGED <<limits, open, loopVars, stale, flushing>>

\* handshake_failed and deny_detached write the summary first.  A client that
\* cancels its call cannot stop the write, which a task of its own does.
WriteSummary(c) ==
    /\ connPc[c] = "summary"
    /\ owed' = [owed EXCEPT ![task[c].limiter] = @ - task[c].summary]
    /\ task' = [task EXCEPT ![c].summary = 0]
    /\ ConnAt(c, IF task[c].record THEN "record" ELSE "closed")
    /\ UNCHANGED <<limits, open, loopVars, stale, rateVars, flushing>>

WriteRecord(c) ==
    /\ connPc[c] = "record"
    /\ owed' = [owed EXCEPT ![task[c].limiter] = @ - 1]
    /\ task' = [task EXCEPT ![c] = Idle]
    /\ ConnAt(c, "closed")
    /\ UNCHANGED <<limits, open, loopVars, stale, rateVars, flushing>>

\* Only the next failure rolls the window.
NoTimer(l) ==
    /\ FALSE
    /\ UNCHANGED listenerVars

\* The flush timer: flush_expired rolls a window that has ended.
FlushExpired(l) ==
    /\ windowOver[l]
    /\ TakeSuppressed(l)
    /\ recorded' = [recorded EXCEPT ![l] = 0]
    /\ windowOver' = [windowOver EXCEPT ![l] = FALSE]
    /\ UNCHANGED <<limits, open, loopVars, connPc, task, stale, owed>>

\* Drop: the listener is gone and the last task with it.
DropLimiter(l) ==
    /\ loopPc = "stopped"
    /\ \A c \in Conns : connPc[c] \in {"new", "closed"}
    /\ suppressed[l] > 0
    /\ TakeSuppressed(l)
    /\ UNCHANGED <<limits, open, loopVars, connPc, task, stale, recorded, windowOver, owed>>

\* write_summary of flush_expired, flush_all and Drop.
WriteFlushed(l) ==
    /\ flushing[l] > 0
    /\ owed' = [owed EXCEPT ![l] = @ - flushing[l]]
    /\ flushing' = [flushing EXCEPT ![l] = 0]
    /\ UNCHANGED <<limits, open, loopVars, connPc, task, stale, rateVars>>

-----------------------------------------------------------------------------
TaskStep(c) ==
    \/ \E p \in {"send", "failed", "closed"} : HandshakeEnds(c, p)
    \/ Admit(c)
    \/ WriteSummary(c)
    \/ WriteRecord(c)

TimerStep(l) == WindowEnds(l) \/ FlushExpired(l) \/ DropLimiter(l) \/ WriteFlushed(l)

ListenerNext ==
    \/ AcquirePermit
    \/ AcceptFails
    \/ LoopStops
    \/ ServerStops
    \/ \E c \in Conns : AcceptConn(c) \/ TaskStep(c) \/ Send(c) \/ Serve(c) \/ LeafExpires(c) \/ Call(c)
                         \/ Bind(c)
    \/ \E l \in Limiters : TimerStep(l)

\* The runtime runs every task that is ready, a handshake ends by its
\* timeout at the latest, and the clock ends every window.  Clients, tonic
\* and the operating system owe the listener nothing.
ListenerFairness ==
    /\ WF_listenerVars(AcquirePermit)
    /\ \A c \in Conns : WF_listenerVars(TaskStep(c))
    /\ \A l \in Limiters : WF_listenerVars(TimerStep(l))

ListenerSpec == ListenerInit /\ [][ListenerNext]_listenerVars /\ ListenerFairness

-----------------------------------------------------------------------------
(* Properties.                                                             *)

Held(c, l) ==
    IF task[c].limiter # l THEN 0
    ELSE task[c].summary + (IF task[c].record THEN 1 ELSE 0)

HeldTotal(l) == SumFunctionOnSet([c \in Conns |-> Held(c, l)], Conns)

\* No failure escapes the audit log: each is recorded, counted in a written
\* summary, or still counted by the limiter or by a task that will write it
\* (AU-2), although windows end and the listener stops at any moment.
FailuresAccounted ==
    \A l \in Limiters : owed[l] = suppressed[l] + flushing[l] + HeldTotal(l)

\* Clients that never finish their handshake, and a tonic that takes no
\* connection, cannot keep the loop from its next permit for ever (SC-5).
SlotsFreed == (loopPc = "permit" /\ permits = 0) ~> (loopPc # "permit")

\* What a window suppressed is reported although no further failure comes.
SummaryReported == \A l \in Limiters : (suppressed[l] > 0) ~> (suppressed[l] = 0)

-----------------------------------------------------------------------------
(* The inductive invariant.                                                *)

Shaking == { c \in Conns : connPc[c] = "handshake" }
ShakingOf(s) == { c \in Shaking : SourceOf[c] = s }

\* A slot is free, with the loop or with one handshake, of every source as
\* many as per_source counts: none is lost and none is given back twice.
SlotsBalanced ==
    /\ permits + Cardinality(Shaking) + (IF loopPc = "accept" THEN 1 ELSE 0) = limits.inflight
    /\ \A s \in Sources : perSource[s] = Cardinality(ShakingOf(s))

\* A task owes the log what the limiter told it to write and nothing after.
TaskInv ==
    \A c \in Conns :
      /\ connPc[c] # "summary" => task[c].summary = 0
      /\ connPc[c] = "record" => task[c].record
      /\ connPc[c] \notin {"summary", "record"} => ~task[c].record

ListenerInv == ListenerTypeOK /\ SlotsBalanced /\ TaskInv /\ FailuresAccounted
=============================================================================
