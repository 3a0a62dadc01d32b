---------------------------- MODULE GrpcClient ----------------------------
(***************************************************************************)
(* The CA client of the protocol servers: with_retry and the circuit       *)
(* breaker that all its calls share                                        *)
(* (crates/ostrich-common/src/grpc_client.rs).                             *)
(*                                                                         *)
(* The failure counter is an atomic outside of the lock that guards the    *)
(* state, so recording a success or a failure is two steps.                *)
(***************************************************************************)
EXTENDS Naturals

CONSTANTS
    GrpcCalls,      \* calls that may be in flight
    Threshold,      \* circuit_breaker_threshold
    GrpcRetries,    \* max_retries
    CoolTicks       \* circuit_breaker_timeout_ms, in ticks of the clock

ASSUME GrpcAssumption ==
    Threshold \in Nat \ {0} /\ GrpcRetries \in Nat /\ CoolTicks \in Nat \ {0}

VARIABLES
    breaker,    \* CircuitState
    cooling,    \* what is left of the timeout since opened_at
    failures,   \* failure_count, counted up to the threshold
    grpcPc,     \* where each call is
    attempt     \* its attempts

grpcVars == <<breaker, cooling, failures, grpcPc, attempt>>

GrpcTypeOK ==
    /\ breaker \in {"closed", "open", "halfopen"}
    /\ cooling \in 0..CoolTicks
    /\ failures \in 0..Threshold
    /\ grpcPc \in [GrpcCalls -> {"idle", "attempt", "backoff", "reset", "close", "count", "open"}]
    /\ attempt \in [GrpcCalls -> Nat]

GrpcInit ==
    /\ breaker = "closed"
    /\ cooling = 0
    /\ failures = 0
    /\ grpcPc = [c \in GrpcCalls |-> "idle"]
    /\ attempt = [c \in GrpcCalls |-> 0]

GrpcAt(c, p) == grpcPc' = [grpcPc EXCEPT ![c] = p]
GrpcEnds(c) == GrpcAt(c, "idle") /\ attempt' = [attempt EXCEPT ![c] = 0]

\* The clock, as far as the open breaker looks at it.
Cool ==
    /\ breaker = "open"
    /\ cooling > 0
    /\ cooling' = cooling - 1
    /\ UNCHANGED <<breaker, failures, grpcPc, attempt>>

\* An open breaker lets every call try, to find out sooner.
RequestTried(c) ==
    /\ grpcPc[c] = "idle"
    /\ breaker' = IF breaker = "open" /\ cooling = 0 THEN "halfopen" ELSE breaker
    /\ GrpcAt(c, "attempt")
    /\ attempt' = [attempt EXCEPT ![c] = 1]
    /\ UNCHANGED <<cooling, failures>>

\* is_request_allowed; a refused call returns at once and changes nothing.
RequestAllowed(c) ==
    /\ grpcPc[c] = "idle"
    /\ breaker = "open" => cooling = 0
    /\ breaker' = IF breaker = "open" THEN "halfopen" ELSE breaker
    /\ cooling' = 0
    /\ GrpcAt(c, "attempt")
    /\ attempt' = [attempt EXCEPT ![c] = 1]
    /\ UNCHANGED failures

CallSucceeds(c) ==
    /\ grpcPc[c] = "attempt"
    /\ GrpcAt(c, "reset")
    /\ UNCHANGED <<breaker, cooling, failures, attempt>>

\* The call fails; is_retryable_error decides with the number of attempts.
CallFails(c, retryable) ==
    /\ grpcPc[c] = "attempt"
    /\ GrpcAt(c, IF retryable /\ attempt[c] < GrpcRetries THEN "backoff" ELSE "count")
    /\ UNCHANGED <<breaker, cooling, failures, attempt>>

Backoff(c) ==
    /\ grpcPc[c] = "backoff"
    /\ GrpcAt(c, "attempt")
    /\ attempt' = [attempt EXCEPT ![c] = attempt[c] + 1]
    /\ UNCHANGED <<breaker, cooling, failures>>

\* record_success: the counter, then the state.
ResetFailures(c) ==
    /\ grpcPc[c] = "reset"
    /\ failures' = 0
    /\ GrpcAt(c, "close")
    /\ UNCHANGED <<breaker, cooling, attempt>>

CloseBreaker(c) ==
    /\ grpcPc[c] = "close"
    /\ breaker' = "closed"
    /\ cooling' = 0
    /\ GrpcEnds(c)
    /\ UNCHANGED failures

\* record_failure: fetch_add, then the state if the threshold is reached.
CountFailure(c) ==
    /\ grpcPc[c] = "count"
    /\ failures' = IF failures < Threshold THEN failures + 1 ELSE failures
    /\ IF failures + 1 >= Threshold
       THEN GrpcAt(c, "open") /\ UNCHANGED attempt
       ELSE GrpcEnds(c)
    /\ UNCHANGED <<breaker, cooling>>

OpenBreaker(c) ==
    /\ grpcPc[c] = "open"
    /\ breaker' = "open"
    /\ cooling' = CoolTicks
    /\ GrpcEnds(c)
    /\ UNCHANGED failures

\* The caller gives up and the future is dropped.
CallDropped(c) ==
    /\ grpcPc[c] # "idle"
    /\ GrpcEnds(c)
    /\ UNCHANGED <<breaker, cooling, failures>>

GrpcStep(c) ==
    \/ CallSucceeds(c)
    \/ \E r \in BOOLEAN : CallFails(c, r)
    \/ Backoff(c) \/ ResetFailures(c) \/ CloseBreaker(c) \/ CountFailure(c) \/ OpenBreaker(c)

GrpcNext ==
    \/ Cool
    \/ \E c \in GrpcCalls : RequestAllowed(c) \/ GrpcStep(c) \/ CallDropped(c)

\* An attempt ends by its timeout, a sleep ends, and the clock goes on.
GrpcFairness == WF_grpcVars(Cool) /\ \A c \in GrpcCalls : WF_grpcVars(GrpcStep(c))

GrpcSpec == GrpcInit /\ [][GrpcNext]_grpcVars /\ GrpcFairness

-----------------------------------------------------------------------------
(* Properties.                                                             *)

\* Every call returns, however its attempts fail.  And the breaker is not open
\* for good: a failure of a call that was let through earlier opens it anew and
\* starts its timeout again, but only calls in flight can do so, and time
\* outlasts them (with_retry, is_request_allowed, record_failure).
CallsReturn ==
    /\ \A c \in GrpcCalls : (grpcPc[c] # "idle") ~> (grpcPc[c] = "idle")
    /\ []<>(breaker = "open" => cooling = 0)
=============================================================================
