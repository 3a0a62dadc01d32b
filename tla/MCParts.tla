------------------------------ MODULE MCParts ------------------------------
(***************************************************************************)
(* Components that must make progress and share no state, checked in one   *)
(* run: each behaviour is a behaviour of the component that part names,    *)
(* chosen at the start.                                                    *)
(***************************************************************************)
EXTENDS MCAuditChain, MCNotify, OcspCache, GrpcClient, GrpcListener, PortalCert

CONSTANTS k1, k2, k3, s1, s2

VARIABLE part

PartNames == {"audit", "ocsp", "notify", "grpc", "listener", "portal"}

allVars == <<vars, ocspVars, notifyVars, grpcVars, listenerVars, portalVars, part>>

\* Two of three connections come from one source, which may have one slot of two.
MCSourceOf == k1 :> s1 @@ k2 :> s1 @@ k3 :> s2
MCLimits == {[inflight |-> 2, per_source |-> 1, queue |-> 1, audit |-> 1]}

PartsInit ==
    /\ part \in PartNames
    /\ Init /\ OcspInit /\ NotifyInit /\ GrpcInit /\ ListenerInit /\ PortalInit
    /\ part # "notify" => poison = {}
    /\ part # "portal" => cache_dir = FALSE

\* The step of one component leaves the others alone.
PartsNext ==
    \/ /\ part = "audit" /\ Next
       /\ UNCHANGED <<part, ocspVars, notifyVars, grpcVars, listenerVars, portalVars>>
    \/ /\ part = "ocsp" /\ OcspNext
       /\ UNCHANGED <<part, vars, notifyVars, grpcVars, listenerVars, portalVars>>
    \/ /\ part = "notify" /\ NotifyNext
       /\ UNCHANGED <<part, vars, ocspVars, grpcVars, listenerVars, portalVars>>
    \/ /\ part = "grpc" /\ GrpcNext
       /\ UNCHANGED <<part, vars, ocspVars, notifyVars, listenerVars, portalVars>>
    \/ /\ part = "listener" /\ ListenerNext
       /\ UNCHANGED <<part, vars, ocspVars, notifyVars, grpcVars, portalVars>>
    \/ /\ part = "portal" /\ PortalNext
       /\ UNCHANGED <<part, vars, ocspVars, notifyVars, grpcVars, listenerVars>>

\* The fairness of each component, in the behaviours that are its own.
PartsFairness ==
    /\ \A e \in Calls : WF_vars(part = "audit" /\ ServerEnds(e))
    /\ WF_ocspVars(part = "ocsp" /\ OcspTick)
    /\ \A h \in OcspHandlers : WF_ocspVars(part = "ocsp" /\ OcspStep(h))
    /\ WF_notifyVars(part = "notify" /\ ScanStep)
    /\ \A r \in Replicas :
          /\ WF_notifyVars(part = "notify" /\ ConsumeStep(r))
          /\ WF_notifyVars(part = "notify" /\ EvalStep(r))
    /\ \A x \in Slots : WF_notifyVars(part = "notify" /\ Stales(x))
    /\ WF_notifyVars(part = "notify" /\ SendStep)
    /\ WF_grpcVars(part = "grpc" /\ Cool)
    /\ \A c \in GrpcCalls : WF_grpcVars(part = "grpc" /\ GrpcStep(c))
    /\ WF_listenerVars(part = "listener" /\ AcquirePermit)
    /\ \A c \in Conns : WF_listenerVars(part = "listener" /\ TaskStep(c))
    /\ \A l \in Limiters : WF_listenerVars(part = "listener" /\ TimerStep(l))
    /\ WF_portalVars(part = "portal" /\ PortalStep)
    /\ WF_portalVars(part = "portal" /\ TimePasses)

PartsSpec == PartsInit /\ [][PartsNext]_allVars /\ PartsFairness
=============================================================================
