----------------------------- MODULE PortalCert -----------------------------
(***************************************************************************)
(* The TLS certificate of the NPE portal, enrolled and renewed over ACME   *)
(* (services/npe-portal/src/server/acme.rs and serve_with_acme of          *)
(* main.rs): one process that enrols at start-up, serves, and renews, with *)
(* a bundle cached on disk for the next start.                             *)
(*                                                                         *)
(* A certificate is the time it has left; it is due for renewal at         *)
(* RenewBefore.  An order takes no time on this scale: time passes while   *)
(* the process sleeps, backs off or is down.                               *)
(***************************************************************************)
EXTENDS Integers

CONSTANTS
    Domains,        \* acme.domains, each with an http-01 token per order
    Life,           \* the time a new certificate has left
    RenewBefore,    \* renew_before_days
    MaxPortalFaults \* failures and crashes in a behaviour

ASSUME PortalAssumption ==
    /\ Life \in Nat
    /\ RenewBefore \in Nat
    /\ RenewBefore < Life
    /\ MaxPortalFaults \in Nat

None == -1      \* no certificate
Torn == -2      \* a bundle whose private key is missing

VARIABLES
    cache_dir,      \* whether the configuration has a cache directory
    bundle,         \* tls.pem in it
    tmp,            \* tls.tmp, written before it is renamed
    current,        \* the certificate of the resolver
    store,          \* the challenge tokens being served
    tokens,         \* those of the order in flight
    material,       \* what obtain_certificate returned
    portalPc,       \* where the process is
    renewing,       \* whether it is in renewal_loop
    portalFaults

diskVars == <<cache_dir, bundle, tmp>>
portalVars == <<diskVars, current, store, tokens, material, portalPc, renewing, portalFaults>>

Certificate == 0..Life
PortalPCs == {"down", "load", "order", "authz", "poll", "cleanup", "install", "write",
              "rename", "sleep", "backoff"}

PortalTypeOK ==
    /\ cache_dir \in BOOLEAN
    /\ bundle \in Certificate \union {None, Torn}
    /\ tmp \in Certificate \union {None, Torn}
    /\ current \in Certificate \union {None}
    /\ store \subseteq Domains
    /\ tokens \subseteq Domains
    /\ material \in Certificate \union {None}
    /\ portalPc \in PortalPCs
    /\ renewing \in BOOLEAN
    /\ portalFaults \in 0..MaxPortalFaults

PortalInit ==
    /\ cache_dir \in BOOLEAN
    /\ bundle = None
    /\ tmp = None
    /\ current = None
    /\ store = {}
    /\ tokens = {}
    /\ material = None
    /\ portalPc = "down"
    /\ renewing = FALSE
    /\ portalFaults = 0

is_due_for_renewal(c) == c <= RenewBefore

PortalFault == portalFaults < MaxPortalFaults /\ portalFaults' = portalFaults + 1

-----------------------------------------------------------------------------
(* Start-up.                                                               *)

\* bind_challenge_responder has succeeded.
StartPortal ==
    /\ portalPc = "down"
    /\ portalPc' = "load"
    /\ UNCHANGED <<diskVars, current, store, tokens, material, renewing, portalFaults>>

\* acquire_on_startup: a bundle with a fresh leaf is installed as it is; when
\* its key does not load, install(..)? ends the attempt.
LoadCached ==
    /\ portalPc = "load"
    /\ cache_dir
    /\ bundle # None
    /\ bundle = Torn \/ ~is_due_for_renewal(bundle)
    /\ current' = IF bundle = Torn THEN current ELSE bundle
    /\ renewing' = (bundle # Torn)
    /\ portalPc' = IF bundle = Torn THEN "backoff" ELSE "sleep"
    /\ UNCHANGED <<diskVars, store, tokens, material, portalFaults>>

\* Nothing cached, or due for renewal: enrol.
Enroll ==
    /\ portalPc = "load"
    /\ cache_dir => bundle # Torn /\ (bundle # None => is_due_for_renewal(bundle))
    /\ portalPc' = "order"
    /\ UNCHANGED <<diskVars, current, store, tokens, material, renewing, portalFaults>>

-----------------------------------------------------------------------------
(* obtain_certificate.                                                     *)

\* The account and the order.
CreateOrder ==
    /\ portalPc = "order"
    /\ portalPc' = "authz"
    /\ tokens' = {}
    /\ UNCHANGED <<diskVars, current, store, material, renewing, portalFaults>>

\* They cannot be created: `?`, before there is anything to clean up.
CreateOrderFails ==
    /\ portalPc = "order"
    /\ PortalFault
    /\ portalPc' = "backoff"
    /\ UNCHANGED <<diskVars, current, store, tokens, material, renewing>>

\* A pending authorization: its token is served before set_ready.
ServeToken(d) ==
    /\ portalPc = "authz"
    /\ d \notin tokens
    /\ store' = store \union {d}
    /\ tokens' = tokens \union {d}
    /\ UNCHANGED <<diskVars, current, material, portalPc, renewing, portalFaults>>

\* Every authorization is answered or was valid before.
AuthorizationsAnswered ==
    /\ portalPc = "authz"
    /\ portalPc' = "poll"
    /\ UNCHANGED <<diskVars, current, store, tokens, material, renewing, portalFaults>>

\* poll_ready, finalize_csr, poll_certificate.
CertificateIssued ==
    /\ portalPc = "poll"
    /\ material' = Life
    /\ portalPc' = "cleanup"
    /\ UNCHANGED <<diskVars, current, store, tokens, renewing, portalFaults>>

\* An error that leaves the function at once, past the removal of the tokens.
OrderFailsAtOnce ==
    /\ portalPc \in {"authz", "poll"}
    /\ PortalFault
    /\ portalPc' = "backoff"
    /\ UNCHANGED <<diskVars, current, store, tokens, material, renewing>>

\* An error inside the block falls through to the removal of the tokens.
OrderFails ==
    /\ portalPc \in {"authz", "poll"}
    /\ PortalFault
    /\ portalPc' = "cleanup"
    /\ UNCHANGED <<diskVars, current, store, tokens, material, renewing>>

DropTokens ==
    /\ portalPc = "cleanup"
    /\ store' = store \ tokens
    /\ tokens' = {}
    /\ portalPc' = IF material = None THEN "backoff" ELSE "install"
    /\ UNCHANGED <<diskVars, current, material, renewing, portalFaults>>

-----------------------------------------------------------------------------
(* install_and_cache.                                                      *)

Install ==
    /\ portalPc = "install"
    /\ current' = material
    /\ portalPc' = IF cache_dir THEN "write" ELSE "sleep"
    /\ renewing' = (renewing \/ ~cache_dir)
    /\ material' = IF cache_dir THEN material ELSE None
    /\ UNCHANGED <<diskVars, store, tokens, portalFaults>>

\* The new certificate or its key cannot be parsed: as if the order failed.
InstallFails ==
    /\ portalPc = "install"
    /\ PortalFault
    /\ material' = None
    /\ portalPc' = "backoff"
    /\ UNCHANGED <<diskVars, current, store, tokens, renewing>>

\* write_atomic: the temporary file is truncated and written, then complete.
WriteTmp ==
    /\ portalPc = "write"
    /\ tmp' = IF tmp = Torn THEN material ELSE Torn
    /\ portalPc' = IF tmp = Torn THEN "rename" ELSE "write"
    /\ UNCHANGED <<cache_dir, bundle, current, store, tokens, material, renewing, portalFaults>>

Saved ==
    /\ material' = None
    /\ renewing' = TRUE
    /\ portalPc' = "sleep"

RenameBundle ==
    /\ portalPc = "rename"
    /\ bundle' = tmp
    /\ tmp' = None
    /\ Saved
    /\ UNCHANGED <<cache_dir, current, store, tokens, portalFaults>>

\* A failed write of the cache is logged and ignored.
SaveFails ==
    /\ portalPc \in {"write", "rename"}
    /\ PortalFault
    /\ Saved
    /\ UNCHANGED <<diskVars, current, store, tokens>>

-----------------------------------------------------------------------------
(* renewal_loop, the retries of start-up, crashes and time.                *)

\* The sleep ends when the certificate in use is due.
RenewalDue ==
    /\ portalPc = "sleep"
    /\ is_due_for_renewal(current)
    /\ portalPc' = "order"
    /\ UNCHANGED <<diskVars, current, store, tokens, material, renewing, portalFaults>>

\* The first failure of a renewal ends the renewal task.
RetryStartOnly ==
    /\ portalPc = "backoff"
    /\ portalPc' = IF renewing THEN "backoff" ELSE "load"
    /\ UNCHANGED <<diskVars, current, store, tokens, material, renewing, portalFaults>>

\* After the backoff: start-up begins again with the cache, a renewal with
\* a new order.
Retry ==
    /\ portalPc = "backoff"
    /\ portalPc' = IF renewing THEN "order" ELSE "load"
    /\ UNCHANGED <<diskVars, current, store, tokens, material, renewing, portalFaults>>

PortalCrash ==
    /\ portalPc # "down"
    /\ PortalFault
    /\ portalPc' = "down"
    /\ current' = None
    /\ store' = {}
    /\ tokens' = {}
    /\ material' = None
    /\ renewing' = FALSE
    /\ UNCHANGED diskVars

Older(c) == IF c > 0 THEN c - 1 ELSE c

TimePasses ==
    /\ portalPc \in {"sleep", "backoff", "down"}
    /\ \E c \in {bundle, tmp, current} : c > 0
    /\ bundle' = Older(bundle)
    /\ tmp' = Older(tmp)
    /\ current' = Older(current)
    /\ UNCHANGED <<cache_dir, store, tokens, material, portalPc, renewing, portalFaults>>

PortalStep ==
    \/ StartPortal \/ LoadCached \/ Enroll
    \/ CreateOrder \/ AuthorizationsAnswered \/ CertificateIssued \/ DropTokens
    \/ \E d \in Domains : ServeToken(d)
    \/ Install \/ WriteTmp \/ RenameBundle
    \/ RenewalDue \/ Retry

PortalFails ==
    \/ CreateOrderFails \/ OrderFails \/ InstallFails \/ SaveFails
    \/ PortalCrash

PortalNext == PortalStep \/ PortalFails \/ TimePasses

\* The process and its timers run, a process that is down is started again,
\* and time passes.
PortalFairness == WF_portalVars(PortalStep) /\ WF_portalVars(TimePasses)

PortalSpec == PortalInit /\ [][PortalNext]_portalVars /\ PortalFairness

-----------------------------------------------------------------------------
(* Properties.                                                             *)

\* "A served challenge token must never be left in the store after the order
\* ends": on every exit path of obtain_certificate, and the bundle that a
\* crash or a failed write leaves in the cache is whole, so that start-up
\* never fails on it ("a crash or partial write never leaves a torn file").
NothingLeftBehind ==
    /\ portalPc \in {"load", "order", "install", "write", "rename", "sleep", "backoff"}
         => store = {}
    /\ bundle # Torn

\* "The portal self-heals an expiring certificate without operator action":
\* from every state in which the process runs, it comes to serve a certificate
\* that is not due for renewal, whatever crashes, failed orders, failed writes
\* and stale cached bundles come in between, once these stop
\* (acquire_on_startup, renewal_loop).
PortalRenews == portalPc # "down" ~> current > RenewBefore

-----------------------------------------------------------------------------
(* The inductive invariant.                                                *)

\* What is served belongs to the order in flight.
TokensTracked ==
    IF portalPc \in {"authz", "poll", "cleanup"} THEN store \subseteq tokens ELSE store = {}

\* The temporary file is complete when it is about to become the bundle.
BundleWhole ==
    /\ bundle # Torn
    /\ portalPc = "rename" => tmp # Torn

PortalInv == PortalTypeOK /\ TokensTracked /\ BundleWhole
=============================================================================
