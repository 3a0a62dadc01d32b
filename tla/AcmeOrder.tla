----------------------------- MODULE AcmeOrder -----------------------------
(***************************************************************************)
(* ACME orders from newOrder to the certificate: the handlers new_order,   *)
(* respond_to_challenge and finalize_order, the spawned validation tasks   *)
(* (crates/ostrich-acme/src/rest.rs) and the CA client with its retries    *)
(* (ca_integration.rs) over the ACME tables                                *)
(* (ostrich-db/src/repository/acme.rs).                                    *)
(*                                                                         *)
(* Every UPDATE of these tables names its row and nothing else, so what a  *)
(* handler read may no longer hold when it writes.  A request here is one  *)
(* that verify_jws_account and the ownership check let through: a refused  *)
(* one changes none of these tables.  An Ident stands for                  *)
(* the key (type, lowercase value, wildcard) of an order identifier and of *)
(* its authorization row.                                                  *)
(***************************************************************************)
EXTENDS Naturals, FiniteSets

CONSTANTS
    Orders,         \* order ids; each is used by one newOrder request
    Idents,
    Kind,           \* the kind of each identifier
    Tasks,          \* validation tasks that may run at the same time
    Handlers,       \* finalize requests that may run at the same time
    Certs,          \* certificates the CA may issue
    NoCert, NoOrder, NoChallenge,
    MaxResponses,   \* challenge responses of the clients
    MaxRetries,     \* max_retries of GrpcClientConfig
    MaxRestarts

ASSUME KindAssumption == Kind \in [Idents -> {"dns", "long", "wild", "ip"}]
ASSUME NoneAssumption == NoCert \notin Certs /\ NoOrder \notin Orders
ASSUME BoundAssumption ==
    /\ MaxResponses \in Nat
    /\ MaxRetries \in Nat
    /\ MaxRestarts \in Nat

VARIABLES
    ids,        \* identifiers of each order
    status,     \* its status
    cert,       \* its certificate_id
    authz,      \* status of each authorization row
    chall,      \* status of each challenge row
    creating,   \* the orders whose new_order handler is running
    tpc,        \* where each validation task is
    target,     \* its challenge
    hpc,        \* where each finalize request is
    order,      \* its order
    csr,        \* the identifiers of its CSR
    got,        \* the certificate the CA returned to it
    tries,      \* attempt, the calls it has made
    issued,     \* the certificates the CA has issued
    ca_client,  \* whether the CA integration is configured
    restarts,
    responses,  \* challenge responses so far
    proven,     \* history: the challenges a validator confirmed
    cut         \* history: the orders of which a task did not run to its end

orderVars == <<ids, status, cert>>
rowVars == <<authz, chall, responses>>
taskVars == <<tpc, target, proven, cut>>
finVars == <<hpc, order, csr, got, tries>>
serverVars == <<ca_client, restarts>>
acmeVars == <<orderVars, rowVars, creating, taskVars, finVars, issued, serverVars>>

ChallengeTypes == {"http-01", "dns-01", "tls-alpn-01"}
OrderStatuses == {"none", "pending", "ready", "processing", "valid"}
AuthzStatuses == {"none", "pending", "valid", "invalid"}
ChallStatuses == {"none", "pending", "processing", "valid", "invalid"}
TaskPCs == {"free", "validate", "chall_valid", "authz_valid", "list", "ready",
            "fail_chall", "fail_authz"}
HandlerPCs == {"idle", "list", "check", "processing", "rollback", "attempt",
               "store", "setvalid"}
Challenges == [order : Orders, ident : Idents, type : ChallengeTypes]
Issuances == [cert : Certs, order : Orders, csr : SUBSET Idents]

AcmeTypeOK ==
    /\ ids \in [Orders -> SUBSET Idents]
    /\ status \in [Orders -> OrderStatuses]
    /\ cert \in [Orders -> Certs \union {NoCert}]
    /\ authz \in [Orders -> [Idents -> AuthzStatuses]]
    /\ chall \in [Challenges -> ChallStatuses]
    /\ creating \subseteq Orders
    /\ tpc \in [Tasks -> TaskPCs]
    /\ target \in [Tasks -> Challenges \union {NoChallenge}]
    /\ \A k \in Tasks : tpc[k] # "free" => target[k] \in Challenges
    /\ hpc \in [Handlers -> HandlerPCs]
    /\ order \in [Handlers -> Orders \union {NoOrder}]
    /\ \A h \in Handlers : hpc[h] # "idle" => order[h] \in Orders
    /\ csr \in [Handlers -> SUBSET Idents]
    /\ got \in [Handlers -> Certs \union {NoCert}]
    /\ \A h \in Handlers : hpc[h] \in {"store", "setvalid"} => got[h] \in Certs
    /\ tries \in [Handlers -> Nat]
    /\ issued \subseteq Issuances
    /\ ca_client \in BOOLEAN
    /\ restarts \in Nat
    /\ responses \in Nat
    /\ proven \subseteq Challenges
    /\ cut \subseteq Orders

AcmeInit ==
    /\ ids = [o \in Orders |-> {}]
    /\ status = [o \in Orders |-> "none"]
    /\ cert = [o \in Orders |-> NoCert]
    /\ authz = [o \in Orders |-> [i \in Idents |-> "none"]]
    /\ chall = [c \in Challenges |-> "none"]
    /\ creating = {}
    /\ tpc = [k \in Tasks |-> "free"]
    /\ target = [k \in Tasks |-> NoChallenge]
    /\ hpc = [h \in Handlers |-> "idle"]
    /\ order = [h \in Handlers |-> NoOrder]
    /\ csr = [h \in Handlers |-> {}]
    /\ got = [h \in Handlers |-> NoCert]
    /\ tries = [h \in Handlers |-> 0]
    /\ issued = {}
    /\ ca_client \in BOOLEAN
    /\ restarts = 0
    /\ responses = 0
    /\ proven = {}
    /\ cut = {}

-----------------------------------------------------------------------------
(* new_order: one INSERT for the order, then for every identifier one for  *)
(* its authorization and one for each of its challenges.                   *)

challenge_types(i) ==
    CASE Kind[i] = "ip" -> {"http-01"}
      [] Kind[i] = "wild" -> {"dns-01"}
      [] Kind[i] = "long" -> {"http-01", "tls-alpn-01"}
      [] OTHER -> ChallengeTypes

Challenge(o, i, t) == [order |-> o, ident |-> i, type |-> t]

\* The challenge rows still to be inserted for the authorizations there are.
MissingChallenges(o) ==
    { c \in Challenges :
        /\ c.order = o
        /\ authz[o][c.ident] # "none"
        /\ c.type \in challenge_types(c.ident)
        /\ chall[c] = "none" }

MissingAuthzs(o) == { i \in ids[o] : authz[o][i] = "none" }

NewOrder(o, I) ==
    /\ status[o] = "none"
    /\ I # {}
    /\ ids' = [ids EXCEPT ![o] = I]
    /\ status' = [status EXCEPT ![o] = "pending"]
    /\ creating' = creating \union {o}
    /\ UNCHANGED <<cert, rowVars, taskVars, finVars, issued, serverVars>>

CreateAuthorization(o, i) ==
    /\ o \in creating
    /\ MissingChallenges(o) = {}
    /\ i \in MissingAuthzs(o)
    /\ authz' = [authz EXCEPT ![o][i] = "pending"]
    /\ UNCHANGED <<orderVars, chall, responses, creating, taskVars, finVars, issued, serverVars>>

CreateChallenge(o, c) ==
    /\ o \in creating
    /\ c \in MissingChallenges(o)
    /\ chall' = [chall EXCEPT ![c] = "pending"]
    /\ UNCHANGED <<orderVars, authz, responses, creating, taskVars, finVars, issued, serverVars>>

OrderCreated(o) ==
    /\ o \in creating
    /\ MissingChallenges(o) = {}
    /\ MissingAuthzs(o) = {}
    /\ creating' = creating \ {o}
    /\ UNCHANGED <<orderVars, rowVars, taskVars, finVars, issued, serverVars>>

\* The ? after an INSERT: the rows inserted so far stay.
NewOrderFails(o) ==
    /\ o \in creating
    /\ creating' = creating \ {o}
    /\ UNCHANGED <<orderVars, rowVars, taskVars, finVars, issued, serverVars>>

-----------------------------------------------------------------------------
(* respond_to_challenge and the validation task it spawns.                 *)

Respond == responses < MaxResponses /\ responses' = responses + 1

RespondToChallenge(c, k) ==
    /\ chall[c] # "none"
    /\ tpc[k] = "free"
    /\ Respond
    /\ chall' = [chall EXCEPT ![c] = "processing"]
    /\ tpc' = [tpc EXCEPT ![k] = "validate"]
    /\ target' = [target EXCEPT ![k] = c]
    /\ UNCHANGED <<orderVars, authz, creating, proven, cut, finVars, issued, serverVars>>

\* The lookup of the authorization fails: no task is spawned.
RespondFails(c) ==
    /\ chall[c] # "none"
    /\ Respond
    /\ chall' = [chall EXCEPT ![c] = "processing"]
    /\ UNCHANGED <<orderVars, authz, creating, taskVars, finVars, issued, serverVars>>

check_challenge_permitted(c) ==
    /\ Kind[c.ident] = "wild" => c.type = "dns-01"
    /\ Kind[c.ident] = "ip" => c.type = "http-01"

\* A task that ends keeps nothing.
TaskAt(k, p) ==
    /\ tpc' = [tpc EXCEPT ![k] = p]
    /\ target' = IF p = "free" THEN [target EXCEPT ![k] = NoChallenge] ELSE target

ValidatorSucceeds(k) ==
    /\ tpc[k] = "validate"
    /\ check_challenge_permitted(target[k])
    /\ proven' = proven \union {target[k]}
    /\ TaskAt(k, "chall_valid")
    /\ UNCHANGED <<orderVars, rowVars, creating, cut, finVars, issued, serverVars>>

ChallengeValid(k) ==
    /\ tpc[k] = "chall_valid"
    /\ chall' = [chall EXCEPT ![target[k]] = "valid"]
    /\ TaskAt(k, "authz_valid")
    /\ UNCHANGED <<orderVars, authz, responses, creating, proven, cut, finVars, issued, serverVars>>

AuthorizationValid(k) ==
    /\ tpc[k] = "authz_valid"
    /\ authz' = [authz EXCEPT ![target[k].order][target[k].ident] = "valid"]
    /\ TaskAt(k, "list")
    /\ UNCHANGED <<orderVars, chall, responses, creating, proven, cut, finVars, issued, serverVars>>

\* list_authorizations_by_order(..).iter().all(|a| a.status == "valid").
AllRowsValid(o) == \A i \in Idents : authz[o][i] \in {"none", "valid"}

\* The list comes from a snapshot older than the other tasks' updates.
ListSnapshot(k) ==
    /\ tpc[k] = "list"
    /\ \E stale \in BOOLEAN :
         /\ stale => \E i \in Idents \ {target[k].ident} : authz[target[k].order][i] = "valid"
         /\ TaskAt(k, IF AllRowsValid(target[k].order) /\ ~stale THEN "ready" ELSE "free")
    /\ UNCHANGED <<orderVars, rowVars, creating, proven, cut, finVars, issued, serverVars>>

ListAuthorizations(k) ==
    /\ tpc[k] = "list"
    /\ TaskAt(k, IF AllRowsValid(target[k].order) THEN "ready" ELSE "free")
    /\ UNCHANGED <<orderVars, rowVars, creating, proven, cut, finVars, issued, serverVars>>

OrderReady(k) ==
    /\ tpc[k] = "ready"
    /\ status' = [status EXCEPT ![target[k].order] = "ready"]
    /\ TaskAt(k, "free")
    /\ UNCHANGED <<ids, cert, rowVars, creating, proven, cut, finVars,
                   issued, serverVars>>

\* The validator refuses, or a statement before its verdict fails.
ValidatorFails(k) ==
    /\ tpc[k] = "validate"
    /\ TaskAt(k, "fail_chall")
    /\ UNCHANGED <<orderVars, rowVars, creating, proven, cut, finVars, issued, serverVars>>

\* A statement after the verdict fails: the same error path.
TaskError(k) ==
    /\ tpc[k] \in {"chall_valid", "authz_valid", "list", "ready"}
    /\ TaskAt(k, "fail_chall")
    /\ cut' = cut \union {target[k].order}
    /\ UNCHANGED <<orderVars, rowVars, creating, proven, finVars, issued, serverVars>>

ChallengeInvalid(k) ==
    /\ tpc[k] = "fail_chall"
    /\ chall' = [chall EXCEPT ![target[k]] = "invalid"]
    /\ TaskAt(k, "fail_authz")
    /\ UNCHANGED <<orderVars, authz, responses, creating, proven, cut, finVars, issued, serverVars>>

AuthorizationInvalid(k) ==
    /\ tpc[k] = "fail_authz"
    /\ authz' = [authz EXCEPT ![target[k].order][target[k].ident] = "invalid"]
    /\ TaskAt(k, "free")
    /\ UNCHANGED <<orderVars, chall, responses, creating, proven, cut, finVars, issued, serverVars>>

\* let _ = ...: a failed statement of the error path is ignored.
ErrorPathIgnored(k) ==
    /\ \/ tpc[k] = "fail_chall" /\ TaskAt(k, "fail_authz")
       \/ tpc[k] = "fail_authz" /\ TaskAt(k, "free")
    /\ UNCHANGED <<orderVars, rowVars, creating, proven, cut, finVars, issued, serverVars>>

-----------------------------------------------------------------------------
(* finalize_order.                                                         *)

HandlerAt(h, p) == hpc' = [hpc EXCEPT ![h] = p]

\* The request is answered, with a certificate or an error.
HandlerEnds(h) ==
    /\ HandlerAt(h, "idle")
    /\ order' = [order EXCEPT ![h] = NoOrder]
    /\ csr' = [csr EXCEPT ![h] = {}]
    /\ got' = [got EXCEPT ![h] = NoCert]
    /\ tries' = [tries EXCEPT ![h] = 0]

\* find_order_by_id.  The status it read is what check_order_finalizable tests
\* first, and the expiry: an order that expires is refused from then on.
FinalizeOrder(h, o, I) ==
    /\ hpc[h] = "idle"
    /\ status[o] = "ready"
    /\ HandlerAt(h, "list")
    /\ order' = [order EXCEPT ![h] = o]
    /\ csr' = [csr EXCEPT ![h] = I]
    /\ UNCHANGED <<orderVars, rowVars, creating, taskVars, got, tries, issued, serverVars>>

AuthorizationRows(o) == { i \in Idents : authz[o][i] # "none" }

\* Passes 1 and 2 without the identifiers of the order.
bound_by_count(o) == \A i \in AuthorizationRows(o) : authz[o][i] = "valid"

\* check_order_finalizable, passes 1 and 2, over the rows of
\* list_authorizations_by_order: as many as identifiers, each one bound.
check_order_finalizable(o) ==
    /\ AuthorizationRows(o) = ids[o]
    /\ \A i \in AuthorizationRows(o) : authz[o][i] = "valid"

\* A CSR that leaves out identifiers of the order would be let through.
csr_within_order(o, I) == I \subseteq ids[o]

validate_csr_identifiers(o, I) == I = ids[o]

ListForFinalize(h) ==
    /\ hpc[h] = "list"
    /\ IF /\ check_order_finalizable(order[h])
          /\ validate_csr_identifiers(order[h], csr[h])
       THEN HandlerAt(h, "check") /\ UNCHANGED <<order, csr, got, tries>>
       ELSE HandlerEnds(h)
    /\ UNCHANGED <<orderVars, rowVars, creating, taskVars, issued, serverVars>>

\* list_challenges_by_authorization, read later: pass 3, IP addresses.
CheckIpChallenges(h) ==
    /\ hpc[h] = "check"
    /\ IF \A i \in ids[order[h]] :
            Kind[i] = "ip" => chall[Challenge(order[h], i, "http-01")] = "valid"
       THEN HandlerAt(h, "processing") /\ UNCHANGED <<order, csr, got, tries>>
       ELSE HandlerEnds(h)
    /\ UNCHANGED <<orderVars, rowVars, creating, taskVars, issued, serverVars>>

OrderProcessing(h) ==
    /\ hpc[h] = "processing"
    /\ status' = [status EXCEPT ![order[h]] = "processing"]
    /\ HandlerAt(h, IF ca_client THEN "attempt" ELSE "rollback")
    /\ tries' = [tries EXCEPT ![h] = 1]
    /\ UNCHANGED <<ids, cert, rowVars, creating, taskVars, order, csr, got, issued, serverVars>>

\* No CA configured: the order goes back so that the client may retry.
RollBack(h) ==
    /\ hpc[h] = "rollback"
    /\ status' = [status EXCEPT ![order[h]] = "ready"]
    /\ HandlerEnds(h)
    /\ UNCHANGED <<ids, cert, rowVars, creating, taskVars, issued, serverVars>>

\* A statement fails, or the client goes away and the future is dropped.
FinalizeFails(h) ==
    /\ hpc[h] # "idle"
    /\ HandlerEnds(h)
    /\ UNCHANGED <<orderVars, rowVars, creating, taskVars, issued, serverVars>>

-----------------------------------------------------------------------------
(* AcmeCaClient::finalize_order: with_retry around issue_certificate.  A   *)
(* call that the circuit breaker refuses is one that fails (GrpcClient).   *)

Unissued == { c \in Certs : \A x \in issued : x.cert # c }

\* The next certificate: which one is of no account, as long as it is fresh.
Fresh == { c \in Unissued : c = CHOOSE x \in Unissued : TRUE }

\* The CA issues whatever request it gets; it keeps no record of request_id.
Issue(h, c) ==
    issued' = issued \union {[cert |-> c, order |-> order[h], csr |-> csr[h]]}

\* The answer arrives.
IssueAnswered(h, c) ==
    /\ hpc[h] = "attempt"
    /\ c \in Fresh
    /\ Issue(h, c)
    /\ got' = [got EXCEPT ![h] = c]
    /\ HandlerAt(h, "store")
    /\ UNCHANGED <<orderVars, rowVars, creating, taskVars, order, csr, tries, serverVars>>

\* The attempt ends in an error: again, or an error answer.
RetryOrGiveUp(h, retryable) ==
    IF retryable /\ tries[h] < MaxRetries
    THEN /\ tries' = [tries EXCEPT ![h] = tries[h] + 1]
         /\ UNCHANGED <<hpc, order, csr, got>>
    ELSE HandlerEnds(h)

\* The CA commits and its answer is lost: DeadlineExceeded or Unavailable.
AnswerLost(h, c) ==
    /\ hpc[h] = "attempt"
    /\ c \in Fresh
    /\ Issue(h, c)
    /\ RetryOrGiveUp(h, TRUE)
    /\ UNCHANGED <<orderVars, rowVars, creating, taskVars, serverVars>>

IssueFails(h, retryable) ==
    /\ hpc[h] = "attempt"
    /\ RetryOrGiveUp(h, retryable)
    /\ UNCHANGED <<orderVars, rowVars, creating, taskVars, issued, serverVars>>

\* The status is set first: a failure then leaves a valid order without one.
StatusFirst(h) ==
    /\ hpc[h] = "store"
    /\ status' = [status EXCEPT ![order[h]] = "valid"]
    /\ HandlerAt(h, "setvalid")
    /\ UNCHANGED <<ids, cert, rowVars, creating, taskVars, order, csr, got, tries,
                   issued, serverVars>>

\* update_order_certificate, then update_order_status: two statements.
StoreCertificate(h) ==
    /\ hpc[h] = "store"
    /\ cert' = [cert EXCEPT ![order[h]] = got[h]]
    /\ HandlerAt(h, "setvalid")
    /\ UNCHANGED <<ids, status, rowVars, creating, taskVars, order, csr, got, tries,
                   issued, serverVars>>

OrderValid(h) ==
    /\ hpc[h] = "setvalid"
    /\ status' = [status EXCEPT ![order[h]] = "valid"]
    /\ HandlerEnds(h)
    /\ UNCHANGED <<ids, cert, rowVars, creating, taskVars, issued, serverVars>>

-----------------------------------------------------------------------------
\* The ACME server restarts, perhaps with another configuration: handlers
\* and tasks are gone, the tables stay.
Restart(configured) ==
    /\ restarts < MaxRestarts
    /\ restarts' = restarts + 1
    /\ ca_client' = configured
    /\ creating' = {}
    /\ tpc' = [k \in Tasks |-> "free"]
    /\ cut' = cut \union { target[k].order : k \in { x \in Tasks : tpc[x] # "free" } }
    /\ target' = [k \in Tasks |-> NoChallenge]
    /\ hpc' = [h \in Handlers |-> "idle"]
    /\ order' = [h \in Handlers |-> NoOrder]
    /\ csr' = [h \in Handlers |-> {}]
    /\ got' = [h \in Handlers |-> NoCert]
    /\ tries' = [h \in Handlers |-> 0]
    /\ UNCHANGED <<orderVars, rowVars, proven, issued>>

OrderStep(o) ==
    \/ \E i \in Idents : CreateAuthorization(o, i)
    \/ \E c \in Challenges : CreateChallenge(o, c)
    \/ OrderCreated(o)
    \/ NewOrderFails(o)

TaskStep(k) ==
    \/ ValidatorSucceeds(k) \/ ChallengeValid(k) \/ AuthorizationValid(k)
    \/ ListAuthorizations(k) \/ OrderReady(k)
    \/ ValidatorFails(k) \/ TaskError(k) \/ ChallengeInvalid(k)
    \/ AuthorizationInvalid(k) \/ ErrorPathIgnored(k)

FinalizeStep(h) ==
    \/ ListForFinalize(h) \/ CheckIpChallenges(h)
    \/ OrderProcessing(h) \/ RollBack(h)
    \/ \E c \in Certs : IssueAnswered(h, c) \/ AnswerLost(h, c)
    \/ \E r \in BOOLEAN : IssueFails(h, r)
    \/ StoreCertificate(h) \/ OrderValid(h)

AcmeNext ==
    \/ \E o \in Orders, I \in SUBSET Idents : NewOrder(o, I)
    \/ \E o \in Orders : OrderStep(o)
    \/ \E c \in Challenges, k \in Tasks : RespondToChallenge(c, k)
    \/ \E c \in Challenges : RespondFails(c)
    \/ \E k \in Tasks : TaskStep(k)
    \/ \E h \in Handlers, o \in Orders, I \in SUBSET Idents : FinalizeOrder(h, o, I)
    \/ \E h \in Handlers : FinalizeStep(h) \/ FinalizeFails(h)
    \/ \E b \in BOOLEAN : Restart(b)

AcmeSpec == AcmeInit /\ [][AcmeNext]_acmeVars

-----------------------------------------------------------------------------
(* Properties.                                                             *)

Proven(o, i) == \E t \in challenge_types(i) : Challenge(o, i, t) \in proven

\* A certificate the CA issued for an order carries exactly the order's
\* identifiers, and a validator had confirmed a challenge of a type offered
\* for each of them.  Also when new_order failed half-way and left an order
\* with authorizations for only some of its identifiers, whose listed
\* authorizations can all be valid (check_order_finalizable, finalize_order).
CertificateProven ==
    \A x \in issued :
      /\ x.csr = ids[x.order]
      /\ \A i \in x.csr : Proven(x.order, i)

\* Two validations that finish at the same time do not both miss that the
\* other made the order complete: while all its authorizations are valid, an
\* order is pending only if a task is still on its way to make it ready or
\* one was cut short by a failed statement or a restart
\* (validate_challenge_inner).
ReadyNotLost ==
    \A o \in Orders :
      ( /\ status[o] = "pending"
        /\ \E i \in Idents : authz[o][i] = "valid"
        /\ AllRowsValid(o) )
      => \/ o \in cut
         \/ \E k \in Tasks :
              tpc[k] \in {"list", "ready"} /\ target[k].order = o

\* A valid order has a certificate, and the certificate of an order was
\* issued for that order, whatever finalize requests overlapped and
\* whichever of them failed half-way (update_order_certificate before
\* update_order_status in AcmeCaClient::finalize_order).
ValidHasCertificate ==
    \A o \in Orders :
      /\ status[o] = "valid" => cert[o] # NoCert
      /\ cert[o] # NoCert => \E x \in issued : x.cert = cert[o] /\ x.order = o

-----------------------------------------------------------------------------
(* The inductive invariant.                                                *)

\* Rows, requests and certificates belong to orders that exist, whose
\* identifiers no longer change; challenges are of the types offered.
OrdersKnown ==
    /\ \A o \in creating : status[o] # "none"
    /\ \A o \in Orders, i \in Idents : authz[o][i] # "none" => status[o] # "none"
    /\ \A c \in Challenges : chall[c] # "none" =>
         status[c.order] # "none" /\ c.type \in challenge_types(c.ident)
    /\ \A h \in Handlers : hpc[h] # "idle" => status[order[h]] # "none"
    /\ \A x \in issued : status[x.order] # "none"

\* A task works on a challenge that was offered, and writes valid after the
\* validator confirmed it.
TasksInv ==
    \A k \in Tasks :
      /\ tpc[k] # "free" =>
           /\ status[target[k].order] # "none"
           /\ target[k].type \in challenge_types(target[k].ident)
      /\ tpc[k] \in {"chall_valid", "authz_valid"} => target[k] \in proven

\* A valid authorization is of an identifier that was proven.
AuthzProven ==
    \A o \in Orders, i \in Idents : authz[o][i] = "valid" => Proven(o, i)

\* Past its checks a finalize request holds the identifiers of its order, all
\* proven; the certificate it stores was issued for its order.
FinalizeInv ==
    \A h \in Handlers :
      /\ hpc[h] \notin {"idle", "list"} =>
           csr[h] = ids[order[h]] /\ \A i \in csr[h] : Proven(order[h], i)
      /\ hpc[h] \in {"store", "setvalid"} =>
           \E x \in issued : x.cert = got[h] /\ x.order = order[h]
      /\ hpc[h] = "setvalid" => cert[order[h]] # NoCert

AcmeInv ==
    /\ AcmeTypeOK
    /\ OrdersKnown
    /\ TasksInv
    /\ AuthzProven
    /\ FinalizeInv
    /\ CertificateProven
    /\ ReadyNotLost
    /\ ValidHasCertificate
-----------------------------------------------------------------------------
(* Orders implement the issuance policy: their evidence are the challenges *)
(* a validator confirmed.                                                  *)

AcmeSuffices(E, x) ==
    /\ x.csr = x.identifiers
    /\ \A i \in x.csr : \E t \in challenge_types(i) : Challenge(x.order, i, t) \in E

\* An issuance with the identifiers of its order, as the row has them.
IssuedFor(x) == [cert |-> x.cert, order |-> x.order, csr |-> x.csr,
                 identifiers |-> ids[x.order]]

issuedBar == { IssuedFor(x) : x \in issued }

AcmePolicy == INSTANCE IssuancePolicy
                WITH evidence <- proven, issuances <- issuedBar, Suffices <- AcmeSuffices

\* The proof comes first: whenever the CA issues for an order, also on a
\* retry of a call whose answer was lost, every identifier of the order has
\* been validated by then, and no later step changes the identifiers a
\* certificate was issued for (finalize_order, with_retry, new_order).
AcmeImplementsPolicy == AcmePolicy!PolicySpec
=============================================================================
