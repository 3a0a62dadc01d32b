------------------------------ MODULE Approval ------------------------------
(***************************************************************************)
(* The certificate-request approval workflow and the issuance it gates.    *)
(*                                                                         *)
(* REST handlers submit_approval_request, approve_request, reject_request  *)
(* and issue_certificate (crates/ostrich-ca/src/rest.rs), the engine's     *)
(* checks (crates/ostrich-ca/src/approval.rs), CertificateIssuer::issue    *)
(* with require_approval, its default (crates/ostrich-ca/src/issuance.rs), *)
(* and ApprovalRepository (crates/ostrich-db/src/repository/approval.rs).  *)
(* Every await on the database is a point where another handler, in this   *)
(* or another CA server, may run; each SQL statement is atomic on its own  *)
(* and no transaction spans two of them.                                   *)
(***************************************************************************)

CONSTANTS
    Users,          \* principals
    Approvers,      \* users holding ApproveRequest and RejectRequest
    Requests,       \* approval request ids
    RequestTypes,   \* subset of {"issuance", "renewal", "revocation"}
    Handlers,       \* invocations of REST handlers; also the ids of the
                    \* certificates they may create, at most one each
    NoCert          \* None of an optional certificate id

ASSUME NonemptyAssumption == Users # {} /\ Requests # {}
ASSUME ApproversAssumption == Approvers \subseteq Users
ASSUME RequestTypesAssumption == RequestTypes \subseteq {"issuance", "renewal", "revocation"}
ASSUME NoCertAssumption == NoCert \notin Handlers

VARIABLES
    request,    \* table approval_requests
    decisions,  \* table approval_decisions
    certs,      \* table certificates: <<certificate, approval request>>
    overdue,    \* requests whose expires_at has passed
    handler     \* the state of each handler invocation

approvalVars == <<request, decisions, certs, overdue, handler>>

Statuses == {"absent", "pending", "approved", "rejected", "expired", "completed"}

\* Where a handler is.  "refused_type" and "refused" are ends in which issue()
\* turned the request down, "failed" any other error, "done" a success.
Running == {"decide", "status", "issue", "store", "complete", "audit", "complete_again"}
Ends == {"refused_type", "refused", "failed", "done"}

HandlerStates == [pc : {"idle"} \union Running \union Ends,
                  op : {"approve", "reject", "issue"}, user : Users, request : Requests]

ApprovalTypeOK ==
    /\ request \in [Requests -> [status : Statuses, requestor : Users,
                                 type : {"issuance", "renewal", "revocation"},
                                 certificate : Handlers \union {NoCert}]]
    /\ decisions \subseteq [request : Requests, approver : Users,
                            decision : {"approved", "rejected"}]
    /\ certs \subseteq Handlers \X Requests
    /\ overdue \subseteq Requests
    /\ handler \in [Handlers -> HandlerStates]

ApprovalInit ==
    /\ request \in [Requests -> { [status |-> "absent", requestor |-> u,
                                   type |-> t, certificate |-> NoCert] :
                                     u \in Users, t \in RequestTypes }]
    /\ decisions = {}
    /\ certs = {}
    /\ overdue = {}
    /\ handler = [h \in Handlers |-> [pc |-> "idle", op |-> "issue",
                                      user |-> CHOOSE u \in Users : TRUE,
                                      request |-> CHOOSE r \in Requests : TRUE]]

\* What a handler is once it has moved to pc.
At(h, pc) == [pc |-> pc, op |-> handler[h].op,
              user |-> handler[h].user, request |-> handler[h].request]

Goto(h, pc) == handler' = [handler EXCEPT ![h] = At(h, pc)]

-----------------------------------------------------------------------------
\* submit_approval_request: a pending row of the authenticated requestor.
Submit(r) ==
    /\ request[r].status = "absent"
    /\ request' = [request EXCEPT ![r].status = "pending"]
    /\ UNCHANGED <<decisions, certs, overdue, handler>>

\* expires_at passes.
DeadlinePasses(r) ==
    /\ request[r].status # "absent"
    /\ r \notin overdue
    /\ overdue' = overdue \union {r}
    /\ UNCHANGED <<request, decisions, certs, handler>>

\* expire_old_requests: one UPDATE over all pending, overdue rows.
ExpireOldRequests ==
    /\ \E r \in overdue : request[r].status = "pending"
    /\ request' = [r \in Requests |->
         IF r \in overdue /\ request[r].status = "pending"
         THEN [request[r] EXCEPT !.status = "expired"] ELSE request[r]]
    /\ UNCHANGED <<decisions, certs, overdue, handler>>

\* can_approve and can_reject, on the row as get_request returned it.
CanDecideSelf(u, r) ==
    /\ u \in Approvers
    /\ request[r].status = "pending"
    /\ r \notin overdue

CanDecide(u, r) ==
    /\ request[r].requestor # u
    /\ u \in Approvers
    /\ request[r].status = "pending"
    /\ r \notin overdue

\* approve_request and reject_request up to create_decision: the row is read
\* and the engine decides on what was read.
StartDecision(h, u, r, op) ==
    /\ handler[h].pc = "idle"
    /\ CanDecide(u, r)
    /\ handler' = [handler EXCEPT ![h] = [pc |-> "decide", op |-> op, user |-> u, request |-> r]]
    /\ UNCHANGED <<request, decisions, certs, overdue>>

DecisionOf(op) == IF op = "approve" THEN "approved" ELSE "rejected"

\* A second decision of an approver would take the place of the first.
DecisionReplaced(h) ==
    LET c == handler[h] IN
    /\ c.pc = "decide"
    /\ Goto(h, "status")
    /\ decisions' = { d \in decisions : d.request # c.request \/ d.approver # c.user }
         \union {[request |-> c.request, approver |-> c.user, decision |-> DecisionOf(c.op)]}
    /\ UNCHANGED <<request, certs, overdue>>

\* create_decision: an approver decides a request at most once (unique index
\* on request_id, approver_id); a second decision is an error.
CreateDecision(h) ==
    LET c == handler[h] IN
    /\ c.pc = "decide"
    /\ IF \E d \in decisions : d.request = c.request /\ d.approver = c.user
       THEN /\ Goto(h, "failed")
            /\ UNCHANGED decisions
       ELSE /\ Goto(h, "status")
            /\ decisions' = decisions \union
                 {[request |-> c.request, approver |-> c.user, decision |-> DecisionOf(c.op)]}
    /\ UNCHANGED <<request, certs, overdue>>

\* update_request_status, WHERE id only; then, when an issuance or renewal is
\* approved, the handler goes on to issue (the row it has read was pending, so
\* its certificate_id is none).
UpdateRequestStatus(h) ==
    LET c == handler[h] IN
    /\ c.pc = "status"
    /\ request' = [request EXCEPT ![c.request].status = DecisionOf(c.op)]
    /\ Goto(h, IF c.op = "approve" /\ request[c.request].type \in {"issuance", "renewal"}
               THEN "issue" ELSE "done")
    /\ UNCHANGED <<decisions, certs, overdue>>

\* issue_certificate with an approval_request_id.
StartIssue(h, u, r) ==
    /\ handler[h].pc = "idle"
    /\ request[r].status # "absent"
    /\ handler' = [handler EXCEPT ![h] = [pc |-> "issue", op |-> "issue", user |-> u, request |-> r]]
    /\ UNCHANGED <<request, decisions, certs, overdue>>

-----------------------------------------------------------------------------
(* CertificateIssuer::issue.                                               *)

\* The approval checks, on the row as it is read now.
CheckApproval(h) ==
    LET r == handler[h].request IN
    /\ handler[h].pc = "issue"
    /\ Goto(h, IF request[r].status # "approved" THEN "refused"
               ELSE IF request[r].type # "issuance" THEN "refused_type"
               ELSE IF request[r].certificate # NoCert THEN "refused"
               ELSE "store")
    /\ UNCHANGED <<request, decisions, certs, overdue>>

\* The certificate is built, signed and inserted.
StoreCertificate(h) ==
    /\ handler[h].pc = "store"
    /\ certs' = certs \union {<<h, handler[h].request>>}
    /\ Goto(h, "complete")
    /\ UNCHANGED <<request, decisions, overdue>>

\* An UPDATE that forgets the link to the certificate.
CompletedUnlinked(r, c) == [request EXCEPT ![r].status = "completed"]

\* mark_request_completed, WHERE id only.
Completed(r, c) ==
    [request EXCEPT ![r] = [status |-> "completed", requestor |-> request[r].requestor,
                            type |-> request[r].type, certificate |-> c]]

MarkCompleted(h) ==
    /\ handler[h].pc = "complete"
    /\ request' = Completed(handler[h].request, h)
    /\ Goto(h, "audit")
    /\ UNCHANGED <<decisions, certs, overdue>>

\* The success record is written; approve_request then marks a second time.
RecordIssuance(h) ==
    /\ handler[h].pc = "audit"
    /\ Goto(h, IF handler[h].op = "approve" THEN "complete_again" ELSE "done")
    /\ UNCHANGED <<request, decisions, certs, overdue>>

MarkCompletedAgain(h) ==
    /\ handler[h].pc = "complete_again"
    /\ request' = Completed(handler[h].request, h)
    /\ Goto(h, "done")
    /\ UNCHANGED <<decisions, certs, overdue>>

\* An error at the next step (database, CSR and profile checks, signing, the
\* audit sink) or the death of the server: what was written stays written.
Fail(h) ==
    /\ handler[h].pc \in Running
    /\ Goto(h, "failed")
    /\ UNCHANGED <<request, decisions, certs, overdue>>

-----------------------------------------------------------------------------
HandlerStep(h) ==
    \/ \E u \in Users, r \in Requests :
         \/ \E op \in {"approve", "reject"} : StartDecision(h, u, r, op)
         \/ StartIssue(h, u, r)
    \/ CreateDecision(h)
    \/ UpdateRequestStatus(h)
    \/ CheckApproval(h)
    \/ StoreCertificate(h)
    \/ MarkCompleted(h)
    \/ RecordIssuance(h)
    \/ MarkCompletedAgain(h)
    \/ Fail(h)

ApprovalNext ==
    \/ \E r \in Requests : Submit(r) \/ DeadlinePasses(r)
    \/ ExpireOldRequests
    \/ \E h \in Handlers : HandlerStep(h)

ApprovalSpec == ApprovalInit /\ [][ApprovalNext]_approvalVars

-----------------------------------------------------------------------------
(* Properties.                                                             *)

\* Every certificate was issued for an issuance request that somebody other
\* than its requestor, holding the approval permission, has approved
\* (FDP_SEPP.1, FDP_CER_EXT.3), however handlers interleave or fail.
CertificateApproved ==
    \A c \in certs :
        /\ request[c[2]].type = "issuance"
        /\ \E d \in decisions :
             /\ d.request = c[2]
             /\ d.decision = "approved"
             /\ d.approver \in Approvers \ {request[c[2]].requestor}

Decided(r, decision) == \E d \in decisions : d.request = r /\ d.decision = decision

\* The status of a request is backed by a recorded decision, and a completed
\* one by the stored certificate that it links to (FDP_CER_EXT.2).
StatusBacked ==
    \A r \in Requests :
        /\ request[r].status = "rejected" => Decided(r, "rejected")
        /\ request[r].status \in {"approved", "completed"} => Decided(r, "approved")
        /\ request[r].status = "completed" => request[r].certificate # NoCert
        /\ request[r].certificate # NoCert => <<request[r].certificate, r>> \in certs

\* issue() refuses a request that "has already been used to issue a
\* certificate" (FDP_CER_EXT.2): one approval, one certificate.
ApprovalUsedOnce ==
    \A c, d \in certs : c[2] = d[2] => c = d

(* The inductive invariant behind CertificateApproved and StatusBacked.    *)

\* Nobody decided a request of their own.
DecisionsSeparated ==
    \A d \in decisions : d.approver \in Approvers \ {request[d.request].requestor}

\* What a handler relies on after its awaits still holds when it writes:
\* who may decide does not change, and decisions and certificates stay.
HandlerBacked(h, c) ==
    /\ c.pc = "decide" => c.user \in Approvers \ {request[c.request].requestor}
    /\ c.pc = "status" => Decided(c.request, DecisionOf(c.op))
    /\ c.pc \in {"store", "complete", "audit", "complete_again"} =>
         request[c.request].type = "issuance" /\ Decided(c.request, "approved")
    /\ c.pc \in {"complete", "audit", "complete_again"} => <<h, c.request>> \in certs

HandlersBacked == \A h \in Handlers : HandlerBacked(h, handler[h])

\* Every certificate belongs to an approved issuance request.
CertificatesBacked ==
    \A c \in certs : request[c[2]].type = "issuance" /\ Decided(c[2], "approved")

ApprovalInv ==
    /\ ApprovalTypeOK
    /\ DecisionsSeparated
    /\ HandlersBacked
    /\ CertificatesBacked
    /\ StatusBacked
-----------------------------------------------------------------------------
(* The workflow implements the issuance policy: its evidence are the       *)
(* recorded decisions.                                                     *)

ApprovalSuffices(E, x) ==
    /\ x.type = "issuance"
    /\ \E d \in E : /\ d.request = x.request
                    /\ d.decision = "approved"
                    /\ d.approver \in Approvers \ {x.requestor}

\* A certificate with the request it was issued for, as the row has it.
IssuedFor(c) == [cert |-> c[1], request |-> c[2],
                 requestor |-> request[c[2]].requestor, type |-> request[c[2]].type]

issuedBar == { IssuedFor(c) : c \in certs }

Policy == INSTANCE IssuancePolicy
            WITH evidence <- decisions, issuances <- issuedBar, Suffices <- ApprovalSuffices

\* Whatever handlers and servers overlap or fail, the approval comes first:
\* when a certificate is stored, the decision of an approver other than the
\* requestor is already recorded, and no later step withdraws a decision or
\* changes what a certificate was issued for (approve_request, issue() and
\* the UPDATEs of ApprovalRepository, none of which names more than a row).
ApprovalImplementsPolicy == Policy!PolicySpec
=============================================================================
