--------------------------- MODULE ApprovalProofs ---------------------------
(* Proofs about Approval for any number of users, requests and handlers,   *)
(* however they interleave and fail: no certificate without a decision of  *)
(* somebody entitled to it, and no status without what it stands for.      *)
EXTENDS BulkEnrollment, FiniteSetTheorems, TLAPS

\* The initial state satisfies the invariant.
LEMMA InitApprovalInv == ASSUME ApprovalInit PROVE ApprovalInv
<1> DEFINE Row == [status : Statuses, requestor : Users,
                   type : {"issuance", "renewal", "revocation"},
                   certificate : Handlers \union {NoCert}]
<1>1. \A r \in Requests : /\ request[r] \in Row
                          /\ request[r].status = "absent"
                          /\ request[r].certificate = NoCert
  <2> SUFFICES ASSUME NEW r \in Requests
               PROVE  /\ request[r] \in Row
                      /\ request[r].status = "absent"
                      /\ request[r].certificate = NoCert
    OBVIOUS
  <2>1. PICK u \in Users, t \in RequestTypes :
          request[r] = [status |-> "absent", requestor |-> u, type |-> t, certificate |-> NoCert]
    BY DEF ApprovalInit
  <2>2. t \in {"issuance", "renewal", "revocation"}
    BY RequestTypesAssumption
  <2> QED
    BY <2>1, <2>2 DEF Statuses
<1>2. request \in [Requests -> Row]
  BY <1>1 DEF ApprovalInit
<1>3. /\ (CHOOSE u \in Users : TRUE) \in Users
      /\ (CHOOSE r \in Requests : TRUE) \in Requests
  BY NonemptyAssumption
<1>4. ApprovalTypeOK
  BY <1>2, <1>3 DEF ApprovalInit, ApprovalTypeOK, HandlerStates, Running, Ends
<1>5. StatusBacked
  BY <1>1 DEF StatusBacked
<1>6. DecisionsSeparated /\ HandlersBacked /\ CertificatesBacked
  BY DEF ApprovalInit, DecisionsSeparated, HandlersBacked, HandlerBacked, CertificatesBacked
<1> QED
  BY <1>4, <1>5, <1>6 DEF ApprovalInv

-----------------------------------------------------------------------------
\* Who requested what and what was decided or issued stays: a step that keeps
\* this keeps all that rests on it.
Steady ==
    /\ \A r \in Requests : /\ request'[r].requestor = request[r].requestor
                           /\ request'[r].type = request[r].type
    /\ decisions \subseteq decisions'
    /\ certs \subseteq certs'

\* What a handler in state c relies on survives a steady step.
LEMMA SteadyHandler ==
    ASSUME Steady, NEW h \in Handlers, NEW c \in HandlerStates, HandlerBacked(h, c)
    PROVE  HandlerBacked(h, c)'
<1>1. c.request \in Requests
  BY DEF HandlerStates
<1> QED
  BY <1>1 DEF Steady, HandlerBacked, Decided

\* So do the decisions and certificates there were.
LEMMA SteadyTables ==
    ASSUME ApprovalTypeOK, Steady, DecisionsSeparated, CertificatesBacked
    PROVE  /\ \A d \in decisions : d.approver \in Approvers \ {request'[d.request].requestor}
           /\ \A c \in certs : request'[c[2]].type = "issuance" /\ Decided(c[2], "approved")'
  BY DEF ApprovalTypeOK, Steady, DecisionsSeparated, CertificatesBacked, Decided

\* A step that only rewrites requests, steadily.
LEMMA RequestsMove ==
    ASSUME ApprovalInv, Steady, ApprovalTypeOK', StatusBacked', UNCHANGED <<decisions, certs, handler>>
    PROVE  ApprovalInv'
<1>1. HandlersBacked'
  <2> SUFFICES ASSUME NEW h \in Handlers PROVE HandlerBacked(h, handler[h])'
    BY DEF HandlersBacked
  <2>1. handler[h] \in HandlerStates /\ HandlerBacked(h, handler[h])
    BY DEF ApprovalInv, ApprovalTypeOK, HandlersBacked
  <2> QED
    BY <2>1, SteadyHandler DEF HandlerBacked, Decided
<1>2. DecisionsSeparated' /\ CertificatesBacked'
  BY SteadyTables DEF ApprovalInv, DecisionsSeparated, CertificatesBacked
<1> QED
  BY <1>1, <1>2 DEF ApprovalInv

\* submit_approval_request.
LEMMA SubmitKeeps ==
    ASSUME ApprovalInv, NEW r \in Requests, Submit(r) PROVE ApprovalInv'
<1> USE DEF Submit
<1>1. ApprovalTypeOK'
  BY DEF ApprovalInv, ApprovalTypeOK, Statuses
<1>2. /\ \A q \in Requests : /\ request'[q].requestor = request[q].requestor
                             /\ request'[q].type = request[q].type
                             /\ request'[q].certificate = request[q].certificate
                             /\ q # r => request'[q].status = request[q].status
      /\ request'[r].status = "pending"
  BY DEF ApprovalInv, ApprovalTypeOK
<1>3. StatusBacked'
  BY <1>2 DEF ApprovalInv, StatusBacked, Decided
<1>4. Steady
  BY <1>2 DEF Steady
<1> QED
  BY <1>1, <1>3, <1>4, RequestsMove

\* The passing of a deadline.
LEMMA DeadlineKeeps ==
    ASSUME ApprovalInv, NEW r \in Requests, DeadlinePasses(r) PROVE ApprovalInv'
<1> USE DEF DeadlinePasses
<1>1. ApprovalTypeOK'
  BY DEF ApprovalInv, ApprovalTypeOK
<1>2. StatusBacked' /\ Steady
  BY DEF ApprovalInv, StatusBacked, Decided, Steady
<1> QED
  BY <1>1, <1>2, RequestsMove

\* expire_old_requests.
LEMMA ExpireKeeps == ASSUME ApprovalInv, ExpireOldRequests PROVE ApprovalInv'
<1> USE DEF ExpireOldRequests
<1>1. \A q \in Requests : /\ request'[q].requestor = request[q].requestor
                          /\ request'[q].type = request[q].type
                          /\ request'[q].certificate = request[q].certificate
                          /\ request'[q].status \in {request[q].status, "expired"}
                          /\ request'[q] \in [status : Statuses, requestor : Users,
                                 type : {"issuance", "renewal", "revocation"},
                                 certificate : Handlers \union {NoCert}]
  BY DEF ApprovalInv, ApprovalTypeOK, Statuses
<1>2. ApprovalTypeOK'
  BY <1>1 DEF ApprovalInv, ApprovalTypeOK
<1>3. StatusBacked'
  BY <1>1 DEF ApprovalInv, StatusBacked, Decided
<1>4. Steady
  BY <1>1 DEF Steady
<1> QED
  BY <1>2, <1>3, <1>4, RequestsMove

-----------------------------------------------------------------------------
\* A handler moves to a state c that is backed and nothing else changes.
LEMMA HandlerMoves ==
    ASSUME ApprovalInv, NEW h \in Handlers, NEW c \in HandlerStates, HandlerBacked(h, c),
           handler' = [handler EXCEPT ![h] = c],
           UNCHANGED <<request, decisions, certs, overdue>>
    PROVE  ApprovalInv'
<1>1. ApprovalTypeOK'
  BY DEF ApprovalInv, ApprovalTypeOK
<1>2. \A g \in Handlers : HandlerBacked(g, handler'[g])
  BY DEF ApprovalInv, ApprovalTypeOK, HandlersBacked
<1>3. HandlersBacked'
  BY <1>2 DEF HandlersBacked, HandlerBacked, Decided
<1>4. DecisionsSeparated' /\ CertificatesBacked' /\ StatusBacked'
  BY DEF ApprovalInv, DecisionsSeparated, CertificatesBacked, StatusBacked, Decided
<1> QED
  BY <1>1, <1>3, <1>4 DEF ApprovalInv

\* The state of a handler that moves on.
LEMMA AtTyped ==
    ASSUME ApprovalTypeOK, NEW h \in Handlers, NEW pc \in {"idle"} \union Running \union Ends
    PROVE  At(h, pc) \in HandlerStates
  BY DEF ApprovalTypeOK, At, HandlerStates

\* A handler that has ended, or is about to ask for approval, needs nothing.
LEMMA NothingNeeded ==
    ASSUME NEW h, NEW c, c.pc \in Ends \union {"issue"}
    PROVE  HandlerBacked(h, c)
  BY DEF Ends, HandlerBacked

\* approve_request and reject_request up to the decision.
LEMMA StartDecisionKeeps ==
    ASSUME ApprovalInv, NEW h \in Handlers, NEW u \in Users, NEW r \in Requests,
           NEW op \in {"approve", "reject"}, StartDecision(h, u, r, op)
    PROVE  ApprovalInv'
<1> DEFINE c == [pc |-> "decide", op |-> op, user |-> u, request |-> r]
<1>1. c \in HandlerStates
  BY DEF HandlerStates, Running
<1>2. HandlerBacked(h, c)
  BY DEF StartDecision, CanDecide, HandlerBacked
<1>3. handler' = [handler EXCEPT ![h] = c] /\ UNCHANGED <<request, decisions, certs, overdue>>
  BY DEF StartDecision
<1> QED
  BY <1>1, <1>2, <1>3, HandlerMoves

\* issue_certificate is called.
LEMMA StartIssueKeeps ==
    ASSUME ApprovalInv, NEW h \in Handlers, NEW u \in Users, NEW r \in Requests,
           StartIssue(h, u, r)
    PROVE  ApprovalInv'
<1> DEFINE c == [pc |-> "issue", op |-> "issue", user |-> u, request |-> r]
<1>1. c \in HandlerStates
  BY DEF HandlerStates, Running
<1>2. HandlerBacked(h, c)
  BY NothingNeeded
<1>3. handler' = [handler EXCEPT ![h] = c] /\ UNCHANGED <<request, decisions, certs, overdue>>
  BY DEF StartIssue
<1> QED
  BY <1>1, <1>2, <1>3, HandlerMoves

\* issue() checks the request: an approved status is backed by a decision.
LEMMA CheckKeeps ==
    ASSUME ApprovalInv, NEW h \in Handlers, CheckApproval(h)
    PROVE  ApprovalInv'
<1> DEFINE r == handler[h].request
<1>0. UNCHANGED <<request, decisions, certs, overdue>>
  BY DEF CheckApproval
<1>1. \/ \E pc \in {"refused_type", "refused"} : Goto(h, pc)
      \/ Goto(h, "store") /\ request[r].status = "approved" /\ request[r].type = "issuance"
  BY DEF CheckApproval
<1>2. r \in Requests
  BY DEF ApprovalInv, ApprovalTypeOK, HandlerStates
<1>3. ASSUME NEW pc \in {"refused_type", "refused"}, Goto(h, pc) PROVE ApprovalInv'
  <2>1. At(h, pc) \in HandlerStates
    BY AtTyped DEF ApprovalInv, Ends
  <2>2. HandlerBacked(h, At(h, pc))
    BY NothingNeeded DEF At, Ends
  <2> QED
    BY <1>0, <1>3, <2>1, <2>2, HandlerMoves DEF Goto
<1>4. ASSUME Goto(h, "store"), request[r].status = "approved", request[r].type = "issuance"
      PROVE  ApprovalInv'
  <2>1. At(h, "store") \in HandlerStates
    BY AtTyped DEF ApprovalInv, Running
  <2>2. Decided(r, "approved")
    BY <1>2, <1>4 DEF ApprovalInv, StatusBacked
  <2>3. HandlerBacked(h, At(h, "store"))
    BY <1>4, <2>2 DEF HandlerBacked, At
  <2> QED
    BY <1>0, <1>4, <2>1, <2>3, HandlerMoves DEF Goto
<1> QED
  BY <1>1, <1>3, <1>4

\* The success record of issue() is written.
LEMMA RecordKeeps ==
    ASSUME ApprovalInv, NEW h \in Handlers, RecordIssuance(h)
    PROVE  ApprovalInv'
<1>1. /\ handler[h].pc = "audit"
      /\ \E pc \in {"complete_again", "done"} : Goto(h, pc)
      /\ UNCHANGED <<request, decisions, certs, overdue>>
  BY DEF RecordIssuance
<1>2. PICK pc \in {"complete_again", "done"} : Goto(h, pc)
  BY <1>1
<1>3. At(h, pc) \in HandlerStates
  BY AtTyped DEF ApprovalInv, Running, Ends
<1>4. HandlerBacked(h, At(h, pc))
  BY <1>1 DEF ApprovalInv, HandlersBacked, HandlerBacked, At
<1> QED
  BY <1>1, <1>2, <1>3, <1>4, HandlerMoves DEF Goto

\* A handler fails.
LEMMA FailKeeps ==
    ASSUME ApprovalInv, NEW h \in Handlers, Fail(h)
    PROVE  ApprovalInv'
<1>1. At(h, "failed") \in HandlerStates
  BY AtTyped DEF ApprovalInv, Ends
<1>2. HandlerBacked(h, At(h, "failed"))
  BY NothingNeeded DEF At, Ends
<1> QED
  BY <1>1, <1>2, HandlerMoves DEF Fail, Goto

-----------------------------------------------------------------------------
\* A handler writes, steadily, and moves to a state that is backed then.
LEMMA HandlerWrites ==
    ASSUME ApprovalInv, NEW h \in Handlers, NEW pc \in {"idle"} \union Running \union Ends,
           Goto(h, pc), Steady, HandlerBacked(h, At(h, pc)) \/ HandlerBacked(h, handler[h])',
           request' \in [Requests -> [status : Statuses, requestor : Users,
                                 type : {"issuance", "renewal", "revocation"},
                                 certificate : Handlers \union {NoCert}]],
           decisions' \subseteq [request : Requests, approver : Users,
                                 decision : {"approved", "rejected"}],
           certs' \subseteq Handlers \X Requests,
           overdue' = overdue,
           StatusBacked', DecisionsSeparated', CertificatesBacked'
    PROVE  ApprovalInv'
<1>1. At(h, pc) \in HandlerStates
  BY AtTyped DEF ApprovalInv
<1>2. handler \in [Handlers -> HandlerStates]
  BY DEF ApprovalInv, ApprovalTypeOK
<1>3. /\ handler' = [handler EXCEPT ![h] = At(h, pc)]
      /\ handler'[h] = At(h, pc)
      /\ \A g \in Handlers : g # h => handler'[g] = handler[g]
  BY <1>2 DEF Goto
<1>4. ApprovalTypeOK'
  BY <1>1, <1>2, <1>3 DEF ApprovalInv, ApprovalTypeOK
<1>5. ASSUME NEW g \in Handlers, NEW c \in HandlerStates, c = handler'[g], HandlerBacked(g, c)
      PROVE  HandlerBacked(g, handler[g])'
  <2>1. HandlerBacked(g, c)'
    BY <1>5, SteadyHandler
  <2> QED
    BY <1>5, <2>1 DEF HandlerBacked, Decided
<1>6. HandlerBacked(h, handler[h])'
  BY <1>1, <1>3, <1>5
<1>7. \A g \in Handlers : g # h => HandlerBacked(g, handler[g])'
  <2> SUFFICES ASSUME NEW g \in Handlers, g # h PROVE HandlerBacked(g, handler[g])'
    OBVIOUS
  <2>1. handler[g] \in HandlerStates /\ handler[g] = handler'[g] /\ HandlerBacked(g, handler[g])
    BY <1>2, <1>3 DEF ApprovalInv, HandlersBacked
  <2> QED
    BY <2>1, <1>5
<1>8. HandlersBacked'
  <2> SUFFICES ASSUME NEW g \in Handlers PROVE HandlerBacked(g, handler[g])'
    BY DEF HandlersBacked
  <2> QED
    BY <1>6, <1>7
<1> QED
  BY <1>4, <1>8 DEF ApprovalInv

\* create_decision: the decider's right, checked on a row read earlier, still
\* holds since requestors and permissions do not change.
LEMMA CreateDecisionKeeps ==
    ASSUME ApprovalInv, NEW h \in Handlers, CreateDecision(h)
    PROVE  ApprovalInv'
<1> DEFINE c == handler[h]
           d == [request |-> c.request, approver |-> c.user, decision |-> DecisionOf(c.op)]
<1>0. UNCHANGED <<request, certs, overdue>> /\ c.pc = "decide"
  BY DEF CreateDecision
<1>1. CASE Goto(h, "failed") /\ decisions' = decisions
  <2>1. At(h, "failed") \in HandlerStates
    BY AtTyped DEF ApprovalInv, Ends
  <2>2. HandlerBacked(h, At(h, "failed"))
    BY NothingNeeded DEF At, Ends
  <2> QED
    BY <1>0, <1>1, <2>1, <2>2, HandlerMoves DEF Goto
<1>2. CASE Goto(h, "status") /\ decisions' = decisions \union {d}
  <2>1. c \in HandlerStates
    BY DEF ApprovalInv, ApprovalTypeOK
  <2>2. d \in [request : Requests, approver : Users, decision : {"approved", "rejected"}]
    BY <2>1 DEF HandlerStates, DecisionOf
  <2>3. d.approver \in Approvers \ {request[d.request].requestor}
    BY <1>0 DEF ApprovalInv, HandlersBacked, HandlerBacked
  <2>4. Steady
    BY <1>0, <1>2 DEF Steady
  <2>5. DecisionsSeparated'
    <3> HIDE DEF d
    <3> QED
      BY <1>0, <1>2, <2>3 DEF ApprovalInv, DecisionsSeparated
  <2>6. CertificatesBacked' /\ StatusBacked'
    <3> HIDE DEF d
    <3> QED
      BY <1>0, <1>2 DEF ApprovalInv, CertificatesBacked, StatusBacked, Decided
  <2>7. handler'[h] = At(h, "status")
    BY <1>2 DEF Goto, ApprovalInv, ApprovalTypeOK
  <2>8. HandlerBacked(h, handler[h])'
    <3>1. /\ handler'[h].pc = "status"
          /\ handler'[h].request = d.request
          /\ DecisionOf(handler'[h].op) = d.decision
      BY <2>7 DEF At
    <3>2. d \in decisions'
      BY <1>2
    <3> HIDE DEF d
    <3>3. \E x \in decisions' : /\ x.request = handler'[h].request
                               /\ x.decision = DecisionOf(handler'[h].op)
      BY <3>1, <3>2
    <3> QED
      BY <3>1, <3>3 DEF HandlerBacked, Decided, DecisionOf
  <2>9. decisions' \subseteq [request : Requests, approver : Users,
                              decision : {"approved", "rejected"}]
    <3> HIDE DEF d
    <3> QED
      BY <1>2, <2>2 DEF ApprovalInv, ApprovalTypeOK
  <2>10. "status" \in {"idle"} \union Running \union Ends
    BY DEF Running
  <2> QED
    BY <1>0, <1>2, <2>4, <2>5, <2>6, <2>8, <2>9, <2>10, HandlerWrites DEF ApprovalInv, ApprovalTypeOK
<1> QED
  BY <1>1, <1>2 DEF CreateDecision

\* update_request_status: overwrites whatever status there is, but only with
\* a decision that is on record.
LEMMA UpdateKeeps ==
    ASSUME ApprovalInv, NEW h \in Handlers, UpdateRequestStatus(h)
    PROVE  ApprovalInv'
<1> DEFINE c == handler[h]
<1>1. /\ c.pc = "status"
      /\ request' = [request EXCEPT ![c.request].status = DecisionOf(c.op)]
      /\ \E pc \in {"issue", "done"} : Goto(h, pc)
      /\ UNCHANGED <<decisions, certs, overdue>>
  BY DEF UpdateRequestStatus
<1>2. PICK pc \in {"issue", "done"} : Goto(h, pc)
  BY <1>1
<1>3. ApprovalTypeOK /\ c \in HandlerStates /\ c.request \in Requests
  BY DEF ApprovalInv, ApprovalTypeOK, HandlerStates
<1>4. /\ \A q \in Requests : /\ request'[q].requestor = request[q].requestor
                             /\ request'[q].type = request[q].type
                             /\ request'[q].certificate = request[q].certificate
                             /\ q # c.request => request'[q].status = request[q].status
      /\ request'[c.request].status = DecisionOf(c.op)
  BY <1>1, <1>3 DEF ApprovalTypeOK
<1>5. request' \in [Requests -> [status : Statuses, requestor : Users,
                                 type : {"issuance", "renewal", "revocation"},
                                 certificate : Handlers \union {NoCert}]]
  BY <1>1, <1>3 DEF ApprovalTypeOK, DecisionOf, Statuses
<1>6. Steady
  BY <1>1, <1>4 DEF Steady
<1>7. Decided(c.request, DecisionOf(c.op))
  BY <1>1 DEF ApprovalInv, HandlersBacked, HandlerBacked
<1>8. StatusBacked'
  <2>1. \A q \in Requests : q # c.request =>
          /\ request'[q].status = "rejected" => Decided(q, "rejected")
          /\ request'[q].status \in {"approved", "completed"} => Decided(q, "approved")
          /\ request'[q].status = "completed" => request'[q].certificate # NoCert
          /\ request'[q].certificate # NoCert => <<request'[q].certificate, q>> \in certs
    BY <1>4 DEF ApprovalInv, StatusBacked
  <2>2. /\ request'[c.request].status = "rejected" => Decided(c.request, "rejected")
        /\ request'[c.request].status \in {"approved", "completed"} =>
             Decided(c.request, "approved")
        /\ request'[c.request].status # "completed"
        /\ request'[c.request].certificate # NoCert =>
             <<request'[c.request].certificate, c.request>> \in certs
    BY <1>3, <1>4, <1>7 DEF ApprovalInv, StatusBacked, DecisionOf
  <2> QED
    BY <1>1, <2>1, <2>2 DEF StatusBacked, Decided
<1>9. DecisionsSeparated' /\ CertificatesBacked'
  BY <1>1, <1>3, <1>6, SteadyTables DEF ApprovalInv, DecisionsSeparated, CertificatesBacked
<1>10. HandlerBacked(h, At(h, pc)) /\ pc \in {"idle"} \union Running \union Ends
  BY NothingNeeded DEF At, Ends, Running
<1> QED
  BY <1>1, <1>2, <1>3, <1>5, <1>6, <1>8, <1>9, <1>10, HandlerWrites DEF ApprovalTypeOK

\* The certificate of an approved request is inserted.
LEMMA StoreKeeps ==
    ASSUME ApprovalInv, NEW h \in Handlers, StoreCertificate(h)
    PROVE  ApprovalInv'
<1> DEFINE r == handler[h].request
<1>1. /\ handler[h].pc = "store"
      /\ certs' = certs \union {<<h, r>>}
      /\ Goto(h, "complete")
      /\ UNCHANGED <<request, decisions, overdue>>
  BY DEF StoreCertificate
<1>2. ApprovalTypeOK /\ r \in Requests
  BY DEF ApprovalInv, ApprovalTypeOK, HandlerStates
<1>3. request[r].type = "issuance" /\ Decided(r, "approved")
  BY <1>1 DEF ApprovalInv, HandlersBacked, HandlerBacked
<1>4. Steady
  BY <1>1 DEF Steady
<1>5. \A x \in certs' : request[x[2]].type = "issuance" /\ Decided(x[2], "approved")
  BY <1>1, <1>3 DEF ApprovalInv, CertificatesBacked
<1>6. CertificatesBacked' /\ DecisionsSeparated' /\ StatusBacked'
  BY <1>1, <1>5 DEF ApprovalInv, CertificatesBacked, DecisionsSeparated, StatusBacked, Decided
<1>7. handler'[h] = At(h, "complete")
  BY <1>1 DEF Goto, ApprovalInv, ApprovalTypeOK
<1>8. HandlerBacked(h, handler[h])'
  BY <1>1, <1>3, <1>7 DEF HandlerBacked, Decided, At
<1>9. certs' \subseteq Handlers \X Requests
  BY <1>1, <1>2 DEF ApprovalTypeOK
<1>10. "complete" \in {"idle"} \union Running \union Ends
  BY DEF Running
<1> QED
  BY <1>1, <1>2, <1>4, <1>6, <1>8, <1>9, <1>10, HandlerWrites DEF ApprovalTypeOK

\* mark_request_completed, by issue() and again by approve_request.
LEMMA CompleteKeeps ==
    ASSUME ApprovalInv, NEW h \in Handlers, MarkCompleted(h) \/ MarkCompletedAgain(h)
    PROVE  ApprovalInv'
<1> DEFINE r == handler[h].request
           row == [status |-> "completed", requestor |-> request[r].requestor,
                   type |-> request[r].type, certificate |-> h]
<1>1. /\ handler[h].pc \in {"complete", "complete_again"}
      /\ request' = [request EXCEPT ![r] = row]
      /\ Goto(h, "audit") \/ Goto(h, "done")
      /\ UNCHANGED <<decisions, certs, overdue>>
  BY DEF MarkCompleted, MarkCompletedAgain, Completed
<1>2. PICK pc \in {"audit", "done"} : Goto(h, pc)
  BY <1>1
<1>3. ApprovalTypeOK /\ r \in Requests
  BY DEF ApprovalInv, ApprovalTypeOK, HandlerStates
<1>4. /\ <<h, r>> \in certs /\ Decided(r, "approved")
      /\ request[r].type = "issuance"
  BY <1>1 DEF ApprovalInv, HandlersBacked, HandlerBacked
<1>5. row \in [status : Statuses, requestor : Users,
               type : {"issuance", "renewal", "revocation"},
               certificate : Handlers \union {NoCert}]
  BY <1>3 DEF ApprovalTypeOK, Statuses
<1>6. request' \in [Requests -> [status : Statuses, requestor : Users,
                                 type : {"issuance", "renewal", "revocation"},
                                 certificate : Handlers \union {NoCert}]]
  BY <1>1, <1>3, <1>5 DEF ApprovalTypeOK
<1>7. request'[r] = row /\ \A q \in Requests : q # r => request'[q] = request[q]
  BY <1>1, <1>3 DEF ApprovalTypeOK
<1>8. Steady
  BY <1>1, <1>7 DEF Steady
<1>9. StatusBacked'
  <2>1. h # NoCert
    BY NoCertAssumption
  <2>2. /\ request'[r].status = "completed"
        /\ request'[r].certificate = h
    BY <1>7
  <2>3. \A q \in Requests : q # r =>
          /\ request'[q].status = "rejected" => Decided(q, "rejected")
          /\ request'[q].status \in {"approved", "completed"} => Decided(q, "approved")
          /\ request'[q].status = "completed" => request'[q].certificate # NoCert
          /\ request'[q].certificate # NoCert => <<request'[q].certificate, q>> \in certs
    BY <1>7 DEF ApprovalInv, StatusBacked
  <2> QED
    BY <1>1, <1>4, <2>1, <2>2, <2>3 DEF StatusBacked, Decided
<1>10. DecisionsSeparated' /\ CertificatesBacked'
  BY <1>1, <1>3, <1>8, SteadyTables DEF ApprovalInv, DecisionsSeparated, CertificatesBacked
<1>11. HandlerBacked(h, At(h, pc)) /\ pc \in {"idle"} \union Running \union Ends
  BY <1>4 DEF HandlerBacked, At, Ends, Running
<1> QED
  BY <1>1, <1>2, <1>3, <1>6, <1>8, <1>9, <1>10, <1>11, HandlerWrites DEF ApprovalTypeOK

-----------------------------------------------------------------------------
\* Every step keeps the invariant.
LEMMA NextKeeps == ASSUME ApprovalInv, [ApprovalNext]_approvalVars PROVE ApprovalInv'
<1>1. ASSUME NEW r \in Requests, Submit(r) \/ DeadlinePasses(r) PROVE ApprovalInv'
  BY <1>1, SubmitKeeps, DeadlineKeeps
<1>2. CASE ExpireOldRequests
  BY <1>2, ExpireKeeps
<1>3. ASSUME NEW h \in Handlers, HandlerStep(h) PROVE ApprovalInv'
  BY <1>3, StartDecisionKeeps, StartIssueKeeps, CreateDecisionKeeps, UpdateKeeps, CheckKeeps,
     StoreKeeps, CompleteKeeps, RecordKeeps, FailKeeps DEF HandlerStep
<1>4. CASE UNCHANGED approvalVars
  <2>1. ApprovalTypeOK' /\ StatusBacked' /\ Steady
    BY <1>4 DEF approvalVars, ApprovalInv, ApprovalTypeOK, StatusBacked, Decided, Steady
  <2> QED
    BY <1>4, <2>1, RequestsMove DEF approvalVars
<1> QED
  BY <1>1, <1>2, <1>3, <1>4 DEF ApprovalNext

\* ApprovalInv holds in every reachable state of the approval workflow.
THEOREM ApprovalInvariant == ApprovalSpec => []ApprovalInv
<1>1. ApprovalInit => ApprovalInv
  BY InitApprovalInv
<1>2. ApprovalInv /\ [ApprovalNext]_approvalVars => ApprovalInv'
  BY NextKeeps
<1> QED
  BY <1>1, <1>2, PTL DEF ApprovalSpec

\* No certificate without an approval by somebody entitled to it, other than
\* the requestor (can_approve, and issue()'s checks).
THEOREM CertificatesApproved == ApprovalSpec => []CertificateApproved
<1>1. ApprovalInv => CertificateApproved
  BY DEF ApprovalInv, CertificatesBacked, DecisionsSeparated, Decided, CertificateApproved
<1> QED
  BY <1>1, ApprovalInvariant, PTL

\* No status of a request without the decision or certificate it stands for.
THEOREM StatusesBacked == ApprovalSpec => []StatusBacked
<1>1. ApprovalInv => StatusBacked
  BY DEF ApprovalInv
<1> QED
  BY <1>1, ApprovalInvariant, PTL

-----------------------------------------------------------------------------
(* Bulk enrolment over the workflow.                                       *)

\* A request that exists is never removed and keeps its requestor.
LEMMA RequestsStay ==
    ASSUME ApprovalInv, ApprovalNext, NEW q \in Requests, request[q].status # "absent"
    PROVE  request'[q].status # "absent" /\ request'[q].requestor = request[q].requestor
<1>0. request \in [Requests -> [status : Statuses, requestor : Users,
                               type : {"issuance", "renewal", "revocation"},
                               certificate : Handlers \union {NoCert}]]
  BY DEF ApprovalInv, ApprovalTypeOK
<1>1. ASSUME NEW r \in Requests, Submit(r) \/ DeadlinePasses(r)
      PROVE  request'[q].status # "absent" /\ request'[q].requestor = request[q].requestor
  BY <1>0, <1>1 DEF Submit, DeadlinePasses
<1>2. CASE ExpireOldRequests
  BY <1>0, <1>2 DEF ExpireOldRequests
<1>3. ASSUME NEW h \in Handlers, HandlerStep(h)
      PROVE  request'[q].status # "absent" /\ request'[q].requestor = request[q].requestor
  <2>1. handler[h].request \in Requests
    BY DEF ApprovalInv, ApprovalTypeOK, HandlerStates
  <2>2. CASE UpdateRequestStatus(h)
    BY <1>0, <2>1, <2>2 DEF UpdateRequestStatus, DecisionOf
  <2>3. CASE MarkCompleted(h) \/ MarkCompletedAgain(h)
    BY <1>0, <2>1, <2>3 DEF MarkCompleted, MarkCompletedAgain, Completed
  <2>4. CASE request' = request
    BY <2>4
  <2>5. QED
    BY <1>3, <2>2, <2>3, <2>4 DEF HandlerStep, StartDecision, StartIssue, CreateDecision,
       CheckApproval, StoreCertificate, RecordIssuance, Fail
<1>4. QED
  BY <1>1, <1>2, <1>3 DEF ApprovalNext

\* The requests of the upload exist and are the submitter's.
TaggedOwn ==
    \A r \in tagged : request[r].status # "absent" /\ request[r].requestor = submitter

\* What the rows of the job say, requests apart.
RowsHonest ==
    /\ \A i \in 1..Len(items) :
          /\ items[i].index = i
          /\ entries[i] = "csr" <=> i \in Queued
    /\ Cardinality(ItemRequests) = Cardinality(Queued)
    /\ ItemRequests \subseteq tagged
    /\ job.status = "completed" =>
          /\ Len(items) = Len(entries)
          /\ job.succeeded = Cardinality(Queued)
          /\ job.failed = Len(items) - job.succeeded

\* A set within a singleton has at most one element.
LEMMA AtMostOne ==
    ASSUME NEW S, NEW R, \E r \in R : S \subseteq {r}
    PROVE  Cardinality(S) <= 1
<1>1. PICK r \in R : S \subseteq {r}
  OBVIOUS
<1>2. IsFiniteSet({r}) /\ Cardinality({r}) = 1
  BY FS_Singleton
<1>3. QED
  BY <1>1, <1>2, FS_Subset

\* JobHonest in its parts: the bound on the requests that no item shows
\* follows from which they are.
LEMMA HonestParts == ASSUME BulkInv PROVE RowsHonest /\ TaggedOwn
  BY DEF BulkInv, JobHonest, RowsHonest, TaggedOwn

\* The parts put together after a step.
LEMMA PartsHonest ==
    ASSUME ApprovalInv', BulkTypeOK', LoopInv', CountInv', TagInv', RowsHonest', TaggedOwn'
    PROVE  BulkInv'
<1>1. Cardinality(Unlisted') <= 1
  BY AtMostOne DEF TagInv
<1>2. job'.status = "completed" => Cardinality(Unlisted') = 0
  BY FS_EmptySet DEF LoopInv, TagInv
<1>3. Cardinality(tagged' \ ItemRequests') <= IF job'.status = "completed" THEN 0 ELSE 1
  BY <1>1, <1>2 DEF Unlisted
<1>4. JobHonest'
  BY <1>3 DEF JobHonest, RowsHonest, TaggedOwn
<1>5. QED
  BY <1>4 DEF BulkInv

\* Before the first upload.
LEMMA BulkInitInv == ASSUME BulkInit PROVE BulkInv
<1>1. ApprovalInv
  BY InitApprovalInv DEF BulkInit
<1>2. BulkTypeOK
  <2>1. PICK u \in Users : TRUE
    BY NonemptyAssumption
  <2>2. submitter \in Users
    BY <2>1 DEF BulkInit
  <2>3. NoItem \in ItemRows
    BY DEF NoItem, ItemRows
  <2>4. QED
    BY <2>2, <2>3 DEF BulkInit, BulkTypeOK
<1>3. Queued = {} /\ ItemRequests = {} /\ Unlisted = {}
  BY DEF BulkInit, Queued, ItemRequests, Unlisted
<1>4. Cardinality({}) = 0 /\ IsFiniteSet({})
  BY FS_EmptySet
<1>5. LoopInv /\ CountInv
  BY <1>3, <1>4 DEF BulkInit, LoopInv, CountInv
<1>6. TagInv
  BY <1>3, <1>4, NonemptyAssumption DEF BulkInit, TagInv
<1>7. JobHonest
  <2>1. tagged \ ItemRequests = {}
    BY DEF BulkInit
  <2>2. QED
    BY <1>3, <1>4, <2>1 DEF BulkInit, JobHonest
<1>8. QED
  BY <1>1, <1>2, <1>5, <1>6, <1>7 DEF BulkInv

\* A step of the workflow alone, or none.
LEMMA WorkflowKeepsBulk ==
    ASSUME BulkInv, [ApprovalNext]_approvalVars, UNCHANGED bulkVars
    PROVE  BulkInv'
<1>1. ApprovalInv'
  BY NextKeeps DEF BulkInv
<1>2. BulkTypeOK' /\ LoopInv' /\ CountInv' /\ TagInv' /\ RowsHonest'
  <2>1. BulkTypeOK /\ LoopInv /\ CountInv /\ TagInv /\ RowsHonest
    BY HonestParts DEF BulkInv
  <2>2. Queued' = Queued /\ ItemRequests' = ItemRequests /\ Unlisted' = Unlisted
    BY DEF bulkVars, Queued, ItemRequests, Unlisted
  <2>3. BulkTypeOK'
    BY <2>1 DEF bulkVars, BulkTypeOK
  <2>4. LoopInv' /\ CountInv'
    BY <2>1, <2>2 DEF bulkVars, LoopInv, CountInv
  <2>5. TagInv'
    BY <2>1, <2>2 DEF bulkVars, TagInv
  <2>6. RowsHonest'
    BY <2>1, <2>2 DEF bulkVars, RowsHonest
  <2>7. QED
    BY <2>3, <2>4, <2>5, <2>6
<1>3. TaggedOwn'
  <2>1. TaggedOwn /\ tagged \subseteq Requests /\ ApprovalInv
    BY HonestParts DEF BulkInv, BulkTypeOK
  <2>2. CASE ApprovalNext
    BY <2>1, <2>2, RequestsStay DEF bulkVars, TaggedOwn
  <2>3. CASE UNCHANGED approvalVars
    BY <2>1, <2>3 DEF approvalVars, bulkVars, TaggedOwn
  <2>4. QED
    BY <2>2, <2>3
<1>4. QED
  BY <1>1, <1>2, <1>3, PartsHonest

\* A step that stores no item: the items, what they list and what is not
\* listed are as they were, but for a request that joins the upload.
LEMMA ItemsStay ==
    ASSUME UNCHANGED items
    PROVE  /\ Queued' = Queued /\ ItemRequests' = ItemRequests
           /\ tagged' = tagged => Unlisted' = Unlisted
  BY DEF Queued, ItemRequests, Unlisted

\* A step of the upload that only moves it and counts: no item, no request.
LEMMA UploadMoves ==
    ASSUME BulkInv, UNCHANGED <<approvalVars, items, tagged>>,
           BulkTypeOK', LoopInv', CountInv',
           bulkPc' \in {"idle", "entry", "finalize", "ok"} => Unlisted = {},
           bulkPc' = "item" => item'.status = "failed" /\ Unlisted = {},
           submitter' = submitter \/ tagged = {},
           entries' = entries \/ items = << >>,
           job'.status = "completed" =>
             /\ Len(items) = Len(entries')
             /\ job'.succeeded = Cardinality(Queued)
             /\ job'.failed = Len(items) - job'.succeeded
    PROVE  BulkInv'
<1>1. ApprovalInv'
  BY NextKeeps DEF BulkInv
<1>2. Queued' = Queued /\ ItemRequests' = ItemRequests /\ Unlisted' = Unlisted
  BY ItemsStay
<1>3. TagInv'
  BY <1>2 DEF BulkInv, TagInv
<1>4. RowsHonest /\ TaggedOwn
  BY HonestParts
<1>5. RowsHonest'
  <2>1. \A i \in 1..Len(items) : entries'[i] = entries[i]
    BY DEF BulkInv, BulkTypeOK
  <2>2. QED
    BY <1>2, <1>4, <2>1 DEF RowsHonest
<1>6. TaggedOwn'
  BY <1>4 DEF TaggedOwn, approvalVars
<1>7. QED
  BY <1>1, <1>3, <1>5, <1>6, PartsHonest

\* The job row: nothing has been queued yet.
LEMMA CreateJobKeeps ==
    ASSUME BulkInv, NEW u \in Users, NEW a \in Archives, BulkCreateJob(u, a)
    PROVE  BulkInv'
<1>1. /\ bulkPc = "idle" /\ bulkPc' = "entry" /\ entries' = a /\ bulkAt' = 1 /\ submitter' = u
      /\ job' = [job EXCEPT !.status = "processing"]
      /\ UNCHANGED <<approvalVars, item, succeeded, failed, items, tagged>>
  BY DEF BulkCreateJob
<1>2. BulkTypeOK /\ LoopInv /\ CountInv /\ TagInv
  BY DEF BulkInv
<1>3. BulkTypeOK'
  BY <1>1, <1>2 DEF BulkTypeOK, BulkWorking
<1>4. Len(items) = 0 /\ items = << >> /\ Len(a) >= 1 /\ Len(a) \in Nat
  <2>1. Len(items) = 0 /\ items = << >>
    BY <1>1, <1>2 DEF LoopInv, BulkTypeOK
  <2>2. a # << >> /\ a \in Seq({"csr", "bad"})
    BY ArchivesAssumption
  <2>3. QED
    BY <2>1, <2>2
<1>5. job'.status = "processing"
  BY <1>1, <1>2 DEF BulkTypeOK
<1>6. Queued = {} /\ ItemRequests = {} /\ Unlisted = {} /\ tagged = {}
  BY <1>1, <1>2, <1>4 DEF Queued, ItemRequests, Unlisted, TagInv
<1>7. LoopInv' /\ CountInv'
  <2>1. Queued' = Queued
    BY <1>1, ItemsStay
  <2>2. LoopInv'
    BY <1>1, <1>4, <1>5 DEF LoopInv
  <2>3. CountInv'
    BY <1>1, <1>2, <2>1 DEF CountInv
  <2>4. QED
    BY <2>2, <2>3
<1>8. QED
  BY <1>1, <1>3, <1>4, <1>5, <1>6, <1>7, UploadMoves

\* An entry that is no request: the item at hand says so.
LEMMA RejectKeeps == ASSUME BulkInv, BulkRejectEntry PROVE BulkInv'
<1>1. /\ bulkPc = "entry" /\ bulkPc' = "item" /\ entries[bulkAt] = "bad"
      /\ item' = [index |-> bulkAt, status |-> "failed", request |-> NoRequest]
      /\ failed' = failed + 1
      /\ UNCHANGED <<approvalVars, entries, bulkAt, submitter, succeeded, job, items, tagged>>
  BY DEF BulkRejectEntry
<1>2. BulkTypeOK /\ LoopInv /\ CountInv /\ TagInv
  BY DEF BulkInv
<1>3. item' \in ItemRows /\ item'.index = bulkAt /\ item'.status = "failed"
  BY <1>1, <1>2 DEF BulkTypeOK, ItemRows
<1>4. BulkTypeOK'
  BY <1>1, <1>2, <1>3 DEF BulkTypeOK, BulkWorking
<1>5. LoopInv'
  BY <1>1, <1>2, <1>3 DEF LoopInv
<1>6. CountInv'
  <2>1. Queued' = Queued
    BY <1>1, ItemsStay
  <2>2. succeeded' = Cardinality(Queued) /\ succeeded' \in Nat
    BY <1>1, <1>2 DEF CountInv, BulkTypeOK
  <2>3. succeeded' + failed' = Len(items') + 1
    BY <1>1, <1>2 DEF CountInv, BulkTypeOK
  <2>4. QED
    BY <1>1, <1>3, <2>1, <2>2, <2>3 DEF CountInv
<1>7. Unlisted = {} /\ job'.status # "completed"
  BY <1>1, <1>2 DEF TagInv, LoopInv
<1>8. QED
  BY <1>1, <1>3, <1>4, <1>5, <1>6, <1>7, UploadMoves

\* The steps after which the upload is done with, whatever it had counted.
LEMMA UploadEnds ==
    ASSUME BulkInv, bulkPc \in BulkWorking, bulkPc' \in {"ok", "error", "give up"},
           UNCHANGED <<approvalVars, entries, bulkAt, submitter, item, succeeded, failed, items,
                       tagged>>,
           \/ bulkPc' # "ok" /\ job' = job
           \/ \E status \in {"completed", "failed"} :
                /\ job' = [status |-> status, succeeded |-> succeeded, failed |-> failed]
                /\ status = "completed" => bulkPc = "finalize" /\ bulkPc' = "ok"
                /\ status # "completed" => bulkPc' = "error"
    PROVE  BulkInv'
<1>1. BulkTypeOK /\ LoopInv /\ CountInv /\ TagInv
  BY DEF BulkInv
<1>2. job.status # "completed"
  BY <1>1 DEF LoopInv, BulkWorking
<1>3. /\ BulkTypeOK'
      /\ job'.status = "completed" =>
           /\ bulkPc = "finalize" /\ bulkPc' = "ok" /\ job'.succeeded = succeeded /\ job'.failed = failed
  <2>1. CASE job' = job
    <3>1. bulkPc' \in {"idle", "ok", "error"} \union BulkWorking
      BY DEF BulkWorking
    <3>2. QED
      BY <1>1, <1>2, <2>1, <3>1 DEF BulkTypeOK
  <2>2. ASSUME NEW status \in {"completed", "failed"},
               job' = [status |-> status, succeeded |-> succeeded, failed |-> failed],
               status = "completed" => bulkPc = "finalize" /\ bulkPc' = "ok"
        PROVE  <1>3!1 /\ <1>3!2
    <3>1. bulkPc' \in {"idle", "ok", "error"} \union BulkWorking
      BY DEF BulkWorking
    <3>2. /\ job'.status = status /\ job'.succeeded = succeeded /\ job'.failed = failed
          /\ job' \in [status : {"absent", "processing", "completed", "failed"},
                       succeeded : Nat, failed : Nat]
      BY <1>1, <2>2 DEF BulkTypeOK
    <3>3. QED
      BY <1>1, <2>2, <3>1, <3>2 DEF BulkTypeOK
  <2>3. QED
    BY <2>1, <2>2
<1>4. job'.status = "completed" =>
        /\ bulkPc = "finalize" /\ bulkPc' = "ok" /\ job'.succeeded = succeeded /\ job'.failed = failed
  BY <1>3
<1>5. LoopInv'
  BY <1>1, <1>4 DEF LoopInv
<1>6. CountInv'
  BY DEF CountInv
<1>7. bulkPc' = "ok" => bulkPc = "finalize"
  OBVIOUS
<1>8. bulkPc' = "ok" => Unlisted = {}
  BY <1>1, <1>7 DEF TagInv
<1>9. job'.status = "completed" =>
        /\ Len(items) = Len(entries') /\ job'.succeeded = Cardinality(Queued)
        /\ job'.failed = Len(items) - job'.succeeded
  BY <1>1, <1>4 DEF LoopInv, CountInv, BulkTypeOK
<1>10. QED
  BY <1>3, <1>5, <1>6, <1>8, <1>9, UploadMoves

\* finalize_job, and the errors.
LEMMA EndsKeep ==
    ASSUME BulkInv,
           BulkItemFails \/ BulkRequestFails \/ BulkComplete \/ BulkGiveUp \/ BulkDropped
    PROVE  BulkInv'
<1>1. CASE BulkItemFails
  BY <1>1, UploadEnds DEF BulkItemFails, BulkWorking
<1>2. CASE BulkRequestFails
  BY <1>2, UploadEnds DEF BulkRequestFails, BulkWorking
<1>3. CASE BulkComplete
  BY <1>3, UploadEnds DEF BulkComplete, Finalize, BulkWorking
<1>4. CASE BulkGiveUp
  BY <1>4, UploadEnds DEF BulkGiveUp, Finalize, BulkWorking
<1>5. CASE BulkDropped
  BY <1>5, UploadEnds DEF BulkDropped
<1>6. QED
  BY <1>1, <1>2, <1>3, <1>4, <1>5

\* A request is queued: it is new, and the one request that no item shows.
LEMMA QueueKeeps ==
    ASSUME BulkInv, NEW r \in Requests, BulkQueueEntry(r)
    PROVE  BulkInv'
<1>1. /\ bulkPc = "entry" /\ bulkPc' = "item" /\ entries[bulkAt] = "csr"
      /\ request[r].requestor = submitter /\ Submit(r)
      /\ tagged' = tagged \union {r}
      /\ item' = [index |-> bulkAt, status |-> "queued", request |-> r]
      /\ succeeded' = succeeded + 1
      /\ UNCHANGED <<entries, bulkAt, submitter, failed, job, items>>
  BY DEF BulkQueueEntry
<1>2. /\ BulkTypeOK /\ LoopInv /\ CountInv /\ TagInv /\ ApprovalInv
      /\ RowsHonest /\ TaggedOwn
  BY HonestParts DEF BulkInv
<1>3. ApprovalInv'
  BY <1>1, <1>2, SubmitKeeps
<1>4. item' \in ItemRows /\ item'.index = bulkAt /\ item'.status = "queued" /\ item'.request = r
  BY <1>1, <1>2 DEF BulkTypeOK, ItemRows
<1>5. BulkTypeOK'
  BY <1>1, <1>2, <1>4 DEF BulkTypeOK, BulkWorking
<1>6. Queued' = Queued /\ ItemRequests' = ItemRequests
  BY <1>1, ItemsStay
<1>7. LoopInv' /\ job'.status # "completed"
  BY <1>1, <1>2, <1>4 DEF LoopInv
<1>8. CountInv'
  <2>1. succeeded' = Cardinality(Queued) + 1 /\ succeeded' + failed' = Len(items') + 1
    BY <1>1, <1>2 DEF CountInv, BulkTypeOK
  <2>2. QED
    BY <1>1, <1>4, <1>6, <2>1 DEF CountInv
<1>9. r \notin tagged /\ r \notin ItemRequests
  <2>1. r \notin tagged
    BY <1>1, <1>2 DEF TaggedOwn, Submit
  <2>2. QED
    BY <1>2, <2>1 DEF RowsHonest
<1>10. TagInv'
  <2>1. Unlisted = {} /\ IsFiniteSet(tagged)
    BY <1>1, <1>2 DEF TagInv
  <2>2. Unlisted' = {r}
    BY <1>1, <1>6, <1>9, <2>1 DEF Unlisted
  <2>3. IsFiniteSet(tagged')
    BY <1>1, <2>1, FS_AddElement
  <2>4. QED
    BY <1>1, <1>4, <2>2, <2>3 DEF TagInv
<1>11. RowsHonest'
  BY <1>1, <1>2, <1>6, <1>7 DEF RowsHonest
<1>12. TaggedOwn'
  <2>0. request \in [Requests -> [status : Statuses, requestor : Users,
                                  type : {"issuance", "renewal", "revocation"},
                                  certificate : Handlers \union {NoCert}]]
    BY <1>2 DEF ApprovalInv, ApprovalTypeOK
  <2>1. request'[r].status = "pending" /\ request'[r].requestor = submitter
    BY <1>1, <2>0 DEF Submit
  <2>2. \A q \in Requests \ {r} : request'[q] = request[q]
    BY <1>1, <2>0 DEF Submit
  <2>3. tagged \subseteq Requests
    BY <1>2 DEF BulkTypeOK
  <2>4. QED
    BY <1>1, <1>2, <1>9, <2>1, <2>2, <2>3 DEF TaggedOwn
<1>13. QED
  BY <1>3, <1>5, <1>7, <1>8, <1>10, <1>11, <1>12, PartsHonest

\* What the items list once one more is stored.
LEMMA ItemAppended ==
    ASSUME items \in Seq(ItemRows), item \in ItemRows, items' = Append(items, item)
    PROVE  /\ items' \in Seq(ItemRows) /\ Len(items') = Len(items) + 1
           /\ items'[Len(items) + 1] = item
           /\ \A i \in 1..Len(items) : items'[i] = items[i]
           /\ Queued' = Queued \union (IF item.status = "queued" THEN {Len(items) + 1} ELSE {})
           /\ ItemRequests' =
                ItemRequests \union (IF item.status = "queued" THEN {item.request} ELSE {})
<1> DEFINE n == Len(items)
<1>1. /\ items' \in Seq(ItemRows) /\ n \in Nat /\ Len(items') = n + 1 /\ items'[n + 1] = item
      /\ \A i \in 1..n : items'[i] = items[i]
  OBVIOUS
<1>2. Queued' = { i \in 1..(n + 1) : items'[i].status = "queued" }
  BY <1>1 DEF Queued
<1>3. Queued' = Queued \union (IF item.status = "queued" THEN {n + 1} ELSE {})
  BY <1>1, <1>2 DEF Queued
<1>4. Queued \subseteq 1..n
  BY DEF Queued
<1>5. \A i \in Queued : items'[i].request = items[i].request
  BY <1>1, <1>4
<1>6. ItemRequests' = { items'[i].request : i \in Queued' }
  BY DEF ItemRequests
<1>7. ItemRequests' = ItemRequests \union (IF item.status = "queued" THEN {item.request} ELSE {})
  <2>1. CASE item.status = "queued"
    <3>1. Queued' = Queued \union {n + 1}
      BY <1>3, <2>1
    <3>2. QED
      BY <1>1, <1>5, <1>6, <2>1, <3>1 DEF ItemRequests
  <2>2. CASE item.status # "queued"
    <3>1. Queued' = Queued
      BY <1>3, <2>2
    <3>2. QED
      BY <1>5, <1>6, <2>2, <3>1 DEF ItemRequests
  <2>3. QED
    BY <2>1, <2>2
<1>8. QED
  BY <1>1, <1>3, <1>7

\* The item is stored: its request is listed, the counts agree again.
LEMMA CreateItemKeeps == ASSUME BulkInv, BulkCreateItem PROVE BulkInv'
<1>1. /\ bulkPc = "item" /\ items' = Append(items, item)
      /\ bulkPc' = IF bulkAt = Len(entries) THEN "finalize" ELSE "entry"
      /\ bulkAt' = bulkAt + 1
      /\ UNCHANGED <<approvalVars, entries, submitter, item, succeeded, failed, job, tagged>>
  BY DEF BulkCreateItem, NextEntry
<1>2. /\ BulkTypeOK /\ LoopInv /\ CountInv /\ TagInv /\ ApprovalInv
      /\ RowsHonest /\ TaggedOwn
  BY HonestParts DEF BulkInv
<1> DEFINE n == Len(items)
           new == IF item.status = "queued" THEN {n + 1} ELSE {}
           own == IF item.status = "queued" THEN {item.request} ELSE {}
<1>3. /\ items' \in Seq(ItemRows) /\ Len(items') = n + 1 /\ items'[n + 1] = item
      /\ \A i \in 1..n : items'[i] = items[i]
      /\ Queued' = Queued \union new /\ ItemRequests' = ItemRequests \union own
  BY <1>1, <1>2, ItemAppended DEF BulkTypeOK
<1>4. n \in Nat /\ bulkAt = n + 1 /\ Len(entries) \in Nat /\ bulkAt <= Len(entries)
  <2>1. entries \in Seq({"csr", "bad"})
    <3>1. entries \in Archives \/ entries = << >>
      BY <1>2 DEF BulkTypeOK
    <3>2. << >> \in Seq({"csr", "bad"})
      OBVIOUS
    <3>3. QED
      BY <3>1, <3>2, ArchivesAssumption
  <2>2. QED
    BY <1>1, <1>2, <2>1 DEF LoopInv, BulkTypeOK
<1>5. ApprovalInv' /\ TaggedOwn'
  <2>1. ApprovalInv'
    BY <1>1, <1>2, NextKeeps
  <2>2. TaggedOwn'
    BY <1>1, <1>2 DEF TaggedOwn, approvalVars
  <2>3. QED
    BY <2>1, <2>2
<1>6. BulkTypeOK'
  <2>1. bulkPc' \in {"idle", "ok", "error"} \union BulkWorking /\ bulkAt' \in Nat
    BY <1>1, <1>4 DEF BulkWorking
  <2>2. QED
    BY <1>1, <1>2, <1>3, <2>1 DEF BulkTypeOK
<1>7. LoopInv' /\ job'.status # "completed"
  <2>1. bulkPc' \in {"entry", "finalize"} /\ Len(items') <= Len(entries')
    BY <1>1, <1>3, <1>4
  <2>2. bulkPc' = "entry" => bulkAt' = Len(items') + 1 /\ bulkAt' <= Len(entries')
    BY <1>1, <1>3, <1>4
  <2>3. bulkPc' = "finalize" => Len(items') = Len(entries')
    BY <1>1, <1>3, <1>4
  <2>4. job'.status # "completed"
    BY <1>1, <1>2 DEF LoopInv
  <2>5. QED
    BY <2>1, <2>2, <2>3, <2>4 DEF LoopInv
<1>8. /\ Unlisted = own /\ own \intersect ItemRequests = {} /\ own \subseteq tagged
      /\ Unlisted' = {}
  <2>1. Unlisted = own
    BY <1>1, <1>2 DEF TagInv
  <2>2. Unlisted' = {}
    BY <1>1, <1>3, <2>1 DEF Unlisted
  <2>3. QED
    BY <2>1, <2>2 DEF Unlisted
<1>9. /\ IsFiniteSet(Queued) /\ IsFiniteSet(ItemRequests)
      /\ Cardinality(Queued) \in Nat /\ n + 1 \notin Queued
  <2>1. Queued \subseteq 1..n /\ IsFiniteSet(1..n)
    BY <1>4, FS_Interval DEF Queued
  <2>2. IsFiniteSet(Queued)
    BY <2>1, FS_Subset
  <2>3. ItemRequests \subseteq tagged /\ IsFiniteSet(tagged)
    BY <1>2 DEF RowsHonest, TagInv
  <2>4. IsFiniteSet(ItemRequests)
    BY <2>3, FS_Subset
  <2>5. Cardinality(Queued) \in Nat
    BY <2>2, FS_CardinalityType
  <2>6. n + 1 \notin Queued
    BY <1>4, <2>1
  <2>7. QED
    BY <2>2, <2>4, <2>5, <2>6
<1>10. /\ Cardinality(Queued') = Cardinality(Queued) + (IF item.status = "queued" THEN 1 ELSE 0)
       /\ Cardinality(ItemRequests') = Cardinality(Queued')
  <2>1. Cardinality(ItemRequests) = Cardinality(Queued)
    BY <1>2 DEF RowsHonest
  <2>2. CASE item.status = "queued"
    <3>1. Queued' = Queued \union {n + 1} /\ ItemRequests' = ItemRequests \union {item.request}
      BY <1>3, <2>2
    <3>2. item.request \notin ItemRequests
      BY <1>8, <2>2
    <3>3. /\ Cardinality(Queued \union {n + 1}) = Cardinality(Queued) + 1
          /\ Cardinality(ItemRequests \union {item.request}) = Cardinality(ItemRequests) + 1
      BY <1>9, <3>2, FS_AddElement
    <3>4. QED
      BY <2>1, <2>2, <3>1, <3>3
  <2>3. CASE item.status # "queued"
    <3>1. Queued' = Queued /\ ItemRequests' = ItemRequests
      BY <1>3, <2>3
    <3>2. QED
      BY <1>9, <2>1, <2>3, <3>1
  <2>4. QED
    BY <2>2, <2>3
<1>11. CountInv'
  <2>1. succeeded = Cardinality(Queued') /\ succeeded + failed = n + 1
    BY <1>1, <1>2, <1>10 DEF CountInv
  <2>2. QED
    BY <1>1, <1>3, <2>1 DEF CountInv
<1>12. TagInv'
  BY <1>1, <1>2, <1>7, <1>8, NonemptyAssumption DEF TagInv
<1>13. RowsHonest'
  <2>1. ItemRequests' \subseteq tagged'
    BY <1>1, <1>2, <1>3, <1>8 DEF RowsHonest
  <2>2. \A i \in 1..Len(items') : /\ items'[i].index = i
                                  /\ entries'[i] = "csr" <=> i \in Queued'
    <3>1. ASSUME NEW i \in 1..n
          PROVE  items'[i].index = i /\ (entries'[i] = "csr" <=> i \in Queued')
      <4>1. i \in Queued' <=> i \in Queued
        BY <1>3, <1>4
      <4>2. QED
        BY <1>1, <1>2, <1>3, <4>1 DEF RowsHonest
    <3>2. item.index = n + 1 /\ (entries'[n + 1] = "csr" <=> n + 1 \in Queued')
      BY <1>1, <1>2, <1>3, <1>4, <1>9 DEF LoopInv
    <3>3. \A i \in 1..(n + 1) : i \in 1..n \/ i = n + 1
      BY <1>4
    <3>4. QED
      BY <1>3, <3>1, <3>2, <3>3
  <2>3. QED
    BY <1>7, <1>10, <2>1, <2>2 DEF RowsHonest
<1>14. QED
  BY <1>5, <1>6, <1>7, <1>11, <1>12, <1>13, PartsHonest

\* Uploads, decisions and issuance side by side keep the invariant.
LEMMA BulkStepKeeps ==
    ASSUME BulkInv, [BulkNext]_<<approvalVars, bulkVars>>
    PROVE  BulkInv'
<1>1. CASE (ApprovalNext /\ UNCHANGED bulkVars) \/ UNCHANGED <<approvalVars, bulkVars>>
  BY <1>1, WorkflowKeepsBulk
<1>2. CASE BulkStep
  BY <1>2, CreateJobKeeps, RejectKeeps, QueueKeeps, CreateItemKeeps, EndsKeep DEF BulkStep
<1>3. QED
  BY <1>1, <1>2 DEF BulkNext

\* The invariant of bulk enrolment, and with it that of the workflow, for
\* archives of any length.
THEOREM BulkInvariant == BulkSpec => []BulkInv
<1>1. BulkInit => BulkInv
  BY BulkInitInv
<1>2. BulkInv /\ [BulkNext]_<<approvalVars, bulkVars>> => BulkInv'
  BY BulkStepKeeps
<1>3. QED
  BY <1>1, <1>2, PTL DEF BulkSpec

\* What a submitter is shown of a job is what happened to the archive.
THEOREM JobsHonest == BulkSpec => []JobHonest
<1>1. BulkInv => JobHonest
  BY DEF BulkInv
<1>2. QED
  BY <1>1, BulkInvariant, PTL
-----------------------------------------------------------------------------
(* The workflow, alone and under bulk enrolment, implements the issuance   *)
(* policy.                                                                 *)

\* A certificate is stored for a request whose type and requestor no step
\* of the workflow changes.
LEMMA RequestsFixed ==
    ASSUME ApprovalInv, ApprovalNext, NEW q \in Requests
    PROVE  request'[q].type = request[q].type /\ request'[q].requestor = request[q].requestor
<1>0. request \in [Requests -> [status : Statuses, requestor : Users,
                               type : {"issuance", "renewal", "revocation"},
                               certificate : Handlers \union {NoCert}]]
  BY DEF ApprovalInv, ApprovalTypeOK
<1> DEFINE Fixed == request'[q].type = request[q].type
                    /\ request'[q].requestor = request[q].requestor
<1>1. ASSUME NEW r \in Requests, Submit(r) \/ DeadlinePasses(r) PROVE Fixed
  BY <1>0, <1>1 DEF Submit, DeadlinePasses
<1>2. CASE ExpireOldRequests
  BY <1>0, <1>2 DEF ExpireOldRequests
<1>3. ASSUME NEW h \in Handlers, HandlerStep(h) PROVE Fixed
  <2>1. handler[h].request \in Requests
    BY DEF ApprovalInv, ApprovalTypeOK, HandlerStates
  <2>2. CASE UpdateRequestStatus(h)
    BY <1>0, <2>1, <2>2 DEF UpdateRequestStatus
  <2>3. CASE MarkCompleted(h) \/ MarkCompletedAgain(h)
    BY <1>0, <2>1, <2>3 DEF MarkCompleted, MarkCompletedAgain, Completed
  <2>4. CASE request' = request
    BY <2>4
  <2>5. QED
    BY <1>3, <2>2, <2>3, <2>4 DEF HandlerStep, StartDecision, StartIssue, CreateDecision,
       CheckApproval, StoreCertificate, RecordIssuance, Fail
<1>4. QED
  BY <1>1, <1>2, <1>3 DEF ApprovalNext

\* While the requests of the certificates keep type and requestor, so does
\* what each certificate was issued for.
LEMMA IssuedStays ==
    ASSUME ApprovalInv, NEW c \in certs,
           \A q \in Requests : /\ request'[q].type = request[q].type
                               /\ request'[q].requestor = request[q].requestor
    PROVE  IssuedFor(c)' = IssuedFor(c)
<1>1. c[2] \in Requests
  BY DEF ApprovalInv, ApprovalTypeOK
<1>2. QED
  BY <1>1 DEF IssuedFor

\* A step that stores no certificate leaves the issuances as they are.
LEMMA CertsStay ==
    ASSUME ApprovalInv, UNCHANGED certs,
           \A q \in Requests : /\ request'[q].type = request[q].type
                               /\ request'[q].requestor = request[q].requestor
    PROVE  issuedBar' = issuedBar
  BY IssuedStays DEF issuedBar

\* Recording a decision gathers evidence; storing a certificate is backed by
\* evidence already gathered; nothing else is seen by the policy.
LEMMA WorkflowStepAllowed ==
    ASSUME ApprovalInv, ApprovalNext
    PROVE  [Policy!PolicyNext]_(Policy!policyVars)
<1>0. \A q \in Requests : /\ request'[q].type = request[q].type
                          /\ request'[q].requestor = request[q].requestor
  BY RequestsFixed
<1>1. CASE UNCHANGED <<decisions, certs>>
  BY <1>0, <1>1, CertsStay DEF Policy!policyVars
<1>2. ASSUME NEW h \in Handlers, CreateDecision(h)
      PROVE  Policy!Gather \/ UNCHANGED Policy!policyVars
  <2>1. issuedBar' = issuedBar
    BY <1>0, <1>2, CertsStay DEF CreateDecision
  <2>2. UNCHANGED decisions \/ \E d \in decisions' : decisions' = decisions \union {d}
    BY <1>2 DEF CreateDecision
  <2>3. QED
    BY <2>1, <2>2 DEF Policy!Gather, Policy!policyVars
<1>3. ASSUME NEW h \in Handlers, StoreCertificate(h)
      PROVE  Policy!Certify
  <2> DEFINE r == handler[h].request
             x == [cert |-> h, request |-> r, requestor |-> request[r].requestor,
                   type |-> request[r].type]
  <2>1. r \in Requests /\ request[r].type = "issuance" /\ Decided(r, "approved")
    BY <1>3 DEF StoreCertificate, ApprovalInv, HandlersBacked, HandlerBacked, ApprovalTypeOK,
       HandlerStates
  <2>2. ApprovalSuffices(decisions, x)
    BY <2>1 DEF ApprovalSuffices, Decided, ApprovalInv, DecisionsSeparated
  <2>3. certs' = certs \union {<<h, r>>} /\ request' = request /\ decisions' = decisions
    BY <1>3 DEF StoreCertificate
  <2>4. issuedBar' = issuedBar \union {x}
    <3>1. IssuedFor(<<h, r>>) = x
      BY DEF IssuedFor
    <3>2. \A c : IssuedFor(c)' = IssuedFor(c)
      BY <2>3 DEF IssuedFor
    <3>3. issuedBar' = { IssuedFor(c) : c \in certs \union {<<h, r>>} }
      BY <2>3, <3>2 DEF issuedBar
    <3>4. QED
      BY <3>1, <3>3 DEF issuedBar
  <2>5. QED
    BY <2>2, <2>3, <2>4 DEF Policy!Certify
<1>4. QED
  BY <1>1, <1>2, <1>3 DEF Policy!PolicyNext, ApprovalNext, HandlerStep, Submit, DeadlinePasses,
     ExpireOldRequests, StartDecision, StartIssue, UpdateRequestStatus, CheckApproval,
     MarkCompleted, RecordIssuance, MarkCompletedAgain, Fail

\* The steps of an upload queue requests and issue nothing.

\* The approval workflow implements the issuance policy: a decision by an
\* approver other than the requestor is on record when a certificate is
\* stored, and neither is ever changed.
THEOREM ApprovalRefinesPolicy == ApprovalSpec => ApprovalImplementsPolicy
<1>1. ApprovalInit => Policy!PolicyInit
  BY DEF ApprovalInit, Policy!PolicyInit, issuedBar
<1>2. ApprovalInv /\ [ApprovalNext]_approvalVars => [Policy!PolicyNext]_(Policy!policyVars)
  <2>1. CASE UNCHANGED approvalVars /\ ApprovalInv
    BY <2>1 DEF approvalVars, Policy!policyVars, issuedBar, IssuedFor
  <2>2. QED
    BY <2>1, WorkflowStepAllowed
<1>3. QED
  BY <1>1, <1>2, ApprovalInvariant, PTL
     DEF ApprovalSpec, ApprovalImplementsPolicy, Policy!PolicySpec
\* An upload queues requests and issues nothing, so the policy also holds of
\* the workflow with bulk enrolment on top of it.
THEOREM BulkRefinesPolicy == BulkSpec => ApprovalImplementsPolicy
<1>1. BulkInit => Policy!PolicyInit
  BY DEF BulkInit, ApprovalInit, Policy!PolicyInit, issuedBar
<1>2. BulkInv /\ [BulkNext]_<<approvalVars, bulkVars>> => [Policy!PolicyNext]_(Policy!policyVars)
  <2> SUFFICES ASSUME BulkInv, [BulkNext]_<<approvalVars, bulkVars>>
               PROVE  [Policy!PolicyNext]_(Policy!policyVars)
    OBVIOUS
  <2>1. ApprovalInv
    BY DEF BulkInv
  <2>2. CASE UNCHANGED approvalVars
    BY <2>2 DEF approvalVars, Policy!policyVars, issuedBar, IssuedFor
  <2>3. ASSUME NEW r \in Requests, Submit(r) PROVE ApprovalNext
    BY <2>3 DEF ApprovalNext
  <2>4. CASE ApprovalNext
    BY <2>1, <2>4, WorkflowStepAllowed
  <2>5. QED
    BY <2>2, <2>3, <2>4 DEF BulkNext, BulkStep, BulkCreateJob, BulkRejectEntry, BulkQueueEntry,
       BulkCreateItem, BulkItemFails, BulkRequestFails, BulkComplete, BulkGiveUp, BulkDropped,
       Finalize
<1>3. QED
  BY <1>1, <1>2, BulkInvariant, PTL
     DEF BulkSpec, ApprovalImplementsPolicy, Policy!PolicySpec
=============================================================================
