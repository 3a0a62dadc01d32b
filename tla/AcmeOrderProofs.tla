-------------------------- MODULE AcmeOrderProofs --------------------------
(* Proofs about AcmeOrder.  A certificate is for proven identifiers because *)
(* a row becomes valid only behind a validator, rows and identifiers are    *)
(* compared before the order is processed, and the identifiers of an order  *)
(* that exists do not change.                                               *)
EXTENDS AcmeOrder, TLAPS

-----------------------------------------------------------------------------
(* Facts used throughout.                                                  *)

\* The fields of a challenge.
LEMMA ChallengeFields ==
    ASSUME NEW c \in Challenges
    PROVE  /\ c.order \in Orders /\ c.ident \in Idents /\ c.type \in ChallengeTypes
           /\ c = Challenge(c.order, c.ident, c.type)
  BY DEF Challenges, Challenge

\* What was proven stays proven.
LEMMA ProvenStays ==
    ASSUME proven \subseteq proven', NEW o, NEW i, Proven(o, i)
    PROVE  Proven(o, i)'
  BY DEF Proven

\* How the status of an order may change once it exists: never to pending.
StatusMoves ==
    \A o \in Orders :
      /\ status[o] = "none" <=> status'[o] = "none"
      /\ status'[o] = "pending" => status[o] = "pending"

\* The three groups of variables, typed.
OrderTypes ==
    /\ ids \in [Orders -> SUBSET Idents]
    /\ status \in [Orders -> OrderStatuses]
    /\ cert \in [Orders -> Certs \union {NoCert}]
    /\ authz \in [Orders -> [Idents -> AuthzStatuses]]
    /\ chall \in [Challenges -> ChallStatuses]
    /\ creating \subseteq Orders
    /\ issued \subseteq Issuances
    /\ ca_client \in BOOLEAN
    /\ restarts \in Nat
    /\ responses \in Nat

TaskTypes ==
    /\ tpc \in [Tasks -> TaskPCs]
    /\ target \in [Tasks -> Challenges \union {NoChallenge}]
    /\ \A k \in Tasks : tpc[k] # "free" => target[k] \in Challenges
    /\ proven \subseteq Challenges
    /\ cut \subseteq Orders

HandlerTypes ==
    /\ hpc \in [Handlers -> HandlerPCs]
    /\ order \in [Handlers -> Orders \union {NoOrder}]
    /\ \A h \in Handlers : hpc[h] # "idle" => order[h] \in Orders
    /\ csr \in [Handlers -> SUBSET Idents]
    /\ got \in [Handlers -> Certs \union {NoCert}]
    /\ \A h \in Handlers : hpc[h] \in {"store", "setvalid"} => got[h] \in Certs
    /\ tries \in [Handlers -> Nat]

\* AcmeTypeOK is the three together, in this state and in the next.
LEMMA TypesSplit ==
    /\ AcmeTypeOK <=> OrderTypes /\ TaskTypes /\ HandlerTypes
    /\ AcmeTypeOK' <=> OrderTypes' /\ TaskTypes' /\ HandlerTypes'
  BY DEF AcmeTypeOK, OrderTypes, TaskTypes, HandlerTypes

-----------------------------------------------------------------------------
(* What a step does not disturb.                                           *)

\* A step that leaves the requests, their orders and the issued certificates
\* alone.
LEMMA RequestsUntouched ==
    ASSUME AcmeInv, UNCHANGED <<finVars, issued>>, proven \subseteq proven',
           \A o \in Orders : status[o] # "none" => ids'[o] = ids[o],
           \A o \in Orders : cert[o] # NoCert => cert'[o] = cert[o]
    PROVE  HandlerTypes' /\ FinalizeInv' /\ CertificateProven'
<1>1. HandlerTypes /\ HandlerTypes'
  BY TypesSplit DEF AcmeInv, HandlerTypes, finVars
<1>2. UNCHANGED <<hpc, order, csr, got, tries, issued>>
  BY DEF finVars
<1>3. ASSUME NEW h \in Handlers PROVE FinalizeInv!(h)'
  <2>1. /\ hpc[h] \notin {"idle", "list"} =>
             csr[h] = ids[order[h]] /\ \A i \in csr[h] : Proven(order[h], i)
        /\ hpc[h] \in {"store", "setvalid"} =>
             \E x \in issued : x.cert = got[h] /\ x.order = order[h]
        /\ hpc[h] = "setvalid" => cert[order[h]] # NoCert
    BY DEF AcmeInv, FinalizeInv
  <2>2. hpc[h] # "idle" => order[h] \in Orders /\ ids'[order[h]] = ids[order[h]]
    BY <1>1 DEF HandlerTypes, AcmeInv, OrdersKnown
  <2>3. hpc'[h] \notin {"idle", "list"} =>
             csr'[h] = ids'[order'[h]] /\ \A i \in csr'[h] : Proven(order[h], i)'
    BY <1>2, <2>1, <2>2, ProvenStays
  <2>4. QED
    BY <1>2, <2>1, <2>2, <2>3 DEF Proven
<1>4. ASSUME NEW x \in issued' PROVE CertificateProven!(x)'
  <2>1. x \in issued /\ x.order \in Orders
    BY <1>2, TypesSplit DEF AcmeInv, OrderTypes, Issuances
  <2>2. ids'[x.order] = ids[x.order]
    BY <2>1 DEF AcmeInv, OrdersKnown
  <2>3. x.csr = ids[x.order] /\ \A i \in x.csr : Proven(x.order, i)
    BY <2>1 DEF AcmeInv, CertificateProven
  <2>4. \A i \in x.csr : Proven(x.order, i)'
    BY <2>3, ProvenStays
  <2>5. QED
    BY <2>2, <2>3, <2>4
<1>5. QED
  BY <1>1, <1>3, <1>4 DEF FinalizeInv, CertificateProven

\* A step that leaves the tasks and the rows alone: a status only moves on.
LEMMA TasksUntouched ==
    ASSUME AcmeInv, UNCHANGED <<taskVars, authz>>, StatusMoves
    PROVE  TaskTypes' /\ TasksInv' /\ AuthzProven' /\ ReadyNotLost'
<1>1. UNCHANGED <<tpc, target, proven, cut, authz>>
  BY DEF taskVars
<1>2. TaskTypes /\ TaskTypes'
  BY <1>1, TypesSplit DEF AcmeInv, TaskTypes
<1>3. TasksInv'
  <2>1. \A k \in Tasks : tpc[k] # "free" => target[k].order \in Orders
    BY <1>2, ChallengeFields DEF TaskTypes
  <2>2. QED
    BY <1>1, <2>1 DEF AcmeInv, TasksInv, StatusMoves
<1>4. AuthzProven'
  BY <1>1 DEF AcmeInv, AuthzProven, Proven
<1>5. ReadyNotLost'
  BY <1>1 DEF AcmeInv, ReadyNotLost, AllRowsValid, StatusMoves
<1>6. QED
  BY <1>2, <1>3, <1>4, <1>5

\* A step after which every order that exists still does, and nothing new
\* belongs to one that does not.
LEMMA OrdersStayKnown ==
    ASSUME AcmeInv, OrderTypes', HandlerTypes',
           \A o \in Orders : status[o] # "none" => status'[o] # "none",
           \A o \in creating' : o \in creating \/ status'[o] # "none",
           \A o \in Orders, i \in Idents :
             authz'[o][i] # "none" => authz[o][i] # "none" \/ status'[o] # "none",
           \A c \in Challenges : chall'[c] # "none" =>
             \/ chall[c] # "none"
             \/ status'[c.order] # "none" /\ c.type \in challenge_types(c.ident),
           \A h \in Handlers : hpc'[h] # "idle" =>
             \/ hpc[h] # "idle" /\ order'[h] = order[h]
             \/ status'[order'[h]] # "none",
           \A x \in issued' : x \in issued \/ status'[x.order] # "none"
    PROVE  OrdersKnown'
<1>0. OrderTypes /\ HandlerTypes /\ OrdersKnown
  BY TypesSplit DEF AcmeInv
<1>1. \A o \in creating' : status'[o] # "none"
  BY <1>0 DEF OrdersKnown, OrderTypes
<1>2. \A o \in Orders, i \in Idents : authz'[o][i] # "none" => status'[o] # "none"
  BY <1>0 DEF OrdersKnown
<1>3. \A c \in Challenges : chall'[c] # "none" =>
        status'[c.order] # "none" /\ c.type \in challenge_types(c.ident)
  BY <1>0, ChallengeFields DEF OrdersKnown
<1>4. \A h \in Handlers : hpc'[h] # "idle" => status'[order'[h]] # "none"
  BY <1>0 DEF OrdersKnown, HandlerTypes
<1>5. \A x \in issued' : status'[x.order] # "none"
  <2>1. \A x \in issued : x.order \in Orders
    BY <1>0 DEF OrderTypes, Issuances
  <2>2. QED
    BY <1>0, <2>1 DEF OrdersKnown
<1>6. QED
  BY <1>1, <1>2, <1>3, <1>4, <1>5 DEF OrdersKnown, challenge_types

\* A step that stores no certificate and makes no order valid.
LEMMA CertificatesStay ==
    ASSUME ValidHasCertificate, UNCHANGED cert, issued \subseteq issued',
           \A o \in Orders : status'[o] = "valid" => status[o] = "valid"
    PROVE  ValidHasCertificate'
  BY DEF ValidHasCertificate

-----------------------------------------------------------------------------
(* new_order.                                                              *)

\* The order row: an order that does not exist has no rows and no tasks.
LEMMA NewOrderKeepsInv ==
    ASSUME AcmeInv, NEW o \in Orders, NEW I \in SUBSET Idents, NewOrder(o, I)
    PROVE  AcmeInv'
<1>0. OrderTypes /\ TaskTypes /\ HandlerTypes
  BY TypesSplit DEF AcmeInv
<1>1. /\ status[o] = "none" /\ status' = [status EXCEPT ![o] = "pending"]
      /\ ids' = [ids EXCEPT ![o] = I] /\ creating' = creating \union {o}
      /\ UNCHANGED <<cert, authz, chall, responses, tpc, target, proven, cut, hpc, order, csr,
                     got, tries, issued, ca_client, restarts>>
  BY DEF NewOrder, rowVars, taskVars, finVars, serverVars
<1>2. /\ status'[o] = "pending" /\ ids'[o] = I
      /\ \A p \in Orders \ {o} : status'[p] = status[p] /\ ids'[p] = ids[p]
  BY <1>0, <1>1 DEF OrderTypes
<1>3. OrderTypes' /\ TaskTypes'
  BY <1>0, <1>1 DEF OrderTypes, OrderStatuses, TaskTypes
<1>4. HandlerTypes' /\ FinalizeInv' /\ CertificateProven'
  <2>1. UNCHANGED <<finVars, issued>>
    BY <1>1 DEF finVars
  <2>2. QED
    BY <1>1, <1>2, <2>1, RequestsUntouched
<1>5. OrdersKnown'
  BY <1>1, <1>2, <1>3, <1>4, OrdersStayKnown
<1>6. TasksInv'
  <2>1. \A k \in Tasks : tpc[k] # "free" => target[k].order \in Orders
    BY <1>0, ChallengeFields DEF TaskTypes
  <2>2. QED
    BY <1>1, <1>2, <2>1 DEF AcmeInv, TasksInv
<1>7. AuthzProven'
  BY <1>1 DEF AcmeInv, AuthzProven, Proven
<1>8. ReadyNotLost'
  <2>1. \A i \in Idents : authz'[o][i] = "none"
    BY <1>1 DEF AcmeInv, OrdersKnown
  <2>2. QED
    BY <1>1, <1>2, <2>1 DEF AcmeInv, ReadyNotLost, AllRowsValid
<1>9. ValidHasCertificate'
  BY <1>1, <1>2, CertificatesStay DEF AcmeInv
<1>10. QED
  BY <1>3, <1>4, <1>5, <1>6, <1>7, <1>8, <1>9, TypesSplit DEF AcmeInv

\* A new authorization row is pending: its order is not complete.
LEMMA CreateAuthorizationKeepsInv ==
    ASSUME AcmeInv, NEW o \in Orders, NEW i \in Idents, CreateAuthorization(o, i)
    PROVE  AcmeInv'
<1>0. OrderTypes /\ TaskTypes /\ HandlerTypes
  BY TypesSplit DEF AcmeInv
<1>1. /\ o \in creating /\ authz' = [authz EXCEPT ![o][i] = "pending"]
      /\ UNCHANGED <<ids, status, cert, chall, responses, creating, tpc, target, proven, cut,
                     hpc, order, csr, got, tries, issued, ca_client, restarts>>
  BY DEF CreateAuthorization, orderVars, taskVars, finVars, serverVars
<1>2. /\ authz'[o][i] = "pending"
      /\ \A p \in Orders, j \in Idents : p # o \/ j # i => authz'[p][j] = authz[p][j]
      /\ authz' \in [Orders -> [Idents -> AuthzStatuses]]
  BY <1>0, <1>1 DEF OrderTypes, AuthzStatuses
<1>3. OrderTypes' /\ TaskTypes'
  BY <1>0, <1>1, <1>2 DEF OrderTypes, TaskTypes
<1>4. HandlerTypes' /\ FinalizeInv' /\ CertificateProven'
  <2>1. UNCHANGED <<finVars, issued>>
    BY <1>1 DEF finVars
  <2>2. QED
    BY <1>1, <2>1, RequestsUntouched
<1>5. OrdersKnown'
  <2>1. status'[o] # "none"
    BY <1>1 DEF AcmeInv, OrdersKnown
  <2>2. QED
    BY <1>1, <1>2, <1>3, <1>4, <2>1, OrdersStayKnown
<1>6. TasksInv'
  BY <1>1 DEF AcmeInv, TasksInv
<1>7. AuthzProven'
  BY <1>1, <1>2 DEF AcmeInv, AuthzProven, Proven
<1>8. ReadyNotLost'
  <2>1. ~ AllRowsValid(o)'
    BY <1>2 DEF AllRowsValid
  <2>2. \A p \in Orders \ {o} : \A j \in Idents : authz'[p][j] = authz[p][j]
    BY <1>2
  <2>3. QED
    BY <1>1, <2>1, <2>2 DEF AcmeInv, ReadyNotLost, AllRowsValid
<1>9. ValidHasCertificate'
  BY <1>1, CertificatesStay DEF AcmeInv
<1>10. QED
  BY <1>3, <1>4, <1>5, <1>6, <1>7, <1>8, <1>9, TypesSplit DEF AcmeInv

\* Steps that write challenge rows of orders that exist, of types that are
\* offered, or end new_order.
LEMMA ChallengeRowsKeepInv ==
    ASSUME AcmeInv, creating' \subseteq creating,
           chall' \in [Challenges -> ChallStatuses],
           \A c \in Challenges : chall'[c] # "none" =>
             \/ chall[c] # "none"
             \/ status[c.order] # "none" /\ c.type \in challenge_types(c.ident),
           responses' \in Nat,
           UNCHANGED <<orderVars, authz, taskVars, finVars, issued, serverVars>>
    PROVE  AcmeInv'
<1>0. OrderTypes /\ TaskTypes /\ HandlerTypes
  BY TypesSplit DEF AcmeInv
<1>1. UNCHANGED <<ids, status, cert, authz, hpc, order, issued, ca_client, restarts>>
  BY DEF orderVars, finVars, serverVars
<1>2. OrderTypes'
  BY <1>0, <1>1 DEF OrderTypes
<1>3. HandlerTypes' /\ FinalizeInv' /\ CertificateProven'
  <2>1. proven \subseteq proven'
    BY DEF taskVars
  <2>2. QED
    BY <1>1, <2>1, RequestsUntouched
<1>4. OrdersKnown'
  BY <1>1, <1>2, <1>3, OrdersStayKnown
<1>5. TaskTypes' /\ TasksInv' /\ AuthzProven' /\ ReadyNotLost'
  <2>1. StatusMoves
    BY <1>1 DEF StatusMoves
  <2>2. QED
    BY <1>1, <2>1, TasksUntouched
<1>6. ValidHasCertificate'
  BY <1>1, CertificatesStay DEF AcmeInv
<1>7. QED
  BY <1>2, <1>3, <1>4, <1>5, <1>6, TypesSplit DEF AcmeInv

\* The other steps of new_order, and a response whose lookup fails.
LEMMA RowStepsKeepInv ==
    ASSUME AcmeInv,
           \/ \E o \in Orders : OrderCreated(o) \/ NewOrderFails(o)
           \/ \E o \in Orders, c \in Challenges : CreateChallenge(o, c)
           \/ \E c \in Challenges : RespondFails(c)
    PROVE  AcmeInv'
<1>0. OrderTypes
  BY TypesSplit DEF AcmeInv
<1>1. ASSUME NEW o \in Orders, OrderCreated(o) \/ NewOrderFails(o)
      PROVE  AcmeInv'
  <2>1. /\ creating' \subseteq creating /\ UNCHANGED <<chall, responses>>
        /\ UNCHANGED <<orderVars, authz, taskVars, finVars, issued, serverVars>>
    BY <1>1 DEF OrderCreated, NewOrderFails, rowVars
  <2>2. chall' \in [Challenges -> ChallStatuses] /\ responses' \in Nat
    BY <1>0, <2>1 DEF OrderTypes
  <2>3. QED
    BY <2>1, <2>2, ChallengeRowsKeepInv
<1>2. ASSUME NEW o \in Orders, NEW c \in Challenges, CreateChallenge(o, c)
      PROVE  AcmeInv'
  <2>1. /\ creating' = creating /\ responses' = responses
        /\ chall' = [chall EXCEPT ![c] = "pending"]
        /\ UNCHANGED <<orderVars, authz, taskVars, finVars, issued, serverVars>>
    BY <1>2 DEF CreateChallenge
  <2>2. status[c.order] # "none" /\ c.type \in challenge_types(c.ident)
    BY <1>2 DEF CreateChallenge, MissingChallenges, AcmeInv, OrdersKnown
  <2>3. /\ chall' \in [Challenges -> ChallStatuses] /\ responses' \in Nat
        /\ \A d \in Challenges \ {c} : chall'[d] = chall[d]
    BY <1>0, <2>1 DEF OrderTypes, ChallStatuses
  <2>4. QED
    BY <2>1, <2>2, <2>3, ChallengeRowsKeepInv
<1>3. ASSUME NEW c \in Challenges, RespondFails(c)
      PROVE  AcmeInv'
  <2>1. /\ creating' = creating /\ responses' = responses + 1
        /\ chall[c] # "none" /\ chall' = [chall EXCEPT ![c] = "processing"]
        /\ UNCHANGED <<orderVars, authz, taskVars, finVars, issued, serverVars>>
    BY <1>3 DEF RespondFails, Respond
  <2>2. /\ chall' \in [Challenges -> ChallStatuses] /\ responses' \in Nat
        /\ \A d \in Challenges \ {c} : chall'[d] = chall[d]
    BY <1>0, <2>1 DEF OrderTypes, ChallStatuses
  <2>3. QED
    BY <2>1, <2>2, ChallengeRowsKeepInv
<1>4. QED
  BY <1>1, <1>2, <1>3

-----------------------------------------------------------------------------
(* The validation tasks.                                                   *)

\* A task that moves on keeps its challenge; one that ends has none.
LEMMA TaskAtFacts ==
    ASSUME TaskTypes, NEW k \in Tasks, tpc[k] # "free", NEW p \in TaskPCs, TaskAt(k, p)
    PROVE  /\ tpc' \in [Tasks -> TaskPCs]
           /\ target' \in [Tasks -> Challenges \union {NoChallenge}]
           /\ \A j \in Tasks : tpc'[j] # "free" => target'[j] \in Challenges
           /\ tpc'[k] = p
           /\ p # "free" => target'[k] = target[k]
           /\ \A j \in Tasks \ {k} : tpc'[j] = tpc[j] /\ target'[j] = target[j]
<1>1. tpc' = [tpc EXCEPT ![k] = p]
  BY DEF TaskAt
<1>2. CASE p = "free"
  <2>1. target' = [target EXCEPT ![k] = NoChallenge]
    BY <1>2 DEF TaskAt
  <2>2. QED
    BY <1>1, <1>2, <2>1 DEF TaskTypes
<1>3. CASE p # "free"
  <2>1. target' = target
    BY <1>3 DEF TaskAt
  <2>2. QED
    BY <1>1, <1>3, <2>1 DEF TaskTypes
<1>4. QED
  BY <1>2, <1>3

\* A step of a task that writes no authorization and no order.
LEMMA TaskStepsKeepInv ==
    ASSUME AcmeInv, NEW k \in Tasks, TaskTypes',
           UNCHANGED <<orderVars, authz, creating, finVars, issued, serverVars>>,
           responses' \in Nat, chall' \in [Challenges -> ChallStatuses],
           \A c \in Challenges : chall'[c] # "none" =>
             \/ chall[c] # "none"
             \/ status[c.order] # "none" /\ c.type \in challenge_types(c.ident),
           proven \subseteq proven', cut \subseteq cut',
           \A j \in Tasks \ {k} : tpc'[j] = tpc[j] /\ target'[j] = target[j],
           tpc'[k] # "free" => \/ tpc[k] # "free" /\ target'[k] = target[k]
                               \/ chall[target'[k]] # "none",
           tpc'[k] \in {"chall_valid", "authz_valid"} => target'[k] \in proven',
           tpc[k] \in {"list", "ready"} =>
             \/ target[k].order \in cut'
             \/ tpc'[k] \in {"list", "ready"} /\ target'[k] = target[k]
             \/ ~ AllRowsValid(target[k].order)
    PROVE  AcmeInv'
<1>0. OrderTypes /\ TaskTypes /\ HandlerTypes
  BY TypesSplit DEF AcmeInv
<1>1. UNCHANGED <<ids, status, cert, authz, creating, hpc, order, issued, ca_client, restarts>>
  BY DEF orderVars, finVars, serverVars
<1>2. OrderTypes'
  BY <1>0, <1>1 DEF OrderTypes
<1>3. HandlerTypes' /\ FinalizeInv' /\ CertificateProven'
  BY <1>1, RequestsUntouched
<1>4. OrdersKnown'
  BY <1>1, <1>2, <1>3, OrdersStayKnown
<1>5. TasksInv'
  <2>1. ASSUME NEW j \in Tasks, j # k PROVE TasksInv!(j)'
    BY <1>1, <2>1 DEF AcmeInv, TasksInv, challenge_types
  <2>2. tpc'[k] # "free" => /\ status[target'[k].order] # "none"
                            /\ target'[k].type \in challenge_types(target'[k].ident)
    <3>1. CASE tpc[k] # "free" /\ target'[k] = target[k]
      BY <3>1 DEF AcmeInv, TasksInv
    <3>2. CASE tpc'[k] # "free" /\ chall[target'[k]] # "none"
      <4>1. target'[k] \in Challenges
        BY <3>2 DEF TaskTypes
      <4>2. QED
        BY <3>2, <4>1 DEF AcmeInv, OrdersKnown
    <3>3. QED
      BY <3>1, <3>2
  <2>3. QED
    BY <1>1, <2>1, <2>2 DEF TasksInv, challenge_types
<1>6. AuthzProven'
  BY <1>1, ProvenStays DEF AcmeInv, AuthzProven
<1>7. ReadyNotLost'
  <2> SUFFICES ASSUME NEW o \in Orders, status[o] = "pending",
                      \E i \in Idents : authz[o][i] = "valid", AllRowsValid(o)
               PROVE  \/ o \in cut'
                      \/ \E j \in Tasks : tpc'[j] \in {"list", "ready"} /\ target'[j].order = o
    BY <1>1 DEF ReadyNotLost, AllRowsValid
  <2>1. o \in cut \/ \E j \in Tasks : tpc[j] \in {"list", "ready"} /\ target[j].order = o
    BY DEF AcmeInv, ReadyNotLost
  <2>2. CASE o \in cut
    BY <2>2
  <2>3. ASSUME NEW j \in Tasks, tpc[j] \in {"list", "ready"}, target[j].order = o
        PROVE  \/ o \in cut'
               \/ tpc'[j] \in {"list", "ready"} /\ target'[j].order = o
    <3>1. CASE j # k
      BY <2>3, <3>1
    <3>2. CASE j = k
      BY <2>3, <3>2
    <3>3. QED
      BY <3>1, <3>2
  <2>4. QED
    BY <2>1, <2>2, <2>3
<1>8. ValidHasCertificate'
  BY <1>1, CertificatesStay DEF AcmeInv
<1>9. QED
  BY <1>2, <1>3, <1>4, <1>5, <1>6, <1>7, <1>8, TypesSplit DEF AcmeInv

\* respond_to_challenge spawns a task for a challenge that exists.
LEMMA RespondKeepsInv ==
    ASSUME AcmeInv, NEW c \in Challenges, NEW k \in Tasks, RespondToChallenge(c, k)
    PROVE  AcmeInv'
<1>0. OrderTypes /\ TaskTypes
  BY TypesSplit DEF AcmeInv
<1>1. /\ chall[c] # "none" /\ tpc[k] = "free" /\ responses' = responses + 1
      /\ chall' = [chall EXCEPT ![c] = "processing"]
      /\ tpc' = [tpc EXCEPT ![k] = "validate"] /\ target' = [target EXCEPT ![k] = c]
      /\ UNCHANGED <<orderVars, authz, creating, proven, cut, finVars, issued, serverVars>>
  BY DEF RespondToChallenge, Respond
<1>2. /\ chall' \in [Challenges -> ChallStatuses] /\ responses' \in Nat
      /\ \A d \in Challenges : chall'[d] # "none" => chall[d] # "none"
  BY <1>0, <1>1 DEF OrderTypes, ChallStatuses
<1>3. /\ TaskTypes' /\ tpc'[k] = "validate" /\ target'[k] = c
      /\ \A j \in Tasks \ {k} : tpc'[j] = tpc[j] /\ target'[j] = target[j]
  BY <1>0, <1>1 DEF TaskTypes, TaskPCs
<1>4. QED
  BY <1>1, <1>2, <1>3, TaskStepsKeepInv

\* The steps that confirm or refuse a challenge, write its row, list the
\* authorizations, or fail.
LEMMA ChallengeStepsKeepInv ==
    ASSUME AcmeInv, NEW k \in Tasks,
           \/ ValidatorSucceeds(k) \/ ChallengeValid(k) \/ ListAuthorizations(k)
           \/ ValidatorFails(k) \/ TaskError(k) \/ ChallengeInvalid(k) \/ ErrorPathIgnored(k)
    PROVE  AcmeInv'
<1>0. OrderTypes /\ TaskTypes /\ TasksInv
  BY TypesSplit DEF AcmeInv
<1>1. tpc[k] # "free"
  BY DEF ValidatorSucceeds, ChallengeValid, ListAuthorizations, ValidatorFails, TaskError,
         ChallengeInvalid, ErrorPathIgnored
<1>2. target[k] \in Challenges /\ target[k].order \in Orders
  BY <1>0, <1>1, ChallengeFields DEF TaskTypes
<1>3. PICK p \in TaskPCs : TaskAt(k, p)
  BY DEF ValidatorSucceeds, ChallengeValid, ListAuthorizations, ValidatorFails, TaskError,
         ChallengeInvalid, ErrorPathIgnored, TaskPCs
<1>4. /\ UNCHANGED <<orderVars, authz, creating, finVars, issued, serverVars, responses>>
      /\ proven \subseteq proven' /\ proven' \subseteq proven \union {target[k]}
      /\ cut \subseteq cut' /\ cut' \subseteq cut \union {target[k].order}
  BY DEF ValidatorSucceeds, ChallengeValid, ListAuthorizations, ValidatorFails, TaskError,
         ChallengeInvalid, ErrorPathIgnored, rowVars
<1>5. chall' = chall \/ \E s \in {"valid", "invalid"} : chall' = [chall EXCEPT ![target[k]] = s]
  BY DEF ValidatorSucceeds, ChallengeValid, ListAuthorizations, ValidatorFails, TaskError,
         ChallengeInvalid, ErrorPathIgnored, rowVars
<1>6. /\ tpc' \in [Tasks -> TaskPCs]
      /\ target' \in [Tasks -> Challenges \union {NoChallenge}]
      /\ \A j \in Tasks : tpc'[j] # "free" => target'[j] \in Challenges
      /\ tpc'[k] = p
      /\ p # "free" => target'[k] = target[k]
      /\ \A j \in Tasks \ {k} : tpc'[j] = tpc[j] /\ target'[j] = target[j]
  BY <1>0, <1>1, <1>3, TaskAtFacts
<1>7. TaskTypes'
  BY <1>0, <1>2, <1>4, <1>6 DEF TaskTypes
<1>8. responses' \in Nat /\ chall' \in [Challenges -> ChallStatuses]
  BY <1>0, <1>2, <1>4, <1>5 DEF OrderTypes, ChallStatuses
<1>9. \A c \in Challenges : chall'[c] # "none" =>
        \/ chall[c] # "none"
        \/ status[c.order] # "none" /\ c.type \in challenge_types(c.ident)
  <2>1. status[target[k].order] # "none" /\ target[k].type \in challenge_types(target[k].ident)
    BY <1>0, <1>1 DEF TasksInv
  <2>2. \A c \in Challenges \ {target[k]} : chall'[c] = chall[c]
    BY <1>0, <1>2, <1>5 DEF OrderTypes
  <2>3. QED
    BY <2>1, <2>2
<1>10. tpc'[k] \in {"chall_valid", "authz_valid"} => target'[k] \in proven'
  <2>1. CASE ValidatorSucceeds(k)
    <3>1. proven' = proven \union {target[k]} /\ TaskAt(k, "chall_valid")
      BY <2>1 DEF ValidatorSucceeds
    <3>2. tpc'[k] = "chall_valid"
      BY <1>0, <3>1 DEF TaskAt, TaskTypes
    <3>3. QED
      BY <1>6, <3>1, <3>2
  <2>2. CASE ChallengeValid(k)
    <3>1. target[k] \in proven /\ TaskAt(k, "authz_valid")
      BY <1>0, <2>2 DEF ChallengeValid, TasksInv
    <3>2. tpc'[k] = "authz_valid"
      BY <1>0, <3>1 DEF TaskAt, TaskTypes
    <3>3. QED
      BY <1>4, <1>6, <3>1, <3>2
  <2>3. CASE ListAuthorizations(k) \/ ValidatorFails(k) \/ TaskError(k)
             \/ ChallengeInvalid(k) \/ ErrorPathIgnored(k)
    <3>1. tpc'[k] \in {"ready", "free", "fail_chall", "fail_authz"}
      BY <1>0, <2>3 DEF ListAuthorizations, ValidatorFails, TaskError, ChallengeInvalid,
                        ErrorPathIgnored, TaskAt, TaskTypes
    <3>2. QED
      BY <3>1
  <2>4. QED
    BY <2>1, <2>2, <2>3
<1>11. tpc[k] \in {"list", "ready"} =>
         \/ target[k].order \in cut'
         \/ tpc'[k] \in {"list", "ready"} /\ target'[k] = target[k]
         \/ ~ AllRowsValid(target[k].order)
  <2>1. CASE ListAuthorizations(k) /\ AllRowsValid(target[k].order)
    <3>1. TaskAt(k, "ready")
      BY <2>1 DEF ListAuthorizations
    <3>2. tpc'[k] = "ready"
      BY <1>0, <3>1 DEF TaskAt, TaskTypes
    <3>3. QED
      BY <1>6, <3>2
  <2>2. CASE TaskError(k)
    BY <2>2 DEF TaskError
  <2>3. CASE ValidatorSucceeds(k) \/ ChallengeValid(k) \/ ValidatorFails(k)
             \/ ChallengeInvalid(k) \/ ErrorPathIgnored(k)
    BY <2>3 DEF ValidatorSucceeds, ChallengeValid, ValidatorFails, ChallengeInvalid,
                ErrorPathIgnored
  <2>4. QED
    BY <2>1, <2>2, <2>3
<1>12. tpc'[k] # "free" => tpc[k] # "free" /\ target'[k] = target[k]
  BY <1>1, <1>6
<1>13. QED
  BY <1>4, <1>6, <1>7, <1>8, <1>9, <1>10, <1>11, <1>12, TaskStepsKeepInv

\* A task writes the authorization of its challenge: valid, after the
\* validator confirmed it, and on its way to list the others; or invalid,
\* after which the order is not complete.
LEMMA AuthorizationStepsKeepInv ==
    ASSUME AcmeInv, NEW k \in Tasks, AuthorizationValid(k) \/ AuthorizationInvalid(k)
    PROVE  AcmeInv'
<1>0. OrderTypes /\ TaskTypes /\ HandlerTypes /\ TasksInv
  BY TypesSplit DEF AcmeInv
<1>1. PICK s \in {"valid", "invalid"}, p \in {"list", "free"} :
         /\ authz' = [authz EXCEPT ![target[k].order][target[k].ident] = s]
         /\ TaskAt(k, p)
         /\ s = "valid" => p = "list" /\ tpc[k] = "authz_valid"
  BY DEF AuthorizationValid, AuthorizationInvalid
<1>2. /\ tpc[k] \in {"authz_valid", "fail_authz"}
      /\ UNCHANGED <<ids, status, cert, chall, responses, creating, proven, cut, hpc, order, csr,
                     got, tries, issued, ca_client, restarts>>
  BY DEF AuthorizationValid, AuthorizationInvalid, orderVars, finVars, serverVars
<1>3. target[k] \in Challenges
  BY <1>0, <1>2 DEF TaskTypes
<1>4. PICK o \in Orders, i \in Idents, t \in ChallengeTypes :
         o = target[k].order /\ i = target[k].ident /\ t = target[k].type
         /\ target[k] = Challenge(o, i, t)
  BY <1>3, ChallengeFields
<1>5. /\ tpc' \in [Tasks -> TaskPCs]
      /\ target' \in [Tasks -> Challenges \union {NoChallenge}]
      /\ \A j \in Tasks : tpc'[j] # "free" => target'[j] \in Challenges
      /\ tpc'[k] = p
      /\ p # "free" => target'[k] = target[k]
      /\ \A j \in Tasks \ {k} : tpc'[j] = tpc[j] /\ target'[j] = target[j]
  <2>1. p \in TaskPCs /\ tpc[k] # "free"
    BY <1>2 DEF TaskPCs
  <2>2. QED
    BY <1>0, <1>1, <2>1, TaskAtFacts
<1>6. /\ authz' \in [Orders -> [Idents -> AuthzStatuses]] /\ authz'[o][i] = s
      /\ \A q \in Orders, j \in Idents : q # o \/ j # i => authz'[q][j] = authz[q][j]
  BY <1>0, <1>1, <1>4 DEF OrderTypes, AuthzStatuses
<1>7. status[o] # "none" /\ t \in challenge_types(i) /\ (s = "valid" => target[k] \in proven)
  BY <1>0, <1>1, <1>2, <1>4 DEF TasksInv
<1>8. OrderTypes' /\ TaskTypes'
  BY <1>0, <1>2, <1>5, <1>6 DEF OrderTypes, TaskTypes
<1>9. HandlerTypes' /\ FinalizeInv' /\ CertificateProven'
  <2>1. UNCHANGED <<finVars, issued>>
    BY <1>2 DEF finVars
  <2>2. QED
    BY <1>2, <2>1, RequestsUntouched
<1>10. OrdersKnown'
  <2>1. \A q \in Orders, j \in Idents :
          authz'[q][j] # "none" => authz[q][j] # "none" \/ status'[q] # "none"
    BY <1>2, <1>6, <1>7
  <2>2. QED
    BY <1>2, <1>8, <1>9, <2>1, OrdersStayKnown
<1>11. TasksInv'
  BY <1>0, <1>2, <1>5 DEF TasksInv, challenge_types
<1>12. AuthzProven'
  <2>1. s = "valid" => Proven(o, i)
    BY <1>4, <1>7 DEF Proven
  <2>2. \A q \in Orders, j \in Idents : authz'[q][j] = "valid" => Proven(q, j)
    BY <1>6, <2>1 DEF AcmeInv, AuthzProven
  <2>3. QED
    BY <1>2, <2>2 DEF AuthzProven, Proven
<1>13. ReadyNotLost'
  <2>1. CASE s = "invalid"
    <3>1. ~ AllRowsValid(o)'
      BY <1>6, <2>1 DEF AllRowsValid
    <3>2. \A q \in Orders \ {o} : \A j \in Idents : authz'[q][j] = authz[q][j]
      BY <1>6
    <3>3. \A j \in Tasks : tpc[j] \in {"list", "ready"} => j # k
      BY <1>2
    <3>4. QED
      BY <1>2, <1>5, <3>1, <3>2, <3>3 DEF AcmeInv, ReadyNotLost, AllRowsValid
  <2>2. CASE s = "valid"
    <3>1. tpc'[k] = "list" /\ target'[k].order = o
      BY <1>1, <1>4, <1>5, <2>2
    <3>2. \A q \in Orders \ {o} : \A j \in Idents : authz'[q][j] = authz[q][j]
      BY <1>6
    <3>3. \A j \in Tasks : tpc[j] \in {"list", "ready"} => j # k
      BY <1>2
    <3>4. QED
      BY <1>2, <1>5, <3>1, <3>2, <3>3 DEF AcmeInv, ReadyNotLost, AllRowsValid
  <2>3. QED
    BY <2>1, <2>2
<1>14. ValidHasCertificate'
  BY <1>2, CertificatesStay DEF AcmeInv
<1>15. QED
  BY <1>8, <1>9, <1>10, <1>11, <1>12, <1>13, <1>14, TypesSplit DEF AcmeInv

\* The last task makes the order ready.
LEMMA OrderReadyKeepsInv ==
    ASSUME AcmeInv, NEW k \in Tasks, OrderReady(k)
    PROVE  AcmeInv'
<1>0. OrderTypes /\ TaskTypes /\ HandlerTypes /\ TasksInv
  BY TypesSplit DEF AcmeInv
<1>1. /\ tpc[k] = "ready" /\ TaskAt(k, "free")
      /\ status' = [status EXCEPT ![target[k].order] = "ready"]
      /\ UNCHANGED <<ids, cert, authz, chall, responses, creating, proven, cut, hpc, order, csr,
                     got, tries, issued, ca_client, restarts>>
  BY DEF OrderReady, rowVars, finVars, serverVars
<1>2. PICK o \in Orders : o = target[k].order
  BY <1>0, <1>1, ChallengeFields DEF TaskTypes
<1>3. /\ status'[o] = "ready" /\ status[o] # "none"
      /\ status' \in [Orders -> OrderStatuses]
      /\ \A q \in Orders \ {o} : status'[q] = status[q]
  BY <1>0, <1>1, <1>2 DEF OrderTypes, OrderStatuses, TasksInv
<1>4. /\ tpc' \in [Tasks -> TaskPCs]
      /\ target' \in [Tasks -> Challenges \union {NoChallenge}]
      /\ \A j \in Tasks : tpc'[j] # "free" => target'[j] \in Challenges
      /\ tpc'[k] = "free"
      /\ \A j \in Tasks \ {k} : tpc'[j] = tpc[j] /\ target'[j] = target[j]
  <2>1. "free" \in TaskPCs /\ tpc[k] # "free"
    BY <1>1 DEF TaskPCs
  <2>2. QED
    BY <1>0, <1>1, <2>1, TaskAtFacts
<1>5. OrderTypes' /\ TaskTypes'
  BY <1>0, <1>1, <1>3, <1>4 DEF OrderTypes, TaskTypes
<1>6. HandlerTypes' /\ FinalizeInv' /\ CertificateProven'
  <2>1. UNCHANGED <<finVars, issued>>
    BY <1>1 DEF finVars
  <2>2. QED
    BY <1>1, <2>1, RequestsUntouched
<1>7. OrdersKnown'
  BY <1>1, <1>3, <1>5, <1>6, OrdersStayKnown
<1>8. TasksInv'
  <2>1. \A j \in Tasks : tpc[j] # "free" => target[j].order \in Orders
    BY <1>0, ChallengeFields DEF TaskTypes
  <2>2. QED
    BY <1>0, <1>1, <1>3, <1>4, <2>1 DEF TasksInv, challenge_types
<1>9. AuthzProven'
  BY <1>1 DEF AcmeInv, AuthzProven, Proven
<1>10. ReadyNotLost'
  BY <1>1, <1>2, <1>3, <1>4 DEF AcmeInv, ReadyNotLost, AllRowsValid
<1>11. ValidHasCertificate'
  BY <1>1, <1>3, CertificatesStay DEF AcmeInv
<1>12. QED
  BY <1>5, <1>6, <1>7, <1>8, <1>9, <1>10, <1>11, TypesSplit DEF AcmeInv

-----------------------------------------------------------------------------
(* finalize_order.                                                         *)

\* A step of finalize request h: the rows, the tasks and the identifiers are
\* not touched, the statuses move on, and what is new of h, of the
\* certificates and of the orders is what the invariant asks for.
LEMMA RequestStepsKeepInv ==
    ASSUME AcmeInv, NEW h \in Handlers,
           UNCHANGED <<ids, authz, chall, responses, creating, taskVars, serverVars>>,
           status' \in [Orders -> OrderStatuses], StatusMoves,
           cert' \in [Orders -> Certs \union {NoCert}],
           \A o \in Orders : cert[o] # NoCert => cert'[o] # NoCert,
           issued' \subseteq Issuances, issued \subseteq issued',
           \A x \in issued' \ issued : /\ hpc[h] = "attempt"
                                       /\ x.order = order[h] /\ x.csr = csr[h],
           HandlerTypes',
           \A g \in Handlers \ {h} : /\ hpc'[g] = hpc[g] /\ order'[g] = order[g]
                                     /\ csr'[g] = csr[g] /\ got'[g] = got[g],
           hpc'[h] # "idle" => status'[order'[h]] # "none",
           hpc'[h] \notin {"idle", "list"} =>
             csr'[h] = ids[order'[h]] /\ \A i \in csr'[h] : Proven(order'[h], i),
           hpc'[h] \in {"store", "setvalid"} =>
             \E x \in issued' : x.cert = got'[h] /\ x.order = order'[h],
           hpc'[h] = "setvalid" => cert'[order'[h]] # NoCert,
           ValidHasCertificate'
    PROVE  AcmeInv'
<1>0. OrderTypes /\ TaskTypes /\ HandlerTypes
  BY TypesSplit DEF AcmeInv
<1>1. UNCHANGED <<ca_client, restarts, proven>>
  BY DEF taskVars, serverVars
<1>2. OrderTypes'
  BY <1>0, <1>1 DEF OrderTypes
<1>3. TaskTypes' /\ TasksInv' /\ AuthzProven' /\ ReadyNotLost'
  BY TasksUntouched
<1>4. OrdersKnown'
  <2>1. \A o \in Orders : status[o] # "none" => status'[o] # "none"
    BY DEF StatusMoves
  <2>2. \A x \in issued' : x \in issued \/ status'[x.order] # "none"
    BY <1>0, <2>1 DEF HandlerTypes, AcmeInv, OrdersKnown
  <2>3. \A g \in Handlers : hpc'[g] # "idle" =>
          \/ hpc[g] # "idle" /\ order'[g] = order[g]
          \/ status'[order'[g]] # "none"
    OBVIOUS
  <2>4. QED
    BY <1>2, <2>1, <2>2, <2>3, OrdersStayKnown
<1>5. FinalizeInv'
  <2>1. ASSUME NEW g \in Handlers, g # h PROVE FinalizeInv!(g)'
    <3>1. /\ hpc[g] \notin {"idle", "list"} =>
               csr[g] = ids[order[g]] /\ \A i \in csr[g] : Proven(order[g], i)
          /\ hpc[g] \in {"store", "setvalid"} =>
               \E x \in issued : x.cert = got[g] /\ x.order = order[g]
          /\ hpc[g] = "setvalid" => cert[order[g]] # NoCert
      BY DEF AcmeInv, FinalizeInv
    <3>2. hpc[g] # "idle" => order[g] \in Orders
      BY <1>0 DEF HandlerTypes
    <3>3. /\ hpc'[g] = hpc[g] /\ order'[g] = order[g] /\ csr'[g] = csr[g] /\ got'[g] = got[g]
      BY <2>1
    <3>4. QED
      BY <1>1, <3>1, <3>2, <3>3 DEF Proven
  <2>2. FinalizeInv!(h)'
    BY <1>1 DEF Proven
  <2>3. QED
    BY <2>1, <2>2 DEF FinalizeInv
<1>6. CertificateProven'
  <2>1. ASSUME NEW x \in issued' PROVE CertificateProven!(x)'
    <3>1. x.csr = ids[x.order] /\ \A i \in x.csr : Proven(x.order, i)
      <4>1. CASE x \in issued
        BY <4>1 DEF AcmeInv, CertificateProven
      <4>2. CASE x \notin issued
        BY <2>1, <4>2 DEF AcmeInv, FinalizeInv
      <4>3. QED
        BY <4>1, <4>2
    <3>2. QED
      BY <1>1, <3>1 DEF Proven
  <2>2. QED
    BY <2>1 DEF CertificateProven
<1>7. QED
  BY <1>2, <1>3, <1>4, <1>5, <1>6, TypesSplit DEF AcmeInv

\* A request that is answered holds nothing any more.
LEMMA HandlerEndsFacts ==
    ASSUME HandlerTypes, NEW h \in Handlers, HandlerEnds(h)
    PROVE  /\ HandlerTypes'
           /\ hpc'[h] = "idle"
           /\ \A g \in Handlers \ {h} : /\ hpc'[g] = hpc[g] /\ order'[g] = order[g]
                                        /\ csr'[g] = csr[g] /\ got'[g] = got[g]
<1>1. /\ hpc' = [hpc EXCEPT ![h] = "idle"] /\ order' = [order EXCEPT ![h] = NoOrder]
      /\ csr' = [csr EXCEPT ![h] = {}] /\ got' = [got EXCEPT ![h] = NoCert]
      /\ tries' = [tries EXCEPT ![h] = 0]
  BY DEF HandlerEnds, HandlerAt
<1>2. /\ hpc'[h] = "idle"
      /\ \A g \in Handlers \ {h} : /\ hpc'[g] = hpc[g] /\ order'[g] = order[g]
                                   /\ csr'[g] = csr[g] /\ got'[g] = got[g]
  BY <1>1 DEF HandlerTypes
<1>3. HandlerTypes'
  <2>1. /\ hpc' \in [Handlers -> HandlerPCs]
        /\ order' \in [Handlers -> Orders \union {NoOrder}]
        /\ csr' \in [Handlers -> SUBSET Idents]
        /\ got' \in [Handlers -> Certs \union {NoCert}]
        /\ tries' \in [Handlers -> Nat]
    BY <1>1 DEF HandlerTypes, HandlerPCs
  <2>2. QED
    BY <1>2, <2>1 DEF HandlerTypes
<1>4. QED
  BY <1>2, <1>3

\* A request ends; an order other than its own keeps its status, its own
\* either does or goes on.
LEMMA RequestEndKeepsInv ==
    ASSUME AcmeInv, NEW h \in Handlers, hpc[h] # "idle", HandlerEnds(h),
           \/ status' = status
           \/ \E s \in {"ready", "valid"} :
                /\ status' = [status EXCEPT ![order[h]] = s]
                /\ s = "valid" => hpc[h] = "setvalid",
           issued \subseteq issued', issued' \subseteq Issuances,
           \A x \in issued' \ issued : /\ hpc[h] = "attempt"
                                       /\ x.order = order[h] /\ x.csr = csr[h],
           UNCHANGED <<ids, cert, rowVars, creating, taskVars, serverVars>>
    PROVE  AcmeInv'
<1>0. OrderTypes /\ HandlerTypes
  BY TypesSplit DEF AcmeInv
<1>1. /\ HandlerTypes' /\ hpc'[h] = "idle"
      /\ \A g \in Handlers \ {h} : /\ hpc'[g] = hpc[g] /\ order'[g] = order[g]
                                   /\ csr'[g] = csr[g] /\ got'[g] = got[g]
  BY <1>0, HandlerEndsFacts
<1>2. order[h] \in Orders /\ status[order[h]] # "none"
  BY <1>0 DEF HandlerTypes, AcmeInv, OrdersKnown
<1>3. status' \in [Orders -> OrderStatuses] /\ StatusMoves
  BY <1>0, <1>2 DEF OrderTypes, OrderStatuses, StatusMoves
<1>4. UNCHANGED <<ids, cert, authz, chall, responses, creating>>
      /\ cert' \in [Orders -> Certs \union {NoCert}]
  BY <1>0 DEF rowVars, OrderTypes
<1>5. ValidHasCertificate'
  <2>1. \A o \in Orders : status'[o] = "valid" => cert[o] # NoCert
    <3>1. hpc[h] = "setvalid" => cert[order[h]] # NoCert
      BY DEF AcmeInv, FinalizeInv
    <3>2. QED
      BY <1>0, <1>2, <3>1 DEF OrderTypes, AcmeInv, ValidHasCertificate
  <2>2. QED
    BY <1>4, <2>1 DEF AcmeInv, ValidHasCertificate
<1>6. QED
  BY <1>1, <1>3, <1>4, <1>5, RequestStepsKeepInv

\* A request moves on to step p, and nothing else changes.
LEMMA RequestMovesKeepsInv ==
    ASSUME AcmeInv, NEW h \in Handlers, hpc[h] # "idle",
           NEW p \in HandlerPCs \ {"idle", "list", "store", "setvalid"}, HandlerAt(h, p),
           tries' \in [Handlers -> Nat],
           csr[h] = ids[order[h]], \A i \in csr[h] : Proven(order[h], i),
           \/ status' = status
           \/ status' = [status EXCEPT ![order[h]] = "processing"],
           issued \subseteq issued', issued' \subseteq Issuances,
           \A x \in issued' \ issued : /\ hpc[h] = "attempt"
                                       /\ x.order = order[h] /\ x.csr = csr[h],
           UNCHANGED <<ids, cert, rowVars, creating, taskVars, order, csr, got, serverVars>>
    PROVE  AcmeInv'
<1>0. OrderTypes /\ HandlerTypes
  BY TypesSplit DEF AcmeInv
<1>1. hpc' = [hpc EXCEPT ![h] = p]
  BY DEF HandlerAt
<1>2. hpc'[h] = p /\ HandlerTypes' /\ \A g \in Handlers \ {h} : hpc'[g] = hpc[g]
  BY <1>0, <1>1 DEF HandlerTypes
<1>3. order[h] \in Orders /\ status[order[h]] # "none"
  BY <1>0 DEF HandlerTypes, AcmeInv, OrdersKnown
<1>4. /\ status' \in [Orders -> OrderStatuses] /\ StatusMoves
      /\ \A o \in Orders : status'[o] = "valid" => status[o] = "valid"
  BY <1>0, <1>3 DEF OrderTypes, OrderStatuses, StatusMoves
<1>5. UNCHANGED <<ids, cert, authz, chall, responses, creating>>
      /\ cert' \in [Orders -> Certs \union {NoCert}]
  BY <1>0 DEF rowVars, OrderTypes
<1>6. ValidHasCertificate'
  BY <1>4, <1>5, CertificatesStay DEF AcmeInv
<1>7. status'[order'[h]] # "none"
  BY <1>3, <1>4 DEF StatusMoves
<1>8. QED
  BY <1>2, <1>4, <1>5, <1>6, <1>7, RequestStepsKeepInv

\* find_order_by_id: the order exists.
LEMMA FinalizeOrderKeepsInv ==
    ASSUME AcmeInv, NEW h \in Handlers, NEW o \in Orders, NEW I \in SUBSET Idents,
           FinalizeOrder(h, o, I)
    PROVE  AcmeInv'
<1>0. OrderTypes /\ HandlerTypes
  BY TypesSplit DEF AcmeInv
<1>1. /\ status[o] = "ready" /\ hpc' = [hpc EXCEPT ![h] = "list"]
      /\ order' = [order EXCEPT ![h] = o] /\ csr' = [csr EXCEPT ![h] = I]
      /\ UNCHANGED <<ids, status, cert, authz, chall, responses, creating, taskVars, got, tries,
                     issued, serverVars>>
  BY DEF FinalizeOrder, HandlerAt, orderVars, rowVars
<1>2. /\ hpc'[h] = "list" /\ order'[h] = o
      /\ \A g \in Handlers \ {h} : /\ hpc'[g] = hpc[g] /\ order'[g] = order[g]
                                   /\ csr'[g] = csr[g]
  BY <1>0, <1>1 DEF HandlerTypes
<1>3. HandlerTypes'
  <2>1. /\ hpc' \in [Handlers -> HandlerPCs]
        /\ order' \in [Handlers -> Orders \union {NoOrder}]
        /\ csr' \in [Handlers -> SUBSET Idents]
    BY <1>0, <1>1 DEF HandlerTypes, HandlerPCs
  <2>2. QED
    BY <1>0, <1>1, <1>2, <2>1 DEF HandlerTypes
<1>4. StatusMoves /\ ValidHasCertificate'
  BY <1>1, CertificatesStay DEF StatusMoves, AcmeInv
<1>5. /\ status' \in [Orders -> OrderStatuses] /\ cert' \in [Orders -> Certs \union {NoCert}]
      /\ issued' \subseteq Issuances
  BY <1>0, <1>1 DEF OrderTypes
<1>6. QED
  BY <1>1, <1>2, <1>3, <1>4, <1>5, RequestStepsKeepInv

\* check_order_finalizable and validate_csr_identifiers: the CSR asks for the
\* identifiers of the order, each of which has a valid row.
LEMMA ChecksKeepInv ==
    ASSUME AcmeInv, NEW h \in Handlers, ListForFinalize(h) \/ CheckIpChallenges(h)
    PROVE  AcmeInv'
<1>0. OrderTypes /\ HandlerTypes
  BY TypesSplit DEF AcmeInv
<1>1. /\ hpc[h] \in {"list", "check"}
      /\ UNCHANGED <<ids, status, cert, rowVars, creating, taskVars, issued, serverVars>>
      /\ issued' \subseteq Issuances
  BY <1>0 DEF ListForFinalize, CheckIpChallenges, orderVars, OrderTypes
<1>2. CASE HandlerEnds(h)
  BY <1>1, <1>2, RequestEndKeepsInv
<1>3. CASE ListForFinalize(h) /\ ~ HandlerEnds(h)
  <2>1. /\ check_order_finalizable(order[h]) /\ validate_csr_identifiers(order[h], csr[h])
        /\ HandlerAt(h, "check") /\ UNCHANGED <<order, csr, got, tries>>
    BY <1>3 DEF ListForFinalize
  <2>2. order[h] \in Orders
    BY <1>0, <1>1 DEF HandlerTypes
  <2>3. csr[h] = ids[order[h]] /\ \A i \in csr[h] : i \in Idents /\ authz[order[h]][i] = "valid"
    BY <2>1 DEF check_order_finalizable, validate_csr_identifiers, AuthorizationRows
  <2>4. \A i \in csr[h] : Proven(order[h], i)
    BY <2>2, <2>3 DEF AcmeInv, AuthzProven
  <2>5. tries' \in [Handlers -> Nat]
        /\ "check" \in HandlerPCs \ {"idle", "list", "store", "setvalid"}
    BY <1>0, <2>1 DEF HandlerTypes, HandlerPCs
  <2>6. QED
    BY <1>1, <2>1, <2>3, <2>4, <2>5, RequestMovesKeepsInv
<1>4. CASE CheckIpChallenges(h) /\ ~ HandlerEnds(h)
  <2>1. /\ hpc[h] = "check" /\ HandlerAt(h, "processing") /\ UNCHANGED <<order, csr, got, tries>>
    BY <1>4 DEF CheckIpChallenges
  <2>2. csr[h] = ids[order[h]] /\ \A i \in csr[h] : Proven(order[h], i)
    BY <2>1 DEF AcmeInv, FinalizeInv
  <2>3. tries' \in [Handlers -> Nat]
        /\ "processing" \in HandlerPCs \ {"idle", "list", "store", "setvalid"}
    BY <1>0, <2>1 DEF HandlerTypes, HandlerPCs
  <2>4. QED
    BY <1>1, <2>1, <2>2, <2>3, RequestMovesKeepsInv
<1>5. QED
  BY <1>2, <1>3, <1>4

\* The order is processed, put back, or left as it is by a request that ends.
LEMMA ProcessingKeepsInv ==
    ASSUME AcmeInv, NEW h \in Handlers,
           OrderProcessing(h) \/ RollBack(h) \/ OrderValid(h) \/ FinalizeFails(h)
    PROVE  AcmeInv'
<1>0. OrderTypes /\ HandlerTypes
  BY TypesSplit DEF AcmeInv
<1>1. CASE OrderProcessing(h)
  <2>1. PICK p \in {"attempt", "rollback"} : HandlerAt(h, p)
    BY <1>1 DEF OrderProcessing
  <2>2. /\ hpc[h] = "processing" /\ status' = [status EXCEPT ![order[h]] = "processing"]
        /\ tries' = [tries EXCEPT ![h] = 1]
        /\ UNCHANGED <<ids, cert, rowVars, creating, taskVars, order, csr, got, issued, serverVars>>
    BY <1>1 DEF OrderProcessing
  <2>3. csr[h] = ids[order[h]] /\ \A i \in csr[h] : Proven(order[h], i)
    BY <2>2 DEF AcmeInv, FinalizeInv
  <2>4. /\ tries' \in [Handlers -> Nat] /\ issued' \subseteq Issuances
        /\ p \in HandlerPCs \ {"idle", "list", "store", "setvalid"}
    BY <1>0, <2>2 DEF OrderTypes, HandlerTypes, HandlerPCs
  <2>5. QED
    BY <2>1, <2>2, <2>3, <2>4, RequestMovesKeepsInv
<1>2. CASE RollBack(h) \/ OrderValid(h) \/ FinalizeFails(h)
  <2>1. /\ hpc[h] # "idle" /\ HandlerEnds(h)
        /\ UNCHANGED <<ids, cert, rowVars, creating, taskVars, issued, serverVars>>
        /\ \/ status' = status
           \/ \E s \in {"ready", "valid"} :
                /\ status' = [status EXCEPT ![order[h]] = s]
                /\ s = "valid" => hpc[h] = "setvalid"
    BY <1>2 DEF RollBack, OrderValid, FinalizeFails, orderVars
  <2>2. issued' \subseteq Issuances
    BY <1>0, <2>1 DEF OrderTypes
  <2>3. QED
    BY <2>1, <2>2, RequestEndKeepsInv
<1>3. QED
  BY <1>1, <1>2

\* The call to the CA fails, or its answer is lost although it has issued:
\* what it issued is for the identifiers of the order.
LEMMA AttemptFailsKeepsInv ==
    ASSUME AcmeInv, NEW h \in Handlers, NEW retryable \in BOOLEAN,
           \/ IssueFails(h, retryable)
           \/ \E c \in Certs : AnswerLost(h, c)
    PROVE  AcmeInv'
<1>0. OrderTypes /\ HandlerTypes
  BY TypesSplit DEF AcmeInv
<1>1. /\ hpc[h] = "attempt" /\ (\E r \in BOOLEAN : RetryOrGiveUp(h, r))
      /\ UNCHANGED <<ids, status, cert, rowVars, creating, taskVars, serverVars>>
  BY DEF IssueFails, AnswerLost, orderVars
<1>2. order[h] \in Orders /\ csr[h] \in SUBSET Idents
  BY <1>0, <1>1 DEF HandlerTypes
<1>3. csr[h] = ids[order[h]] /\ \A i \in csr[h] : Proven(order[h], i)
  BY <1>1 DEF AcmeInv, FinalizeInv
<1>4. /\ issued \subseteq issued' /\ issued' \subseteq Issuances
      /\ \A x \in issued' \ issued : x.order = order[h] /\ x.csr = csr[h]
  <2>1. CASE IssueFails(h, retryable)
    BY <1>0, <2>1 DEF IssueFails, OrderTypes
  <2>2. ASSUME NEW c \in Certs, AnswerLost(h, c)
        PROVE  /\ issued \subseteq issued' /\ issued' \subseteq Issuances
               /\ \A x \in issued' \ issued : x.order = order[h] /\ x.csr = csr[h]
    BY <1>0, <1>2, <2>2 DEF AnswerLost, Issue, OrderTypes, Issuances
  <2>3. QED
    BY <2>1, <2>2
<1>5. CASE HandlerEnds(h)
  BY <1>1, <1>4, <1>5, RequestEndKeepsInv
<1>6. CASE ~ HandlerEnds(h)
  <2>1. tries' = [tries EXCEPT ![h] = tries[h] + 1] /\ UNCHANGED <<hpc, order, csr, got>>
    BY <1>1, <1>6 DEF RetryOrGiveUp
  <2>2. HandlerAt(h, "attempt") /\ tries' \in [Handlers -> Nat]
    BY <1>0, <1>1, <2>1 DEF HandlerTypes, HandlerAt
  <2>3. "attempt" \in HandlerPCs \ {"idle", "list", "store", "setvalid"}
    BY DEF HandlerPCs
  <2>4. QED
    BY <1>1, <1>3, <1>4, <2>1, <2>2, <2>3, RequestMovesKeepsInv
<1>7. QED
  BY <1>5, <1>6

\* The CA answers with a certificate for the identifiers of the order.
LEMMA IssueAnsweredKeepsInv ==
    ASSUME AcmeInv, NEW h \in Handlers, NEW c \in Certs, IssueAnswered(h, c)
    PROVE  AcmeInv'
<1>0. OrderTypes /\ HandlerTypes
  BY TypesSplit DEF AcmeInv
<1>1. /\ hpc[h] = "attempt" /\ hpc' = [hpc EXCEPT ![h] = "store"]
      /\ got' = [got EXCEPT ![h] = c]
      /\ issued' = issued \union {[cert |-> c, order |-> order[h], csr |-> csr[h]]}
      /\ UNCHANGED <<ids, status, cert, authz, chall, responses, creating, taskVars, order, csr,
                     tries, serverVars>>
  BY DEF IssueAnswered, Issue, HandlerAt, orderVars, rowVars
<1>2. order[h] \in Orders /\ csr[h] \in SUBSET Idents /\ status[order[h]] # "none"
  BY <1>0, <1>1 DEF HandlerTypes, AcmeInv, OrdersKnown
<1>3. csr[h] = ids[order[h]] /\ \A i \in csr[h] : Proven(order[h], i)
  BY <1>1 DEF AcmeInv, FinalizeInv
<1>4. /\ hpc'[h] = "store" /\ got'[h] = c
      /\ \A g \in Handlers \ {h} : hpc'[g] = hpc[g] /\ got'[g] = got[g]
  BY <1>0, <1>1 DEF HandlerTypes
<1>5. HandlerTypes'
  <2>1. hpc' \in [Handlers -> HandlerPCs] /\ got' \in [Handlers -> Certs \union {NoCert}]
    BY <1>0, <1>1 DEF HandlerTypes, HandlerPCs
  <2>2. QED
    BY <1>0, <1>1, <1>2, <1>4, <2>1 DEF HandlerTypes
<1>6. /\ issued' \subseteq Issuances /\ issued \subseteq issued'
      /\ \A x \in issued' \ issued : x.order = order[h] /\ x.csr = csr[h]
      /\ \E x \in issued' : x.cert = c /\ x.order = order[h]
  <2> DEFINE e == [cert |-> c, order |-> order[h], csr |-> csr[h]]
  <2>1. e \in Issuances /\ e.cert = c /\ e.order = order[h] /\ e.csr = csr[h]
    BY <1>2 DEF Issuances
  <2>2. issued' = issued \union {e} /\ issued \subseteq Issuances
    BY <1>0, <1>1 DEF OrderTypes
  <2> HIDE DEF e
  <2>3. e \in issued'
    BY <2>2
  <2>4. QED
    BY <2>1, <2>2, <2>3
<1>7. StatusMoves /\ ValidHasCertificate'
  <2>1. StatusMoves
    BY <1>1 DEF StatusMoves
  <2>2. ValidHasCertificate /\ UNCHANGED <<status, cert>> /\ issued \subseteq issued'
    BY <1>1, <1>6 DEF AcmeInv
  <2>3. ValidHasCertificate'
    BY <2>2 DEF ValidHasCertificate
  <2>4. QED
    BY <2>1, <2>3
<1>8. status' \in [Orders -> OrderStatuses] /\ cert' \in [Orders -> Certs \union {NoCert}]
  BY <1>0, <1>1 DEF OrderTypes
<1>9. QED
  BY <1>1, <1>2, <1>3, <1>4, <1>5, <1>6, <1>7, <1>8, RequestStepsKeepInv

\* The certificate is stored with the order it was issued for.
LEMMA StoreCertificateKeepsInv ==
    ASSUME AcmeInv, NEW h \in Handlers, StoreCertificate(h)
    PROVE  AcmeInv'
<1>0. OrderTypes /\ HandlerTypes
  BY TypesSplit DEF AcmeInv
<1>1. /\ hpc[h] = "store" /\ hpc' = [hpc EXCEPT ![h] = "setvalid"]
      /\ cert' = [cert EXCEPT ![order[h]] = got[h]]
      /\ UNCHANGED <<ids, status, authz, chall, responses, creating, taskVars, order, csr, got,
                     tries, issued, serverVars>>
  BY DEF StoreCertificate, HandlerAt, rowVars
<1>2. order[h] \in Orders /\ status[order[h]] # "none" /\ got[h] \in Certs /\ got[h] # NoCert
  BY <1>0, <1>1, NoneAssumption DEF HandlerTypes, AcmeInv, OrdersKnown
<1>3. /\ csr[h] = ids[order[h]] /\ \A i \in csr[h] : Proven(order[h], i)
      /\ \E x \in issued : x.cert = got[h] /\ x.order = order[h]
  BY <1>1 DEF AcmeInv, FinalizeInv
<1>4. /\ hpc'[h] = "setvalid" /\ \A g \in Handlers \ {h} : hpc'[g] = hpc[g]
  BY <1>0, <1>1 DEF HandlerTypes
<1>5. HandlerTypes'
  <2>1. hpc' \in [Handlers -> HandlerPCs]
    BY <1>0, <1>1 DEF HandlerTypes, HandlerPCs
  <2>2. QED
    BY <1>0, <1>1, <1>2, <1>4, <2>1 DEF HandlerTypes
<1>6. /\ cert' \in [Orders -> Certs \union {NoCert}] /\ cert'[order[h]] = got[h]
      /\ \A o \in Orders \ {order[h]} : cert'[o] = cert[o]
  BY <1>0, <1>1, <1>2 DEF OrderTypes
<1>7. ValidHasCertificate'
  <2>1. ASSUME NEW o \in Orders PROVE ValidHasCertificate!(o)'
    <3>1. CASE o = order[h]
      BY <1>1, <1>2, <1>3, <1>6, <3>1
    <3>2. CASE o # order[h]
      BY <1>1, <1>6, <3>2 DEF AcmeInv, ValidHasCertificate
    <3>3. QED
      BY <3>1, <3>2
  <2>2. QED
    BY <2>1 DEF ValidHasCertificate
<1>8. /\ StatusMoves /\ status' \in [Orders -> OrderStatuses] /\ issued' \subseteq Issuances
  BY <1>0, <1>1 DEF StatusMoves, OrderTypes
<1>9. \A o \in Orders : cert[o] # NoCert => cert'[o] # NoCert
  BY <1>2, <1>6
<1>10. QED
  BY <1>1, <1>2, <1>3, <1>4, <1>5, <1>6, <1>7, <1>8, <1>9, RequestStepsKeepInv

-----------------------------------------------------------------------------
(* Restarts, and the theorems.                                             *)

\* A restart cuts every task short and ends every request; the tables stay.
LEMMA RestartKeepsInv ==
    ASSUME AcmeInv, NEW b \in BOOLEAN, Restart(b)
    PROVE  AcmeInv'
<1>0. OrderTypes /\ TaskTypes /\ HandlerTypes
  BY TypesSplit DEF AcmeInv
<1>1. /\ UNCHANGED <<ids, status, cert, authz, chall, responses, proven, issued>>
      /\ creating' = {} /\ ca_client' = b /\ restarts' = restarts + 1
      /\ tpc' = [k \in Tasks |-> "free"] /\ target' = [k \in Tasks |-> NoChallenge]
      /\ cut' = cut \union { target[k].order : k \in { x \in Tasks : tpc[x] # "free" } }
      /\ hpc' = [h \in Handlers |-> "idle"] /\ order' = [h \in Handlers |-> NoOrder]
      /\ csr' = [h \in Handlers |-> {}] /\ got' = [h \in Handlers |-> NoCert]
      /\ tries' = [h \in Handlers |-> 0]
  BY DEF Restart, orderVars, rowVars
<1>2. OrderTypes'
  <2>1. ca_client' \in BOOLEAN
    BY <1>1
  <2>2. QED
    BY <1>0, <1>1, <2>1 DEF OrderTypes
<1>3. TaskTypes'
  <2>1. \A k \in Tasks : tpc[k] # "free" => target[k].order \in Orders
    BY <1>0, ChallengeFields DEF TaskTypes
  <2>2. QED
    BY <1>0, <1>1, <2>1 DEF TaskTypes, TaskPCs
<1>4. HandlerTypes'
  BY <1>1 DEF HandlerTypes, HandlerPCs
<1>5. OrdersKnown'
  BY <1>1 DEF AcmeInv, OrdersKnown, challenge_types
<1>6. TasksInv' /\ FinalizeInv'
  BY <1>1 DEF TasksInv, FinalizeInv
<1>7. AuthzProven' /\ CertificateProven'
  BY <1>1 DEF AcmeInv, AuthzProven, CertificateProven, Proven
<1>8. ReadyNotLost'
  <2>1. \A k \in Tasks : tpc[k] \in {"list", "ready"} => target[k].order \in cut'
    BY <1>1
  <2>2. QED
    BY <1>1, <2>1 DEF AcmeInv, ReadyNotLost, AllRowsValid
<1>9. ValidHasCertificate'
  BY <1>1 DEF AcmeInv, ValidHasCertificate
<1>10. QED
  BY <1>2, <1>3, <1>4, <1>5, <1>6, <1>7, <1>8, <1>9, TypesSplit DEF AcmeInv

\* Every step of the ACME server and of its clients keeps the invariant.
LEMMA AcmeStepKeepsInv ==
    ASSUME AcmeInv, [AcmeNext]_acmeVars
    PROVE  AcmeInv'
<1>1. ASSUME NEW o \in Orders, OrderStep(o)
      PROVE  AcmeInv'
  BY <1>1, CreateAuthorizationKeepsInv, RowStepsKeepInv DEF OrderStep
<1>2. ASSUME NEW k \in Tasks, TaskStep(k)
      PROVE  AcmeInv'
  BY <1>2, ChallengeStepsKeepInv, AuthorizationStepsKeepInv, OrderReadyKeepsInv DEF TaskStep
<1>3. ASSUME NEW h \in Handlers, FinalizeStep(h) \/ FinalizeFails(h)
      PROVE  AcmeInv'
  BY <1>3, ChecksKeepInv, ProcessingKeepsInv, AttemptFailsKeepsInv, IssueAnsweredKeepsInv,
     StoreCertificateKeepsInv DEF FinalizeStep
<1>4. CASE UNCHANGED acmeVars
  <2>1. UNCHANGED <<ids, status, cert, authz, chall, responses, creating, tpc, target, proven,
                    cut, hpc, order, csr, got, tries, issued, ca_client, restarts>>
    BY <1>4 DEF acmeVars, orderVars, rowVars, taskVars, finVars, serverVars
  <2>2. AcmeTypeOK'
    BY <2>1 DEF AcmeInv, AcmeTypeOK
  <2>3. OrdersKnown' /\ TasksInv' /\ AuthzProven' /\ CertificateProven'
    BY <2>1 DEF AcmeInv, OrdersKnown, TasksInv, AuthzProven, CertificateProven, Proven,
                challenge_types
  <2>4. FinalizeInv' /\ ReadyNotLost' /\ ValidHasCertificate'
    BY <2>1 DEF AcmeInv, FinalizeInv, ReadyNotLost, ValidHasCertificate, Proven, AllRowsValid
  <2>5. QED
    BY <2>2, <2>3, <2>4 DEF AcmeInv
<1>5. QED
  BY <1>1, <1>2, <1>3, <1>4, NewOrderKeepsInv, RowStepsKeepInv, RespondKeepsInv,
     FinalizeOrderKeepsInv, RestartKeepsInv DEF AcmeNext

\* The inductive invariant holds in every reachable state, for any number of
\* orders, tasks and finalize requests and any kinds of identifiers.
THEOREM AcmeInvariant == AcmeSpec => []AcmeInv
<1>1. AcmeInit => AcmeInv
  <2> SUFFICES ASSUME AcmeInit PROVE AcmeInv
    OBVIOUS
  <2>1. OrderTypes
    BY DEF AcmeInit, OrderTypes, OrderStatuses, AuthzStatuses, ChallStatuses
  <2>2. TaskTypes
    BY DEF AcmeInit, TaskTypes, TaskPCs
  <2>3. HandlerTypes
    BY DEF AcmeInit, HandlerTypes, HandlerPCs
  <2>4. OrdersKnown /\ TasksInv /\ AuthzProven /\ FinalizeInv
    BY DEF AcmeInit, OrdersKnown, TasksInv, AuthzProven, FinalizeInv
  <2>5. CertificateProven /\ ReadyNotLost /\ ValidHasCertificate
    BY DEF AcmeInit, CertificateProven, ReadyNotLost, ValidHasCertificate
  <2>6. QED
    BY <2>1, <2>2, <2>3, <2>4, <2>5, TypesSplit DEF AcmeInv
<1>2. AcmeInv /\ [AcmeNext]_acmeVars => AcmeInv'
  BY AcmeStepKeepsInv
<1>3. QED
  BY <1>1, <1>2, PTL DEF AcmeSpec

\* Every certificate issued for an order carries exactly its identifiers,
\* each confirmed by a validator through a challenge that was offered for it.
THEOREM CertificatesProven == AcmeSpec => []CertificateProven
<1>1. AcmeInv => CertificateProven
  BY DEF AcmeInv
<1>2. QED
  BY AcmeInvariant, <1>1, PTL

\* No order stays pending because two validations missed each other.
THEOREM ReadyNeverLost == AcmeSpec => []ReadyNotLost
<1>1. AcmeInv => ReadyNotLost
  BY DEF AcmeInv
<1>2. QED
  BY AcmeInvariant, <1>1, PTL

\* A valid order has a certificate, and one that was issued for it.
THEOREM ValidOrdersHaveCertificates == AcmeSpec => []ValidHasCertificate
<1>1. AcmeInv => ValidHasCertificate
  BY DEF AcmeInv
<1>2. QED
  BY AcmeInvariant, <1>1, PTL
-----------------------------------------------------------------------------
(* Orders implement the issuance policy.                                   *)

\* Certificates are of orders that exist; while their identifiers stay, so
\* does what each certificate was issued for.
LEMMA IssuancesStay ==
    ASSUME AcmeInv, UNCHANGED issued,
           \A o \in Orders : status[o] # "none" => ids'[o] = ids[o]
    PROVE  issuedBar' = issuedBar
<1>1. \A x \in issued : x.order \in Orders /\ status[x.order] # "none"
  BY DEF AcmeInv, AcmeTypeOK, Issuances, OrdersKnown
<1>2. \A x \in issued : IssuedFor(x)' = IssuedFor(x)
  BY <1>1 DEF IssuedFor
<1>3. QED
  BY <1>2 DEF issuedBar

\* An issuance, the answer of which arrives or is lost, finds every
\* identifier proven.
LEMMA IssueCertifies ==
    ASSUME AcmeInv, NEW h \in Handlers, NEW c \in Certs, hpc[h] = "attempt", Issue(h, c),
           UNCHANGED <<ids, proven>>
    PROVE  AcmePolicy!Certify
<1> DEFINE e == [cert |-> c, order |-> order[h], csr |-> csr[h]]
           x == [cert |-> c, order |-> order[h], csr |-> csr[h], identifiers |-> ids[order[h]]]
<1>1. csr[h] = ids[order[h]] /\ \A i \in csr[h] : Proven(order[h], i)
  BY DEF AcmeInv, FinalizeInv
<1>2. AcmeSuffices(proven, x)
  BY <1>1 DEF AcmeSuffices, Proven
<1>3. issuedBar' = issuedBar \union {x}
  <2>1. IssuedFor(e) = x
    BY DEF IssuedFor
  <2>2. \A y : IssuedFor(y)' = IssuedFor(y)
    BY DEF IssuedFor
  <2>3. issued' = issued \union {e}
    BY DEF Issue
  <2>4. issuedBar' = { IssuedFor(y) : y \in issued \union {e} }
    BY <2>2, <2>3 DEF issuedBar
  <2>5. QED
    BY <2>1, <2>4 DEF issuedBar
<1>4. QED
  BY <1>2, <1>3 DEF AcmePolicy!Certify

\* A validator's verdict gathers evidence, an issuance is backed by what was
\* gathered before, and the policy sees nothing else.
LEMMA AcmeStepAllowed ==
    ASSUME AcmeInv, [AcmeNext]_acmeVars
    PROVE  [AcmePolicy!PolicyNext]_(AcmePolicy!policyVars)
<1> DEFINE Allowed == [AcmePolicy!PolicyNext]_(AcmePolicy!policyVars)
           Silent == UNCHANGED <<ids, issued, proven>>
<1>1. ASSUME Silent PROVE Allowed
  BY <1>1, IssuancesStay DEF AcmePolicy!policyVars
<1>2. ASSUME NEW o \in Orders, NEW I \in SUBSET Idents, NewOrder(o, I)
      PROVE  Allowed
  <2>1. \A q \in Orders : status[q] # "none" => ids'[q] = ids[q]
    BY <1>2 DEF NewOrder, AcmeInv, AcmeTypeOK
  <2>2. UNCHANGED <<issued, proven>>
    BY <1>2 DEF NewOrder, taskVars
  <2>3. QED
    BY <2>1, <2>2, IssuancesStay DEF AcmePolicy!policyVars
<1>3. ASSUME NEW k \in Tasks, TaskStep(k)
      PROVE  Allowed
  <2>1. CASE ValidatorSucceeds(k)
    <3>1. UNCHANGED <<ids, issued>> /\ proven' = proven \union {target[k]}
      BY <2>1 DEF ValidatorSucceeds, orderVars
    <3>2. issuedBar' = issuedBar
      BY <3>1, IssuancesStay
    <3>3. QED
      BY <3>1, <3>2 DEF AcmePolicy!PolicyNext, AcmePolicy!Gather
  <2>2. CASE ~ValidatorSucceeds(k)
    <3>1. Silent
      BY <1>3, <2>2 DEF TaskStep, ChallengeValid, AuthorizationValid, ListAuthorizations,
         OrderReady, ValidatorFails, TaskError, ChallengeInvalid, AuthorizationInvalid,
         ErrorPathIgnored, orderVars
    <3>2. QED
      BY <1>1, <3>1
  <2>3. QED
    BY <2>1, <2>2
<1>4. ASSUME NEW h \in Handlers, FinalizeStep(h) \/ FinalizeFails(h)
      PROVE  Allowed
  <2>1. ASSUME NEW c \in Certs, IssueAnswered(h, c) \/ AnswerLost(h, c)
        PROVE  Allowed
    <3>1. hpc[h] = "attempt" /\ Issue(h, c) /\ UNCHANGED <<ids, proven>>
      BY <2>1 DEF IssueAnswered, AnswerLost, orderVars, taskVars
    <3>2. QED
      BY <3>1, IssueCertifies DEF AcmePolicy!PolicyNext
  <2>2. CASE ListForFinalize(h) \/ CheckIpChallenges(h) \/ OrderProcessing(h) \/ RollBack(h)
             \/ StoreCertificate(h) \/ OrderValid(h) \/ FinalizeFails(h)
    <3>1. Silent
      BY <2>2 DEF ListForFinalize, CheckIpChallenges, OrderProcessing, RollBack,
         StoreCertificate, OrderValid, FinalizeFails, orderVars, taskVars
    <3>2. QED
      BY <1>1, <3>1
  <2>3. ASSUME NEW r \in BOOLEAN, IssueFails(h, r)
        PROVE  Allowed
    <3>1. Silent
      BY <2>3 DEF IssueFails, orderVars, taskVars
    <3>2. QED
      BY <1>1, <3>1
  <2>4. QED
    BY <1>4, <2>1, <2>2, <2>3 DEF FinalizeStep
<1>5. ASSUME NEW o \in Orders, OrderStep(o)
      PROVE  Silent
  BY <1>5 DEF OrderStep, CreateAuthorization, CreateChallenge, OrderCreated, NewOrderFails,
     orderVars, taskVars
<1>6. ASSUME NEW c \in Challenges, RespondFails(c) \/ \E k \in Tasks : RespondToChallenge(c, k)
      PROVE  Silent
  BY <1>6 DEF RespondFails, RespondToChallenge, orderVars, taskVars
<1>7. ASSUME NEW h \in Handlers, NEW o \in Orders, NEW I \in SUBSET Idents, FinalizeOrder(h, o, I)
      PROVE  Silent
  BY <1>7 DEF FinalizeOrder, orderVars, taskVars
<1>8. ASSUME NEW b \in BOOLEAN, Restart(b)
      PROVE  Silent
  BY <1>8 DEF Restart, orderVars
<1>9. ASSUME UNCHANGED acmeVars PROVE Silent
  BY <1>9 DEF acmeVars, orderVars, taskVars
<1> HIDE DEF Allowed, Silent
<1>10. QED
  <2>1. Allowed
    BY <1>1, <1>2, <1>3, <1>4, <1>5, <1>6, <1>7, <1>8, <1>9 DEF AcmeNext
  <2>2. QED
    BY <2>1 DEF Allowed

\* The ACME server implements the issuance policy: whenever the CA issues for
\* an order all its identifiers have been validated by then, and neither a
\* verdict nor what a certificate was issued for ever changes.
THEOREM AcmeRefinesPolicy == AcmeSpec => AcmeImplementsPolicy
<1>1. AcmeInit => AcmePolicy!PolicyInit
  BY DEF AcmeInit, AcmePolicy!PolicyInit, issuedBar
<1>2. AcmeInv /\ [AcmeNext]_acmeVars => [AcmePolicy!PolicyNext]_(AcmePolicy!policyVars)
  BY AcmeStepAllowed
<1>3. QED
  BY <1>1, <1>2, AcmeInvariant, PTL
     DEF AcmeSpec, AcmeImplementsPolicy, AcmePolicy!PolicySpec
=============================================================================
