--------------------------- MODULE SessionsProofs ---------------------------
(* Proofs about Sessions for any number of users, sessions, calls and      *)
(* reapers and any configuration: SessionInv is inductive, and with it     *)
(* what it says of terminated sessions, of racing logins and of            *)
(* terminate_user_sessions holds in every reachable state.                 *)
EXTENDS Sessions, FiniteSetTheorems, TLAPS

\* Sets of sessions have a cardinality, and a subset has no greater one.
LEMMA SessionsCounted ==
    ASSUME NEW A \in SUBSET Sessions, NEW B \in SUBSET A
    PROVE  /\ IsFiniteSet(A)
           /\ Cardinality(A) \in Nat
           /\ Cardinality(B) \in Nat
           /\ Cardinality(B) <= Cardinality(A)
<1>1. IsFiniteSet(Sessions)
  BY SessionsAssumption
<1>2. IsFiniteSet(A)
  BY <1>1, FS_Subset
<1>3. IsFiniteSet(B) /\ Cardinality(B) <= Cardinality(A)
  BY <1>2, FS_Subset
<1>4. Cardinality(A) \in Nat /\ Cardinality(B) \in Nat
  BY <1>2, <1>3, FS_CardinalityType
<1> QED
  BY <1>2, <1>3, <1>4

\* The initial state satisfies the invariant.
LEMMA InitSessionInv == ASSUME Init PROVE SessionInv
<1>1. Absent \in Rows
  BY DEF Absent, Rows, Statuses, Terminal
<1>2. TypeOK
  BY <1>1 DEF Init, TypeOK, LoginPCs, CallPCs, Ops
<1>3. LoginInv
  BY DEF Init, LoginInv
<1>4. StoreInv /\ ExpiredInv /\ TerminateAllInv /\ TerminatedStaysDead
  BY DEF Init, StoreInv, ExpiredInv, TerminateAllInv, TerminatedStaysDead, Absent, Terminal
<1>5. LoginsWithinLimit
  <2>1. \A u \in Users : Active(u) \ left = {}
    BY DEF Init, Active, Absent
  <2> QED
    BY <2>1, FS_EmptySet, ConfigAssumption DEF LoginsWithinLimit
<1> QED
  BY <1>2, <1>3, <1>4, <1>5 DEF SessionInv

-----------------------------------------------------------------------------
(* Steps that leave the store alone.                                       *)

\* What the clock and the reapers' waiting leave alone.
LEMMA TimePasses ==
    ASSUME SessionInv, TypeOK', now' >= now,
           UNCHANGED <<storeVars, loginVars, callVars>>
    PROVE  SessionInv'
<1> USE DEF SessionInv, storeVars, loginVars, callVars
<1>0. now \in Nat /\ now' \in Nat /\ expires \in [Sessions -> Nat]
  BY DEF TypeOK
<1>1. LoginInv' /\ LoginsWithinLimit' /\ TerminatedStaysDead'
  BY DEF LoginInv, LoginsWithinLimit, TerminatedStaysDead, Active
<1>2. StoreInv'
  BY DEF StoreInv
<1>3. \A s \in Sessions : IsExpired(s) => IsExpired(s)'
  BY <1>0 DEF IsExpired
<1>4. ExpiredInv'
  BY <1>3 DEF ExpiredInv
<1>5. TerminateAllInv'
  BY <1>3 DEF TerminateAllInv, Gone, TypeOK
<1> QED
  BY <1>1, <1>2, <1>4, <1>5

\* Tick, WakeUp and SweepFails.
LEMMA QuietKeeps ==
    ASSUME SessionInv,
           Tick \/ (\E p \in Reapers : WakeUp(p) \/ SweepFails(p)) \/ UNCHANGED vars
    PROVE  SessionInv'
<1>0. TypeOK /\ now \in Nat
  BY DEF SessionInv, TypeOK
<1>1. CASE Tick
  <2>1. TypeOK' /\ now' >= now
    BY <1>0, <1>1 DEF Tick, TypeOK, storeVars, loginVars, callVars, reaperVars
  <2> QED
    BY <1>1, <2>1, TimePasses DEF Tick
<1>2. ASSUME NEW p \in Reapers, WakeUp(p) PROVE SessionInv'
  <2>1. TypeOK' /\ now' >= now
    BY <1>0, <1>2 DEF WakeUp, TypeOK, storeVars, loginVars, callVars
  <2> QED
    BY <1>2, <2>1, TimePasses DEF WakeUp
<1>3. ASSUME NEW p \in Reapers, SweepFails(p) PROVE SessionInv'
  <2>1. TypeOK' /\ now' >= now
    BY <1>0, <1>3 DEF SweepFails, TypeOK, storeVars, loginVars, callVars
  <2> QED
    BY <1>3, <2>1, TimePasses DEF SweepFails
<1>4. CASE UNCHANGED vars
  <2>1. UNCHANGED <<now, storeVars, loginVars, callVars, reaperVars>>
    BY <1>4 DEF vars
  <2>2. TypeOK' /\ now' >= now
    BY <1>0, <2>1 DEF TypeOK, storeVars, loginVars, callVars, reaperVars
  <2> QED
    BY <2>1, <2>2, TimePasses
<1> QED
  BY <1>1, <1>2, <1>3, <1>4

-----------------------------------------------------------------------------
(* Logins.                                                                 *)

\* A login that moves on without touching the store, taking the lock or
\* counting: BeginLogin and LoginFails.
LEMMA LoginMoves ==
    ASSUME SessionInv, NEW s \in Sessions, BeginLogin(s) \/ LoginFails(s)
    PROVE  SessionInv'
<1>0. TypeOK /\ LoginInv /\ StoreInv /\ ExpiredInv /\ TerminateAllInv
  BY DEF SessionInv
<1>1. /\ UNCHANGED <<now, store, dead, left, pc, op, todo, copy, known, sweep, cutoff>>
      /\ login[s] # "done"
      /\ \/ login' = [login EXCEPT ![s] = "waiting"]
         \/ login' = [login EXCEPT ![s] = "failed"] /\ login[s] # "new"
      /\ \/ expires' = [expires EXCEPT ![s] = now + AbsoluteTimeout]
         \/ UNCHANGED expires /\ login[s] # "new"
  BY DEF BeginLogin, LoginFails, storeVars, callVars, reaperVars
<1>2. TypeOK'
  BY <1>0, <1>1, ConfigAssumption DEF TypeOK, LoginPCs
<1>3. LoginInv'
  <2>1. \A u : Active(u)' = Active(u)
    BY <1>1 DEF Active
  <2>2. \A t \in Sessions : login'[t] \in {"holding", "counted"} => login'[t] = login[t]
    BY <1>0, <1>1 DEF TypeOK
  <2>3. \A t \in Sessions : login'[t] # "new" => AbsoluteTimeout <= expires'[t]
    BY <1>0, <1>1, ConfigAssumption DEF LoginInv, TypeOK
  <2> QED
    BY <1>0, <1>1, <2>1, <2>2, <2>3 DEF LoginInv
<1>4. StoreInv'
  BY <1>0, <1>1 DEF StoreInv, TypeOK
<1>5. \A t \in Sessions : t # s => IsExpired(t)' = IsExpired(t)
  BY <1>0, <1>1 DEF IsExpired, TypeOK
<1>6. store[s].status = "absent" /\ \A c \in Calls : s \notin todo[c] \union known[c]
  BY <1>0, <1>1 DEF StoreInv
<1>7. ExpiredInv'
  BY <1>0, <1>1, <1>5, <1>6 DEF ExpiredInv
<1>8. TerminateAllInv'
  <2>1. \A c \in Calls : \A t \in known[c] : Gone(t)' = Gone(t)
    BY <1>0, <1>1, <1>5, <1>6 DEF Gone, TypeOK
  <2> QED
    BY <1>0, <1>1, <2>1 DEF TerminateAllInv
<1>9. TerminatedStaysDead' /\ LoginsWithinLimit'
  BY <1>1 DEF SessionInv, TerminatedStaysDead, LoginsWithinLimit, Active
<1> QED
  BY <1>2, <1>3, <1>4, <1>7, <1>8, <1>9 DEF SessionInv

\* A login that takes the lock, or counts: only LoginInv is at stake.
LEMMA LoginInLock ==
    ASSUME SessionInv, NEW s \in Sessions, LockUser(s) \/ CountActive(s)
    PROVE  SessionInv'
<1>0. TypeOK /\ LoginInv /\ StoreInv /\ ExpiredInv /\ TerminateAllInv
  BY DEF SessionInv
<1>1. /\ UNCHANGED <<now, store, dead, left, expires, pc, op, todo, copy, known, sweep, cutoff>>
      /\ login[s] \in {"waiting", "holding"}
      /\ \E v \in {"holding", "failed", "counted"} : login' = [login EXCEPT ![s] = v]
  BY DEF LockUser, CountActive, storeVars, callVars, reaperVars
<1>2. TypeOK'
  BY <1>0, <1>1 DEF TypeOK, LoginPCs
<1>3. LoginInv'
  <2>0. \A u : Active(u)' = Active(u)
    BY <1>1 DEF Active
  <2>1. CASE LockUser(s)
    BY <1>0, <1>1, <2>0, <2>1 DEF LockUser, LoginInv, TypeOK
  <2>2. CASE CountActive(s) /\ login' = [login EXCEPT ![s] = "failed"]
    BY <1>0, <1>1, <2>0, <2>2 DEF LoginInv, TypeOK
  <2>3. CASE CountActive(s) /\ login' = [login EXCEPT ![s] = "counted"]
    <3>1. login[s] = "holding"
      BY <2>3 DEF CountActive
    <3>2. ~(Cardinality(Active(Owner[s])) >= MaxConcurrent)
      <4>1. login'[s] = "counted"
        BY <1>0, <2>3 DEF TypeOK
      <4>2. login'[s] = IF Cardinality(Active(Owner[s])) >= MaxConcurrent
                        THEN "failed" ELSE "counted"
        BY <1>0, <2>3 DEF TypeOK, CountActive
      <4> QED
        BY <4>1, <4>2
    <3>3. /\ Cardinality(Active(Owner[s]) \ left) \in Nat
          /\ Cardinality(Active(Owner[s])) \in Nat
          /\ Cardinality(Active(Owner[s]) \ left) <= Cardinality(Active(Owner[s]))
      <4>1. /\ Active(Owner[s]) \in SUBSET Sessions
            /\ Active(Owner[s]) \ left \in SUBSET Active(Owner[s])
        BY DEF Active
      <4> QED
        BY <4>1, SessionsCounted
    <3>4. Cardinality(Active(Owner[s]) \ left) < MaxConcurrent
      BY <3>2, <3>3, ConfigAssumption
    <3> QED
      BY <1>0, <1>1, <2>0, <2>3, <3>1, <3>4 DEF LoginInv, TypeOK
  <2> QED
    <3>1. ASSUME CountActive(s) PROVE \/ login' = [login EXCEPT ![s] = "failed"]
                                      \/ login' = [login EXCEPT ![s] = "counted"]
      BY <3>1 DEF CountActive
    <3> QED
      BY <2>1, <2>2, <2>3, <3>1
<1>4. StoreInv'
  BY <1>0, <1>1 DEF StoreInv, TypeOK
<1>5. ExpiredInv' /\ TerminateAllInv'
  BY <1>0, <1>1 DEF ExpiredInv, TerminateAllInv, IsExpired, Gone
<1>6. TerminatedStaysDead' /\ LoginsWithinLimit'
  BY <1>1 DEF SessionInv, TerminatedStaysDead, LoginsWithinLimit, Active
<1> QED
  BY <1>2, <1>3, <1>4, <1>5, <1>6 DEF SessionInv

\* The INSERT takes the place its login has counted.
LEMMA InsertKeeps ==
    ASSUME SessionInv, NEW s \in Sessions, InsertSession(s)
    PROVE  SessionInv'
<1>0. TypeOK /\ LoginInv /\ StoreInv /\ ExpiredInv /\ TerminateAllInv
      /\ TerminatedStaysDead /\ LoginsWithinLimit
  BY DEF SessionInv
<1>1. /\ UNCHANGED <<now, expires, pc, op, todo, copy, known, sweep, cutoff>>
      /\ login[s] = "counted"
      /\ login' = [login EXCEPT ![s] = "done"]
      /\ store' = [store EXCEPT ![s] = NewRow(s)]
      /\ Set([store EXCEPT ![s] = NewRow(s)])
  BY DEF InsertSession, Set, callVars, reaperVars
<1>2. NewRow(s) \in Rows /\ NewRow(s).status = "active"
  <2>1. expires[s] - AbsoluteTimeout \in Nat
    BY <1>0, <1>1, ConfigAssumption DEF LoginInv, TypeOK
  <2> QED
    BY <2>1 DEF NewRow, Rows, Statuses
<1>3. store[s].status = "absent" /\ s \notin dead \union left
      /\ \A c \in Calls : s \notin todo[c] \union known[c]
  BY <1>0, <1>1 DEF StoreInv
<1>4. dead' = dead /\ left' = left
  <2>1. \A t \in Sessions : store'[t] = IF t = s THEN NewRow(s) ELSE store[t]
    BY <1>0, <1>1 DEF TypeOK
  <2>2. dead' = dead \union { t \in Sessions : store'[t].status \in Terminal }
    BY <1>1 DEF Set
  <2>3. left' = left \union
          { t \in Sessions : store[t].status = "active" /\ store'[t].status # "active" }
    BY <1>1 DEF Set
  <2>4. \A t \in Sessions : store'[t].status \in Terminal => t \in dead
    BY <1>0, <1>2, <2>1 DEF StoreInv, Terminal
  <2>5. \A t \in Sessions : store[t].status = "active" => store'[t].status = "active"
    BY <1>2, <2>1
  <2> QED
    BY <2>2, <2>3, <2>4, <2>5
<1>5. TypeOK'
  BY <1>0, <1>1, <1>2, <1>4 DEF TypeOK, LoginPCs
<1>6. Active(Owner[s])' \ left' = (Active(Owner[s]) \ left) \union {s}
  BY <1>0, <1>1, <1>2, <1>3, <1>4 DEF Active, TypeOK
<1>7. \A u : u # Owner[s] => Active(u)' \ left' = Active(u) \ left
  BY <1>0, <1>1, <1>2, <1>3, <1>4 DEF Active, TypeOK
<1>8. Cardinality(Active(Owner[s])' \ left') <= MaxConcurrent
  <2> DEFINE A == Active(Owner[s]) \ left
  <2>1. A \in SUBSET Sessions /\ A \in SUBSET A
    BY DEF Active
  <2>2. IsFiniteSet(A) /\ Cardinality(A) \in Nat
    BY <2>1, SessionsCounted
  <2>3. Cardinality(A) < MaxConcurrent
    BY <1>0, <1>1 DEF LoginInv
  <2> HIDE DEF A
  <2>4. Cardinality(A \union {s}) = IF s \in A THEN Cardinality(A) ELSE Cardinality(A) + 1
    BY <2>2, FS_AddElement
  <2>5. Cardinality(A \union {s}) <= MaxConcurrent
    BY <2>2, <2>3, <2>4, ConfigAssumption
  <2> QED
    BY <1>6, <2>5 DEF A
<1>9. LoginsWithinLimit'
  BY <1>0, <1>7, <1>8 DEF LoginsWithinLimit
<1>10. LoginInv'
  <2>1. \A t \in Sessions : login'[t] = "counted" => login[t] = "counted" /\ Owner[t] # Owner[s]
    BY <1>0, <1>1 DEF LoginInv, TypeOK
  <2>2. \A t \in Sessions : login'[t] = "counted" =>
          Cardinality(Active(Owner[t])' \ left') < MaxConcurrent
    BY <1>0, <1>7, <2>1 DEF LoginInv
  <2>3. \A t \in Sessions : login'[t] # "new" => AbsoluteTimeout <= expires'[t]
    BY <1>0, <1>1 DEF LoginInv, TypeOK
  <2>4. \A t, v \in Sessions :
          /\ login'[t] \in {"holding", "counted"}
          /\ login'[v] \in {"holding", "counted"}
          /\ Owner[t] = Owner[v]
          => t = v
    BY <1>0, <1>1 DEF LoginInv, TypeOK
  <2> QED
    BY <2>2, <2>3, <2>4 DEF LoginInv
<1>11. StoreInv'
  BY <1>0, <1>1, <1>2, <1>4 DEF StoreInv, TypeOK, Terminal
<1>12. ExpiredInv'
  BY <1>0, <1>1, <1>2, <1>3 DEF ExpiredInv, IsExpired, TypeOK
<1>13. TerminateAllInv'
  BY <1>0, <1>1, <1>3, <1>4 DEF TerminateAllInv, Gone, IsExpired, TypeOK
<1>14. TerminatedStaysDead'
  BY <1>0, <1>1, <1>3, <1>4 DEF TerminatedStaysDead, TypeOK
<1> QED
  BY <1>5, <1>9, <1>10, <1>11, <1>12, <1>13, <1>14 DEF SessionInv

-----------------------------------------------------------------------------
(* Steps of calls that leave the store alone.                              *)

\* Such a step keeps everything but what the invariant says of the calls.
LEMMA CallFrame ==
    ASSUME SessionInv, UNCHANGED <<now, storeVars, loginVars, reaperVars>>,
           TypeOK', ExpiredInv', TerminateAllInv',
           \A s \in Sessions : login[s] # "done" =>
             \A c \in Calls : s \notin todo'[c] \union known'[c]
    PROVE  SessionInv'
<1>1. LoginInv' /\ LoginsWithinLimit' /\ TerminatedStaysDead'
  BY DEF SessionInv, LoginInv, LoginsWithinLimit, TerminatedStaysDead, Active,
     storeVars, loginVars
<1>2. StoreInv'
  BY DEF SessionInv, StoreInv, storeVars, loginVars
<1> QED
  BY <1>1, <1>2 DEF SessionInv

\* A call reads sessions that are stored.
LEMMA FetchKeeps ==
    ASSUME SessionInv, NEW c \in Calls, NEW o \in Ops, NEW S \in SUBSET Sessions,
           Fetch(c, o, S), UNCHANGED <<now, storeVars, loginVars, reaperVars>>,
           \A s \in S : store[s].status # "absent",
           known' \in [Calls -> SUBSET Sessions],
           \A d \in Calls \ {c} : known'[d] = known[d],
           \A s \in known'[c] : login[s] = "done",
           o = "terminate_all" /\ LockOnInactivity =>
             \A s \in known'[c] : s \in S \/ Gone(s)
    PROVE  SessionInv'
<1>0. TypeOK /\ StoreInv /\ ExpiredInv /\ TerminateAllInv
  BY DEF SessionInv
<1>1. /\ UNCHANGED <<now, store, dead, left, expires, login, sweep, cutoff>>
      /\ pc' = [pc EXCEPT ![c] = "got"]
      /\ op' = [op EXCEPT ![c] = o]
      /\ todo' = [todo EXCEPT ![c] = S]
      /\ copy' = [copy EXCEPT ![c] =
                    [s \in Sessions |-> IF s \in S THEN store[s] ELSE Absent]]
  BY DEF Fetch, storeVars, loginVars, reaperVars
<1>2. TypeOK'
  <2>1. Absent \in Rows
    BY DEF Absent, Rows, Statuses, Terminal
  <2>2. [s \in Sessions |-> IF s \in S THEN store[s] ELSE Absent] \in [Sessions -> Rows]
    BY <1>0, <2>1 DEF TypeOK
  <2>3. copy' \in [Calls -> [Sessions -> Rows]]
    BY <1>0, <1>1, <2>2 DEF TypeOK
  <2> QED
    BY <1>0, <1>1, <2>3 DEF TypeOK, CallPCs
<1>3. ExpiredInv'
  <2>1. \A s \in Sessions : IsExpired(s)' = IsExpired(s)
    BY <1>1 DEF IsExpired
  <2>2. \A s \in S : copy'[c][s] = store[s]
    BY <1>0, <1>1 DEF TypeOK
  <2>3. \A d \in Calls \ {c} : todo'[d] = todo[d] /\ copy'[d] = copy[d]
    BY <1>0, <1>1 DEF TypeOK
  <2>4. todo'[c] = S
    BY <1>0, <1>1 DEF TypeOK
  <2>5. store' = store
    BY <1>1
  <2>6. ASSUME LockOnInactivity, NEW s \in Sessions, NEW d \in Calls,
               s \in todo'[d], copy'[d][s].status = "expired"
        PROVE  IsExpired(s)
    <3>1. CASE d = c
      BY <1>0, <2>2, <2>4, <2>6, <3>1 DEF ExpiredInv
    <3>2. CASE d # c
      BY <1>0, <2>3, <2>6, <3>2 DEF ExpiredInv
    <3> QED
      BY <3>1, <3>2
  <2> QED
    BY <1>0, <2>1, <2>5, <2>6 DEF ExpiredInv
<1>4. TerminateAllInv'
  <2>1. \A s \in Sessions : Gone(s)' = Gone(s)
    BY <1>1 DEF Gone, IsExpired
  <2>2. \A d \in Calls \ {c} : /\ pc'[d] = pc[d]
                               /\ op'[d] = op[d]
                               /\ todo'[d] = todo[d]
                               /\ copy'[d] = copy[d]
                               /\ known'[d] = known[d]
    BY <1>0, <1>1 DEF TypeOK
  <2>3. pc'[c] = "got" /\ op'[c] = o /\ todo'[c] = S
    BY <1>0, <1>1 DEF TypeOK
  <2>4. \A d \in Calls : known[d] \subseteq Sessions /\ known'[d] \subseteq Sessions
    BY <1>0 DEF TypeOK
  <2> QED
    BY <1>0, <1>1, <2>1, <2>2, <2>3, <2>4 DEF TerminateAllInv
<1>5. \A s \in Sessions : login[s] # "done" =>
        \A d \in Calls : s \notin todo'[d] \union known'[d]
  <2>1. \A d \in Calls \ {c} : todo'[d] = todo[d] /\ known'[d] = known[d]
    BY <1>0, <1>1 DEF TypeOK
  <2>2. todo'[c] = S
    BY <1>0, <1>1 DEF TypeOK
  <2> QED
    BY <1>0, <2>1, <2>2 DEF StoreInv
<1> QED
  BY <1>2, <1>3, <1>4, <1>5, CallFrame

\* get_by_token, get_by_id and list_active_for_user.
LEMMA ReadKeeps ==
    ASSUME SessionInv, NEW c \in Calls,
           \/ \E s \in Sessions, o \in Ops \ {"terminate_all"} : Get(c, o, s)
           \/ \E u \in Users : List(c, u)
    PROVE  SessionInv'
<1>0. TypeOK /\ StoreInv /\ ExpiredInv
  BY DEF SessionInv
<1>1. ASSUME NEW s \in Sessions, NEW o \in Ops \ {"terminate_all"}, Get(c, o, s)
      PROVE  SessionInv'
  <2>1. /\ Fetch(c, o, {s})
        /\ UNCHANGED <<now, storeVars, loginVars, reaperVars>>
        /\ known' = known
        /\ store[s].status # "absent"
    BY <1>1 DEF Get
  <2>2. known \in [Calls -> SUBSET Sessions]
    BY <1>0 DEF TypeOK
  <2>3. \A t \in known'[c] : login[t] = "done"
    BY <1>0, <2>1, <2>2 DEF StoreInv
  <2> QED
    BY <2>1, <2>2, <2>3, FetchKeeps
<1>2. ASSUME NEW u \in Users, List(c, u) PROVE SessionInv'
  <2> DEFINE K == { s \in Sessions : Owner[s] = u /\ store[s].status # "absent" }
  <2>1. /\ Fetch(c, "terminate_all", Listed(u))
        /\ UNCHANGED <<now, storeVars, loginVars, reaperVars>>
        /\ known' = [known EXCEPT ![c] = K]
    BY <1>2 DEF List
  <2>2. /\ known' \in [Calls -> SUBSET Sessions]
        /\ known'[c] = K
        /\ \A d \in Calls \ {c} : known'[d] = known[d]
    BY <1>0, <2>1 DEF TypeOK
  <2>3. Listed(u) \in SUBSET Sessions /\ \A s \in Listed(u) : store[s].status # "absent"
    BY DEF Listed
  <2>4. \A s \in K : login[s] = "done"
    BY <1>0 DEF StoreInv
  <2>5. \A s \in Sessions : store[s].status \in Statuses
    BY <1>0 DEF TypeOK, Rows
  <2>6. ASSUME LockOnInactivity PROVE \A s \in K : s \in Listed(u) \/ Gone(s)
    BY <1>0, <2>5, <2>6 DEF Listed, Gone, StoreInv, ExpiredInv, Statuses
  <2>7. "terminate_all" \in Ops
    BY DEF Ops
  <2> QED
    BY <2>1, <2>2, <2>3, <2>4, <2>6, <2>7, FetchKeeps
<1> QED
  BY <1>1, <1>2

\* What a call decides: a row, terminal for a termination, and expired only
\* past expires_at when idle sessions are locked.
LEMMA DecidedRow ==
    ASSUME TypeOK, ExpiredInv, NEW c \in Calls, NEW s \in todo[c]
    PROVE  /\ Decided(c, s) \in Rows
           /\ op[c] = "terminate_all" => Decided(c, s).status \in Terminal
           /\ LockOnInactivity /\ Decided(c, s).status = "expired" => IsExpired(s)
<1> DEFINE row == copy[c][s]
<1>1. /\ s \in Sessions
      /\ row \in Rows
      /\ now \in Nat
      /\ op[c] \in Ops
      /\ LockOnInactivity /\ row.status = "expired" => IsExpired(s)
  BY DEF TypeOK, ExpiredInv
<1>2. row.status \in Statuses /\ row.last_activity \in Nat
  BY <1>1 DEF Rows
<1>3. \A st \in Statuses, n \in Nat : [status |-> st, last_activity |-> n] \in Rows
  BY DEF Rows
<1> HIDE DEF row
<1>4. /\ Evaluate(s, row) \in Rows
      /\ LockOnInactivity /\ Evaluate(s, row).status = "expired" => IsExpired(s)
  BY <1>1, <1>2, <1>3 DEF Evaluate, Statuses, Terminal
<1>5. /\ Unlocked(row) \in Rows
      /\ LockOnInactivity /\ Unlocked(row).status = "expired" => IsExpired(s)
  BY <1>1, <1>2, <1>3 DEF Unlocked, Statuses, Terminal
<1>6. CASE op[c] = "validate"
  <2>1. Decided(c, s) = Evaluate(s, row)
    BY <1>6 DEF Decided, row
  <2> QED
    BY <1>4, <1>6, <2>1
<1>7. CASE op[c] = "unlock"
  <2>1. Decided(c, s) = Unlocked(row)
    BY <1>7 DEF Decided, row
  <2> QED
    BY <1>5, <1>7, <2>1
<1>8. CASE op[c] \in {"terminate", "terminate_all"}
  <2>1. Decided(c, s) = [status |-> "terminated", last_activity |-> row.last_activity]
    BY <1>8 DEF Decided, row
  <2> QED
    BY <1>2, <1>3, <2>1 DEF Statuses, Terminal
<1>9. CASE op[c] = "admin_terminate"
  <2>1. Decided(c, s) = [status |-> "admin_terminated", last_activity |-> row.last_activity]
    BY <1>9 DEF Decided, row
  <2> QED
    BY <1>2, <1>3, <1>9, <2>1 DEF Statuses, Terminal
<1> QED
  BY <1>1, <1>6, <1>7, <1>8, <1>9 DEF Ops

\* The call decides on its copies.
LEMMA DecideKeeps == ASSUME SessionInv, NEW c \in Calls, Decide(c) PROVE SessionInv'
<1>0. TypeOK /\ StoreInv /\ ExpiredInv /\ TerminateAllInv
  BY DEF SessionInv
<1> DEFINE C == [s \in Sessions |-> IF s \in todo[c] THEN Decided(c, s) ELSE Absent]
           T == IF op[c] \in {"validate", "unlock"}
                THEN { s \in todo[c] : Decided(c, s) # copy[c][s] } ELSE todo[c]
<1>1. /\ UNCHANGED <<now, store, dead, left, expires, login, sweep, cutoff, op, known>>
      /\ pc[c] = "got"
      /\ pc' = [pc EXCEPT ![c] = "write"]
      /\ copy' = [copy EXCEPT ![c] = C]
      /\ todo' = [todo EXCEPT ![c] = T]
  BY DEF Decide, storeVars, loginVars, reaperVars
<1>2. /\ T \subseteq todo[c]
      /\ op[c] = "terminate_all" => T = todo[c]
      /\ todo[c] \subseteq Sessions
  BY <1>0 DEF TypeOK
<1>3. C \in [Sessions -> Rows]
  <2>1. Absent \in Rows
    BY DEF Absent, Rows, Statuses, Terminal
  <2>2. \A s \in todo[c] : Decided(c, s) \in Rows
    BY <1>0, DecidedRow
  <2> QED
    BY <2>1, <2>2
<1>4. \A s \in T : C[s] = Decided(c, s)
  BY <1>2
<1> HIDE DEF C, T
<1>5. /\ \A d \in Calls \ {c} : pc'[d] = pc[d] /\ todo'[d] = todo[d] /\ copy'[d] = copy[d]
      /\ pc'[c] = "write" /\ todo'[c] = T /\ copy'[c] = C
  BY <1>0, <1>1 DEF TypeOK
<1>6. TypeOK'
  <2>1. todo' \in [Calls -> SUBSET Sessions] /\ copy' \in [Calls -> [Sessions -> Rows]]
    BY <1>0, <1>1, <1>2, <1>3 DEF TypeOK
  <2> QED
    BY <1>0, <1>1, <2>1 DEF TypeOK, CallPCs
<1>7. ExpiredInv'
  <2>1. \A s \in Sessions : IsExpired(s)' = IsExpired(s)
    BY <1>1 DEF IsExpired
  <2>2. \A s \in T : LockOnInactivity /\ C[s].status = "expired" => IsExpired(s)
    BY <1>0, <1>2, <1>4, DecidedRow
  <2> QED
    BY <1>0, <1>1, <1>5, <2>1, <2>2 DEF ExpiredInv
<1>8. TerminateAllInv'
  <2>1. \A s \in Sessions : Gone(s)' = Gone(s)
    BY <1>1 DEF Gone, IsExpired
  <2>2. op[c] = "terminate_all" => \A s \in T : C[s].status \in Terminal
    BY <1>0, <1>2, <1>4, DecidedRow
  <2>3. \A d \in Calls : known[d] \subseteq Sessions
    BY <1>0 DEF TypeOK
  <2> QED
    BY <1>0, <1>1, <1>2, <1>5, <2>1, <2>2, <2>3 DEF TerminateAllInv
<1>9. \A s \in Sessions : login[s] # "done" =>
        \A d \in Calls : s \notin todo'[d] \union known'[d]
  BY <1>0, <1>1, <1>2, <1>5 DEF StoreInv
<1>10. UNCHANGED <<now, storeVars, loginVars, reaperVars>>
  BY DEF Decide
<1> QED
  BY <1>6, <1>7, <1>8, <1>9, <1>10, CallFrame

\* A call ends.
LEMMA EndKeeps ==
    ASSUME SessionInv, NEW c \in Calls, Return(c) \/ CallFails(c)
    PROVE  SessionInv'
<1>0. TypeOK /\ StoreInv /\ ExpiredInv /\ TerminateAllInv
  BY DEF SessionInv
<1>1. /\ UNCHANGED <<now, store, dead, left, expires, login, sweep, cutoff>>
      /\ \/ pc' = [pc EXCEPT ![c] = "done"] /\ pc[c] = "write" /\ todo[c] = {}
         \/ pc' = [pc EXCEPT ![c] = "failed"]
      /\ \E o \in {op[c], "validate"} : op' = [op EXCEPT ![c] = o]
      /\ \E S \in {known[c], {}} : known' = [known EXCEPT ![c] = S]
      /\ todo' = [todo EXCEPT ![c] = {}]
      /\ copy' = [copy EXCEPT ![c] = [s \in Sessions |-> Absent]]
  BY DEF Return, CallFails, End, storeVars, loginVars, reaperVars
<1>2. TypeOK'
  <2>1. [s \in Sessions |-> Absent] \in [Sessions -> Rows]
    BY DEF Absent, Rows, Statuses, Terminal
  <2>2. copy' \in [Calls -> [Sessions -> Rows]]
    BY <1>0, <1>1, <2>1 DEF TypeOK
  <2>3. op' \in [Calls -> Ops]
    BY <1>0, <1>1 DEF TypeOK, Ops
  <2>4. known' \in [Calls -> SUBSET Sessions]
    BY <1>0, <1>1 DEF TypeOK
  <2>5. pc' \in [Calls -> CallPCs] /\ todo' \in [Calls -> SUBSET Sessions]
    BY <1>0, <1>1 DEF TypeOK, CallPCs
  <2> QED
    BY <1>0, <1>1, <2>2, <2>3, <2>4, <2>5 DEF TypeOK
<1>3. /\ \A d \in Calls \ {c} : pc'[d] = pc[d] /\ todo'[d] = todo[d] /\ copy'[d] = copy[d]
      /\ \A d \in Calls \ {c} : op'[d] = op[d] /\ known'[d] = known[d]
      /\ op'[c] \in {op[c], "validate"} /\ known'[c] \in {known[c], {}}
      /\ todo'[c] = {}
      /\ \/ pc'[c] = "done" /\ pc[c] = "write" /\ todo[c] = {}
         \/ pc'[c] = "failed"
  BY <1>0, <1>1 DEF TypeOK
<1>4. ExpiredInv'
  BY <1>0, <1>1, <1>3 DEF ExpiredInv, IsExpired
<1>5. TerminateAllInv'
  <2>1. \A s \in Sessions : Gone(s)' = Gone(s)
    BY <1>1 DEF Gone, IsExpired
  <2>2. \A d \in Calls : known[d] \subseteq Sessions
    BY <1>0 DEF TypeOK
  <2> QED
    BY <1>0, <1>1, <1>3, <2>1, <2>2 DEF TerminateAllInv
<1>6. \A s \in Sessions : login[s] # "done" =>
        \A d \in Calls : s \notin todo'[d] \union known'[d]
  BY <1>0, <1>1, <1>3 DEF StoreInv
<1>7. UNCHANGED <<now, storeVars, loginVars, reaperVars>>
  BY DEF Return, CallFails, End
<1> QED
  BY <1>2, <1>4, <1>5, <1>6, <1>7, CallFrame

-----------------------------------------------------------------------------
(* Steps that change the stored sessions.                                  *)

\* A change of rows that creates none, spares the dead, and marks a session
\* expired only past expires_at when idle sessions are locked. It keeps what
\* the invariant says of the store, provided that no call loses sight of a
\* session.
LEMMA SetKeeps ==
    ASSUME SessionInv, NEW rows \in [Sessions -> Rows], Set(rows),
           UNCHANGED <<now, expires, login, pc, op, copy, known>>,
           \A s \in Sessions : store[s].status = "absent" => rows[s].status = "absent",
           \A s \in dead : rows[s].status \in Terminal \union {"absent"},
           LockOnInactivity => \A s \in Sessions :
             rows[s].status = "expired" => store[s].status = "expired" \/ IsExpired(s),
           TypeOK',
           \A c \in Calls : todo'[c] \subseteq todo[c],
           \A c \in Calls : op[c] = "terminate_all" =>
             \A s \in known[c] : s \in todo[c] \ todo'[c] => Gone(s)'
    PROVE  SessionInv'
<1>0. TypeOK /\ LoginInv /\ StoreInv /\ ExpiredInv /\ TerminateAllInv
      /\ TerminatedStaysDead /\ LoginsWithinLimit
  BY DEF SessionInv
<1>1. /\ store' = rows
      /\ dead' = dead \union { s \in Sessions : rows[s].status \in Terminal }
      /\ left' = left \union
           { s \in Sessions : store[s].status = "active" /\ rows[s].status # "active" }
  BY DEF Set
<1>2. \A s \in Sessions : IsExpired(s)' = IsExpired(s)
  BY DEF IsExpired
<1>3. \A s \in Sessions : login[s] # "done" => rows[s].status = "absent"
  BY <1>0 DEF StoreInv
<1>4. \A u : Active(u)' \ left' \subseteq Active(u) \ left
  <2>1. \A s \in Sessions : rows[s].status = "active" => store[s].status = "active" \/ s \in left
    BY <1>0, <1>3 DEF StoreInv
  <2> QED
    BY <1>1, <2>1 DEF Active
<1>5. \A u : /\ Cardinality(Active(u) \ left) \in Nat
             /\ Cardinality(Active(u)' \ left') \in Nat
             /\ Cardinality(Active(u)' \ left') <= Cardinality(Active(u) \ left)
  <2> TAKE u
  <2>1. /\ Active(u) \ left \in SUBSET Sessions
        /\ Active(u)' \ left' \in SUBSET (Active(u) \ left)
    BY <1>4 DEF Active
  <2> QED
    BY <2>1, SessionsCounted
<1>6. LoginInv'
  <2>1. ASSUME NEW s \in Sessions, login[s] = "counted"
        PROVE  Cardinality(Active(Owner[s])' \ left') < MaxConcurrent
    <3>1. Cardinality(Active(Owner[s]) \ left) < MaxConcurrent
      BY <1>0, <2>1 DEF LoginInv
    <3>2. /\ Cardinality(Active(Owner[s]) \ left) \in Nat
          /\ Cardinality(Active(Owner[s])' \ left') \in Nat
          /\ Cardinality(Active(Owner[s])' \ left') <= Cardinality(Active(Owner[s]) \ left)
      BY <1>5
    <3> QED
      BY <3>1, <3>2, ConfigAssumption
  <2> QED
    BY <1>0, <2>1 DEF LoginInv
<1>7. LoginsWithinLimit'
  <2>1. ASSUME NEW u \in Users
        PROVE  Cardinality(Active(u)' \ left') <= MaxConcurrent
    <3>1. Cardinality(Active(u) \ left) <= MaxConcurrent
      BY <1>0 DEF LoginsWithinLimit
    <3>2. /\ Cardinality(Active(u) \ left) \in Nat
          /\ Cardinality(Active(u)' \ left') \in Nat
          /\ Cardinality(Active(u)' \ left') <= Cardinality(Active(u) \ left)
      BY <1>5
    <3> QED
      BY <3>1, <3>2, ConfigAssumption
  <2> QED
    BY <2>1 DEF LoginsWithinLimit
<1>8. TerminatedStaysDead'
  BY <1>1 DEF TerminatedStaysDead
<1>9. StoreInv'
  <2> SUFFICES ASSUME NEW s \in Sessions
               PROVE  /\ login[s] # "done" =>
                           /\ rows[s].status = "absent"
                           /\ s \notin dead' \union left'
                           /\ \A c \in Calls : s \notin todo'[c] \union known[c]
                      /\ login[s] = "done" => rows[s].status = "active" \/ s \in left'
                      /\ rows[s].status \in Terminal => s \in dead'
    BY <1>1 DEF StoreInv
  <2>1. CASE login[s] # "done"
    <3>1. rows[s].status = "absent" /\ store[s].status = "absent" /\ s \notin dead \union left
      BY <1>0, <1>3, <2>1 DEF StoreInv
    <3>2. \A c \in Calls : s \notin todo'[c] \union known[c]
      BY <1>0, <2>1 DEF StoreInv
    <3> QED
      BY <1>1, <2>1, <3>1, <3>2 DEF Terminal
  <2>2. CASE login[s] = "done"
    BY <1>0, <1>1, <2>2 DEF StoreInv
  <2> QED
    BY <2>1, <2>2
<1>10. ExpiredInv'
  <2>1. LockOnInactivity => \A s \in Sessions : store'[s].status = "expired" => IsExpired(s)
    BY <1>0, <1>1 DEF ExpiredInv
  <2>2. LockOnInactivity => \A s \in Sessions : \A c \in Calls :
          s \in todo'[c] /\ copy'[c][s].status = "expired" => IsExpired(s)
    BY <1>0 DEF ExpiredInv
  <2> QED
    BY <1>2, <2>1, <2>2 DEF ExpiredInv
<1>11. TerminateAllInv'
  <2>1. \A s \in Sessions : Gone(s) => Gone(s)'
    BY <1>1, <1>2 DEF Gone
  <2>2. \A c \in Calls : known[c] \subseteq Sessions
    BY <1>0 DEF TypeOK
  <2>3. ASSUME NEW c \in Calls, op[c] = "terminate_all",
               LockOnInactivity, pc[c] \in {"got", "write", "done"}, NEW s \in known[c]
        PROVE  s \in todo'[c] \/ Gone(s)'
    <3>1. s \in todo[c] \/ Gone(s)
      BY <1>0, <2>3 DEF TerminateAllInv
    <3> QED
      BY <2>1, <2>2, <2>3, <3>1
  <2>4. ASSUME NEW c \in Calls, op[c] = "terminate_all"
        PROVE  /\ pc[c] = "write" => \A s \in todo'[c] : copy[c][s].status \in Terminal
               /\ pc[c] = "done" => todo'[c] = {}
    BY <1>0, <2>4 DEF TerminateAllInv
  <2> QED
    BY <2>3, <2>4 DEF TerminateAllInv
<1> QED
  BY <1>6, <1>7, <1>8, <1>9, <1>10, <1>11 DEF SessionInv

\* update writes a copy back.
LEMMA UpdateKeeps ==
    ASSUME SessionInv, NEW c \in Calls, NEW s \in Sessions, Update(c, s)
    PROVE  SessionInv'
<1>0. TypeOK /\ StoreInv /\ ExpiredInv /\ TerminateAllInv /\ TerminatedStaysDead
  BY DEF SessionInv
<1> DEFINE row == copy[c][s]
           rows == Updated(s, copy[c][s])
<1>1. /\ UNCHANGED <<now, expires, login, pc, op, copy, known, sweep, cutoff>>
      /\ pc[c] = "write"
      /\ s \in todo[c]
      /\ Set(rows)
      /\ todo' = [todo EXCEPT ![c] = todo[c] \ {s}]
  BY DEF Update, loginVars, reaperVars
<1>2. /\ row \in Rows
      /\ store \in [Sessions -> Rows]
      /\ LockOnInactivity /\ row.status = "expired" => IsExpired(s)
      /\ op[c] = "terminate_all" => row.status \in Terminal
  BY <1>0, <1>1 DEF TypeOK, ExpiredInv, TerminateAllInv
<1>3. \/ rows = store /\ store[s].status = "absent"
      \/ rows = store /\ store[s].status \in Terminal /\ row.status \notin Terminal
      \/ /\ rows = [store EXCEPT ![s] = row]
         /\ store[s].status # "absent"
         /\ store[s].status \in Terminal => row.status \in Terminal
  BY DEF Updated
<1> HIDE DEF row, rows
<1>4. rows \in [Sessions -> Rows] /\ \A t \in Sessions : t # s => rows[t] = store[t]
  BY <1>2, <1>3
<1>5. \/ rows[s] = store[s]
      \/ /\ rows[s] = row
         /\ store[s].status # "absent"
         /\ store[s].status \in Terminal => row.status \in Terminal
  BY <1>2, <1>3
<1>6. \A t \in Sessions : store[t].status = "absent" => rows[t].status = "absent"
  BY <1>4, <1>5
<1>7. \A t \in dead : rows[t].status \in Terminal \union {"absent"}
  <2>1. dead \subseteq Sessions
    BY <1>0 DEF TypeOK
  <2> QED
    BY <1>0, <1>4, <1>5, <2>1 DEF TerminatedStaysDead
<1>8. LockOnInactivity => \A t \in Sessions :
        rows[t].status = "expired" => store[t].status = "expired" \/ IsExpired(t)
  BY <1>2, <1>4, <1>5
<1>9. store' = rows /\ dead' = dead \union { t \in Sessions : rows[t].status \in Terminal }
  BY <1>1 DEF Set
<1>10. TypeOK'
  <2>1. dead' \subseteq Sessions /\ left' \subseteq Sessions
    BY <1>0, <1>1 DEF TypeOK, Set
  <2>2. todo' \in [Calls -> SUBSET Sessions]
    BY <1>0, <1>1 DEF TypeOK
  <2> QED
    BY <1>0, <1>1, <1>4, <1>9, <2>1, <2>2 DEF TypeOK
<1>11. \A d \in Calls : todo'[d] \subseteq todo[d] /\ todo[d] \ todo'[d] \subseteq {s}
       /\ (d # c => todo'[d] = todo[d])
  BY <1>0, <1>1 DEF TypeOK
<1>12. op[c] = "terminate_all" => Gone(s)'
  <2>1. ASSUME op[c] = "terminate_all"
        PROVE  rows[s].status = "absent" \/ rows[s].status \in Terminal
    BY <1>2, <1>3, <2>1
  <2> QED
    BY <1>9, <2>1 DEF Gone
<1>13. \A d \in Calls : op[d] = "terminate_all" =>
         \A t \in known[d] : t \in todo[d] \ todo'[d] => Gone(t)'
  BY <1>11, <1>12
<1> QED
  BY <1>1, <1>4, <1>6, <1>7, <1>8, <1>10, <1>11, <1>13, SetKeeps

\* lock_idle and delete_expired.
LEMMA SweepKeeps ==
    ASSUME SessionInv, NEW p \in Reapers, LockIdle(p) \/ DeleteExpired(p)
    PROVE  SessionInv'
<1>0. TypeOK /\ StoreInv /\ ExpiredInv /\ TerminateAllInv /\ TerminatedStaysDead
  BY DEF SessionInv
<1> DEFINE Idle(s) == store[s].status = "active" /\ store[s].last_activity + IdleTimeout < cutoff[p]
           locked == [s \in Sessions |->
                        IF Idle(s)
                        THEN [status |-> "locked", last_activity |-> store[s].last_activity]
                        ELSE store[s]]
           reaped == [s \in Sessions |-> IF Reapable(s) THEN Absent ELSE store[s]]
<1>1. /\ UNCHANGED <<now, expires, login, pc, op, copy, known, todo>>
      /\ cutoff' = cutoff \/ cutoff' = [cutoff EXCEPT ![p] = 0]
      /\ Set(locked) \/ Set(reaped)
      /\ sweep' = [sweep EXCEPT ![p] = "delete"] \/ sweep' = [sweep EXCEPT ![p] = "sleep"]
  BY DEF LockIdle, DeleteExpired, loginVars, callVars
<1>2. store \in [Sessions -> Rows] /\ dead \subseteq Sessions
  BY <1>0 DEF TypeOK
<1>3. /\ locked \in [Sessions -> Rows]
      /\ \A s \in Sessions :
           locked[s] = store[s] \/ (store[s].status = "active" /\ locked[s].status = "locked")
  <2>1. \A s \in Sessions : [status |-> "locked", last_activity |-> store[s].last_activity] \in Rows
    BY <1>2 DEF Rows, Statuses
  <2>2. \A s \in Sessions : store[s] \in Rows
    BY <1>2
  <2> HIDE DEF Idle
  <2>3. locked \in [Sessions -> Rows]
    BY <2>1, <2>2
  <2>4. \A s \in Sessions : locked[s] = store[s] \/ (Idle(s) /\ locked[s].status = "locked")
    BY <2>1, <2>2
  <2> QED
    BY <2>3, <2>4 DEF Idle
<1>4. /\ reaped \in [Sessions -> Rows]
      /\ \A s \in Sessions : reaped[s] = store[s] \/ reaped[s].status = "absent"
  <2>1. Absent \in Rows /\ Absent.status = "absent"
    BY DEF Absent, Rows, Statuses
  <2> QED
    BY <1>2, <2>1
<1> HIDE DEF locked, reaped
<1>5. PICK rows \in {locked, reaped} : Set(rows)
  BY <1>1
<1>6. /\ rows \in [Sessions -> Rows]
      /\ \A s \in Sessions : \/ rows[s] = store[s]
                             \/ rows[s].status = "absent"
                             \/ store[s].status = "active" /\ rows[s].status = "locked"
  BY <1>3, <1>4, <1>5
<1>7. \A s \in Sessions : store[s].status = "absent" => rows[s].status = "absent"
  BY <1>6
<1>8. \A s \in dead : rows[s].status \in Terminal \union {"absent"}
  BY <1>0, <1>2, <1>6 DEF TerminatedStaysDead, Terminal
<1>9. LockOnInactivity => \A s \in Sessions :
        rows[s].status = "expired" => store[s].status = "expired" \/ IsExpired(s)
  BY <1>6
<1>10. TypeOK'
  <2>1. dead' \subseteq Sessions /\ left' \subseteq Sessions /\ store' = rows
    BY <1>0, <1>5 DEF TypeOK, Set
  <2>2. sweep' \in [Reapers -> {"sleep", "lock", "delete"}]
    BY <1>0, <1>1 DEF TypeOK
  <2> QED
    BY <1>0, <1>1, <1>6, <2>1, <2>2 DEF TypeOK
<1> QED
  BY <1>1, <1>5, <1>6, <1>7, <1>8, <1>9, <1>10, SetKeeps

-----------------------------------------------------------------------------
\* Every step keeps the invariant.
LEMMA NextKeeps == ASSUME SessionInv, [Next]_vars PROVE SessionInv'
<1>1. CASE Tick \/ UNCHANGED vars
  BY <1>1, QuietKeeps
<1>2. ASSUME NEW s \in Sessions, LoginStep(s) PROVE SessionInv'
  BY <1>2, LoginMoves, LoginInLock, InsertKeeps DEF LoginStep
<1>3. ASSUME NEW c \in Calls, CallStep(c) PROVE SessionInv'
  BY <1>3, ReadKeeps, DecideKeeps, UpdateKeeps, EndKeeps DEF CallStep
<1>4. ASSUME NEW p \in Reapers, ReaperStep(p) PROVE SessionInv'
  BY <1>4, QuietKeeps, SweepKeeps DEF ReaperStep
<1> QED
  BY <1>1, <1>2, <1>3, <1>4 DEF Next

\* SessionInv holds in every reachable state of SessionManager over the shared
\* store.
THEOREM SessionInvariant == Spec => []SessionInv
<1>1. Init => SessionInv
  BY InitSessionInv
<1>2. SessionInv /\ [Next]_vars => SessionInv'
  BY NextKeeps
<1> QED
  BY <1>1, <1>2, PTL DEF Spec

\* A terminated session stays dead (AC-12), whatever calls and sweeps are in
\* flight: the guard of DbSessionStore::update suffices.
THEOREM TerminationFinal == Spec => []TerminatedStaysDead
<1>1. SessionInv => TerminatedStaysDead
  BY DEF SessionInv
<1> QED
  BY <1>1, SessionInvariant, PTL

\* Racing logins of a user keep max_concurrent_sessions (FTA_MCS.1): the
\* advisory lock of DbSessionStore::create suffices.
THEOREM RacingLoginsLimited == Spec => []LoginsWithinLimit
<1>1. SessionInv => LoginsWithinLimit
  BY DEF SessionInv
<1> QED
  BY <1>1, SessionInvariant, PTL

\* When terminate_user_sessions has returned, no session it was to end can be
\* used (FTA_SSL.3).
THEOREM TerminateAllFinal == Spec => []TerminateAllComplete
<1>1. SessionInv => TerminateAllComplete
  <2> SUFFICES ASSUME SessionInv, LockOnInactivity, NEW c \in Calls,
                      op[c] = "terminate_all", pc[c] = "done", NEW s \in known[c]
               PROVE  ~Usable(s)
    BY DEF TerminateAllComplete
  <2>1. s \in Sessions
    BY DEF SessionInv, TypeOK
  <2>2. Gone(s)
    BY DEF SessionInv, TerminateAllInv
  <2> QED
    BY <2>1, <2>2 DEF SessionInv, TerminatedStaysDead, Gone, Usable, Terminal
<1> QED
  BY <1>1, SessionInvariant, PTL
=============================================================================
