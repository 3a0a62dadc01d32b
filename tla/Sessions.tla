------------------------------ MODULE Sessions ------------------------------
(***************************************************************************)
(* User sessions: SessionManager (crates/ostrich-common/src/auth/          *)
(* session.rs) over the DbSessionStore that all services share             *)
(* (crates/ostrich-db/src/repository/session.rs).                          *)
(*                                                                         *)
(* A call reads a session, decides on its copy and writes the copy back;   *)
(* other calls, the reaper and the clock move between these steps.         *)
(***************************************************************************)
EXTENDS Naturals, FiniteSets

CONSTANTS
    Users,
    Sessions,           \* ids, each with the one login that may create it
    Owner,              \* the user of each session
    Calls,              \* calls on existing sessions
    Reapers,            \* the services, each with its own reaper
    MaxConcurrent,      \* max_concurrent_sessions
    IdleTimeout,        \* inactivity_timeout_secs
    AbsoluteTimeout,    \* absolute_timeout_secs
    PersistAfter,       \* idle time from which a touch is written
    LockOnInactivity,   \* lock_on_inactivity
    MaxTime             \* the clock stops here

ASSUME SessionsAssumption == IsFiniteSet(Sessions) /\ Owner \in [Sessions -> Users]
ASSUME ConfigAssumption ==
    /\ MaxConcurrent \in Nat
    /\ IdleTimeout \in Nat
    /\ AbsoluteTimeout \in Nat \ {0}
    /\ PersistAfter \in Nat \ {0}
    /\ LockOnInactivity \in BOOLEAN
    /\ MaxTime \in Nat

VARIABLES
    now,        \* the clock
    store,      \* the stored sessions
    expires,    \* expires_at of each session, fixed when it is created
    login,      \* the state of each login
    pc,         \* where each call is
    op,         \* which operation it is
    todo,       \* the sessions it has yet to write
    copy,       \* its copies of them
    sweep,      \* where each reaper is
    cutoff,     \* when its sweep began
    dead,       \* history: the sessions whose termination was stored
    left,       \* history: the sessions that have ceased to be active
    known       \* history: the sessions terminate_user_sessions is to end

storeVars == <<store, dead, left>>
loginVars == <<expires, login>>
callVars == <<pc, op, todo, copy, known>>
reaperVars == <<sweep, cutoff>>
vars == <<now, storeVars, loginVars, callVars, reaperVars>>

Terminal == {"terminated", "admin_terminated"}
Statuses == {"absent", "active", "locked", "expired"} \union Terminal
Rows == [status : Statuses, last_activity : Nat]
Absent == [status |-> "absent", last_activity |-> 0]

LoginPCs == {"new", "waiting", "holding", "counted", "done", "failed"}
CallPCs == {"idle", "got", "write", "done", "failed"}
Ops == {"validate", "unlock", "terminate", "admin_terminate", "terminate_all"}

TypeOK ==
    /\ now \in Nat
    /\ store \in [Sessions -> Rows]
    /\ expires \in [Sessions -> Nat]
    /\ login \in [Sessions -> LoginPCs]
    /\ pc \in [Calls -> CallPCs]
    /\ op \in [Calls -> Ops]
    /\ todo \in [Calls -> SUBSET Sessions]
    /\ copy \in [Calls -> [Sessions -> Rows]]
    /\ sweep \in [Reapers -> {"sleep", "lock", "delete"}]
    /\ cutoff \in [Reapers -> Nat]
    /\ dead \subseteq Sessions
    /\ left \subseteq Sessions
    /\ known \in [Calls -> SUBSET Sessions]

Init ==
    /\ now = 0
    /\ store = [s \in Sessions |-> Absent]
    /\ expires = [s \in Sessions |-> 0]
    /\ login = [s \in Sessions |-> "new"]
    /\ pc = [c \in Calls |-> "idle"]
    /\ op = [c \in Calls |-> "validate"]
    /\ todo = [c \in Calls |-> {}]
    /\ copy = [c \in Calls |-> [s \in Sessions |-> Absent]]
    /\ sweep = [p \in Reapers |-> "sleep"]
    /\ cutoff = [p \in Reapers |-> 0]
    /\ dead = {}
    /\ left = {}
    /\ known = [c \in Calls |-> {}]

Tick ==
    /\ now < MaxTime
    /\ now' = now + 1
    /\ UNCHANGED <<storeVars, loginVars, callVars, reaperVars>>

IsExpired(s) == now > expires[s]

\* Every change of the store, with its history.
Set(rows) ==
    /\ store' = rows
    /\ dead' = dead \union { s \in Sessions : rows[s].status \in Terminal }
    /\ left' = left \union
         { s \in Sessions : store[s].status = "active" /\ rows[s].status # "active" }

-----------------------------------------------------------------------------
(* create_session and SessionStore::create.                                *)

Active(u) == { s \in Sessions : Owner[s] = u /\ store[s].status = "active" }

\* Session::new: the times are taken before the store is reached.
BeginLogin(s) ==
    /\ login[s] = "new"
    /\ login' = [login EXCEPT ![s] = "waiting"]
    /\ expires' = [expires EXCEPT ![s] = now + AbsoluteTimeout]
    /\ UNCHANGED <<now, storeVars, callVars, reaperVars>>

\* pg_advisory_xact_lock(hashtext(user)).
LockNobody(s) ==
    /\ login[s] = "waiting"
    /\ login' = [login EXCEPT ![s] = "holding"]
    /\ UNCHANGED <<now, storeVars, expires, callVars, reaperVars>>

LockUser(s) ==
    /\ login[s] = "waiting"
    /\ \A t \in Sessions : login[t] \in {"holding", "counted"} => Owner[t] # Owner[s]
    /\ login' = [login EXCEPT ![s] = "holding"]
    /\ UNCHANGED <<now, storeVars, expires, callVars, reaperVars>>

\* SELECT count(*); at the limit the transaction is rolled back.
CountActive(s) ==
    /\ login[s] = "holding"
    /\ login' = [login EXCEPT ![s] =
         IF Cardinality(Active(Owner[s])) >= MaxConcurrent THEN "failed" ELSE "counted"]
    /\ UNCHANGED <<now, storeVars, expires, callVars, reaperVars>>

NewRow(s) == [status |-> "active", last_activity |-> expires[s] - AbsoluteTimeout]

\* INSERT and COMMIT, which releases the lock.
InsertSession(s) ==
    /\ login[s] = "counted"
    /\ Set([store EXCEPT ![s] = NewRow(s)])
    /\ login' = [login EXCEPT ![s] = "done"]
    /\ UNCHANGED <<now, expires, callVars, reaperVars>>

\* The database fails or the server dies.
LoginFails(s) ==
    /\ login[s] \in {"waiting", "holding", "counted"}
    /\ login' = [login EXCEPT ![s] = "failed"]
    /\ UNCHANGED <<now, storeVars, expires, callVars, reaperVars>>

-----------------------------------------------------------------------------
(* Calls on existing sessions.                                             *)

Fetch(c, o, sessions) ==
    /\ pc[c] = "idle"
    /\ pc' = [pc EXCEPT ![c] = "got"]
    /\ op' = [op EXCEPT ![c] = o]
    /\ todo' = [todo EXCEPT ![c] = sessions]
    /\ copy' = [copy EXCEPT ![c] =
         [s \in Sessions |-> IF s \in sessions THEN store[s] ELSE Absent]]

\* get_by_token and get_by_id.
Get(c, o, s) ==
    /\ store[s].status # "absent"
    /\ Fetch(c, o, {s})
    /\ UNCHANGED <<now, storeVars, loginVars, known, reaperVars>>

\* A query for the active sessions alone.
ListedActive(u) == Active(u)

\* list_active_for_user.
Listed(u) ==
    { s \in Sessions : Owner[s] = u /\ store[s].status \in {"active", "locked"} }

\* terminate_user_sessions begins.
List(c, u) ==
    /\ Fetch(c, "terminate_all", Listed(u))
    /\ known' = [known EXCEPT ![c] =
         { s \in Sessions : Owner[s] = u /\ store[s].status # "absent" }]
    /\ UNCHANGED <<now, storeVars, loginVars, reaperVars>>

\* evaluate: the policy applied to a copy, giving the row to write back, which
\* is the copy itself when nothing is to be written.
Evaluate(s, row) ==
    IF IsExpired(s)
    THEN [status |-> "expired", last_activity |-> row.last_activity]
    ELSE IF row.status # "active" THEN row
    ELSE IF row.last_activity + IdleTimeout < now
    THEN [status |-> IF LockOnInactivity THEN "locked" ELSE "expired",
          last_activity |-> row.last_activity]
    ELSE IF row.last_activity + PersistAfter <= now
    THEN [status |-> "active", last_activity |-> now]
    ELSE row

\* unlock_session refuses a session that is not locked.
Unlocked(row) ==
    IF row.status = "locked" THEN [status |-> "active", last_activity |-> now] ELSE row

Decided(c, s) ==
    LET row == copy[c][s] IN
    CASE op[c] = "validate" -> Evaluate(s, row)
      [] op[c] = "unlock" -> Unlocked(row)
      [] op[c] \in {"terminate", "terminate_all"} ->
           [status |-> "terminated", last_activity |-> row.last_activity]
      [] op[c] = "admin_terminate" ->
           [status |-> "admin_terminated", last_activity |-> row.last_activity]

\* The call decides; validate and unlock write only what they changed.
Decide(c) ==
    /\ pc[c] = "got"
    /\ pc' = [pc EXCEPT ![c] = "write"]
    /\ copy' = [copy EXCEPT ![c] =
         [s \in Sessions |-> IF s \in todo[c] THEN Decided(c, s) ELSE Absent]]
    /\ todo' = [todo EXCEPT ![c] =
         IF op[c] \in {"validate", "unlock"}
         THEN { s \in todo[c] : Decided(c, s) # copy[c][s] } ELSE todo[c]]
    /\ UNCHANGED <<now, storeVars, loginVars, op, known, reaperVars>>

\* An UPDATE without its guard.
UpdateUnguarded(s, row) ==
    IF store[s].status # "absent"
    THEN [store EXCEPT ![s] = row] ELSE store

\* update: a terminal status is only replaced by another, and a reaped session
\* has no row.
Updated(s, row) ==
    IF /\ store[s].status # "absent"
       /\ store[s].status \in Terminal => row.status \in Terminal
    THEN [store EXCEPT ![s] = row] ELSE store

Update(c, s) ==
    /\ pc[c] = "write"
    /\ s \in todo[c]
    /\ Set(Updated(s, copy[c][s]))
    /\ todo' = [todo EXCEPT ![c] = @ \ {s}]
    /\ UNCHANGED <<now, loginVars, pc, op, copy, known, reaperVars>>

\* The call ends, well or not, and its copies are dropped; what a
\* terminate_user_sessions that returned was to end is remembered.
End(c, how) ==
    /\ pc' = [pc EXCEPT ![c] = how]
    /\ op' = [op EXCEPT ![c] = IF how = "done" /\ @ = "terminate_all" THEN @ ELSE "validate"]
    /\ todo' = [todo EXCEPT ![c] = {}]
    /\ copy' = [copy EXCEPT ![c] = [s \in Sessions |-> Absent]]
    /\ known' = [known EXCEPT ![c] = IF how = "done" THEN @ ELSE {}]
    /\ UNCHANGED <<now, storeVars, loginVars, reaperVars>>

Return(c) ==
    /\ pc[c] = "write"
    /\ todo[c] = {}
    /\ End(c, "done")

\* The database fails or the server dies; what was written stays.
CallFails(c) ==
    /\ pc[c] \in {"got", "write"}
    /\ End(c, "failed")

-----------------------------------------------------------------------------
(* spawn_reaper and cleanup_expired.                                       *)

WakeUp(p) ==
    /\ sweep[p] = "sleep"
    /\ sweep' = [sweep EXCEPT ![p] = IF LockOnInactivity THEN "lock" ELSE "delete"]
    /\ cutoff' = [cutoff EXCEPT ![p] = IF LockOnInactivity THEN now ELSE 0]
    /\ UNCHANGED <<now, storeVars, loginVars, callVars>>

\* lock_idle; a failure of it is logged and the sweep goes on.
LockIdle(p) ==
    /\ sweep[p] = "lock"
    /\ sweep' = [sweep EXCEPT ![p] = "delete"]
    /\ Set([s \in Sessions |->
         IF store[s].status = "active" /\ store[s].last_activity + IdleTimeout < cutoff[p]
         THEN [status |-> "locked", last_activity |-> store[s].last_activity]
         ELSE store[s]])
    /\ cutoff' = [cutoff EXCEPT ![p] = 0]
    /\ UNCHANGED <<now, loginVars, callVars>>

Reapable(s) == IsExpired(s) \/ store[s].status \in Terminal

\* delete_expired.
DeleteExpired(p) ==
    /\ sweep[p] = "delete"
    /\ sweep' = [sweep EXCEPT ![p] = "sleep"]
    /\ Set([s \in Sessions |-> IF Reapable(s) THEN Absent ELSE store[s]])
    /\ UNCHANGED <<now, loginVars, callVars, cutoff>>

SweepFails(p) ==
    /\ sweep[p] # "sleep"
    /\ sweep' = [sweep EXCEPT ![p] = IF @ = "lock" THEN "delete" ELSE "sleep"]
    /\ cutoff' = [cutoff EXCEPT ![p] = 0]
    /\ UNCHANGED <<now, storeVars, loginVars, callVars>>

-----------------------------------------------------------------------------
LoginStep(s) ==
    \/ BeginLogin(s)
    \/ LockUser(s)
    \/ CountActive(s)
    \/ InsertSession(s)
    \/ LoginFails(s)

CallStep(c) ==
    \/ \E s \in Sessions, o \in Ops \ {"terminate_all"} : Get(c, o, s)
    \/ \E u \in Users : List(c, u)
    \/ Decide(c)
    \/ \E s \in Sessions : Update(c, s)
    \/ Return(c)
    \/ CallFails(c)

ReaperStep(p) == WakeUp(p) \/ LockIdle(p) \/ DeleteExpired(p) \/ SweepFails(p)

Next ==
    \/ Tick
    \/ \E s \in Sessions : LoginStep(s)
    \/ \E c \in Calls : CallStep(c)
    \/ \E p \in Reapers : ReaperStep(p)

Spec == Init /\ [][Next]_vars

-----------------------------------------------------------------------------
(* Properties.                                                             *)

\* "A terminated token stays dead" (AC-12): no late write of a call that read
\* the session before its termination, and no sweep, brings it back.
TerminatedStaysDead ==
    \A s \in dead : store[s].status \in Terminal \union {"absent"}

\* Logins that race cannot exceed the limit together (FTA_MCS.1): of the
\* sessions that have been active ever since their login, a user has at most
\* max_concurrent_sessions.
LoginsWithinLimit ==
    \A u \in Users : Cardinality(Active(u) \ left) <= MaxConcurrent

Usable(s) == store[s].status \in {"active", "locked"} /\ ~IsExpired(s)

\* Once terminate_user_sessions has returned, no session that the user had
\* when it was called can be used again (FTA_SSL.3), whatever calls were then
\* in flight.
TerminateAllComplete ==
    LockOnInactivity =>
      \A c \in Calls : op[c] = "terminate_all" /\ pc[c] = "done" =>
         \A s \in known[c] : ~Usable(s)

\* "Maximum number of concurrent sessions per user".
ActiveWithinLimit ==
    \A u \in Users : Cardinality(Active(u)) <= MaxConcurrent

(* The inductive invariant.                                                *)

\* Of the logins of a user at most one holds the advisory lock, and the room
\* it has counted is still there when it inserts.
LoginInv ==
    /\ \A s \in Sessions : login[s] # "new" => AbsoluteTimeout <= expires[s]
    /\ \A s, t \in Sessions :
         /\ login[s] \in {"holding", "counted"}
         /\ login[t] \in {"holding", "counted"}
         /\ Owner[s] = Owner[t]
         => s = t
    /\ \A s \in Sessions : login[s] = "counted" =>
         Cardinality(Active(Owner[s]) \ left) < MaxConcurrent

\* A session is stored by its login alone, and what has happened to it since
\* is in the history.
StoreInv ==
    \A s \in Sessions :
        /\ login[s] # "done" => /\ store[s].status = "absent"
                                /\ s \notin dead \union left
                                /\ \A c \in Calls : s \notin todo[c] \union known[c]
        /\ login[s] = "done" => store[s].status = "active" \/ s \in left
        /\ store[s].status \in Terminal => s \in dead

\* With locking on inactivity, only sessions past expires_at are, or will be,
\* marked expired.
ExpiredInv ==
    LockOnInactivity => \A s \in Sessions :
        /\ store[s].status = "expired" => IsExpired(s)
        /\ \A c \in Calls : s \in todo[c] /\ copy[c][s].status = "expired" => IsExpired(s)

\* Out of use for good.
Gone(s) == s \in dead \/ IsExpired(s) \/ store[s].status = "absent"

\* terminate_user_sessions has yet to write every session that is not gone.
TerminateAllInv ==
    \A c \in Calls : op[c] = "terminate_all" =>
        /\ pc[c] = "write" => \A s \in todo[c] : copy[c][s].status \in Terminal
        /\ LockOnInactivity /\ pc[c] \in {"got", "write", "done"} =>
             \A s \in known[c] : s \in todo[c] \/ Gone(s)
        /\ pc[c] = "done" => todo[c] = {}

SessionInv ==
    /\ TypeOK
    /\ LoginInv
    /\ StoreInv
    /\ ExpiredInv
    /\ TerminateAllInv
    /\ TerminatedStaysDead
    /\ LoginsWithinLimit
=============================================================================
