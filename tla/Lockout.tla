------------------------------ MODULE Lockout ------------------------------
(***************************************************************************)
(* Account lockout: the password logins of one user                        *)
(* (authenticate_password in crates/ostrich-common/src/auth/password.rs)   *)
(* over the user's row (record_failed_attempt, reset_failed_attempts,      *)
(* unlock_account and set_user_status in                                   *)
(* ostrich-db/src/repository/users.rs), while locks run out and an         *)
(* administrator unlocks the account or sets its status.                   *)
(*                                                                         *)
(* locked_until is "none" (NULL), "future" or "past".  "suspended" stands  *)
(* for suspended, disabled and pending_activation, which are treated       *)
(* alike.  The account is neither created nor deleted here.                *)
(***************************************************************************)
EXTENDS Naturals

CONSTANTS
    Logins,             \* logins that may be in flight
    MaxAttempts,        \* max_attempts of LockoutPolicy
    PermanentAfter,     \* permanent_after
    NoLogin

ASSUME LockoutAssumption ==
    /\ MaxAttempts \in Nat \ {0}
    /\ PermanentAfter \in Nat \ {0}
    /\ NoLogin \notin Logins

VARIABLES
    failedAttempts, \* failed_attempts
    lockoutCount,   \* lockout_count, counted up to permanent_after
    lockedUntil,    \* locked_until against the clock
    accStatus,      \* status
    rowOwner,       \* the transaction that holds the row
    loginPc,        \* where each login is
    lapsed,         \* whether locked_until had passed at the now of a login
    readFailed,     \* what the login's SELECT returned: failed_attempts,
    readCount,      \* lockout_count
    readLapsed,     \* and whether a prior lock has expired
    strikes         \* history: failures recorded since the count last began

rowVarsL == <<failedAttempts, lockoutCount, lockedUntil, accStatus>>
readVars == <<readFailed, readCount, readLapsed>>
lockoutVars == <<rowVarsL, rowOwner, loginPc, lapsed, readVars, strikes>>

AccStatuses == {"active", "locked", "suspended"}

LockoutTypeOK ==
    /\ failedAttempts \in Nat
    /\ lockoutCount \in Nat
    /\ lockedUntil \in {"none", "future", "past"}
    /\ accStatus \in AccStatuses
    /\ rowOwner \in Logins \union {NoLogin}
    /\ loginPc \in [Logins -> {"idle", "verify", "select", "update", "reset"}]
    /\ lapsed \in [Logins -> BOOLEAN]
    /\ readFailed \in [Logins -> Nat]
    /\ readCount \in [Logins -> Nat]
    /\ readLapsed \in [Logins -> BOOLEAN]
    /\ strikes \in Nat

LockoutInit ==
    /\ failedAttempts = 0
    /\ lockoutCount = 0
    /\ lockedUntil = "none"
    /\ accStatus = "active"
    /\ rowOwner = NoLogin
    /\ loginPc = [l \in Logins |-> "idle"]
    /\ lapsed = [l \in Logins |-> FALSE]
    /\ readFailed = [l \in Logins |-> 0]
    /\ readCount = [l \in Logins |-> 0]
    /\ readLapsed = [l \in Logins |-> FALSE]
    /\ strikes = 0

-----------------------------------------------------------------------------
LoginAt(l, p) == loginPc' = [loginPc EXCEPT ![l] = p]

\* The login is over: its registers are gone.
LoginEnds(l) ==
    /\ LoginAt(l, "idle")
    /\ lapsed' = [lapsed EXCEPT ![l] = FALSE]
    /\ readFailed' = [readFailed EXCEPT ![l] = 0]
    /\ readCount' = [readCount EXCEPT ![l] = 0]
    /\ readLapsed' = [readLapsed EXCEPT ![l] = FALSE]

\* find_by_username, status and is_locked: refused logins change nothing.
FindUser(l) ==
    /\ loginPc[l] = "idle"
    /\ accStatus = "active"
    /\ lockedUntil # "future"
    /\ LoginAt(l, "verify")
    /\ UNCHANGED <<rowVarsL, rowOwner, lapsed, readVars, strikes>>

\* verify_password; record_failed_attempt takes its now before the row.
WrongPassword(l) ==
    /\ loginPc[l] = "verify"
    /\ LoginAt(l, "select")
    /\ lapsed' = [lapsed EXCEPT ![l] = (lockedUntil = "past")]
    /\ UNCHANGED <<rowVarsL, rowOwner, readVars, strikes>>

RightPassword(l) ==
    /\ loginPc[l] = "verify"
    /\ LoginAt(l, "reset")
    /\ UNCHANGED <<rowVarsL, rowOwner, lapsed, readVars, strikes>>

\* status <> 'active' or locked_until > now.
AlreadyLocked(l) ==
    \/ accStatus # "active"
    \/ lockedUntil = "future"
    \/ lockedUntil = "past" /\ ~lapsed[l]

\* The row is read without a lock.
SelectUnlocked(l) ==
    /\ loginPc[l] = "select"
    /\ IF AlreadyLocked(l)
       THEN LoginEnds(l)
       ELSE /\ LoginAt(l, "update")
            /\ readFailed' = [readFailed EXCEPT ![l] = failedAttempts]
            /\ readCount' = [readCount EXCEPT ![l] = lockoutCount]
            /\ readLapsed' = [readLapsed EXCEPT ![l] = (lockedUntil = "past")]
            /\ UNCHANGED lapsed
    /\ UNCHANGED <<rowVarsL, rowOwner, strikes>>

\* record_failed_attempt: SELECT ... FOR UPDATE.
SelectForUpdate(l) ==
    /\ loginPc[l] = "select"
    /\ rowOwner = NoLogin
    /\ IF AlreadyLocked(l)
       THEN LoginEnds(l) /\ UNCHANGED rowOwner
       ELSE /\ LoginAt(l, "update")
            /\ rowOwner' = l
            /\ readFailed' = [readFailed EXCEPT ![l] = failedAttempts]
            /\ readCount' = [readCount EXCEPT ![l] = lockoutCount]
            /\ readLapsed' = [readLapsed EXCEPT ![l] = (lockedUntil = "past")]
            /\ UNCHANGED lapsed
    /\ UNCHANGED <<rowVarsL, strikes>>

\* The failure count and the lock that the values read lead to.
Failed(l) == IF readLapsed[l] THEN 1 ELSE readFailed[l] + 1
NowLocked(l) == Failed(l) >= MaxAttempts
OneMore(n) == IF n < PermanentAfter THEN n + 1 ELSE n
NowPermanent(l) == NowLocked(l) /\ readCount[l] + 1 >= PermanentAfter

\* record_failed_attempt: UPDATE and commit.  status was read as 'active'.
RecordFailure(l) ==
    /\ loginPc[l] = "update"
    /\ failedAttempts' = Failed(l)
    /\ lockoutCount' = IF NowLocked(l) THEN OneMore(readCount[l]) ELSE readCount[l]
    /\ lockedUntil' = IF NowLocked(l) THEN "future" ELSE "none"
    /\ accStatus' = IF NowPermanent(l) THEN "locked" ELSE "active"
    /\ rowOwner' = NoLogin
    /\ strikes' = IF lockedUntil = "past" THEN 1 ELSE strikes + 1
    /\ LoginAt(l, "idle")
    /\ lapsed' = [x \in Logins |-> FALSE]
    /\ readFailed' = [readFailed EXCEPT ![l] = 0]
    /\ readCount' = [readCount EXCEPT ![l] = 0]
    /\ readLapsed' = [readLapsed EXCEPT ![l] = FALSE]

\* A success lifts every lock.
ResetLifts(l) ==
    /\ loginPc[l] = "reset"
    /\ rowOwner = NoLogin
    /\ failedAttempts' = 0
    /\ lockoutCount' = 0
    /\ lockedUntil' = "none"
    /\ accStatus' = "active"
    /\ strikes' = 0
    /\ LoginEnds(l)
    /\ UNCHANGED rowOwner

\* reset_failed_attempts, whatever has happened since the lock check.
ResetFailedAttempts(l) ==
    /\ loginPc[l] = "reset"
    /\ rowOwner = NoLogin
    /\ failedAttempts' = 0
    /\ lockoutCount' = 0
    /\ lockedUntil' = "none"
    /\ strikes' = 0
    /\ LoginEnds(l)
    /\ UNCHANGED <<accStatus, rowOwner>>

\* A statement fails (and is ignored) or the future is dropped: the
\* transaction is rolled back.
PasswordLoginFails(l) ==
    /\ loginPc[l] # "idle"
    /\ LoginEnds(l)
    /\ rowOwner' = IF rowOwner = l THEN NoLogin ELSE rowOwner
    /\ UNCHANGED <<rowVarsL, strikes>>

\* unlock_account: a suspended account stays suspended.
UnlockAccount ==
    /\ rowOwner = NoLogin
    /\ failedAttempts' = 0
    /\ lockoutCount' = 0
    /\ lockedUntil' = "none"
    /\ accStatus' = IF accStatus = "locked" THEN "active" ELSE accStatus
    /\ strikes' = 0
    /\ UNCHANGED <<rowOwner, loginPc, lapsed, readVars>>

\* set_user_status: any status, and the counters stay.
SetUserStatus(status) ==
    /\ rowOwner = NoLogin
    /\ accStatus' = status
    /\ UNCHANGED <<failedAttempts, lockoutCount, lockedUntil, rowOwner, loginPc, lapsed,
                   readVars, strikes>>

\* The clock passes locked_until.
LockLapses ==
    /\ lockedUntil = "future"
    /\ lockedUntil' = "past"
    /\ UNCHANGED <<failedAttempts, lockoutCount, accStatus, rowOwner, loginPc, lapsed,
                   readVars, strikes>>

PasswordLoginStep(l) ==
    \/ FindUser(l) \/ WrongPassword(l) \/ RightPassword(l)
    \/ SelectForUpdate(l) \/ RecordFailure(l) \/ ResetFailedAttempts(l) \/ PasswordLoginFails(l)

LockoutNext ==
    \/ \E l \in Logins : PasswordLoginStep(l)
    \/ UnlockAccount
    \/ \E status \in AccStatuses : SetUserStatus(status)
    \/ LockLapses

LockoutSpec == LockoutInit /\ [][LockoutNext]_lockoutVars

-----------------------------------------------------------------------------
(* Properties.                                                             *)

\* No failure is lost: failed_attempts is the number of failures recorded
\* since a success, an unlock or the end of a lock began the count anew, and
\* with max_attempts of them the account has been locked, however many logins
\* fail at the same time (SELECT ... FOR UPDATE in record_failed_attempt).
FailuresLock ==
    /\ failedAttempts = strikes
    /\ strikes >= MaxAttempts => lockedUntil # "none"

\* No login ends a permanent lock or a suspension, neither a success whose
\* lock check came before it nor a failure that read the row before it
\* (reset_failed_attempts, record_failed_attempt): only unlock_account and
\* set_user_status do.
PermanentUntilAdmin ==
    [][accStatus # "active" /\ accStatus' # accStatus
         => UnlockAccount \/ \E status \in AccStatuses : SetUserStatus(status)]_lockoutVars

-----------------------------------------------------------------------------
(* The inductive invariant.                                                *)

\* A login between its SELECT ... FOR UPDATE and its UPDATE owns the row, and
\* what it read is what the row still holds: nobody else writes it, and the
\* lock it found lapsed cannot be set or lapse again meanwhile.
RowInv ==
    \A l \in Logins :
      /\ loginPc[l] = "update" <=> rowOwner = l
      /\ loginPc[l] = "update" =>
           /\ readFailed[l] = failedAttempts
           /\ readCount[l] = lockoutCount
           /\ readLapsed[l] <=> lockedUntil = "past"
           /\ lockedUntil # "future"
           /\ accStatus = "active"

LockoutInv == LockoutTypeOK /\ RowInv /\ FailuresLock
=============================================================================
