------------------------- MODULE CredentialsProofs -------------------------
(***************************************************************************)
(* Proofs about the stores of credentials: the lockout of accounts, the    *)
(* PIN of hardware tokens, enrolment tokens and the sequence numbers of    *)
(* TAMP, each for any number of requests and any configuration.            *)
(***************************************************************************)
EXTENDS Lockout, ScmsToken, EstTokens, Tamp, FiniteSetTheorems, TLAPS

-----------------------------------------------------------------------------
(* Account lockout.                                                        *)

\* No login is in flight and nothing is counted.
LEMMA LockoutInitInv == ASSUME LockoutInit PROVE LockoutInv
<1>1. LockoutTypeOK
  BY DEF LockoutInit, LockoutTypeOK, AccStatuses
<1>2. RowInv
  BY LockoutAssumption DEF LockoutInit, RowInv
<1>3. FailuresLock
  BY LockoutAssumption DEF LockoutInit, FailuresLock
<1> QED
  BY <1>1, <1>2, <1>3 DEF LockoutInv

\* A login that reads, or is over, without owning the row or writing it.
LEMMA LoginReads ==
    ASSUME LockoutInv, NEW l \in Logins, FindUser(l) \/ WrongPassword(l) \/ RightPassword(l)
    PROVE  LockoutInv'
<1>0. LockoutTypeOK /\ RowInv /\ FailuresLock
  BY DEF LockoutInv
<1>1. /\ UNCHANGED <<rowVarsL, rowOwner, readVars, strikes>>
      /\ loginPc[l] \in {"idle", "verify"}
      /\ \E p \in {"verify", "select", "reset"} : loginPc' = [loginPc EXCEPT ![l] = p]
      /\ lapsed' \in [Logins -> BOOLEAN]
  BY <1>0 DEF FindUser, WrongPassword, RightPassword, LoginAt, LockoutTypeOK
<1>2. LockoutTypeOK'
  BY <1>0, <1>1 DEF LockoutTypeOK, rowVarsL, readVars
<1>3. RowInv'
  BY <1>0, <1>1 DEF RowInv, LockoutTypeOK, rowVarsL, readVars
<1>4. FailuresLock'
  BY <1>0, <1>1 DEF FailuresLock, rowVarsL
<1> QED
  BY <1>2, <1>3, <1>4 DEF LockoutInv

\* A login that is over leaves the row to others.
LEMMA LoginOver ==
    ASSUME LockoutInv, NEW l \in Logins, PasswordLoginFails(l)
    PROVE  LockoutInv'
<1>0. LockoutTypeOK /\ RowInv /\ FailuresLock
  BY DEF LockoutInv
<1>1. LockoutTypeOK'
  BY <1>0 DEF PasswordLoginFails, LoginEnds, LoginAt, LockoutTypeOK, rowVarsL
<1>2. RowInv'
  BY <1>0, LockoutAssumption
  DEF PasswordLoginFails, LoginEnds, LoginAt, RowInv, LockoutTypeOK, rowVarsL
<1>3. FailuresLock'
  BY <1>0 DEF PasswordLoginFails, FailuresLock, rowVarsL
<1> QED
  BY <1>1, <1>2, <1>3 DEF LockoutInv

\* SELECT ... FOR UPDATE: the login owns the row, or sees it locked and ends.
LEMMA LoginSelects ==
    ASSUME LockoutInv, NEW l \in Logins, SelectForUpdate(l)
    PROVE  LockoutInv'
<1>0. LockoutTypeOK /\ RowInv /\ FailuresLock
  BY DEF LockoutInv
<1>1. /\ loginPc[l] = "select" /\ rowOwner = NoLogin
      /\ UNCHANGED <<rowVarsL, strikes>>
  BY DEF SelectForUpdate
<1>2. FailuresLock'
  BY <1>0, <1>1 DEF FailuresLock, rowVarsL
<1>3. CASE AlreadyLocked(l)
  <2>1. LoginEnds(l) /\ UNCHANGED rowOwner
    BY <1>3 DEF SelectForUpdate
  <2>2. LockoutTypeOK'
    BY <1>0, <1>1, <2>1 DEF LoginEnds, LoginAt, LockoutTypeOK, rowVarsL
  <2>3. RowInv'
    BY <1>0, <1>1, <2>1 DEF LoginEnds, LoginAt, RowInv, LockoutTypeOK, rowVarsL
  <2> QED
    BY <1>2, <2>2, <2>3 DEF LockoutInv
<1>4. CASE ~AlreadyLocked(l)
  <2>1. /\ loginPc' = [loginPc EXCEPT ![l] = "update"]
        /\ rowOwner' = l
        /\ readFailed' = [readFailed EXCEPT ![l] = failedAttempts]
        /\ readCount' = [readCount EXCEPT ![l] = lockoutCount]
        /\ readLapsed' = [readLapsed EXCEPT ![l] = (lockedUntil = "past")]
        /\ UNCHANGED lapsed
    BY <1>4 DEF SelectForUpdate, LoginAt
  <2>2. accStatus = "active" /\ lockedUntil # "future"
    BY <1>4 DEF AlreadyLocked
  <2>3. LockoutTypeOK'
    BY <1>0, <1>1, <2>1 DEF LockoutTypeOK, rowVarsL
  <2>4. RowInv'
    BY <1>0, <1>1, <2>1, <2>2, LockoutAssumption DEF RowInv, LockoutTypeOK, rowVarsL
  <2> QED
    BY <1>2, <2>3, <2>4 DEF LockoutInv
<1> QED
  BY <1>3, <1>4

\* UPDATE: the failure is counted on what the row holds.
LEMMA LoginRecords ==
    ASSUME LockoutInv, NEW l \in Logins, RecordFailure(l)
    PROVE  LockoutInv'
<1>0. LockoutTypeOK /\ RowInv /\ FailuresLock
  BY DEF LockoutInv
<1>1. /\ loginPc[l] = "update" /\ rowOwner = l
      /\ readFailed[l] = failedAttempts
      /\ readLapsed[l] <=> lockedUntil = "past"
  BY <1>0 DEF RecordFailure, RowInv
<1>2. Failed(l) = strikes' /\ Failed(l) \in Nat
  BY <1>0, <1>1 DEF RecordFailure, Failed, FailuresLock, LockoutTypeOK
<1>3. LockoutTypeOK'
  BY <1>0, <1>2 DEF RecordFailure, OneMore, LoginAt, LockoutTypeOK, AccStatuses
<1>4. RowInv'
  BY <1>0, <1>1, LockoutAssumption DEF RecordFailure, LoginAt, RowInv, LockoutTypeOK
<1>5. FailuresLock'
  BY <1>0, <1>2, LockoutAssumption DEF RecordFailure, NowLocked, FailuresLock, LockoutTypeOK
<1> QED
  BY <1>3, <1>4, <1>5 DEF LockoutInv

\* A success or an administrator begins the count anew: nobody owns the row.
LEMMA CountRestarts ==
    ASSUME LockoutInv, UnlockAccount \/ \E l \in Logins : ResetFailedAttempts(l)
    PROVE  LockoutInv'
<1>0. LockoutTypeOK /\ RowInv /\ FailuresLock
  BY DEF LockoutInv
<1>1. CASE UnlockAccount
  <2>1. LockoutTypeOK'
    BY <1>0, <1>1 DEF UnlockAccount, LockoutTypeOK, AccStatuses, readVars
  <2>2. RowInv'
    BY <1>0, <1>1, LockoutAssumption DEF UnlockAccount, RowInv, LockoutTypeOK, readVars
  <2>3. FailuresLock'
    BY <1>1, LockoutAssumption DEF UnlockAccount, FailuresLock
  <2> QED
    BY <2>1, <2>2, <2>3 DEF LockoutInv
<1>2. ASSUME NEW l \in Logins, ResetFailedAttempts(l) PROVE LockoutInv'
  <2>1. LockoutTypeOK'
    BY <1>0, <1>2 DEF ResetFailedAttempts, LoginEnds, LoginAt, LockoutTypeOK
  <2>2. RowInv'
    BY <1>0, <1>2, LockoutAssumption
    DEF ResetFailedAttempts, LoginEnds, LoginAt, RowInv, LockoutTypeOK
  <2>3. FailuresLock'
    BY <1>2, LockoutAssumption DEF ResetFailedAttempts, FailuresLock
  <2> QED
    BY <2>1, <2>2, <2>3 DEF LockoutInv
<1> QED
  BY <1>1, <1>2

\* A lock runs out: whoever owns the row did not find it locked.
LEMMA LockRunsOut == ASSUME LockoutInv, LockLapses PROVE LockoutInv'
<1>0. LockoutTypeOK /\ RowInv /\ FailuresLock
  BY DEF LockoutInv
<1>1. LockoutTypeOK'
  BY <1>0 DEF LockLapses, LockoutTypeOK, readVars
<1>2. RowInv'
  BY <1>0 DEF LockLapses, RowInv, readVars
<1>3. FailuresLock'
  BY <1>0 DEF LockLapses, FailuresLock
<1> QED
  BY <1>1, <1>2, <1>3 DEF LockoutInv

\* An administrator sets the status: no login owns the row.
LEMMA StatusIsSet ==
    ASSUME LockoutInv, NEW status \in AccStatuses, SetUserStatus(status)
    PROVE  LockoutInv'
<1>0. LockoutTypeOK /\ RowInv /\ FailuresLock
  BY DEF LockoutInv
<1>1. LockoutTypeOK'
  BY <1>0 DEF SetUserStatus, LockoutTypeOK, readVars
<1>2. RowInv'
  BY <1>0, LockoutAssumption DEF SetUserStatus, RowInv, LockoutTypeOK, readVars
<1>3. FailuresLock'
  BY <1>0 DEF SetUserStatus, FailuresLock
<1> QED
  BY <1>1, <1>2, <1>3 DEF LockoutInv

\* Every step preserves the invariant.
LEMMA LockoutStep == ASSUME LockoutInv, [LockoutNext]_lockoutVars PROVE LockoutInv'
<1>1. CASE LockoutNext
  BY <1>1, LoginReads, LoginOver, LoginSelects, LoginRecords, CountRestarts, LockRunsOut,
     StatusIsSet
  DEF LockoutNext, PasswordLoginStep
<1>2. CASE UNCHANGED lockoutVars
  <2>1. LockoutTypeOK' /\ RowInv' /\ FailuresLock'
    BY <1>2 DEF LockoutInv, LockoutTypeOK, RowInv, FailuresLock, lockoutVars, rowVarsL, readVars
  <2> QED
    BY <2>1 DEF LockoutInv
<1> QED
  BY <1>1, <1>2

\* Every reachable state satisfies the inductive invariant: a login that is
\* about to write owns the row and has read what it holds
\* (record_failed_attempt).
THEOREM LockoutInvariant == LockoutSpec => []LockoutInv
<1>1. LockoutInit => LockoutInv
  BY LockoutInitInv
<1>2. LockoutInv /\ [LockoutNext]_lockoutVars => LockoutInv'
  BY LockoutStep
<1> QED
  BY <1>1, <1>2, PTL DEF LockoutSpec

\* No failure is lost and max_attempts of them lock the account, for any
\* number of racing logins and any limits (record_failed_attempt).
THEOREM FailuresAlwaysLock == LockoutSpec => []FailuresLock
<1>1. LockoutInv => FailuresLock
  BY DEF LockoutInv
<1> QED
  BY <1>1, LockoutInvariant, PTL

\* Only an administrator ends a permanent lock or a suspension: a step that
\* changes such a status is unlock_account or set_user_status, because a login
\* that writes the status has found it active and owned the row since
\* (record_failed_attempt).
THEOREM PermanentUntilUnlocked == LockoutSpec => PermanentUntilAdmin
<1> DEFINE Lifts == accStatus # "active" /\ accStatus' # accStatus
           ByAdmin == UnlockAccount \/ \E status \in AccStatuses : SetUserStatus(status)
<1>1. ASSUME LockoutInv, [LockoutNext]_lockoutVars, Lifts PROVE ByAdmin
  <2>1. LockoutNext
    BY <1>1 DEF lockoutVars, rowVarsL
  <2>2. ASSUME NEW l \in Logins, PasswordLoginStep(l) PROVE FALSE
    <3>1. CASE RecordFailure(l)
      BY <1>1, <3>1 DEF RecordFailure, LockoutInv, RowInv
    <3>2. CASE ~RecordFailure(l)
      BY <1>1, <2>2, <3>2 DEF PasswordLoginStep, FindUser, WrongPassword, RightPassword,
         SelectForUpdate, ResetFailedAttempts, PasswordLoginFails, rowVarsL
    <3> QED
      BY <3>1, <3>2
  <2>3. ~LockLapses
    BY <1>1 DEF LockLapses
  <2> QED
    BY <2>1, <2>2, <2>3 DEF LockoutNext
<1>2. LockoutInv /\ [LockoutNext]_lockoutVars => [Lifts => ByAdmin]_lockoutVars
  BY <1>1
<1> QED
  BY <1>2, LockoutInvariant, PTL DEF LockoutSpec, PermanentUntilAdmin

-----------------------------------------------------------------------------
(* The PIN of a hardware token, with any number of handlers at work.       *)

\* A token that does not exist has all its attempts.
LEMMA PinInitInv == ASSUME ScmsInit PROVE PinInv
<1>1. ScmsTypeOK
  <2>1. assigned \in BOOLEAN /\ initStamped \in BOOLEAN /\ overtaken \in BOOLEAN
    BY Zenon DEF ScmsInit
  <2>2. pinLeft \in 0..MaxPin /\ wrong \in Nat /\ scPin \in [ScmsHandlers -> 0..MaxPin]
    BY MaxPinAssumption DEF ScmsInit
  <2> QED
    BY <2>1, <2>2 DEF ScmsInit, ScmsTypeOK, TokenStatuses, ScmsOps
<1>2. AttemptRead
  BY DEF ScmsInit, AttemptRead, Writing
<1>3. PinLockout
  BY MaxPinAssumption DEF ScmsInit, PinLockout
<1> QED
  BY <1>1, <1>2, <1>3 DEF PinInv

\* The registers when a handler has answered.
LEMMA HandlerAnswers ==
    ASSUME ScmsTypeOK, AttemptRead, NEW h \in ScmsHandlers, ScmsEnds(h)
    PROVE  /\ scPc' \in [ScmsHandlers -> {"idle", "write", "stamp"}]
           /\ scOp' \in [ScmsHandlers -> ScmsOps]
           /\ scPin' \in [ScmsHandlers -> 0..MaxPin]
           /\ AttemptRead'
<1>1. /\ scPc' \in [ScmsHandlers -> {"idle", "write", "stamp"}]
      /\ scOp' \in [ScmsHandlers -> ScmsOps]
      /\ scPin' \in [ScmsHandlers -> 0..MaxPin]
  BY MaxPinAssumption DEF ScmsTypeOK, ScmsEnds, ScmsOps
<1>2. AttemptRead'
  BY DEF ScmsTypeOK, ScmsEnds, AttemptRead, Writing
<1> QED
  BY <1>1, <1>2

\* find_token: a verification goes on only when an attempt is left.
LEMMA HandlerLoads ==
    ASSUME PinInv, NEW h \in ScmsHandlers, NEW op \in ScmsOps, ScmsLoad(h, op)
    PROVE  PinInv'
<1>0. ScmsTypeOK /\ PinLockout /\ AttemptRead
  BY DEF PinInv
<1>1. ScmsTypeOK'
  BY <1>0 DEF ScmsLoad, ScmsTypeOK, cardVars, histVars
<1>2. AttemptRead'
  BY <1>0 DEF ScmsLoad, Permits, AttemptRead, Writing, ScmsTypeOK
<1>3. PinLockout'
  BY <1>0 DEF ScmsLoad, PinLockout, cardVars, histVars
<1> QED
  BY <1>1, <1>2, <1>3 DEF PinInv

\* The handlers that write a status and no counter: unless they are overtaken,
\* an attempt is left, or the token is revoked.
LEMMA StatusWritten ==
    ASSUME PinInv, NEW h \in ScmsHandlers,
           \/ CreateToken(h) \/ RevokeTok(h) \/ SuspendTok(h) \/ ResumeTok(h)
           \/ PersonalizeTok(h)
    PROVE  PinInv'
<1>0. ScmsTypeOK /\ PinLockout /\ AttemptRead
  BY DEF PinInv
<1>1. /\ ScmsEnds(h)
      /\ UNCHANGED <<pinLeft, initStamped, tokKeys, wrong>>
      /\ assigned' \in BOOLEAN
  BY <1>0 DEF CreateToken, RevokeTok, SuspendTok, ResumeTok, SetStatus, PersonalizeTok,
     histVars, ScmsTypeOK
<1>2. overtaken' \in BOOLEAN /\ (overtaken => overtaken')
  BY <1>0, Zenon DEF CreateToken, RevokeTok, SuspendTok, ResumeTok, SetStatus, PersonalizeTok,
     NoteOvertaken, histVars, ScmsTypeOK
<1>3. /\ tokStatus' \in TokenStatuses
      /\ \/ tokStatus' = tokStatus
         \/ tokStatus' = "revoked"
         \/ /\ tokStatus' # "blocked"
            /\ tokStatus = "absent" \/ pinLeft # 0 \/ overtaken'
  BY <1>0 DEF CreateToken, RevokeTok, SuspendTok, ResumeTok, SetStatus, PersonalizeTok,
     Writing, NoteOvertaken, Overtaken, ScmsTypeOK, TokenStatuses
<1>4. ScmsTypeOK' /\ AttemptRead'
  BY <1>0, <1>1, <1>2, <1>3, HandlerAnswers DEF ScmsTypeOK
<1>5. PinLockout'
  BY <1>0, <1>1, <1>2, <1>3 DEF PinLockout
<1> QED
  BY <1>4, <1>5 DEF PinInv

\* initialize_token, in its two statements.
LEMMA Initialized ==
    ASSUME PinInv, NEW h \in ScmsHandlers, InitializeTok(h) \/ StampTok(h)
    PROVE  PinInv'
<1>0. ScmsTypeOK /\ PinLockout /\ AttemptRead
  BY DEF PinInv
<1>1. CASE InitializeTok(h)
  <2>1. overtaken' \in BOOLEAN /\ (overtaken \/ pinLeft = 0 => overtaken')
    BY <1>0, <1>1 DEF InitializeTok, Writing, NoteOvertaken, Overtaken, ScmsTypeOK
  <2>2. ScmsTypeOK'
    BY <1>0, <1>1, <2>1 DEF InitializeTok, ScmsTypeOK, TokenStatuses
  <2>3. AttemptRead'
    BY <1>0, <1>1 DEF InitializeTok, AttemptRead, Writing, ScmsTypeOK
  <2>4. PinLockout'
    BY <1>0, <1>1, <2>1 DEF InitializeTok, PinLockout
  <2> QED
    BY <2>2, <2>3, <2>4 DEF PinInv
<1>2. CASE StampTok(h)
  <2>1. ScmsTypeOK' /\ AttemptRead'
    BY <1>0, <1>2, HandlerAnswers DEF StampTok, ScmsTypeOK, histVars
  <2>2. PinLockout'
    BY <1>0, <1>2 DEF StampTok, PinLockout, histVars
  <2> QED
    BY <2>1, <2>2 DEF PinInv
<1> QED
  BY <1>1, <1>2

\* The handlers that write the counter.
LEMMA CounterWritten ==
    ASSUME PinInv, NEW h \in ScmsHandlers,
           WrongPin(h) \/ ChangePin(h) \/ UnblockTok(h)
    PROVE  PinInv'
<1>0. ScmsTypeOK /\ PinLockout /\ AttemptRead
  BY DEF PinInv
<1>1. /\ ScmsEnds(h)
      /\ UNCHANGED <<assigned, initStamped, tokKeys>>
      /\ scPc[h] = "write"
  BY DEF WrongPin, ChangePin, UnblockTok, Writing
<1>2. /\ tokStatus' \in TokenStatuses /\ pinLeft' \in 0..MaxPin /\ wrong' \in Nat
      /\ overtaken' \in BOOLEAN
      /\ PinLockout'
  <2>1. CASE WrongPin(h)
    <3>1. scPin[h] \in 0..MaxPin /\ scPin[h] > 0
      BY <1>0, <2>1 DEF WrongPin, AttemptRead, ScmsTypeOK
    <3>2. overtaken' \in BOOLEAN /\ (~overtaken' => ~overtaken /\ scPin[h] = pinLeft)
      BY <1>0, <2>1 DEF WrongPin, Writing, NoteOvertaken, Overtaken, ScmsTypeOK
    <3> QED
      BY <1>0, <2>1, <3>1, <3>2, MaxPinAssumption
      DEF WrongPin, ScmsTypeOK, PinLockout, TokenStatuses
  <2>2. CASE ChangePin(h)
    <3>1. overtaken' \in BOOLEAN /\ (~overtaken' => ~overtaken /\ pinLeft # 0)
      BY <1>0, <2>2 DEF ChangePin, Writing, NoteOvertaken, Overtaken, ScmsTypeOK
    <3> QED
      BY <1>0, <2>2, <3>1, MaxPinAssumption DEF ChangePin, ScmsTypeOK, PinLockout
  <2>3. CASE UnblockTok(h)
    <3>1. overtaken' = FALSE /\ overtaken' \in BOOLEAN
      BY <2>3, Zenon DEF UnblockTok
    <3> QED
      BY <2>3, <3>1, MaxPinAssumption DEF UnblockTok, PinLockout, TokenStatuses
  <2> QED
    BY <2>1, <2>2, <2>3
<1>3. ScmsTypeOK' /\ AttemptRead'
  BY <1>0, <1>1, <1>2, HandlerAnswers DEF ScmsTypeOK
<1> QED
  BY <1>2, <1>3 DEF PinInv

\* The handlers that write neither.
LEMMA KeysWritten ==
    ASSUME PinInv, NEW h \in ScmsHandlers,
           GenerateKey(h) \/ DeleteKey(h) \/ ScmsFails(h)
    PROVE  PinInv'
<1>0. ScmsTypeOK /\ PinLockout /\ AttemptRead
  BY DEF PinInv
<1>1. /\ ScmsEnds(h)
      /\ UNCHANGED <<tokStatus, pinLeft, assigned, initStamped, wrong, overtaken>>
      /\ tokKeys' \subseteq KeyLabels
  BY <1>0 DEF GenerateKey, DeleteKey, ScmsFails, ScmsTypeOK, cardVars, histVars
<1>2. ScmsTypeOK' /\ AttemptRead'
  BY <1>0, <1>1, HandlerAnswers DEF ScmsTypeOK
<1>3. PinLockout'
  BY <1>0, <1>1 DEF PinLockout
<1> QED
  BY <1>2, <1>3 DEF PinInv

\* Every step of every handler preserves the invariant.
LEMMA PinStep == ASSUME PinInv, [ScmsNext]_scmsVars PROVE PinInv'
<1>1. CASE ScmsNext
  BY <1>1, HandlerLoads, StatusWritten, Initialized, CounterWritten, KeysWritten DEF ScmsNext
<1>2. CASE UNCHANGED scmsVars
  <2>1. ScmsTypeOK' /\ PinLockout'
    BY <1>2 DEF PinInv, ScmsTypeOK, PinLockout, scmsVars, cardVars, histVars
  <2>2. AttemptRead'
    BY <1>2 DEF PinInv, AttemptRead, Writing, scmsVars
  <2> QED
    BY <2>1, <2>2 DEF PinInv
<1> QED
  BY <1>1, <1>2

\* For any number of handlers at work every wrong PIN costs one attempt and
\* the token is blocked exactly while none is left, whichever statements fail,
\* unless a write was overtaken since the last unblocking: by a verification
\* in the case of verify_pin, by the last one in the case of change_pin and
\* the handlers that set a status.
THEOREM PinAlwaysLocks == ScmsSpec => []PinLockout
<1>1. ScmsInit => PinInv
  BY PinInitInv
<1>2. PinInv /\ [ScmsNext]_scmsVars => PinInv'
  BY PinStep
<1>3. PinInv => PinLockout
  BY DEF PinInv
<1> QED
  BY <1>1, <1>2, <1>3, PTL DEF ScmsSpec

-----------------------------------------------------------------------------
(* Enrolment tokens.                                                       *)

\* The requests that hold a use can be counted; one more, or one fewer.
LEMMA SpendsCounted ==
    ASSUME NEW t, NEW h \in EstHandlers
    PROVE  /\ IsFiniteSet(SpendsInFlight(t))
           /\ Cardinality(SpendsInFlight(t)) \in Nat
           /\ Cardinality(SpendsInFlight(t) \union {h})
                = IF h \in SpendsInFlight(t) THEN Cardinality(SpendsInFlight(t))
                  ELSE Cardinality(SpendsInFlight(t)) + 1
           /\ Cardinality(SpendsInFlight(t) \ {h})
                = IF h \in SpendsInFlight(t) THEN Cardinality(SpendsInFlight(t)) - 1
                  ELSE Cardinality(SpendsInFlight(t))
<1>1. SpendsInFlight(t) \in SUBSET EstHandlers
  BY DEF SpendsInFlight
<1>2. IsFiniteSet(SpendsInFlight(t))
  BY <1>1, EstAssumption, FS_Subset
<1> QED
  BY <1>2, FS_CardinalityType, FS_AddElement, FS_RemoveElement

\* Nothing is minted.
LEMMA EstInitInv == ASSUME EstInit PROVE EstInv
<1>1. EstTypeOK /\ KindInv
  BY EstAssumption DEF EstInit, EstTypeOK, KindInv, EstPcs, EstKinds
<1>2. \A t \in Tokens : SpendsInFlight(t) = {}
  BY DEF EstInit, SpendsInFlight
<1>3. TokenBalance
  BY <1>2, FS_EmptySet DEF EstInit, TokenBalance
<1> QED
  BY <1>1, <1>3 DEF EstInv

\* Steps that leave uses, budgets and answers alone, and by which at most one
\* request stops holding a use.
LEMMA BalanceKept ==
    ASSUME EstInv, EstTypeOK', UNCHANGED <<tokenMax, tokenUses, tokenEnrolled>>,
           NEW h \in EstHandlers,
           \A t \in Tokens : \/ SpendsInFlight(t)' = SpendsInFlight(t)
                             \/ SpendsInFlight(t)' = SpendsInFlight(t) \ {h}
    PROVE  TokenBalance'
<1> SUFFICES ASSUME NEW t \in Tokens
             PROVE  /\ tokenUses'[t] >= 0
                    /\ tokenUses'[t] + Cardinality(SpendsInFlight(t)') + tokenEnrolled'[t]
                         <= tokenMax'[t]
  BY DEF TokenBalance
<1>1. /\ tokenUses[t] \in Nat /\ tokenMax[t] \in Nat /\ tokenEnrolled[t] \in Nat
      /\ tokenUses[t] + Cardinality(SpendsInFlight(t)) + tokenEnrolled[t] <= tokenMax[t]
  BY EstAssumption DEF EstInv, EstTypeOK, TokenBalance
<1>2. /\ Cardinality(SpendsInFlight(t)) \in Nat
      /\ Cardinality(SpendsInFlight(t) \ {h}) <= Cardinality(SpendsInFlight(t))
      /\ Cardinality(SpendsInFlight(t) \ {h}) \in Nat
  <2>1. Cardinality(SpendsInFlight(t)) \in Nat
    BY SpendsCounted
  <2>2. IsFiniteSet(SpendsInFlight(t)) /\ SpendsInFlight(t) \ {h} \in SUBSET SpendsInFlight(t)
    BY SpendsCounted
  <2> QED
    BY <2>1, <2>2, FS_Subset, FS_CardinalityType
<1>3. \/ Cardinality(SpendsInFlight(t)') = Cardinality(SpendsInFlight(t))
      \/ Cardinality(SpendsInFlight(t)') = Cardinality(SpendsInFlight(t) \ {h})
  OBVIOUS
<1> QED
  BY <1>1, <1>2, <1>3

\* Minting, revocation and expiry.
LEMMA TokenSteps ==
    ASSUME EstInv, NEW t \in Tokens,
           \/ \E n \in 1..MaxUses : MintToken(t, n)
           \/ RevokeToken(t)
           \/ ExpireToken(t)
    PROVE  EstInv'
<1>0. EstTypeOK /\ KindInv /\ TokenBalance
  BY DEF EstInv
<1>1. UNCHANGED <<estPc, estKind, estToken, enrolled, tokenEnrolled>>
  BY DEF MintToken, RevokeToken, ExpireToken, estHandlerVars
<1>2. KindInv' /\ \A u : SpendsInFlight(u)' = SpendsInFlight(u)
  BY <1>0, <1>1 DEF KindInv, SpendsInFlight
<1>3. /\ tokenMax' \in [Tokens -> 0..MaxUses] /\ tokenUses' \in [Tokens -> Nat]
      /\ tokenRevoked' \subseteq Tokens /\ tokenExpired' \subseteq Tokens
  BY <1>0, EstAssumption DEF EstTypeOK, MintToken, RevokeToken, ExpireToken
<1>4. EstTypeOK'
  BY <1>0, <1>1, <1>3 DEF EstTypeOK
<1>5. TokenBalance'
  <2> SUFFICES ASSUME NEW u \in Tokens
               PROVE  /\ tokenUses'[u] >= 0
                      /\ tokenUses'[u] + Cardinality(SpendsInFlight(u)') + tokenEnrolled'[u]
                           <= tokenMax'[u]
    BY DEF TokenBalance
  <2>1. /\ tokenUses[u] \in Nat /\ tokenMax[u] \in Nat /\ tokenEnrolled[u] \in Nat
        /\ tokenUses[u] + Cardinality(SpendsInFlight(u)) + tokenEnrolled[u] <= tokenMax[u]
    BY <1>0, EstAssumption DEF EstTypeOK, TokenBalance
  <2>2. Cardinality(SpendsInFlight(u)) \in Nat
    <3>1. CASE EstHandlers = {}
      BY <3>1, FS_EmptySet DEF SpendsInFlight
    <3>2. CASE EstHandlers # {}
      BY <3>2, SpendsCounted
    <3> QED
      BY <3>1, <3>2
  <2>3. /\ Cardinality(SpendsInFlight(u)') = Cardinality(SpendsInFlight(u))
        /\ tokenEnrolled'[u] = tokenEnrolled[u]
    BY <1>1, <1>2
  <2>4. \/ tokenUses'[u] = tokenUses[u] /\ tokenMax'[u] = tokenMax[u]
        \/ tokenUses'[u] = 0 /\ tokenMax'[u] = tokenMax[u]
        \/ tokenUses'[u] = tokenMax'[u] /\ tokenMax[u] = 0 /\ tokenMax'[u] \in Nat
    BY <1>0, EstAssumption DEF EstTypeOK, MintToken, RevokeToken, ExpireToken
  <2> QED
    BY <2>1, <2>2, <2>3, <2>4
<1> QED
  BY <1>2, <1>4, <1>5 DEF EstInv

\* The type of the request variables after a step of one request.
LEMMA RequestTyped ==
    ASSUME EstTypeOK, NEW h \in EstHandlers, NEW p \in EstPcs, EstAt(h, p), estPc[h] # "idle"
    PROVE  /\ estPc' \in [EstHandlers -> EstPcs]
           /\ estKind' \in [EstHandlers -> EstKinds]
           /\ estToken' \in [EstHandlers -> Tokens \union {NoToken}]
           /\ \A g \in EstHandlers : estPc'[g] # "idle" => estToken'[g] \in Tokens
  BY DEF EstTypeOK, EstAt

\* And after its end.
LEMMA EndedTyped ==
    ASSUME EstTypeOK, NEW h \in EstHandlers, EstEnds(h)
    PROVE  /\ estPc' \in [EstHandlers -> EstPcs]
           /\ estKind' \in [EstHandlers -> EstKinds]
           /\ estToken' \in [EstHandlers -> Tokens \union {NoToken}]
           /\ \A g \in EstHandlers : estPc'[g] # "idle" => estToken'[g] \in Tokens
  BY DEF EstTypeOK, EstEnds, EstPcs, EstKinds

\* Which requests hold a use after a step of one.
LEMMA SpendsAfter ==
    ASSUME EstTypeOK, NEW h \in EstHandlers,
           \A g \in EstHandlers \ {h} :
             estPc'[g] = estPc[g] /\ estKind'[g] = estKind[g] /\ estToken'[g] = estToken[g],
           NEW t
    PROVE  SpendsInFlight(t)' =
             IF /\ estToken'[h] = t
                /\ estKind'[h] = "enroll"
                /\ estPc'[h] \in {"issue", "mark", "refund", "record"}
             THEN SpendsInFlight(t) \union {h} ELSE SpendsInFlight(t) \ {h}
  BY DEF SpendsInFlight

\* The requests that hold a use are those before, or without h: a step by
\* which h moves from a place where it holds one to another, or to none.
LEMMA SpendsShrink ==
    ASSUME EstTypeOK, NEW h \in EstHandlers,
           \A g \in EstHandlers \ {h} :
             estPc'[g] = estPc[g] /\ estKind'[g] = estKind[g] /\ estToken'[g] = estToken[g],
           \/ estPc'[h] \notin {"issue", "mark", "refund", "record"}
           \/ estKind'[h] # "enroll"
           \/ /\ estPc[h] \in {"issue", "mark", "refund", "record"}
              /\ estKind'[h] = estKind[h] /\ estToken'[h] = estToken[h],
           NEW t
    PROVE  \/ SpendsInFlight(t)' = SpendsInFlight(t)
           \/ SpendsInFlight(t)' = SpendsInFlight(t) \ {h}
  BY SpendsAfter DEF SpendsInFlight

\* The steps of a request that touch no token.
LEMMA QuietRequest ==
    ASSUME EstInv, NEW h \in EstHandlers,
           \/ \E t \in Tokens, k \in EstKinds : EstAuthenticate(h, t, k)
           \/ EstPrior(h) \/ EstCreate(h) \/ EstReserveRefused(h) \/ EstIssue(h)
           \/ EstMark(h) \/ EstEnrollFails(h) \/ EstAnswer(h) \/ EstDropped(h)
    PROVE  EstInv'
<1>0. EstTypeOK /\ KindInv /\ TokenBalance
  BY DEF EstInv
<1>1. UNCHANGED <<estTokenVars, tokenEnrolled>>
  BY DEF EstAuthenticate, EstPrior, EstCreate, EstReserveRefused, EstIssue, EstMark,
         EstEnrollFails, EstAnswer, EstDropped
<1> DEFINE Holding == {"issue", "mark", "refund", "record"}
<1>2. /\ enrolled' \subseteq Tokens
      /\ estPc' \in [EstHandlers -> EstPcs]
      /\ estKind' \in [EstHandlers -> EstKinds]
      /\ estToken' \in [EstHandlers -> Tokens \union {NoToken}]
      /\ \A g \in EstHandlers : estPc'[g] # "idle" => estToken'[g] \in Tokens
      /\ \A g \in EstHandlers \ {h} :
           estPc'[g] = estPc[g] /\ estKind'[g] = estKind[g] /\ estToken'[g] = estToken[g]
      /\ estPc'[h] \in {"reserve", "refund", "record"} => estKind'[h] = "enroll"
      /\ \/ estPc'[h] \notin Holding
         \/ estKind'[h] # "enroll"
         \/ estPc[h] \in Holding /\ estKind'[h] = estKind[h] /\ estToken'[h] = estToken[h]
  <2>1. ASSUME NEW t \in Tokens, NEW k \in EstKinds, EstAuthenticate(h, t, k)
        PROVE  <1>2!:
    BY <1>0, <2>1 DEF EstAuthenticate, EstTypeOK, EstPcs
  <2>2. CASE EstPrior(h)
    BY <1>0, <2>2 DEF EstPrior, EstTypeOK, EstAt, EstEnds, EstPcs, EstKinds
  <2>3. CASE EstCreate(h)
    BY <1>0, <2>3 DEF EstCreate, EstTypeOK, EstAt, EstPcs, EstKinds
  <2>4. CASE EstReserveRefused(h) \/ EstAnswer(h) \/ EstDropped(h)
    BY <1>0, <2>4 DEF EstReserveRefused, EstAnswer, EstDropped, EstTypeOK, EstEnds, EstPcs, EstKinds
  <2>5. CASE EstIssue(h)
    BY <1>0, <2>5 DEF EstIssue, EstTypeOK, EstAt, EstPcs, EstKinds
  <2>6. CASE EstMark(h)
    BY <1>0, <2>6 DEF EstMark, EstTypeOK, EstAt, EstPcs, EstKinds
  <2>7. CASE EstEnrollFails(h)
    BY <1>0, <2>7 DEF EstEnrollFails, EstTypeOK, EstAt, EstEnds, EstPcs, EstKinds
  <2> QED
    BY <2>1, <2>2, <2>3, <2>4, <2>5, <2>6, <2>7
<1>3. EstTypeOK'
  BY <1>0, <1>1, <1>2 DEF EstTypeOK, estTokenVars
<1>4. KindInv'
  BY <1>0, <1>2 DEF KindInv
<1>5. \A t \in Tokens : \/ SpendsInFlight(t)' = SpendsInFlight(t)
                        \/ SpendsInFlight(t)' = SpendsInFlight(t) \ {h}
  BY <1>0, <1>2, SpendsShrink
<1>6. TokenBalance'
  BY <1>1, <1>3, <1>5, BalanceKept DEF estTokenVars
<1> QED
  BY <1>3, <1>4, <1>6 DEF EstInv

\* Steps that move uses between the balance of h's token, the requests in
\* flight and the answers: what one loses another gains at most.
LEMMA BalanceMoved ==
    ASSUME EstInv, NEW h \in EstHandlers, NEW t \in Tokens,
           UNCHANGED tokenMax, EstTypeOK',
           \A u \in Tokens \ {t} :
             /\ tokenUses'[u] = tokenUses[u] /\ tokenEnrolled'[u] = tokenEnrolled[u]
             /\ SpendsInFlight(u)' = SpendsInFlight(u),
           \/ /\ h \notin SpendsInFlight(t)
              /\ SpendsInFlight(t)' = SpendsInFlight(t) \union {h}
              /\ tokenUses'[t] = tokenUses[t] - 1
              /\ tokenEnrolled'[t] = tokenEnrolled[t]
           \/ /\ h \in SpendsInFlight(t)
              /\ SpendsInFlight(t)' = SpendsInFlight(t) \ {h}
              /\ tokenUses'[t] + tokenEnrolled'[t] <= tokenUses[t] + tokenEnrolled[t] + 1
           \/ /\ SpendsInFlight(t)' = SpendsInFlight(t)
              /\ tokenUses'[t] <= tokenUses[t]
              /\ tokenEnrolled'[t] = tokenEnrolled[t]
    PROVE  TokenBalance'
<1> SUFFICES ASSUME NEW u \in Tokens
             PROVE  /\ tokenUses'[u] >= 0
                    /\ tokenUses'[u] + Cardinality(SpendsInFlight(u)') + tokenEnrolled'[u]
                         <= tokenMax'[u]
  BY DEF TokenBalance
<1>1. /\ tokenUses[u] \in Nat /\ tokenMax[u] \in Nat /\ tokenEnrolled[u] \in Nat
      /\ tokenUses'[u] \in Nat /\ tokenMax'[u] = tokenMax[u] /\ tokenEnrolled'[u] \in Nat
      /\ tokenUses[u] + Cardinality(SpendsInFlight(u)) + tokenEnrolled[u] <= tokenMax[u]
  BY EstAssumption DEF EstInv, EstTypeOK, TokenBalance
<1>2. CASE u # t
  <2>1. /\ tokenUses'[u] = tokenUses[u] /\ tokenEnrolled'[u] = tokenEnrolled[u]
        /\ Cardinality(SpendsInFlight(u)') = Cardinality(SpendsInFlight(u))
    BY <1>2
  <2>2. Cardinality(SpendsInFlight(u)) \in Nat
    BY SpendsCounted
  <2> QED
    BY <1>1, <2>1, <2>2
<1>3. CASE u = t
  <2>1. /\ Cardinality(SpendsInFlight(t)) \in Nat
        /\ h \notin SpendsInFlight(t) =>
             Cardinality(SpendsInFlight(t) \union {h}) = Cardinality(SpendsInFlight(t)) + 1
        /\ h \in SpendsInFlight(t) =>
             Cardinality(SpendsInFlight(t) \ {h}) = Cardinality(SpendsInFlight(t)) - 1
    BY SpendsCounted
  <2>2. \/ /\ Cardinality(SpendsInFlight(t)') = Cardinality(SpendsInFlight(t)) + 1
           /\ tokenUses'[t] = tokenUses[t] - 1
           /\ tokenEnrolled'[t] = tokenEnrolled[t]
        \/ /\ Cardinality(SpendsInFlight(t)') = Cardinality(SpendsInFlight(t)) - 1
           /\ tokenUses'[t] + tokenEnrolled'[t] <= tokenUses[t] + tokenEnrolled[t] + 1
        \/ /\ Cardinality(SpendsInFlight(t)') = Cardinality(SpendsInFlight(t))
           /\ tokenUses'[t] <= tokenUses[t]
           /\ tokenEnrolled'[t] = tokenEnrolled[t]
    BY <2>1
  <2> QED
    BY <1>1, <1>3, <2>1, <2>2
<1> QED
  BY <1>2, <1>3

\* reserve, refund, record and consume.
LEMMA SpendingRequest ==
    ASSUME EstInv, NEW h \in EstHandlers,
           EstReserve(h) \/ EstRefund(h) \/ EstRecord(h) \/ EstConsume(h)
    PROVE  EstInv'
<1>0. EstTypeOK /\ KindInv /\ TokenBalance
  BY DEF EstInv
<1>1. PICK t \in Tokens : estToken[h] = t
  BY <1>0 DEF EstReserve, EstRefund, EstRecord, EstConsume, EstTypeOK
<1>2. /\ UNCHANGED <<tokenMax, tokenRevoked, tokenExpired, enrolled>>
      /\ tokenUses' \in [Tokens -> Nat] /\ tokenEnrolled' \in [Tokens -> Nat]
      /\ \A u \in Tokens \ {t} :
           tokenUses'[u] = tokenUses[u] /\ tokenEnrolled'[u] = tokenEnrolled[u]
  <2>1. CASE EstReserve(h)
    BY <1>0, <1>1, <2>1 DEF EstReserve, Spend, Live, EstTypeOK
  <2>2. CASE EstRefund(h)
    BY <1>0, <1>1, <2>2 DEF EstRefund, EstTypeOK
  <2>3. CASE EstRecord(h)
    BY <1>0, <1>1, <2>3 DEF EstRecord, EstTypeOK, estTokenVars
  <2>4. CASE EstConsume(h)
    BY <1>0, <1>1, <2>4 DEF EstConsume, Spend, Live, EstTypeOK
  <2> QED
    BY <2>1, <2>2, <2>3, <2>4
<1>3. /\ estPc' \in [EstHandlers -> EstPcs]
      /\ estKind' \in [EstHandlers -> EstKinds]
      /\ estToken' \in [EstHandlers -> Tokens \union {NoToken}]
      /\ \A g \in EstHandlers : estPc'[g] # "idle" => estToken'[g] \in Tokens
      /\ \A g \in EstHandlers \ {h} :
           estPc'[g] = estPc[g] /\ estKind'[g] = estKind[g] /\ estToken'[g] = estToken[g]
      /\ estPc'[h] \in {"issue", "load", "idle"}
  BY <1>0 DEF EstReserve, EstRefund, EstRecord, EstConsume, EstTypeOK, EstAt, EstEnds,
              EstPcs, EstKinds
<1>4. EstTypeOK'
  BY <1>0, <1>2, <1>3 DEF EstTypeOK
<1>5. KindInv'
  BY <1>0, <1>3 DEF KindInv
<1>6. \A u \in Tokens \ {t} : SpendsInFlight(u)' = SpendsInFlight(u)
  <2> SUFFICES ASSUME NEW u \in Tokens \ {t} PROVE SpendsInFlight(u)' = SpendsInFlight(u)
    OBVIOUS
  <2>1. h \notin SpendsInFlight(u)
    BY <1>1 DEF SpendsInFlight
  <2>2. estPc'[h] \in {"load", "idle"} \/ estToken'[h] = t
    BY <1>0, <1>1 DEF EstReserve, EstRefund, EstRecord, EstConsume, EstTypeOK, EstAt, EstEnds
  <2> QED
    BY <1>0, <1>3, <2>1, <2>2, SpendsAfter
<1>7. \/ /\ h \notin SpendsInFlight(t)
         /\ SpendsInFlight(t)' = SpendsInFlight(t) \union {h}
         /\ tokenUses'[t] = tokenUses[t] - 1
         /\ tokenEnrolled'[t] = tokenEnrolled[t]
      \/ /\ h \in SpendsInFlight(t)
         /\ SpendsInFlight(t)' = SpendsInFlight(t) \ {h}
         /\ tokenUses'[t] + tokenEnrolled'[t] <= tokenUses[t] + tokenEnrolled[t] + 1
      \/ /\ SpendsInFlight(t)' = SpendsInFlight(t)
         /\ tokenUses'[t] <= tokenUses[t]
         /\ tokenEnrolled'[t] = tokenEnrolled[t]
  <2>1. CASE EstReserve(h)
    <3>1. /\ estPc[h] = "reserve" /\ estKind[h] = "enroll"
          /\ estPc'[h] = "issue" /\ estKind'[h] = "enroll" /\ estToken'[h] = t
          /\ tokenUses'[t] = tokenUses[t] - 1 /\ tokenEnrolled'[t] = tokenEnrolled[t]
      BY <1>0, <1>1, <2>1 DEF EstReserve, Spend, EstAt, EstTypeOK, KindInv
    <3>2. h \notin SpendsInFlight(t)
      BY <3>1 DEF SpendsInFlight
    <3> QED
      BY <1>0, <1>3, <3>1, <3>2, SpendsAfter
  <2>2. CASE EstRefund(h)
    <3>1. /\ estPc[h] = "refund" /\ estKind[h] = "enroll" /\ estPc'[h] = "idle"
          /\ tokenUses'[t] <= tokenUses[t] + 1 /\ tokenEnrolled'[t] = tokenEnrolled[t]
      BY <1>0, <1>1, <2>2 DEF EstRefund, EstEnds, EstTypeOK, KindInv
    <3>2. h \in SpendsInFlight(t)
      BY <1>1, <3>1 DEF SpendsInFlight
    <3>3. SpendsInFlight(t)' = SpendsInFlight(t) \ {h}
      BY <1>0, <1>3, <3>1, SpendsAfter
    <3> QED
      BY <1>0, <1>1, <1>2, <3>1, <3>2, <3>3 DEF EstTypeOK
  <2>3. CASE EstRecord(h)
    <3>1. /\ estPc[h] = "record" /\ estKind[h] = "enroll" /\ estPc'[h] = "load"
          /\ tokenUses'[t] = tokenUses[t] /\ tokenEnrolled'[t] = tokenEnrolled[t] + 1
      BY <1>0, <1>1, <2>3 DEF EstRecord, EstAt, EstTypeOK, KindInv, estTokenVars
    <3>2. h \in SpendsInFlight(t)
      BY <1>1, <3>1 DEF SpendsInFlight
    <3>3. SpendsInFlight(t)' = SpendsInFlight(t) \ {h}
      BY <1>0, <1>3, <3>1, SpendsAfter
    <3> QED
      BY <1>0, <1>1, <1>2, <3>1, <3>2, <3>3 DEF EstTypeOK
  <2>4. CASE EstConsume(h)
    <3>1. /\ estPc[h] = "consume" /\ estPc'[h] = "load"
          /\ tokenUses'[t] <= tokenUses[t] /\ tokenEnrolled'[t] = tokenEnrolled[t]
      BY <1>0, <1>1, <2>4 DEF EstConsume, Spend, EstAt, EstTypeOK
    <3>2. h \notin SpendsInFlight(t)
      BY <3>1 DEF SpendsInFlight
    <3>3. SpendsInFlight(t)' = SpendsInFlight(t)
      BY <1>0, <1>3, <3>1, <3>2, SpendsAfter
    <3> QED
      BY <3>1, <3>3
  <2> QED
    BY <2>1, <2>2, <2>3, <2>4
<1>8. TokenBalance'
  BY <1>1, <1>2, <1>4, <1>6, <1>7, BalanceMoved
<1> QED
  BY <1>4, <1>5, <1>8 DEF EstInv

\* Every step preserves the invariant.
LEMMA EstStepInv == ASSUME EstInv, [EstNext]_estVars PROVE EstInv'
<1>1. CASE EstNext
  BY <1>1, TokenSteps, QuietRequest, SpendingRequest DEF EstNext, EstStep
<1>2. CASE UNCHANGED estVars
  <2>1. EstTypeOK' /\ KindInv'
    BY <1>2 DEF EstInv, EstTypeOK, KindInv, estVars, estTokenVars, estHandlerVars
  <2>2. \A t : SpendsInFlight(t)' = SpendsInFlight(t)
    BY <1>2 DEF SpendsInFlight, estVars, estHandlerVars
  <2>3. TokenBalance'
    BY <1>2, <2>2 DEF EstInv, TokenBalance, estVars, estTokenVars
  <2> QED
    BY <2>1, <2>3 DEF EstInv
<1> QED
  BY <1>1, <1>2

\* Of any number of racing requests of a token's bearers at most max_uses
\* simpleenroll requests are answered with a certificate, and uses_remaining
\* never falls below zero nor above what is left of the budget
\* (consume_enrollment_token, refund_enrollment_token).
THEOREM TokensBalanced == EstSpec => []TokenBalance
<1>1. EstInit => EstInv
  BY EstInitInv
<1>2. EstInv /\ [EstNext]_estVars => EstInv'
  BY EstStepInv
<1>3. EstInv => TokenBalance
  BY DEF EstInv
<1> QED
  BY <1>1, <1>2, <1>3, PTL DEF EstSpec

-----------------------------------------------------------------------------
(* Sequence numbers of TAMP messages.                                      *)

\* Nothing has been received or sent.
LEMMA TampInitInv == ASSUME TampInit PROVE TampInv
<1>1. SeqTypeOK
  BY TampAssumption DEF TampInit, SeqTypeOK, SeqNos
<1>2. IngestInv
  BY TampAssumption DEF TampInit, IngestInv
<1>3. BoundInv /\ TampSequences
  BY DEF TampInit, BoundInv, TampSequences
<1> QED
  BY <1>1, <1>2, <1>3 DEF TampInv

\* The conjuncts about inbound messages, and those about outbound ones.
InboundInv ==
    /\ IngestInv
    /\ \A s \in TampSigners :
         /\ \A n \in 1..Len(accepted[s]) : accepted[s][n] <= lastSeq[s]
         /\ \A m, n \in 1..Len(accepted[s]) : m < n => accepted[s][m] < accepted[s][n]

OutboundInv ==
    /\ \A n \in emitted : n <= ownSeq
    /\ \A o \in Issues : outPc[o] \in {"sign", "apply", "finalize"} =>
         /\ outSeq[o] <= ownSeq
         /\ outSeq[o] \notin emitted
         /\ \A p \in Issues \ {o} :
              outPc[p] \in {"sign", "apply", "finalize"} => outSeq[p] # outSeq[o]

\* The invariant is made of the two.
LEMMA TampInvParts ==
    /\ TampInv <=> SeqTypeOK /\ InboundInv /\ OutboundInv
    /\ TampInv' <=> SeqTypeOK' /\ InboundInv' /\ OutboundInv'
  BY DEF TampInv, InboundInv, OutboundInv, BoundInv, TampSequences

\* A step of an inbound message that accepts no number.
LEMMA IngestMoves ==
    ASSUME SeqTypeOK, InboundInv, UNCHANGED outVars, NEW i \in Ingests,
           \/ \E s \in TampSigners :
                (\E n \in SeqNos : IngestNumbered(i, s, n)) \/ IngestUnnumbered(i, s)
           \/ LogInbound(i)
           \/ IngestFails(i)
    PROVE  SeqTypeOK' /\ InboundInv'
<1>1. CASE \E s \in TampSigners : \E n \in SeqNos : IngestNumbered(i, s, n)
  <2>1. PICK s \in TampSigners, n \in SeqNos : IngestNumbered(i, s, n)
    BY <1>1
  <2>2. SeqTypeOK'
    BY <2>1 DEF IngestNumbered, InAt, SeqTypeOK, outVars
  <2>3. IngestInv'
    BY <2>1, TampAssumption DEF IngestNumbered, InAt, SeqTypeOK, InboundInv, IngestInv
  <2> QED
    BY <2>1, <2>2, <2>3 DEF IngestNumbered, InboundInv
<1>2. CASE \E s \in TampSigners : IngestUnnumbered(i, s)
  <2>1. PICK s \in TampSigners : IngestUnnumbered(i, s)
    BY <1>2
  <2>2. SeqTypeOK'
    BY <2>1 DEF IngestUnnumbered, InAt, SeqTypeOK, outVars
  <2>3. IngestInv'
    BY <2>1, TampAssumption DEF IngestUnnumbered, InAt, SeqTypeOK, InboundInv, IngestInv
  <2> QED
    BY <2>1, <2>2, <2>3 DEF IngestUnnumbered, InboundInv
<1>3. CASE LogInbound(i)
  <2>1. SeqTypeOK'
    BY <1>3, TampAssumption DEF LogInbound, IngestEnds, InAt, SeqTypeOK, SeqNos, outVars
  <2>2. IngestInv'
    BY <1>3, TampAssumption DEF LogInbound, IngestEnds, InAt, SeqTypeOK, InboundInv, IngestInv
  <2> QED
    BY <1>3, <2>1, <2>2 DEF LogInbound, InboundInv
<1>4. CASE IngestFails(i)
  <2>1. SeqTypeOK'
    BY <1>4, TampAssumption DEF IngestFails, IngestEnds, InAt, SeqTypeOK, SeqNos, outVars
  <2>2. IngestInv'
    BY <1>4, TampAssumption DEF IngestFails, IngestEnds, InAt, SeqTypeOK, InboundInv, IngestInv
  <2> QED
    BY <1>4, <2>1, <2>2 DEF IngestFails, InboundInv
<1> QED
  BY <1>1, <1>2, <1>3, <1>4

\* SELECT ... FOR UPDATE.
LEMMA IngestLocks ==
    ASSUME SeqTypeOK, InboundInv, UNCHANGED outVars, NEW i \in Ingests, LockSeq(i)
    PROVE  SeqTypeOK' /\ InboundInv'
<1>0. /\ inPc[i] = "check" /\ seqOwner[inSigner[i]] = NoTamp
      /\ inSigner[i] \in TampSigners
      /\ UNCHANGED <<signerKnown, lastSeq, accepted>>
  BY DEF LockSeq, InboundInv, IngestInv
<1>1. CASE IngestEnds(i) /\ UNCHANGED seqOwner
  <2>1. SeqTypeOK'
    BY <1>0, <1>1, TampAssumption DEF IngestEnds, InAt, SeqTypeOK, SeqNos, outVars
  <2>2. IngestInv'
    BY <1>0, <1>1, TampAssumption DEF IngestEnds, InAt, SeqTypeOK, InboundInv, IngestInv
  <2> QED
    BY <1>0, <2>1, <2>2 DEF InboundInv
<1>2. CASE /\ lastSeq[inSigner[i]] # -1
           /\ inSeq[i] > lastSeq[inSigner[i]]
           /\ InAt(i, "update")
           /\ seqOwner' = [seqOwner EXCEPT ![inSigner[i]] = i]
           /\ UNCHANGED <<inSigner, inSeq>>
  <2>1. SeqTypeOK'
    BY <1>0, <1>2 DEF InAt, SeqTypeOK, outVars
  <2>2. \A j \in Ingests :
          /\ inPc'[j] = IF j = i THEN "update" ELSE inPc[j]
          /\ inPc[j] = "update" => inSigner[j] # inSigner[i]
    BY <1>0, <1>2, TampAssumption DEF InAt, SeqTypeOK, InboundInv, IngestInv
  <2>3. inSeq[i] \in Int /\ lastSeq[inSigner[i]] \in Int
    BY <1>0, TampAssumption DEF SeqTypeOK, SeqNos
  <2>4. IngestInv'
    BY <1>0, <1>2, <2>2, <2>3, TampAssumption DEF SeqTypeOK, InboundInv, IngestInv
  <2> QED
    BY <1>0, <2>1, <2>4 DEF InboundInv
<1>3. CASE InAt(i, "insert") /\ UNCHANGED <<seqOwner, inSigner, inSeq>>
  <2>1. SeqTypeOK'
    BY <1>0, <1>3 DEF InAt, SeqTypeOK, outVars
  <2>2. IngestInv'
    BY <1>0, <1>3 DEF InAt, SeqTypeOK, InboundInv, IngestInv
  <2> QED
    BY <1>0, <2>1, <2>2 DEF InboundInv
<1> QED
  BY <1>1, <1>2, <1>3 DEF LockSeq

\* A number above all those accepted is appended.
LEMMA IngestAccepts ==
    ASSUME SeqTypeOK, InboundInv, UNCHANGED outVars, NEW i \in Ingests,
           UpdateSeq(i) \/ InsertSeq(i)
    PROVE  SeqTypeOK' /\ InboundInv'
<1>1. PICK s \in TampSigners : inSigner[i] = s
  BY DEF UpdateSeq, InsertSeq, InboundInv, IngestInv
<1>2. PICK n \in SeqNos : inSeq[i] = n
  BY DEF SeqTypeOK
<1>3. /\ lastSeq' = [lastSeq EXCEPT ![s] = n]
      /\ accepted' = [accepted EXCEPT ![s] = Append(accepted[s], n)]
      /\ inPc' = [inPc EXCEPT ![i] = "log"]
      /\ UNCHANGED <<signerKnown, inSigner, inSeq>>
      /\ inPc[i] \in {"update", "insert"}
      /\ \/ inPc[i] = "update" /\ seqOwner' = [seqOwner EXCEPT ![s] = NoTamp]
         \/ inPc[i] = "insert" /\ lastSeq[s] = -1 /\ UNCHANGED seqOwner
  BY <1>1, <1>2 DEF UpdateSeq, InsertSeq, Accept, InAt
<1>4. n \in Nat /\ lastSeq[s] \in Int /\ lastSeq[s] < n
  BY <1>1, <1>2, <1>3, TampAssumption DEF SeqTypeOK, SeqNos, InboundInv, IngestInv
<1>5. SeqTypeOK'
  BY <1>3 DEF SeqTypeOK, outVars
<1>6. \A j \in Ingests : j # i /\ inPc[j] = "update" => inSigner[j] # s
  BY <1>1, <1>3 DEF InboundInv, IngestInv
<1>7. IngestInv'
  <2>1. \A j \in Ingests :
          /\ inPc'[j] = IF j = i THEN "log" ELSE inPc[j]
          /\ inPc'[j] = "update" => /\ inSigner[j] \in TampSigners \ {s}
                                    /\ seqOwner'[inSigner[j]] = seqOwner[inSigner[j]]
                                    /\ lastSeq'[inSigner[j]] = lastSeq[inSigner[j]]
    BY <1>3, <1>6 DEF SeqTypeOK, InboundInv, IngestInv
  <2>2. \A u \in TampSigners : \A j \in Ingests :
          seqOwner'[u] = j => seqOwner[u] = j /\ j # i
    BY <1>1, <1>3, TampAssumption DEF SeqTypeOK, InboundInv, IngestInv
  <2> QED
    BY <1>3, <2>1, <2>2 DEF InboundInv, IngestInv
<1>8. \A u \in TampSigners :
        /\ \A m \in 1..Len(accepted'[u]) : accepted'[u][m] <= lastSeq'[u]
        /\ \A m, k \in 1..Len(accepted'[u]) : m < k => accepted'[u][m] < accepted'[u][k]
  <2> SUFFICES ASSUME NEW u \in TampSigners
               PROVE  /\ \A m \in 1..Len(accepted'[u]) : accepted'[u][m] <= lastSeq'[u]
                      /\ \A m, k \in 1..Len(accepted'[u]) :
                           m < k => accepted'[u][m] < accepted'[u][k]
    OBVIOUS
  <2>1. CASE u # s
    BY <1>3, <2>1 DEF SeqTypeOK, InboundInv
  <2>2. CASE u = s
    <3> DEFINE a == accepted[s]
    <3>1. a \in Seq(Int) /\ \A m \in 1..Len(a) : a[m] \in Int
      BY TampAssumption DEF SeqTypeOK, SeqNos
    <3>2. /\ \A m \in 1..Len(a) : a[m] <= lastSeq[s]
          /\ \A m, k \in 1..Len(a) : m < k => a[m] < a[k]
      BY DEF InboundInv
    <3>3. accepted'[u] = Append(a, n) /\ lastSeq'[u] = n
      BY <1>3, <2>2 DEF SeqTypeOK
    <3> HIDE DEF a
    <3>4. /\ Len(Append(a, n)) = Len(a) + 1 /\ Len(a) \in Nat
          /\ \A m \in 1..Len(a) : Append(a, n)[m] = a[m]
          /\ Append(a, n)[Len(a) + 1] = n
      BY <3>1
    <3>5. \A m \in 1..Len(a) : a[m] < n
      BY <1>4, <3>1, <3>2
    <3> QED
      BY <1>4, <3>1, <3>2, <3>3, <3>4, <3>5
  <2> QED
    BY <2>1, <2>2
<1> QED
  BY <1>5, <1>7, <1>8 DEF InboundInv

\* Steps about inbound messages.
LEMMA TampInStep == ASSUME TampInv, TampInNext PROVE TampInv'
<1>0. SeqTypeOK /\ InboundInv /\ OutboundInv
  BY TampInvParts
<1>1. UNCHANGED outVars
  BY DEF TampInNext, RegisterSigner, IngestNumbered, IngestUnnumbered, LockSeq, UpdateSeq,
         InsertSeq, LogInbound, IngestFails
<1>2. SeqTypeOK' /\ InboundInv'
  <2>1. ASSUME NEW s \in TampSigners, RegisterSigner(s) PROVE SeqTypeOK' /\ InboundInv'
    <3>1. SeqTypeOK'
      BY <1>0, <1>1, <2>1 DEF RegisterSigner, SeqTypeOK, outVars
    <3> QED
      BY <1>0, <2>1, <3>1 DEF RegisterSigner, InboundInv, IngestInv
  <2> QED
    BY <1>0, <1>1, <2>1, IngestMoves, IngestLocks, IngestAccepts DEF TampInNext
<1>3. OutboundInv'
  BY <1>0, <1>1 DEF OutboundInv, outVars
<1> QED
  BY <1>2, <1>3, TampInvParts

\* Steps about outbound messages: a number is taken once, and goes out once.
LEMMA TampOutStep == ASSUME TampInv, TampOutNext PROVE TampInv'
<1>0. SeqTypeOK /\ InboundInv /\ OutboundInv
  BY TampInvParts
<1>1. UNCHANGED inVars
  BY DEF TampOutNext, IssueMessage, CheckEdit, AllocateSeq, SignOutbound, ApplyWrites,
         ApplyCommunities, ApplyApex, Finalize, IssueFailsTamp
<1>2. InboundInv'
  BY <1>0, <1>1 DEF InboundInv, IngestInv, inVars
<1> DEFINE Numbered == {"sign", "apply", "finalize"}
<1>3. ASSUME NEW o \in Issues, UNCHANGED <<ownSeq, emitted>>,
             outPc' \in [Issues -> {"idle", "edits", "number", "sign", "apply", "finalize"}],
             outSeq' \in [Issues -> SeqNos],
             \A p \in Issues : outPc'[p] \in Numbered =>
               outPc[p] \in Numbered /\ outSeq'[p] = outSeq[p]
      PROVE  TampInv'
  <2>1. SeqTypeOK'
    BY <1>0, <1>1, <1>3 DEF SeqTypeOK, inVars
  <2>2. OutboundInv'
    BY <1>0, <1>3 DEF OutboundInv
  <2> QED
    BY <1>2, <2>1, <2>2, TampInvParts
<1>4. ASSUME NEW o \in Issues, NEW m \in OutMessages, IssueMessage(o, m) PROVE TampInv'
  BY <1>0, <1>3, <1>4 DEF IssueMessage, OutAt, SeqTypeOK
<1>5. ASSUME NEW o \in Issues, CheckEdit(o) \/ IssueFailsTamp(o) PROVE TampInv'
  <2>1. /\ UNCHANGED <<ownSeq, emitted>>
        /\ \/ IssueEnds(o)
           \/ UNCHANGED outSeq /\ outPc' = [outPc EXCEPT ![o] = "number"]
           \/ UNCHANGED outSeq /\ UNCHANGED outPc
    BY <1>5 DEF CheckEdit, IssueFailsTamp, OutAt
  <2> QED
    <3>1. CASE IssueEnds(o)
      <4>1. outPc' = [outPc EXCEPT ![o] = "idle"] /\ outSeq' = [outSeq EXCEPT ![o] = 0]
        BY <3>1 DEF IssueEnds, OutAt
      <4>2. 0 \in SeqNos
        BY TampAssumption DEF SeqNos
      <4> QED
        BY <1>0, <1>3, <2>1, <4>1, <4>2 DEF SeqTypeOK
    <3>2. CASE ~IssueEnds(o)
      BY <1>0, <1>3, <2>1, <3>2 DEF SeqTypeOK
    <3> QED
      BY <3>1, <3>2
<1>6. ASSUME NEW o \in Issues, SignOutbound(o) PROVE TampInv'
  BY <1>0, <1>3, <1>6 DEF SignOutbound, OutAt, SeqTypeOK
<1>7. ASSUME NEW o \in Issues, ApplyWrites(o) \/ ApplyCommunities(o) \/ ApplyApex(o)
      PROVE  TampInv'
  <2>1. /\ UNCHANGED <<ownSeq, emitted, outSeq>>
        /\ outPc[o] = "apply" /\ outPc' = [outPc EXCEPT ![o] = "finalize"]
    BY <1>7 DEF ApplyWrites, ApplyCommunities, ApplyApex, OutAt
  <2> QED
    BY <1>0, <1>3, <2>1 DEF SeqTypeOK
<1>8. ASSUME NEW o \in Issues, AllocateSeq(o) PROVE TampInv'
  <2>1. ownSeq' \in SeqNos /\ ownSeq' = ownSeq + 1 /\ ownSeq \in Nat
    BY <1>0, <1>8, TampAssumption DEF AllocateSeq, SeqTypeOK, SeqNos
  <2>2. SeqTypeOK'
    BY <1>0, <1>1, <1>8, <2>1 DEF AllocateSeq, OutAt, SeqTypeOK, inVars
  <2>3. \A p \in Issues : /\ p # o => outPc'[p] = outPc[p] /\ outSeq'[p] = outSeq[p]
                          /\ outSeq[p] \in Nat /\ outSeq'[o] = ownSeq'
    BY <1>0, <1>8, <2>1, TampAssumption DEF AllocateSeq, OutAt, SeqTypeOK, SeqNos
  <2>4. emitted' = emitted /\ \A n \in emitted : n \in Nat
    BY <1>0, <1>8, TampAssumption DEF AllocateSeq, SeqTypeOK, SeqNos
  <2>5. OutboundInv'
    BY <1>0, <2>1, <2>3, <2>4 DEF OutboundInv
  <2> QED
    BY <1>2, <2>2, <2>5, TampInvParts
<1>9. ASSUME NEW o \in Issues, Finalize(o) PROVE TampInv'
  <2>1. SeqTypeOK'
    <3>1. 0 \in SeqNos
      BY TampAssumption DEF SeqNos
    <3>2. emitted' \subseteq SeqNos
      BY <1>0, <1>9 DEF Finalize, SeqTypeOK
    <3>3. /\ outPc' = [outPc EXCEPT ![o] = "idle"] /\ outSeq' = [outSeq EXCEPT ![o] = 0]
          /\ UNCHANGED ownSeq
      BY <1>9 DEF Finalize, IssueEnds, OutAt
    <3> QED
      BY <1>0, <1>1, <3>1, <3>2, <3>3 DEF SeqTypeOK, inVars
  <2>2. /\ outPc[o] = "finalize" /\ ownSeq' = ownSeq /\ emitted' = emitted \union {outSeq[o]}
        /\ \A p \in Issues : /\ outPc'[p] \in Numbered => p # o
                             /\ p # o => outPc'[p] = outPc[p] /\ outSeq'[p] = outSeq[p]
    BY <1>0, <1>9 DEF Finalize, IssueEnds, OutAt, SeqTypeOK
  <2>3. OutboundInv'
    BY <1>0, <2>2 DEF OutboundInv
  <2> QED
    BY <1>2, <2>1, <2>3, TampInvParts
<1> QED
  BY <1>4, <1>5, <1>6, <1>7, <1>8, <1>9 DEF TampOutNext

\* The numbers accepted from each signer strictly increase and no number goes
\* out twice, for any number of messages in flight (check_and_advance_seq,
\* allocate_next_seq).
THEOREM SequencesAdvance == TampSpec => []TampSequences
<1>1. TampInit => TampInv
  BY TampInitInv
<1>2. TampInv /\ [TampNext]_tampVars => TampInv'
  <2> SUFFICES ASSUME TampInv, [TampNext]_tampVars PROVE TampInv'
    OBVIOUS
  <2>1. CASE UNCHANGED tampVars
    BY <2>1 DEF TampInv, SeqTypeOK, IngestInv, BoundInv, TampSequences, tampVars, inVars, outVars
  <2> QED
    BY <2>1, TampInStep, TampOutStep DEF TampNext
<1>3. TampInv => TampSequences
  BY DEF TampInv
<1> QED
  BY <1>1, <1>2, <1>3, PTL DEF TampSpec
=============================================================================
