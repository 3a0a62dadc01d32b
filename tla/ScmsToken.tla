----------------------------- MODULE ScmsToken -----------------------------
(***************************************************************************)
(* The life of one hardware token in the SCMS: the REST handlers of        *)
(* crates/ostrich-scms/src/rest.rs over the rows of tokens and token_keys  *)
(* (ostrich-db/src/repository/scms.rs).  A handler loads the row, decides  *)
(* on what it read, and writes with UPDATE ... WHERE id: nothing ties the  *)
(* write to the row that was read, and other handlers may run in between.  *)
(*                                                                         *)
(* PIN verification is a placeholder that always fails.  The SO-PIN        *)
(* counter is only ever set to its maximum and left out, as are the audit  *)
(* records, which come last and whose failure is ignored.                  *)
(***************************************************************************)
EXTENDS Integers

CONSTANTS
    ScmsHandlers,   \* invocations of the handlers
    MaxPin,         \* pin_attempts_remaining of a fresh or unblocked token
    KeyLabels       \* labels of keys on the token

ASSUME MaxPinAssumption == MaxPin \in Nat \ {0}

VARIABLES
    tokStatus,      \* tokens.status
    pinLeft,        \* pin_attempts_remaining
    assigned,       \* whether assigned_to is set
    initStamped,    \* whether initialized_at is set
    tokKeys,        \* token_keys.label
    scPc,           \* where each handler is
    scOp,           \* which handler it is
    scPin,          \* pin_attempts_remaining as it read it
    wrong,          \* history: wrong PINs since the counter was last reset
    overtaken       \* history: a write was overtaken since the last unblock

histVars == <<wrong, overtaken>>
cardVars == <<tokStatus, pinLeft, assigned, initStamped, tokKeys>>
scmsVars == <<cardVars, scPc, scOp, scPin, histVars>>

TokenStatuses == {"absent", "uninitialized", "initialized", "active", "suspended",
                  "blocked", "revoked"}
ScmsOps == {"create", "initialize", "personalize", "suspend", "resume", "revoke",
            "verify", "change", "unblock", "generate", "delete"}

ScmsTypeOK ==
    /\ tokStatus \in TokenStatuses
    /\ pinLeft \in 0..MaxPin
    /\ assigned \in BOOLEAN
    /\ initStamped \in BOOLEAN
    /\ tokKeys \subseteq KeyLabels
    /\ scPc \in [ScmsHandlers -> {"idle", "write", "stamp"}]
    /\ scOp \in [ScmsHandlers -> ScmsOps]
    /\ scPin \in [ScmsHandlers -> 0..MaxPin]
    /\ wrong \in Nat
    /\ overtaken \in BOOLEAN

ScmsInit ==
    /\ tokStatus = "absent"
    /\ pinLeft = MaxPin
    /\ assigned = FALSE
    /\ initStamped = FALSE
    /\ tokKeys = {}
    /\ scPc = [h \in ScmsHandlers |-> "idle"]
    /\ scOp = [h \in ScmsHandlers |-> "create"]
    /\ scPin = [h \in ScmsHandlers |-> 0]
    /\ wrong = 0
    /\ overtaken = FALSE

-----------------------------------------------------------------------------
\* What each handler asks of the row before it goes on.
Permits(op) ==
    \/ op = "create" /\ tokStatus = "absent"
    \/ op = "initialize" /\ tokStatus = "uninitialized"
    \/ op = "personalize" /\ tokStatus = "initialized"
    \/ op = "suspend" /\ tokStatus = "active"
    \/ op = "resume" /\ tokStatus = "suspended"
    \/ op = "generate" /\ tokStatus = "active"
    \/ op \in {"revoke", "delete"} /\ tokStatus # "absent"
    \/ op = "verify" /\ tokStatus \notin {"absent", "blocked"} /\ pinLeft > 0
    \/ op = "change" /\ tokStatus # "absent" /\ pinLeft > 0
    \/ op = "unblock" /\ tokStatus # "absent" /\ pinLeft <= 0

\* find_token and the checks; a handler that is refused changes nothing.
ScmsLoad(h, op) ==
    /\ scPc[h] = "idle"
    /\ Permits(op)
    /\ scPc' = [scPc EXCEPT ![h] = "write"]
    /\ scOp' = [scOp EXCEPT ![h] = op]
    /\ scPin' = [scPin EXCEPT ![h] = pinLeft]
    /\ UNCHANGED <<cardVars, histVars>>

\* The handler is about to write for op.
Writing(h, op) == scPc[h] = "write" /\ scOp[h] = op

\* Another handler has come in between: the counter that h is about to
\* decrement is not the one it read, or the attempts that were left at its
\* check are used up.
Overtaken(h) ==
    \/ scOp[h] = "verify" /\ scPin[h] # pinLeft
    \/ scOp[h] \in {"initialize", "personalize", "suspend", "resume", "change"} /\ pinLeft = 0

NoteOvertaken(h) == overtaken' = (overtaken \/ Overtaken(h))

\* The handler answers: what it read is gone.
ScmsEnds(h) ==
    /\ scPc' = [scPc EXCEPT ![h] = "idle"]
    /\ scOp' = [scOp EXCEPT ![h] = "create"]
    /\ scPin' = [scPin EXCEPT ![h] = 0]

\* INSERT with a unique serial number: the second of two fails.
CreateToken(h) ==
    /\ Writing(h, "create")
    /\ tokStatus' = IF tokStatus = "absent" THEN "uninitialized" ELSE tokStatus
    /\ ScmsEnds(h)
    /\ UNCHANGED <<pinLeft, assigned, initStamped, tokKeys, histVars>>

\* update_token with a status and nothing else.
SetStatus(h, op, status) ==
    /\ Writing(h, op)
    /\ tokStatus' = status
    /\ NoteOvertaken(h)
    /\ ScmsEnds(h)
    /\ UNCHANGED <<pinLeft, assigned, initStamped, tokKeys, wrong>>

RevokeTok(h) == SetStatus(h, "revoke", "revoked")
SuspendTok(h) == SetStatus(h, "suspend", "suspended")
ResumeTok(h) == SetStatus(h, "resume", "active")

\* initialize_token writes the status and, in a second statement, the time.
InitializeTok(h) ==
    /\ Writing(h, "initialize")
    /\ tokStatus' = "initialized"
    /\ scPc' = [scPc EXCEPT ![h] = "stamp"]
    /\ NoteOvertaken(h)
    /\ UNCHANGED <<pinLeft, assigned, initStamped, tokKeys, scOp, scPin, wrong>>

StampTok(h) ==
    /\ scPc[h] = "stamp"
    /\ initStamped' = TRUE
    /\ ScmsEnds(h)
    /\ UNCHANGED <<tokStatus, pinLeft, assigned, tokKeys, histVars>>

PersonalizeTok(h) ==
    /\ Writing(h, "personalize")
    /\ tokStatus' = "active"
    /\ assigned' = TRUE
    /\ NoteOvertaken(h)
    /\ ScmsEnds(h)
    /\ UNCHANGED <<pinLeft, initStamped, tokKeys, wrong>>

\* A wrong PIN that leaves one attempt blocks the token.
WrongPinEarly(h) ==
    /\ Writing(h, "verify")
    /\ pinLeft' = scPin[h] - 1
    /\ tokStatus' = IF scPin[h] - 1 <= 1 THEN "blocked" ELSE tokStatus
    /\ wrong' = wrong + 1
    /\ NoteOvertaken(h)
    /\ ScmsEnds(h)
    /\ UNCHANGED <<assigned, initStamped, tokKeys>>

\* verify_pin: one attempt fewer than it read, and blocked at zero.
WrongPin(h) ==
    /\ Writing(h, "verify")
    /\ pinLeft' = scPin[h] - 1
    /\ tokStatus' = IF scPin[h] - 1 <= 0 THEN "blocked" ELSE tokStatus
    /\ wrong' = wrong + 1
    /\ NoteOvertaken(h)
    /\ ScmsEnds(h)
    /\ UNCHANGED <<assigned, initStamped, tokKeys>>

ChangePin(h) ==
    /\ Writing(h, "change")
    /\ pinLeft' = MaxPin
    /\ wrong' = 0
    /\ NoteOvertaken(h)
    /\ ScmsEnds(h)
    /\ UNCHANGED <<tokStatus, assigned, initStamped, tokKeys>>

UnblockTok(h) ==
    /\ Writing(h, "unblock")
    /\ tokStatus' = "active"
    /\ pinLeft' = MaxPin
    /\ wrong' = 0
    /\ overtaken' = FALSE
    /\ ScmsEnds(h)
    /\ UNCHANGED <<assigned, initStamped, tokKeys>>

\* generate_key stores a key under a label that is unique on the token;
\* delete_key removes one that list_token_keys has shown.
GenerateKey(h) ==
    /\ Writing(h, "generate")
    /\ \E k \in KeyLabels : tokKeys' = tokKeys \union {k}
    /\ ScmsEnds(h)
    /\ UNCHANGED <<tokStatus, pinLeft, assigned, initStamped, histVars>>

DeleteKey(h) ==
    /\ Writing(h, "delete")
    /\ \E k \in KeyLabels : tokKeys' = tokKeys \ {k}
    /\ ScmsEnds(h)
    /\ UNCHANGED <<tokStatus, pinLeft, assigned, initStamped, histVars>>

\* A statement fails or the server dies.
ScmsFails(h) ==
    /\ scPc[h] # "idle"
    /\ ScmsEnds(h)
    /\ UNCHANGED <<cardVars, histVars>>

-----------------------------------------------------------------------------
ScmsNext ==
    \E h \in ScmsHandlers :
        \/ \E op \in ScmsOps : ScmsLoad(h, op)
        \/ CreateToken(h) \/ RevokeTok(h) \/ SuspendTok(h) \/ ResumeTok(h)
        \/ InitializeTok(h) \/ StampTok(h) \/ PersonalizeTok(h)
        \/ WrongPin(h) \/ ChangePin(h) \/ UnblockTok(h)
        \/ GenerateKey(h) \/ DeleteKey(h)
        \/ ScmsFails(h)

ScmsSpec == ScmsInit /\ [][ScmsNext]_scmsVars

-----------------------------------------------------------------------------
(* Properties.                                                             *)

\* However requests overlap and whichever statements fail, every wrong PIN
\* costs one attempt, the token is blocked exactly while none is left, and
\* only revocation, which no longer cares, or the SO-PIN takes it out of that
\* (FIA_AFL.1), until one of two things happens: verify_pin decrements a
\* counter that is no longer the one it read, or a handler that passed its
\* check writes after the last attempt was used up.  Unblocking puts the token
\* right again.
PinLockout ==
    ~overtaken =>
      /\ wrong + pinLeft = MaxPin
      /\ tokStatus = "blocked" => pinLeft = 0
      /\ pinLeft = 0 => tokStatus \in {"blocked", "revoked"}

\* "FIA_AFL.1 requires the token transition to a blocked state requiring
\* SO-PIN unblock. We update both fields in the same DB call so the lockout
\* is atomic with the counter decrement": a blocked token can be unblocked.
BlockedCanBeUnblocked == tokStatus = "blocked" => Permits("unblock")

-----------------------------------------------------------------------------
(* The inductive invariant.                                                *)

\* A verification has read that an attempt is left.
AttemptRead == \A h \in ScmsHandlers : Writing(h, "verify") => scPin[h] > 0

PinInv == ScmsTypeOK /\ AttemptRead /\ PinLockout
=============================================================================
