----------------------------- MODULE EstTokens -----------------------------
(***************************************************************************)
(* EST enrolment tokens: minting, revocation and expiry, and the requests  *)
(* simpleenroll, simplereenroll and serverkeygen of their bearers          *)
(* (crates/ostrich-est/src/rest.rs, enrollment_token.rs,                   *)
(* ca_integration.rs) over the table est_enrollment_tokens                 *)
(* (ostrich-db/src/repository/est.rs), one step per SQL statement or call  *)
(* of the CA.                                                              *)
(*                                                                         *)
(* A request here is one whose CSR parses, proves possession and names the *)
(* token's identity: a refused one changes nothing.  Each token has an     *)
(* identity of its own.                                                    *)
(***************************************************************************)
EXTENDS Naturals, FiniteSets

CONSTANTS
    Tokens,
    EstHandlers,    \* requests in flight
    MaxUses,        \* cap on max_uses, MAX_USE_BUDGET in the code
    NoToken

ASSUME EstAssumption ==
    /\ MaxUses \in Nat \ {0}
    /\ NoToken \notin Tokens
    /\ IsFiniteSet(EstHandlers)

VARIABLES
    tokenMax,       \* max_uses, 0 for a token that is not minted
    tokenUses,      \* uses_remaining
    tokenRevoked,   \* the tokens with a revoked_at
    tokenExpired,   \* the tokens whose expires_at has passed
    enrolled,       \* the tokens whose identity has an issued enrolment
    estPc,          \* where each request is
    estKind,        \* its endpoint
    estToken,       \* the token of its principal
    tokenEnrolled   \* history: simpleenroll answers with a certificate

estTokenVars == <<tokenMax, tokenUses, tokenRevoked, tokenExpired>>
estHandlerVars == <<estPc, estKind, estToken>>
estVars == <<estTokenVars, enrolled, estHandlerVars, tokenEnrolled>>

EstKinds == {"enroll", "reenroll", "keygen"}
EstPcs == {"idle", "prior", "create", "reserve", "issue", "mark", "refund",
           "consume", "record", "load"}

EstTypeOK ==
    /\ tokenMax \in [Tokens -> 0..MaxUses]
    /\ tokenUses \in [Tokens -> Nat]
    /\ tokenRevoked \subseteq Tokens
    /\ tokenExpired \subseteq Tokens
    /\ enrolled \subseteq Tokens
    /\ estPc \in [EstHandlers -> EstPcs]
    /\ estKind \in [EstHandlers -> EstKinds]
    /\ estToken \in [EstHandlers -> Tokens \union {NoToken}]
    /\ \A h \in EstHandlers : estPc[h] # "idle" => estToken[h] \in Tokens
    /\ tokenEnrolled \in [Tokens -> Nat]

EstInit ==
    /\ tokenMax = [t \in Tokens |-> 0]
    /\ tokenUses = [t \in Tokens |-> 0]
    /\ tokenRevoked = {}
    /\ tokenExpired = {}
    /\ enrolled = {}
    /\ estPc = [h \in EstHandlers |-> "idle"]
    /\ estKind = [h \in EstHandlers |-> "enroll"]
    /\ estToken = [h \in EstHandlers |-> NoToken]
    /\ tokenEnrolled = [t \in Tokens |-> 0]

-----------------------------------------------------------------------------
(* Tokens.                                                                 *)

\* WHERE uses_remaining > 0 AND expires_at > now().
Live(t) == tokenUses[t] > 0 /\ t \notin tokenExpired

\* create_enrollment_token: max_uses is clamped to 1..MAX_USE_BUDGET.
MintToken(t, n) ==
    /\ tokenMax[t] = 0
    /\ tokenMax' = [tokenMax EXCEPT ![t] = n]
    /\ tokenUses' = [tokenUses EXCEPT ![t] = n]
    /\ UNCHANGED <<tokenRevoked, tokenExpired, enrolled, estHandlerVars, tokenEnrolled>>

RevokeToken(t) ==
    /\ Live(t)
    /\ tokenUses' = [tokenUses EXCEPT ![t] = 0]
    /\ tokenRevoked' = tokenRevoked \union {t}
    /\ UNCHANGED <<tokenMax, tokenExpired, enrolled, estHandlerVars, tokenEnrolled>>

\* The clock passes expires_at.
ExpireToken(t) ==
    /\ tokenMax[t] > 0
    /\ t \notin tokenExpired
    /\ tokenExpired' = tokenExpired \union {t}
    /\ UNCHANGED <<tokenMax, tokenUses, tokenRevoked, enrolled, estHandlerVars, tokenEnrolled>>

-----------------------------------------------------------------------------
(* Requests.                                                               *)

EstAt(h, p) == estPc' = [estPc EXCEPT ![h] = p] /\ UNCHANGED <<estKind, estToken>>

\* The handler returns or its future is dropped.
EstEnds(h) ==
    /\ estPc' = [estPc EXCEPT ![h] = "idle"]
    /\ estKind' = [estKind EXCEPT ![h] = "enroll"]
    /\ estToken' = [estToken EXCEPT ![h] = NoToken]

\* EnrollmentTokenAuthProvider::validate_session: find_live_enrollment_token.
EstAuthenticate(h, t, k) ==
    /\ estPc[h] = "idle"
    /\ Live(t)
    /\ estPc' = [estPc EXCEPT ![h] = IF k = "reenroll" THEN "prior" ELSE "create"]
    /\ estKind' = [estKind EXCEPT ![h] = k]
    /\ estToken' = [estToken EXCEPT ![h] = t]
    /\ UNCHANGED <<estTokenVars, enrolled, tokenEnrolled>>

\* simple_reenroll: the prior enrolments of the client and their certificates.
EstPrior(h) ==
    /\ estPc[h] = "prior"
    /\ IF estToken[h] \in enrolled THEN EstAt(h, "create") ELSE EstEnds(h)
    /\ UNCHANGED <<estTokenVars, enrolled, tokenEnrolled>>

\* create_enrollment, resolve_enrollment: a pending row; only simpleenroll
\* reserves a use of the token first.
EstCreate(h) ==
    /\ estPc[h] = "create"
    /\ EstAt(h, IF estKind[h] = "enroll" THEN "reserve" ELSE "issue")
    /\ UNCHANGED <<estTokenVars, enrolled, tokenEnrolled>>

\* consume_enrollment_token: the UPDATE that affects a row.
Spend(t) ==
    /\ Live(t)
    /\ tokenUses' = [tokenUses EXCEPT ![t] = tokenUses[t] - 1]

\* reserve_enrollment_token_if_present.
EstReserve(h) ==
    /\ estPc[h] = "reserve"
    /\ Spend(estToken[h])
    /\ EstAt(h, "issue")
    /\ UNCHANGED <<tokenMax, tokenRevoked, tokenExpired, enrolled, tokenEnrolled>>

EstReserveRefused(h) ==
    /\ estPc[h] = "reserve"
    /\ ~Live(estToken[h])
    /\ EstEnds(h)
    /\ UNCHANGED <<estTokenVars, enrolled, tokenEnrolled>>

\* EstCaClient::enroll: one call of the CA, never retried.
EstIssue(h) ==
    /\ estPc[h] = "issue"
    /\ EstAt(h, "mark")
    /\ UNCHANGED <<estTokenVars, enrolled, tokenEnrolled>>

\* mark_enrollment_issued.
EstMark(h) ==
    /\ estPc[h] = "mark"
    /\ enrolled' = enrolled \union {estToken[h]}
    /\ EstAt(h, CASE estKind[h] = "enroll" -> "record"
                  [] estKind[h] = "keygen" -> "consume"
                  [] OTHER -> "load")
    /\ UNCHANGED <<estTokenVars, tokenEnrolled>>

\* enroll returns an error: the CA refused, its answer was lost, or the
\* enrolment could not be marked although the certificate exists.
EstEnrollFails(h) ==
    /\ estPc[h] \in {"issue", "mark"}
    /\ IF estKind[h] = "enroll" THEN EstAt(h, "refund") ELSE EstEnds(h)
    /\ UNCHANGED <<estTokenVars, enrolled, tokenEnrolled>>

\* refund_enrollment_token_if_present; a failed UPDATE is only logged.
EstRefund(h) ==
    /\ estPc[h] = "refund"
    /\ \/ tokenUses' = [tokenUses EXCEPT ![estToken[h]] = tokenUses[estToken[h]] + 1]
       \/ UNCHANGED tokenUses
    /\ EstEnds(h)
    /\ UNCHANGED <<tokenMax, tokenRevoked, tokenExpired, enrolled, tokenEnrolled>>

\* A use is given back when the certificate could not be recorded.
RecordOrRefund(h) ==
    /\ estPc[h] = "record"
    /\ tokenEnrolled' = [tokenEnrolled EXCEPT ![estToken[h]] = tokenEnrolled[estToken[h]] + 1]
    /\ \/ tokenUses' = [tokenUses EXCEPT ![estToken[h]] = tokenUses[estToken[h]] + 1]
       \/ UNCHANGED tokenUses
    /\ EstAt(h, "load")
    /\ UNCHANGED <<tokenMax, tokenRevoked, tokenExpired, enrolled>>

\* finalize_enrollment_token_if_present: used_by_cert, errors ignored.  From
\* here on the handler either answers with the certificate or fails to load it.
EstRecord(h) ==
    /\ estPc[h] = "record"
    /\ tokenEnrolled' = [tokenEnrolled EXCEPT ![estToken[h]] = tokenEnrolled[estToken[h]] + 1]
    /\ EstAt(h, "load")
    /\ UNCHANGED <<estTokenVars, enrolled>>

\* serverkeygen: consume_enrollment_token_if_present after the issuance.  A
\* token that is no longer live and a failed UPDATE are only logged.
EstConsume(h) ==
    /\ estPc[h] = "consume"
    /\ Spend(estToken[h]) \/ UNCHANGED tokenUses
    /\ EstAt(h, "load")
    /\ UNCHANGED <<tokenMax, tokenRevoked, tokenExpired, enrolled, tokenEnrolled>>

\* find_by_id and the answer.
EstAnswer(h) ==
    /\ estPc[h] = "load"
    /\ EstEnds(h)
    /\ UNCHANGED <<estTokenVars, enrolled, tokenEnrolled>>

\* A statement fails or the future is dropped: the client went away or the
\* server stopped.  A reserved use is not given back.
EstDropped(h) ==
    /\ estPc[h] # "idle"
    /\ EstEnds(h)
    /\ UNCHANGED <<estTokenVars, enrolled, tokenEnrolled>>

EstStep(h) ==
    \/ EstPrior(h) \/ EstCreate(h)
    \/ EstReserve(h) \/ EstReserveRefused(h)
    \/ EstIssue(h) \/ EstMark(h) \/ EstEnrollFails(h) \/ EstRefund(h)
    \/ EstRecord(h) \/ EstConsume(h) \/ EstAnswer(h) \/ EstDropped(h)

EstNext ==
    \/ \E t \in Tokens : (\E n \in 1..MaxUses : MintToken(t, n)) \/ RevokeToken(t) \/ ExpireToken(t)
    \/ \E h \in EstHandlers, t \in Tokens, k \in EstKinds : EstAuthenticate(h, t, k)
    \/ \E h \in EstHandlers : EstStep(h)

EstSpec == EstInit /\ [][EstNext]_estVars

-----------------------------------------------------------------------------
(* Properties.                                                             *)

\* The requests that hold a reserved use of t.
SpendsInFlight(t) ==
    { h \in EstHandlers :
        /\ estToken[h] = t
        /\ estKind[h] = "enroll"
        /\ estPc[h] \in {"issue", "mark", "refund", "record"} }

\* The uses left, the uses reserved by requests in flight and the simpleenroll
\* answers together never exceed the budget the token was minted with: of any
\* number of racing simpleenroll requests at most max_uses get a certificate,
\* whichever of them fail, are refunded or are dropped, and serverkeygen
\* requests that spend afterwards never make uses_remaining negative
\* (reserve_enrollment_token_if_present, refund_enrollment_token_if_present).
TokenBalance ==
    \A t \in Tokens :
      /\ tokenUses[t] >= 0
      /\ tokenUses[t] + Cardinality(SpendsInFlight(t)) + tokenEnrolled[t] <= tokenMax[t]

\* A revoked token is not live: "the expires_at/revoked guards on the spend
\* still bound reuse" (the comment of refund_enrollment_token).
RevokedTokenNotLive == \A t \in tokenRevoked : ~Live(t)

-----------------------------------------------------------------------------
(* The inductive invariant.                                                *)

\* Only simpleenroll reserves, refunds and records.
KindInv ==
    \A h \in EstHandlers :
      estPc[h] \in {"reserve", "refund", "record"} => estKind[h] = "enroll"

EstInv == EstTypeOK /\ KindInv /\ TokenBalance
=============================================================================
