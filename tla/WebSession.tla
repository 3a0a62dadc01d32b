----------------------------- MODULE WebSession -----------------------------
(***************************************************************************)
(* Sessions of the web console (services/web-ui/src/server): the in-memory *)
(* store and its policy (auth/session.rs), the handlers that create and    *)
(* end sessions (auth/handlers.rs), the pending OIDC logins (auth/oidc.rs),*)
(* and the requests that require_session lets through to the CA (proxy.rs).*)
(*                                                                         *)
(* Every access to the store takes its lock for that access only: a        *)
(* request reads a copy of the session, decides, and writes the copy back. *)
(* The CA sessions that console sessions are bound to are those of module  *)
(* Sessions and are left out here.                                         *)
(***************************************************************************)
EXTENDS Naturals

CONSTANTS
    WebTokens,      \* session tokens that may be generated
    WebRequests,    \* requests that may run at the same time
    OidcStates,     \* values of the OAuth state parameter
    NoWebToken,
    NoState,
    WebInactivity,  \* inactivity_timeout
    WebAbsolute,    \* absolute_timeout
    MaxWebTime

ASSUME WebAssumption ==
    /\ WebInactivity \in Nat
    /\ WebAbsolute \in Nat
    /\ MaxWebTime \in Nat
    /\ NoWebToken \notin WebTokens
    /\ NoState \notin OidcStates

VARIABLES
    webNow,
    webLive,        \* tokens in the store
    locked,         \* the fields of the session of each token
    lastActivity,
    expiresAt,
    pkce_states,    \* OIDC logins that were started
    webPc,          \* where each request is
    webOp,          \* what it does with the session
    webTok,         \* its token
    lockedCopy,     \* the copy of the session, as it will be written back
    activityCopy,
    stateOf,        \* the state of the callback it handles
    generated,      \* history: tokens and states generated so far
    ended,          \* history: tokens removed from the store
    stateLogins     \* history: sessions created for each state

webStoreVars == <<webLive, locked, lastActivity, expiresAt>>
requestVars == <<webPc, webOp, webTok, lockedCopy, activityCopy, stateOf>>
webVars == <<webNow, webStoreVars, pkce_states, requestVars, generated, ended, stateLogins>>

WebTime == 0..(MaxWebTime + WebAbsolute)
WebOps == {"proxy", "userinfo", "logout_all"}

WebTypeOK ==
    /\ webNow \in 0..MaxWebTime
    /\ webLive \subseteq generated
    /\ locked \in [WebTokens -> BOOLEAN]
    /\ lastActivity \in [WebTokens -> WebTime]
    /\ expiresAt \in [WebTokens -> WebTime]
    /\ pkce_states \subseteq OidcStates
    /\ webPc \in [WebRequests -> {"idle", "expired", "update", "forward", "ca", "exchange"}]
    /\ webOp \in [WebRequests -> WebOps]
    /\ webTok \in [WebRequests -> WebTokens \union {NoWebToken}]
    /\ lockedCopy \in [WebRequests -> BOOLEAN]
    /\ activityCopy \in [WebRequests -> WebTime]
    /\ stateOf \in [WebRequests -> OidcStates \union {NoState}]
    /\ generated \subseteq WebTokens \union OidcStates
    /\ ended \subseteq generated
    /\ stateLogins \in [OidcStates -> Nat]

WebInit ==
    /\ webNow = 0
    /\ webLive = {}
    /\ locked = [t \in WebTokens |-> FALSE]
    /\ lastActivity = [t \in WebTokens |-> 0]
    /\ expiresAt = [t \in WebTokens |-> 0]
    /\ pkce_states = {}
    /\ webPc = [r \in WebRequests |-> "idle"]
    /\ webOp = [r \in WebRequests |-> "proxy"]
    /\ webTok = [r \in WebRequests |-> NoWebToken]
    /\ lockedCopy = [r \in WebRequests |-> FALSE]
    /\ activityCopy = [r \in WebRequests |-> 0]
    /\ stateOf = [r \in WebRequests |-> NoState]
    /\ generated = {}
    /\ ended = {}
    /\ stateLogins = [s \in OidcStates |-> 0]

RequestAt(r, p) == webPc' = [webPc EXCEPT ![r] = p]

RequestEnds(r) ==
    /\ RequestAt(r, "idle")
    /\ webOp' = [webOp EXCEPT ![r] = "proxy"]
    /\ webTok' = [webTok EXCEPT ![r] = NoWebToken]
    /\ lockedCopy' = [lockedCopy EXCEPT ![r] = FALSE]
    /\ activityCopy' = [activityCopy EXCEPT ![r] = 0]
    /\ stateOf' = [stateOf EXCEPT ![r] = NoState]

Expired(t) == webNow > expiresAt[t]

should_lock(last) == webNow > last + WebInactivity

-----------------------------------------------------------------------------
(* Logins.                                                                 *)

\* The store without the entries of gone and with new ones for added.
StoreWithout(gone, added) ==
    /\ webLive' = (webLive \ gone) \union added
    /\ ended' = ended \union gone
    /\ locked' = [t \in WebTokens |-> t \notin gone \union added /\ locked[t]]
    /\ lastActivity' = [t \in WebTokens |-> CASE t \in added -> webNow
                                              [] t \in gone -> 0
                                              [] OTHER -> lastActivity[t]]

\* create_session_with_token: insert, then purge_expired.
CreateSession(t) ==
    /\ t \in WebTokens \ generated
    /\ generated' = generated \union {t}
    /\ StoreWithout({ x \in webLive : Expired(x) }, {t})
    /\ expiresAt' = [expiresAt EXCEPT ![t] = webNow + WebAbsolute]

\* internal_login: the CA has accepted the credentials and answered with its
\* bearer token.
InternalLogin(t) ==
    /\ CreateSession(t)
    /\ UNCHANGED <<webNow, pkce_states, requestVars, stateLogins>>

\* authorize_url: a new state is remembered, those past their ten minutes go;
\* which ones these are is left open.
AuthorizeUrl(s, old) ==
    /\ s \notin generated
    /\ generated' = generated \union {s}
    /\ old \subseteq pkce_states
    /\ pkce_states' = (pkce_states \ old) \union {s}
    /\ UNCHANGED <<webNow, webStoreVars, requestVars, ended, stateLogins>>

\* callback with a cookie that matches: exchange_code removes the state first.
TakeState(r, s) ==
    /\ webPc[r] = "idle"
    /\ s \in pkce_states
    /\ pkce_states' = pkce_states \ {s}
    /\ RequestAt(r, "exchange")
    /\ stateOf' = [stateOf EXCEPT ![r] = s]
    /\ UNCHANGED <<webNow, webStoreVars, webOp, webTok, lockedCopy, activityCopy,
                   generated, ended, stateLogins>>

\* The token endpoint and userinfo have answered.
CodeExchanged(r, t) ==
    /\ webPc[r] = "exchange"
    /\ CreateSession(t)
    /\ stateLogins' = [stateLogins EXCEPT ![stateOf[r]] = @ + 1]
    /\ RequestEnds(r)
    /\ UNCHANGED <<webNow, pkce_states>>

ExchangeFails(r) ==
    /\ webPc[r] = "exchange"
    /\ RequestEnds(r)
    /\ UNCHANGED <<webNow, webStoreVars, pkce_states, generated, ended, stateLogins>>

-----------------------------------------------------------------------------
(* validate_session: get, decide, update.                                  *)

\* The session is copied and the decision made on the copy: an expired one is
\* removed; one that was idle for too long is locked; any other is touched,
\* locked or not.
GetSession(r, op, t) ==
    LET locks == should_lock(lastActivity[t]) /\ ~locked[t] IN
    /\ webPc[r] = "idle"
    /\ t \in webLive
    /\ RequestAt(r, IF Expired(t) THEN "expired" ELSE "update")
    /\ webOp' = [webOp EXCEPT ![r] = op]
    /\ webTok' = [webTok EXCEPT ![r] = t]
    /\ lockedCopy' = [lockedCopy EXCEPT ![r] = locks \/ locked[t]]
    /\ activityCopy' = [activityCopy EXCEPT ![r] = IF locks THEN lastActivity[t] ELSE webNow]
    /\ UNCHANGED <<webNow, webStoreVars, pkce_states, stateOf, generated, ended, stateLogins>>

\* The copy goes back into the map, whether the token is still there or not.
InsertCopy(t, l, a) ==
    /\ webLive' = webLive \union {t}
    /\ locked' = [locked EXCEPT ![t] = l]
    /\ lastActivity' = [lastActivity EXCEPT ![t] = a]

\* update: only an entry that is still there.
UpdateEntry(t, l, a) ==
    /\ webLive' = webLive
    /\ locked' = IF t \in webLive THEN [locked EXCEPT ![t] = l] ELSE locked
    /\ lastActivity' = IF t \in webLive THEN [lastActivity EXCEPT ![t] = a] ELSE lastActivity

\* What the caller of validate_session does with the session it returns:
\* require_session forwards an unlocked one, logout_all takes its credential.
Proceed(r) ==
    IF \/ webOp[r] = "logout_all"
       \/ webOp[r] = "proxy" /\ ~lockedCopy[r]
    THEN /\ RequestAt(r, IF webOp[r] = "proxy" THEN "forward" ELSE "ca")
         /\ UNCHANGED <<webOp, webTok, lockedCopy, activityCopy, stateOf>>
    ELSE RequestEnds(r)

RemoveSession(t) ==
    /\ StoreWithout({t}, {})
    /\ UNCHANGED expiresAt

\* Absolute expiry: the session is removed; logout_all goes on without it.
ValidateExpired(r) ==
    /\ webPc[r] = "expired"
    /\ RemoveSession(webTok[r])
    /\ RequestEnds(r)
    /\ UNCHANGED <<webNow, pkce_states, generated, stateLogins>>

\* The copy is written back and returned.
ValidateUpdates(r) ==
    /\ webPc[r] = "update"
    /\ UpdateEntry(webTok[r], lockedCopy[r], activityCopy[r])
    /\ Proceed(r)
    /\ UNCHANGED <<webNow, expiresAt, pkce_states, generated, ended, stateLogins>>

\* proxy_to_service: sent on with the CA token of the copy, if it has one.
ProxyRequest(r) ==
    /\ webPc[r] = "forward"
    /\ RequestEnds(r)
    /\ UNCHANGED <<webNow, webStoreVars, pkce_states, generated, ended, stateLogins>>

-----------------------------------------------------------------------------
(* Logouts, the end of the process, time.                                  *)

\* logout ends the session here; the CA session it is bound to stays.
LogoutWeb(t) ==
    /\ t \in webLive
    /\ RemoveSession(t)
    /\ UNCHANGED <<webNow, pkce_states, requestVars, generated, stateLogins>>

\* The CA has answered its logout-all, or the call failed, or the session has
\* no CA token: invalidate_session in any case.
RemoveAfterLogoutAll(r) ==
    /\ webPc[r] = "ca"
    /\ RemoveSession(webTok[r])
    /\ RequestEnds(r)
    /\ UNCHANGED <<webNow, pkce_states, generated, stateLogins>>

\* The client goes away and the handler is dropped.
RequestDropped(r) ==
    /\ webPc[r] # "idle"
    /\ RequestEnds(r)
    /\ UNCHANGED <<webNow, webStoreVars, pkce_states, generated, ended, stateLogins>>

\* Sessions and pending logins are in memory only.
RestartWeb ==
    /\ StoreWithout(webLive, {})
    /\ pkce_states' = {}
    /\ webPc' = [r \in WebRequests |-> "idle"]
    /\ webOp' = [r \in WebRequests |-> "proxy"]
    /\ webTok' = [r \in WebRequests |-> NoWebToken]
    /\ lockedCopy' = [r \in WebRequests |-> FALSE]
    /\ activityCopy' = [r \in WebRequests |-> 0]
    /\ stateOf' = [r \in WebRequests |-> NoState]
    /\ UNCHANGED <<webNow, expiresAt, generated, stateLogins>>

WebTick ==
    /\ webNow < MaxWebTime
    /\ webNow' = webNow + 1
    /\ UNCHANGED <<webStoreVars, pkce_states, requestVars, generated, ended, stateLogins>>

WebNext ==
    \/ \E t \in WebTokens : InternalLogin(t) \/ LogoutWeb(t)
    \/ \E s \in OidcStates, old \in SUBSET OidcStates : AuthorizeUrl(s, old)
    \/ \E r \in WebRequests, s \in OidcStates : TakeState(r, s)
    \/ \E r \in WebRequests, t \in WebTokens : CodeExchanged(r, t)
    \/ \E r \in WebRequests, t \in WebTokens, op \in WebOps : GetSession(r, op, t)
    \/ \E r \in WebRequests :
          \/ ExchangeFails(r)
          \/ ValidateExpired(r) \/ ValidateUpdates(r)
          \/ ProxyRequest(r) \/ RemoveAfterLogoutAll(r) \/ RequestDropped(r)
    \/ RestartWeb \/ WebTick

WebSpec == WebInit /\ [][WebNext]_webVars

-----------------------------------------------------------------------------
(* Properties.                                                             *)

\* "Never resurrect a removed session" (update): a session that a logout, its
\* expiry or a restart has ended is not in the store again, although requests
\* that read it before write their copy back after; and one OIDC login makes
\* one session at most, however many callbacks carry its state (exchange_code).
WebSessionsEnd ==
    /\ webLive \cap ended = {}
    /\ \A s \in OidcStates : stateLogins[s] <= 1

-----------------------------------------------------------------------------
(* The inductive invariant.                                                *)

\* A token that a request holds has been generated.
TokensKnown ==
    \A r \in WebRequests :
      webPc[r] \in {"expired", "update", "forward", "ca"} =>
        webTok[r] \in WebTokens /\ webTok[r] \in generated

\* A state is in one place at a time: not generated, pending, with one
\* callback, or used up.
StatesInv ==
    /\ pkce_states \subseteq generated
    /\ \A s \in OidcStates :
         stateLogins[s] > 0 => s \in generated /\ s \notin pkce_states
    /\ \A r \in WebRequests : webPc[r] = "exchange" =>
         /\ stateOf[r] \in generated \intersect OidcStates
         /\ stateOf[r] \notin pkce_states
         /\ stateLogins[stateOf[r]] = 0
         /\ \A q \in WebRequests \ {r} :
              webPc[q] = "exchange" => stateOf[q] # stateOf[r]

WebInv == WebTypeOK /\ TokensKnown /\ StatesInv /\ WebSessionsEnd
=============================================================================
