--------------------------- MODULE ServicesProofs ---------------------------
(* Proofs about the parts that run beside the CA: the sessions of the web   *)
(* console (WebSession), the PKCS#11 provider (Pkcs11), the certificate of  *)
(* the NPE portal (PortalCert) and the expiry notices (Notify).             *)
EXTENDS WebSession, Pkcs11, PortalCert, Notify, TLAPS

-----------------------------------------------------------------------------
(* Web console sessions.  A session ends once because a request only writes *)
(* to an entry that is still there, and a login state makes one session     *)
(* because it is taken out of the pending ones before it is used.           *)

\* The types of what the store keeps, of what the requests keep, and of the
\* rest.
StoreTypes ==
    /\ locked \in [WebTokens -> BOOLEAN]
    /\ lastActivity \in [WebTokens -> WebTime]
    /\ expiresAt \in [WebTokens -> WebTime]

RequestTypes ==
    /\ webPc \in [WebRequests -> {"idle", "expired", "update", "forward", "ca", "exchange"}]
    /\ webOp \in [WebRequests -> WebOps]
    /\ webTok \in [WebRequests -> WebTokens \union {NoWebToken}]
    /\ lockedCopy \in [WebRequests -> BOOLEAN]
    /\ activityCopy \in [WebRequests -> WebTime]
    /\ stateOf \in [WebRequests -> OidcStates \union {NoState}]

HistoryTypes ==
    /\ webNow \in 0..MaxWebTime
    /\ webLive \subseteq generated
    /\ pkce_states \subseteq OidcStates
    /\ generated \subseteq WebTokens \union OidcStates
    /\ ended \subseteq generated
    /\ stateLogins \in [OidcStates -> Nat]

\* WebTypeOK is the three together, in this state and in the next.
LEMMA TypesSplit ==
    /\ WebTypeOK <=> StoreTypes /\ RequestTypes /\ HistoryTypes
    /\ WebTypeOK' <=> StoreTypes' /\ RequestTypes' /\ HistoryTypes'
  BY DEF WebTypeOK, StoreTypes, RequestTypes, HistoryTypes

\* Readings of the clock, and the expiry of a session created now.
LEMMA TimesTyped ==
    ASSUME HistoryTypes
    PROVE  0 \in WebTime /\ webNow \in WebTime /\ webNow + WebAbsolute \in WebTime
  BY WebAssumption DEF HistoryTypes, WebTime

\* A request that ends holds no token, copy or state any more; the others
\* are not touched.
LEMMA RequestEndsFacts ==
    ASSUME RequestTypes, HistoryTypes, NEW r \in WebRequests, RequestEnds(r)
    PROVE  /\ RequestTypes'
           /\ webPc'[r] = "idle"
           /\ \A q \in WebRequests \ {r} :
                /\ webPc'[q] = webPc[q] /\ webTok'[q] = webTok[q]
                /\ stateOf'[q] = stateOf[q]
<1>1. lockedCopy' \in [WebRequests -> BOOLEAN]
  BY Zenon DEF RequestTypes, RequestEnds
<1>2. activityCopy' \in [WebRequests -> WebTime]
  BY TimesTyped DEF RequestTypes, RequestEnds
<1>3. /\ webPc' \in [WebRequests -> {"idle", "expired", "update", "forward", "ca", "exchange"}]
      /\ webOp' \in [WebRequests -> WebOps]
      /\ webTok' \in [WebRequests -> WebTokens \union {NoWebToken}]
      /\ stateOf' \in [WebRequests -> OidcStates \union {NoState}]
  BY DEF RequestTypes, RequestEnds, RequestAt, WebOps
<1>4. /\ webPc'[r] = "idle"
      /\ \A q \in WebRequests \ {r} :
           /\ webPc'[q] = webPc[q] /\ webTok'[q] = webTok[q]
           /\ stateOf'[q] = stateOf[q]
  BY DEF RequestTypes, RequestEnds, RequestAt
<1>5. QED
  BY <1>1, <1>2, <1>3, <1>4 DEF RequestTypes

\* Removing entries and adding fresh ones keeps the types of the fields.
LEMMA StoreWithoutFacts ==
    ASSUME StoreTypes, HistoryTypes, NEW gone, NEW added, StoreWithout(gone, added)
    PROVE  /\ locked' \in [WebTokens -> BOOLEAN]
           /\ lastActivity' \in [WebTokens -> WebTime]
<1>1. locked' \in [WebTokens -> BOOLEAN]
  BY Zenon DEF StoreWithout
<1>2. \A t \in WebTokens : (CASE t \in added -> webNow [] t \in gone -> 0
                              [] OTHER -> lastActivity[t]) \in WebTime
  BY TimesTyped DEF StoreTypes
<1>3. QED
  BY <1>1, <1>2 DEF StoreWithout

\* create_session_with_token: the session that appears was never there, those
\* that purge_expired removes have ended.
LEMMA CreateSessionFacts ==
    ASSUME WebTypeOK, WebSessionsEnd, NEW t, CreateSession(t)
    PROVE  /\ StoreTypes'
           /\ generated' = generated \union {t}
           /\ t \in WebTokens \ generated
           /\ webLive' \subseteq generated' /\ ended' \subseteq generated'
           /\ webLive' \intersect ended' = {}
<1>1. StoreTypes /\ HistoryTypes
  BY TypesSplit
<1>2. locked' \in [WebTokens -> BOOLEAN] /\ lastActivity' \in [WebTokens -> WebTime]
  BY <1>1, StoreWithoutFacts DEF CreateSession
<1>3. expiresAt' \in [WebTokens -> WebTime]
  BY <1>1, TimesTyped DEF StoreTypes, CreateSession
<1>4. QED
  BY <1>1, <1>2, <1>3 DEF StoreTypes, HistoryTypes, CreateSession, StoreWithout, WebSessionsEnd

\* Removing a session that was once generated ends it.
LEMMA RemoveSessionFacts ==
    ASSUME WebTypeOK, WebSessionsEnd, NEW gone, gone \subseteq generated,
           StoreWithout(gone, {}), UNCHANGED <<expiresAt, generated>>
    PROVE  /\ StoreTypes'
           /\ webLive' \subseteq generated' /\ ended' \subseteq generated'
           /\ webLive' \intersect ended' = {}
<1>1. StoreTypes /\ HistoryTypes
  BY TypesSplit
<1>2. locked' \in [WebTokens -> BOOLEAN] /\ lastActivity' \in [WebTokens -> WebTime]
  BY <1>1, StoreWithoutFacts
<1>3. QED
  BY <1>1, <1>2 DEF StoreTypes, HistoryTypes, StoreWithout, WebSessionsEnd

\* A step in which no request gets a token or a state, no state becomes
\* pending and none makes a session.
LEMMA NothingTaken ==
    ASSUME TokensKnown, StatesInv,
           generated \subseteq generated', pkce_states' \subseteq pkce_states,
           stateLogins' = stateLogins,
           \A q \in WebRequests :
             /\ webPc'[q] \in {"expired", "update", "forward", "ca"} =>
                  /\ webPc[q] \in {"expired", "update", "forward", "ca"}
                  /\ webTok'[q] = webTok[q]
             /\ webPc'[q] = "exchange" =>
                  /\ webPc[q] = "exchange"
                  /\ stateOf'[q] = stateOf[q]
    PROVE  TokensKnown' /\ StatesInv'
<1>1. TokensKnown'
  BY DEF TokensKnown
<1>2. pkce_states' \subseteq generated'
  BY DEF StatesInv
<1>3. \A s \in OidcStates :
         stateLogins'[s] > 0 => s \in generated' /\ s \notin pkce_states'
  BY DEF StatesInv
<1>4. ASSUME NEW r \in WebRequests, webPc'[r] = "exchange"
      PROVE  /\ stateOf'[r] \in generated' \intersect OidcStates
             /\ stateOf'[r] \notin pkce_states'
             /\ stateLogins'[stateOf'[r]] = 0
             /\ \A q \in WebRequests \ {r} :
                  webPc'[q] = "exchange" => stateOf'[q] # stateOf'[r]
  <2>1. webPc[r] = "exchange" /\ stateOf'[r] = stateOf[r]
    BY <1>4
  <2>2. /\ stateOf[r] \in generated \intersect OidcStates
        /\ stateOf[r] \notin pkce_states
        /\ stateLogins[stateOf[r]] = 0
        /\ \A q \in WebRequests \ {r} :
             webPc[q] = "exchange" => stateOf[q] # stateOf[r]
    BY <2>1 DEF StatesInv
  <2>3. QED
    BY <2>1, <2>2
<1>5. StatesInv'
  BY <1>2, <1>3, <1>4 DEF StatesInv
<1>6. QED
  BY <1>1, <1>5

\* A login, a logout, the purge of expired sessions, a request that ends
\* one: the store changes, the requests do not get anything new.
LEMMA StoreStepsKeepWebInv ==
    ASSUME WebInv, StoreTypes', RequestTypes',
           generated' \subseteq WebTokens \union OidcStates, generated \subseteq generated',
           webLive' \subseteq generated', ended' \subseteq generated',
           webLive' \intersect ended' = {},
           webNow' \in 0..MaxWebTime,
           pkce_states' \subseteq pkce_states, stateLogins' = stateLogins,
           \A q \in WebRequests :
             /\ webPc'[q] \in {"expired", "update", "forward", "ca"} =>
                  /\ webPc[q] \in {"expired", "update", "forward", "ca"}
                  /\ webTok'[q] = webTok[q]
             /\ webPc'[q] = "exchange" =>
                  /\ webPc[q] = "exchange"
                  /\ stateOf'[q] = stateOf[q]
    PROVE  WebInv'
<1>1. WebTypeOK'
  <2>1. HistoryTypes'
    BY DEF WebInv, WebTypeOK, HistoryTypes
  <2>2. QED
    BY <2>1, TypesSplit
<1>2. TokensKnown' /\ StatesInv'
  BY NothingTaken DEF WebInv
<1>3. WebSessionsEnd'
  BY DEF WebInv, WebSessionsEnd
<1>4. QED
  BY <1>1, <1>2, <1>3 DEF WebInv

\* internal_login.
LEMMA InternalLoginKeepsWebInv ==
    ASSUME WebInv, NEW t \in WebTokens, InternalLogin(t)
    PROVE  WebInv'
<1>1. UNCHANGED <<webNow, pkce_states, webPc, webOp, webTok, lockedCopy, activityCopy,
                  stateOf, stateLogins>> /\ CreateSession(t)
  BY DEF InternalLogin, requestVars
<1>2. WebTypeOK /\ WebSessionsEnd /\ RequestTypes /\ HistoryTypes
  BY TypesSplit DEF WebInv
<1>3. /\ StoreTypes' /\ generated' = generated \union {t}
      /\ webLive' \subseteq generated' /\ ended' \subseteq generated'
      /\ webLive' \intersect ended' = {}
  BY <1>1, <1>2, CreateSessionFacts
<1>4. RequestTypes' /\ webNow' \in 0..MaxWebTime /\ generated' \subseteq WebTokens \union OidcStates
  BY <1>1, <1>2, <1>3 DEF RequestTypes, HistoryTypes
<1>5. QED
  BY <1>1, <1>3, <1>4, StoreStepsKeepWebInv

\* logout.
LEMMA LogoutKeepsWebInv ==
    ASSUME WebInv, NEW t \in WebTokens, LogoutWeb(t)
    PROVE  WebInv'
<1>1. /\ UNCHANGED <<webNow, pkce_states, webPc, webOp, webTok, lockedCopy, activityCopy,
                     stateOf, stateLogins, generated, expiresAt>>
      /\ StoreWithout({t}, {}) /\ t \in webLive
  BY DEF LogoutWeb, requestVars, RemoveSession
<1>2. WebTypeOK /\ WebSessionsEnd /\ RequestTypes /\ HistoryTypes
  BY TypesSplit DEF WebInv
<1>3. {t} \subseteq generated
  BY <1>1, <1>2 DEF HistoryTypes
<1>4. /\ StoreTypes'
      /\ webLive' \subseteq generated' /\ ended' \subseteq generated'
      /\ webLive' \intersect ended' = {}
  BY <1>1, <1>2, <1>3, RemoveSessionFacts
<1>5. RequestTypes' /\ webNow' \in 0..MaxWebTime /\ generated' \subseteq WebTokens \union OidcStates
  BY <1>1, <1>2 DEF RequestTypes, HistoryTypes
<1>6. QED
  BY <1>1, <1>4, <1>5, StoreStepsKeepWebInv

\* A request that ends without touching the store: its client went away, the
\* exchange failed, or it was sent on to the CA.
LEMMA RequestEndsKeepsWebInv ==
    ASSUME WebInv, NEW r \in WebRequests, RequestEnds(r),
           UNCHANGED <<webNow, webStoreVars, pkce_states, generated, ended, stateLogins>>
    PROVE  WebInv'
<1>1. WebTypeOK /\ WebSessionsEnd /\ StoreTypes /\ RequestTypes /\ HistoryTypes
  BY TypesSplit DEF WebInv
<1>2. /\ RequestTypes'
      /\ webPc'[r] = "idle"
      /\ \A q \in WebRequests \ {r} :
           /\ webPc'[q] = webPc[q] /\ webTok'[q] = webTok[q]
           /\ stateOf'[q] = stateOf[q]
  BY <1>1, RequestEndsFacts
<1>3. /\ StoreTypes'
      /\ webLive' \subseteq generated' /\ ended' \subseteq generated'
      /\ webLive' \intersect ended' = {}
      /\ webNow' \in 0..MaxWebTime /\ generated' \subseteq WebTokens \union OidcStates
  BY <1>1 DEF StoreTypes, HistoryTypes, WebSessionsEnd, webStoreVars
<1>4. QED
  BY <1>2, <1>3, StoreStepsKeepWebInv

\* A request that removes the session whose token it holds: the session was
\* expired when it was read, or its logout_all is done.
LEMMA RequestRemovesKeepsWebInv ==
    ASSUME WebInv, NEW r \in WebRequests, webPc[r] \in {"expired", "ca"},
           RemoveSession(webTok[r]), RequestEnds(r),
           UNCHANGED <<webNow, pkce_states, generated, stateLogins>>
    PROVE  WebInv'
<1>1. WebTypeOK /\ WebSessionsEnd /\ StoreTypes /\ RequestTypes /\ HistoryTypes
  BY TypesSplit DEF WebInv
<1>2. /\ RequestTypes'
      /\ webPc'[r] = "idle"
      /\ \A q \in WebRequests \ {r} :
           /\ webPc'[q] = webPc[q] /\ webTok'[q] = webTok[q]
           /\ stateOf'[q] = stateOf[q]
  BY <1>1, RequestEndsFacts
<1>3. {webTok[r]} \subseteq generated
  BY DEF WebInv, TokensKnown
<1>4. StoreWithout({webTok[r]}, {}) /\ UNCHANGED <<expiresAt, generated>>
  BY DEF RemoveSession
<1>5. /\ StoreTypes'
      /\ webLive' \subseteq generated' /\ ended' \subseteq generated'
      /\ webLive' \intersect ended' = {}
  BY <1>1, <1>3, <1>4, RemoveSessionFacts
<1>6. webNow' \in 0..MaxWebTime /\ generated' \subseteq WebTokens \union OidcStates
  BY <1>1 DEF HistoryTypes
<1>7. QED
  BY <1>2, <1>5, <1>6, StoreStepsKeepWebInv

\* validate_session's update: only an entry that is still in the store is
\* written, so a session that has ended meanwhile stays away.
LEMMA ValidateUpdatesKeepsWebInv ==
    ASSUME WebInv, NEW r \in WebRequests, ValidateUpdates(r)
    PROVE  WebInv'
<1>1. WebTypeOK /\ WebSessionsEnd /\ StoreTypes /\ RequestTypes /\ HistoryTypes
  BY TypesSplit DEF WebInv
<1>2. /\ webPc[r] = "update" /\ webLive' = webLive /\ Proceed(r)
      /\ UNCHANGED <<webNow, expiresAt, pkce_states, generated, ended, stateLogins>>
      /\ locked' = IF webTok[r] \in webLive THEN [locked EXCEPT ![webTok[r]] = lockedCopy[r]]
                   ELSE locked
      /\ lastActivity' = IF webTok[r] \in webLive
                         THEN [lastActivity EXCEPT ![webTok[r]] = activityCopy[r]]
                         ELSE lastActivity
  BY DEF ValidateUpdates, UpdateEntry
<1>3. StoreTypes'
  <2>1. lockedCopy[r] \in BOOLEAN /\ activityCopy[r] \in WebTime
    BY <1>1 DEF RequestTypes
  <2>2. locked' \in [WebTokens -> BOOLEAN]
    BY <1>1, <1>2, <2>1 DEF StoreTypes
  <2>3. lastActivity' \in [WebTokens -> WebTime]
    BY <1>1, <1>2, <2>1 DEF StoreTypes
  <2>4. QED
    BY <1>1, <1>2, <2>2, <2>3 DEF StoreTypes
<1>4. /\ RequestTypes'
      /\ webPc'[r] \in {"idle", "forward", "ca"}
      /\ webPc'[r] # "idle" => webTok'[r] = webTok[r]
      /\ \A q \in WebRequests \ {r} :
           /\ webPc'[q] = webPc[q] /\ webTok'[q] = webTok[q]
           /\ stateOf'[q] = stateOf[q]
  <2>1. CASE RequestEnds(r)
    BY <1>1, <2>1, RequestEndsFacts
  <2>2. CASE /\ RequestAt(r, IF webOp[r] = "proxy" THEN "forward" ELSE "ca")
             /\ UNCHANGED <<webOp, webTok, lockedCopy, activityCopy, stateOf>>
    BY <1>1, <2>2 DEF RequestTypes, RequestAt
  <2>3. QED
    BY <1>2, <2>1, <2>2 DEF Proceed
<1>5. /\ webLive' \subseteq generated' /\ ended' \subseteq generated'
      /\ webLive' \intersect ended' = {}
      /\ webNow' \in 0..MaxWebTime /\ generated' \subseteq WebTokens \union OidcStates
  BY <1>1, <1>2 DEF HistoryTypes, WebSessionsEnd
<1>6. QED
  BY <1>2, <1>3, <1>4, <1>5, StoreStepsKeepWebInv

\* A restart ends every session, every pending login and every request.
LEMMA RestartKeepsWebInv ==
    ASSUME WebInv, RestartWeb
    PROVE  WebInv'
<1>1. WebTypeOK /\ WebSessionsEnd /\ StoreTypes /\ RequestTypes /\ HistoryTypes
  BY TypesSplit DEF WebInv
<1>2. /\ StoreWithout(webLive, {}) /\ pkce_states' = {}
      /\ UNCHANGED <<webNow, expiresAt, generated, stateLogins>>
      /\ webLive \subseteq generated
  BY <1>1 DEF RestartWeb, HistoryTypes
<1>3. /\ StoreTypes'
      /\ webLive' \subseteq generated' /\ ended' \subseteq generated'
      /\ webLive' \intersect ended' = {}
  BY <1>1, <1>2, RemoveSessionFacts
<1>4. RequestTypes' /\ \A q \in WebRequests : webPc'[q] = "idle"
  <2>1. lockedCopy' \in [WebRequests -> BOOLEAN]
    BY Zenon DEF RestartWeb
  <2>2. activityCopy' \in [WebRequests -> WebTime]
    BY <1>1, TimesTyped DEF RestartWeb
  <2>3. QED
    BY <2>1, <2>2 DEF RequestTypes, RestartWeb, WebOps
<1>5. webNow' \in 0..MaxWebTime /\ generated' \subseteq WebTokens \union OidcStates
  BY <1>1, <1>2 DEF HistoryTypes
<1>6. QED
  BY <1>2, <1>3, <1>4, <1>5, StoreStepsKeepWebInv

\* Time passes, or nothing happens.
LEMMA TickKeepsWebInv ==
    ASSUME WebInv, WebTick \/ UNCHANGED webVars
    PROVE  WebInv'
<1>1. WebTypeOK /\ WebSessionsEnd /\ StoreTypes /\ RequestTypes /\ HistoryTypes
  BY TypesSplit DEF WebInv
<1>2. UNCHANGED <<webLive, locked, lastActivity, expiresAt, pkce_states, webPc, webOp, webTok,
                  lockedCopy, activityCopy, stateOf, generated, ended, stateLogins>>
  BY DEF WebTick, webVars, webStoreVars, requestVars
<1>3. webNow' \in 0..MaxWebTime
  BY <1>1, WebAssumption DEF WebTick, webVars, HistoryTypes
<1>4. StoreTypes' /\ RequestTypes'
  BY <1>1, <1>2 DEF StoreTypes, RequestTypes
<1>5. /\ webLive' \subseteq generated' /\ ended' \subseteq generated'
      /\ webLive' \intersect ended' = {} /\ generated' \subseteq WebTokens \union OidcStates
  BY <1>1, <1>2 DEF HistoryTypes, WebSessionsEnd
<1>6. QED
  BY <1>2, <1>3, <1>4, <1>5, StoreStepsKeepWebInv

\* validate_session's get: the copy is of a session in the store.
LEMMA GetSessionKeepsWebInv ==
    ASSUME WebInv, NEW r \in WebRequests, NEW t \in WebTokens, NEW op \in WebOps,
           GetSession(r, op, t)
    PROVE  WebInv'
<1>1. WebTypeOK /\ WebSessionsEnd /\ StoreTypes /\ RequestTypes /\ HistoryTypes
  BY TypesSplit DEF WebInv
<1>2. /\ webPc[r] = "idle" /\ t \in webLive
      /\ UNCHANGED <<webNow, webLive, locked, lastActivity, expiresAt, pkce_states,
                     stateOf, generated, ended, stateLogins>>
      /\ webPc' = [webPc EXCEPT ![r] = IF Expired(t) THEN "expired" ELSE "update"]
      /\ webOp' = [webOp EXCEPT ![r] = op] /\ webTok' = [webTok EXCEPT ![r] = t]
  BY DEF GetSession, RequestAt, webStoreVars
<1>3. RequestTypes'
  <2>1. lockedCopy' \in [WebRequests -> BOOLEAN]
    <3>1. PICK l \in BOOLEAN : lockedCopy' = [lockedCopy EXCEPT ![r] = l]
      BY Zenon DEF GetSession
    <3>2. QED
      BY <1>1, <3>1 DEF RequestTypes
  <2>2. activityCopy' \in [WebRequests -> WebTime]
    <3>1. PICK a \in WebTime : activityCopy' = [activityCopy EXCEPT ![r] = a]
      BY <1>1, TimesTyped DEF GetSession, StoreTypes
    <3>2. QED
      BY <1>1, <3>1 DEF RequestTypes
  <2>3. QED
    BY <1>1, <1>2, <2>1, <2>2 DEF RequestTypes
<1>4. WebTypeOK' /\ WebSessionsEnd'
  <2>1. StoreTypes' /\ HistoryTypes' /\ WebSessionsEnd'
    BY <1>1, <1>2 DEF StoreTypes, HistoryTypes, WebSessionsEnd
  <2>2. QED
    BY <1>3, <2>1, TypesSplit
<1>5. /\ webPc'[r] \in {"expired", "update"} /\ webTok'[r] = t
      /\ \A q \in WebRequests \ {r} : webPc'[q] = webPc[q] /\ webTok'[q] = webTok[q]
  BY <1>1, <1>2 DEF RequestTypes
<1>6. TokensKnown'
  <2>1. t \in generated
    BY <1>1, <1>2 DEF HistoryTypes
  <2>2. QED
    BY <1>2, <1>5, <2>1 DEF WebInv, TokensKnown
<1>7. StatesInv'
  <2>1. \A q \in WebRequests : webPc'[q] = "exchange" <=> webPc[q] = "exchange"
    BY <1>2, <1>5
  <2>2. QED
    BY <1>2, <2>1 DEF WebInv, StatesInv
<1>8. QED
  BY <1>4, <1>6, <1>7 DEF WebInv

\* authorize_url: the new state has not been with any callback.
LEMMA AuthorizeUrlKeepsWebInv ==
    ASSUME WebInv, NEW s \in OidcStates, NEW old \in SUBSET OidcStates, AuthorizeUrl(s, old)
    PROVE  WebInv'
<1>1. WebTypeOK /\ WebSessionsEnd /\ StoreTypes /\ RequestTypes /\ HistoryTypes
  BY TypesSplit DEF WebInv
<1>2. /\ UNCHANGED <<webNow, webLive, locked, lastActivity, expiresAt, webPc, webOp, webTok,
                     lockedCopy, activityCopy, stateOf, ended, stateLogins>>
      /\ s \notin generated /\ generated' = generated \union {s}
      /\ pkce_states' = (pkce_states \ old) \union {s}
  BY DEF AuthorizeUrl, webStoreVars, requestVars
<1>3. WebTypeOK' /\ WebSessionsEnd'
  <2>1. StoreTypes' /\ RequestTypes' /\ HistoryTypes' /\ WebSessionsEnd'
    BY <1>1, <1>2 DEF StoreTypes, RequestTypes, HistoryTypes, WebSessionsEnd
  <2>2. QED
    BY <2>1, TypesSplit
<1>4. TokensKnown'
  BY <1>2 DEF WebInv, TokensKnown
<1>5. StatesInv'
  <2>1. pkce_states' \subseteq generated'
    BY <1>2 DEF WebInv, StatesInv
  <2>2. \A x \in OidcStates :
          stateLogins'[x] > 0 => x \in generated' /\ x \notin pkce_states'
    BY <1>2 DEF WebInv, StatesInv
  <2>3. ASSUME NEW r \in WebRequests, webPc'[r] = "exchange"
        PROVE  /\ stateOf'[r] \in generated' \intersect OidcStates
               /\ stateOf'[r] \notin pkce_states'
               /\ stateLogins'[stateOf'[r]] = 0
               /\ \A q \in WebRequests \ {r} :
                    webPc'[q] = "exchange" => stateOf'[q] # stateOf'[r]
    BY <1>2, <2>3 DEF WebInv, StatesInv
  <2>4. QED
    BY <2>1, <2>2, <2>3 DEF StatesInv
<1>6. QED
  BY <1>3, <1>4, <1>5 DEF WebInv

\* exchange_code takes the state out of the pending ones: no other callback
\* holds it, and none can take it later.
LEMMA TakeStateKeepsWebInv ==
    ASSUME WebInv, NEW r \in WebRequests, NEW s \in OidcStates, TakeState(r, s)
    PROVE  WebInv'
<1>1. WebTypeOK /\ WebSessionsEnd /\ StoreTypes /\ RequestTypes /\ HistoryTypes
  BY TypesSplit DEF WebInv
<1>2. /\ UNCHANGED <<webNow, webLive, locked, lastActivity, expiresAt, webOp, webTok,
                     lockedCopy, activityCopy, generated, ended, stateLogins>>
      /\ webPc[r] = "idle" /\ s \in pkce_states /\ pkce_states' = pkce_states \ {s}
      /\ webPc' = [webPc EXCEPT ![r] = "exchange"] /\ stateOf' = [stateOf EXCEPT ![r] = s]
  BY DEF TakeState, webStoreVars, RequestAt
<1>3. WebTypeOK' /\ WebSessionsEnd'
  <2>1. StoreTypes' /\ RequestTypes' /\ HistoryTypes' /\ WebSessionsEnd'
    BY <1>1, <1>2 DEF StoreTypes, RequestTypes, HistoryTypes, WebSessionsEnd
  <2>2. QED
    BY <2>1, TypesSplit
<1>4. /\ webPc'[r] = "exchange" /\ stateOf'[r] = s
      /\ \A q \in WebRequests \ {r} : webPc'[q] = webPc[q] /\ stateOf'[q] = stateOf[q]
  BY <1>1, <1>2 DEF RequestTypes
<1>5. TokensKnown'
  BY <1>2, <1>4 DEF WebInv, TokensKnown
<1>6. StatesInv'
  <2>1. pkce_states' \subseteq generated' /\ s \in generated'
    BY <1>2 DEF WebInv, StatesInv
  <2>2. \A x \in OidcStates :
          stateLogins'[x] > 0 => x \in generated' /\ x \notin pkce_states'
    BY <1>2 DEF WebInv, StatesInv
  <2>3. stateLogins[s] = 0
    BY <1>1, <1>2 DEF WebInv, StatesInv, HistoryTypes
  <2>4. ASSUME NEW q \in WebRequests, webPc'[q] = "exchange"
        PROVE  /\ stateOf'[q] \in generated' \intersect OidcStates
               /\ stateOf'[q] \notin pkce_states'
               /\ stateLogins'[stateOf'[q]] = 0
               /\ \A p \in WebRequests \ {q} :
                    webPc'[p] = "exchange" => stateOf'[p] # stateOf'[q]
    <3>1. \A p \in WebRequests \ {r} :
             webPc[p] = "exchange" =>
               /\ stateOf[p] # s /\ stateOf[p] \in generated \intersect OidcStates
               /\ stateOf[p] \notin pkce_states /\ stateLogins[stateOf[p]] = 0
      BY <1>2 DEF WebInv, StatesInv
    <3>2. CASE q = r
      BY <1>2, <1>4, <2>1, <2>3, <3>1, <3>2
    <3>3. CASE q # r
      <4>1. \A p \in WebRequests \ {q, r} :
               webPc[p] = "exchange" => stateOf[p] # stateOf[q]
        BY <1>4, <2>4, <3>3 DEF WebInv, StatesInv
      <4>2. QED
        BY <1>2, <1>4, <2>4, <3>1, <3>3, <4>1
    <3>4. QED
      BY <3>2, <3>3
  <2>5. QED
    BY <2>1, <2>2, <2>4 DEF StatesInv
<1>7. QED
  BY <1>3, <1>5, <1>6 DEF WebInv

\* The callback makes the one session of its state.
LEMMA CodeExchangedKeepsWebInv ==
    ASSUME WebInv, NEW r \in WebRequests, NEW t \in WebTokens, CodeExchanged(r, t)
    PROVE  WebInv'
<1>1. WebTypeOK /\ WebSessionsEnd /\ StoreTypes /\ RequestTypes /\ HistoryTypes
  BY TypesSplit DEF WebInv
<1>2. /\ webPc[r] = "exchange" /\ CreateSession(t) /\ RequestEnds(r)
      /\ UNCHANGED <<webNow, pkce_states>>
      /\ stateLogins' = [stateLogins EXCEPT ![stateOf[r]] = @ + 1]
  BY DEF CodeExchanged
<1>3. /\ stateOf[r] \in generated \intersect OidcStates
      /\ stateOf[r] \notin pkce_states
      /\ stateLogins[stateOf[r]] = 0
      /\ \A q \in WebRequests \ {r} :
           webPc[q] = "exchange" => stateOf[q] # stateOf[r]
  BY <1>2 DEF WebInv, StatesInv
<1>4. /\ StoreTypes' /\ generated' = generated \union {t}
      /\ webLive' \subseteq generated' /\ ended' \subseteq generated'
      /\ webLive' \intersect ended' = {}
  BY <1>1, <1>2, CreateSessionFacts
<1>5. /\ RequestTypes' /\ webPc'[r] = "idle"
      /\ \A q \in WebRequests \ {r} :
           /\ webPc'[q] = webPc[q] /\ webTok'[q] = webTok[q]
           /\ stateOf'[q] = stateOf[q]
  BY <1>1, <1>2, RequestEndsFacts
<1>6. /\ stateLogins' \in [OidcStates -> Nat] /\ stateLogins'[stateOf[r]] = 1
      /\ \A s \in OidcStates \ {stateOf[r]} : stateLogins'[s] = stateLogins[s]
  BY <1>1, <1>2, <1>3 DEF HistoryTypes
<1>7. WebTypeOK'
  <2>1. HistoryTypes'
    BY <1>1, <1>2, <1>4, <1>6 DEF HistoryTypes
  <2>2. QED
    BY <1>4, <1>5, <2>1, TypesSplit
<1>8. WebSessionsEnd'
  BY <1>1, <1>3, <1>4, <1>6 DEF WebSessionsEnd
<1>9. TokensKnown'
  BY <1>4, <1>5 DEF WebInv, TokensKnown
<1>10. StatesInv'
  <2>1. pkce_states' \subseteq generated'
    BY <1>2, <1>4 DEF WebInv, StatesInv
  <2>2. \A x \in OidcStates :
          stateLogins'[x] > 0 => x \in generated' /\ x \notin pkce_states'
    BY <1>2, <1>3, <1>4, <1>6 DEF WebInv, StatesInv
  <2>3. ASSUME NEW q \in WebRequests, webPc'[q] = "exchange"
        PROVE  /\ stateOf'[q] \in generated' \intersect OidcStates
               /\ stateOf'[q] \notin pkce_states'
               /\ stateLogins'[stateOf'[q]] = 0
               /\ \A p \in WebRequests \ {q} :
                    webPc'[p] = "exchange" => stateOf'[p] # stateOf'[q]
    <3>1. q # r /\ webPc[q] = "exchange" /\ stateOf'[q] = stateOf[q]
      BY <1>5, <2>3
    <3>2. /\ stateOf[q] \in generated \intersect OidcStates
          /\ stateOf[q] \notin pkce_states
          /\ stateLogins[stateOf[q]] = 0
          /\ \A p \in WebRequests \ {q} :
               webPc[p] = "exchange" => stateOf[p] # stateOf[q]
      BY <3>1 DEF WebInv, StatesInv
    <3>3. stateOf[q] # stateOf[r]
      BY <1>3, <3>1
    <3>4. \A p \in WebRequests \ {q} :
             webPc'[p] = "exchange" => stateOf'[p] # stateOf[q]
      BY <1>5, <3>2
    <3>5. QED
      BY <1>2, <1>4, <1>6, <3>1, <3>2, <3>3, <3>4
  <2>4. QED
    BY <2>1, <2>2, <2>3 DEF StatesInv
<1>11. QED
  BY <1>7, <1>8, <1>9, <1>10 DEF WebInv

\* Every step of the console keeps the invariant.
LEMMA WebStepKeepsInv ==
    ASSUME WebInv, [WebNext]_webVars
    PROVE  WebInv'
<1>1. ASSUME NEW r \in WebRequests, ValidateExpired(r) \/ RemoveAfterLogoutAll(r)
      PROVE  WebInv'
  BY <1>1, RequestRemovesKeepsWebInv DEF ValidateExpired, RemoveAfterLogoutAll
<1>2. ASSUME NEW r \in WebRequests, ExchangeFails(r) \/ ProxyRequest(r) \/ RequestDropped(r)
      PROVE  WebInv'
  BY <1>2, RequestEndsKeepsWebInv DEF ExchangeFails, ProxyRequest, RequestDropped
<1>3. QED
  BY <1>1, <1>2, InternalLoginKeepsWebInv, LogoutKeepsWebInv, AuthorizeUrlKeepsWebInv,
     TakeStateKeepsWebInv, CodeExchangedKeepsWebInv, GetSessionKeepsWebInv,
     ValidateUpdatesKeepsWebInv, RestartKeepsWebInv, TickKeepsWebInv DEF WebNext

\* A console session that a logout, its expiry or a restart has ended is never
\* in the store again, and one OIDC login makes at most one session, for any
\* number of requests, tokens and states.
THEOREM ConsoleSessionsEnd == WebSpec => []WebSessionsEnd
<1>1. WebInit => WebInv
  <2> SUFFICES ASSUME WebInit PROVE WebInv
    OBVIOUS
  <2>1. 0 \in WebTime /\ 0 \in 0..MaxWebTime
    BY WebAssumption DEF WebTime
  <2>2. locked \in [WebTokens -> BOOLEAN] /\ lockedCopy \in [WebRequests -> BOOLEAN]
    BY Zenon DEF WebInit
  <2>3. WebTypeOK
    BY <2>1, <2>2 DEF WebInit, WebTypeOK, WebOps
  <2>4. TokensKnown /\ StatesInv /\ WebSessionsEnd
    BY DEF WebInit, TokensKnown, StatesInv, WebSessionsEnd
  <2>5. QED
    BY <2>3, <2>4 DEF WebInv
<1>2. WebInv /\ [WebNext]_webVars => WebInv'
  BY WebStepKeepsInv
<1>3. WebInv => WebSessionsEnd
  BY DEF WebInv
<1>4. QED
  BY <1>1, <1>2, <1>3, PTL DEF WebSpec

-----------------------------------------------------------------------------
(* The PKCS#11 provider.  destroy_key sees both halves of its key as long as *)
(* nobody logs the token out, no new object gets the id of a key that a      *)
(* caller holds, and so nothing of the key is left when it answers Ok.       *)

\* What the step of one operation leaves to another one: the objects of its
\* key do not grow, and a logout is noted.
LEMMA OtherOperation ==
    ASSUME NEW f \in HsmOps, DestroyProgress(f),
           hsmPc'[f] = hsmPc[f], hsmKind'[f] = hsmKind[f], hsmKey'[f] = hsmKey[f],
           handles'[f] = handles[f], answer'[f] = answer[f],
           handedOut \subseteq handedOut',
           \A x \in objects' : x \in objects \/ x.key \notin handedOut,
           hsmPc[f] # "idle" => \/ disturbed'[f]
                                \/ disturbed'[f] = disturbed[f] /\ (loggedIn => loggedIn')
    PROVE  DestroyProgress(f)'
<1> SUFFICES ASSUME hsmKind[f] = "destroy", hsmPc[f] # "idle"
             PROVE  DestroyProgress(f)'
  BY DEF DestroyProgress
<1>1. hsmKey[f] \in handedOut
  BY DEF DestroyProgress
<1>2. OfKey(hsmKey[f])' \subseteq OfKey(hsmKey[f])
  BY <1>1 DEF OfKey
<1>3. CASE disturbed'[f]
  BY <1>1, <1>3 DEF DestroyProgress
<1>4. CASE disturbed'[f] = disturbed[f] /\ (loggedIn => loggedIn')
  BY <1>1, <1>2, <1>4 DEF DestroyProgress, OfKey
<1>5. QED
  BY <1>3, <1>4

\* A step that ends the work of operation o with an answer and touches no
\* object: o neither created nor destroyed a key when the answer is Ok.
LEMMA AnswerKeepsHsmInv ==
    ASSUME HsmInv, NEW o \in HsmOps, hsmPc[o] # "idle",
           NEW a \in {"ok", "true", "false", "error"}, NEW p \in {"logout", "drop"},
           Answers(o, a, p),
           UNCHANGED <<tokenVars, hsmKind, hsmKey, handles, lost, genuine, handedOut,
                       destroyed, disturbed>>,
           a = "ok" => hsmKind[o] \notin {"generate", "unwrap", "destroy"},
           a = "true" => genuine[o],
           a = "false" => ~genuine[o]
    PROVE  HsmInv'
<1>0. HsmTypeOK
  BY DEF HsmInv
<1>1. /\ answer' = [answer EXCEPT ![o] = a] /\ hsmPc' = [hsmPc EXCEPT ![o] = p]
      /\ UNCHANGED <<objects, loggedIn, hsmKind, hsmKey, handles, lost, genuine, handedOut,
                     destroyed, disturbed>>
  BY DEF Answers, HsmAt, tokenVars
<1>2. /\ answer'[o] = a /\ hsmPc'[o] = p
      /\ \A f \in HsmOps \ {o} : answer'[f] = answer[f] /\ hsmPc'[f] = hsmPc[f]
  BY <1>0, <1>1 DEF HsmTypeOK
<1>3. HsmTypeOK'
  <2>1. /\ answer' \in [HsmOps -> {"none", "ok", "true", "false", "error"}]
        /\ hsmPc' \in [HsmOps -> {"idle", "login", "find", "find2", "use", "use2", "logout", "drop"}]
    BY <1>0, <1>1 DEF HsmTypeOK
  <2>2. QED
    BY <1>0, <1>1, <2>1 DEF HsmTypeOK
<1>4. VerdictInv'
  BY <1>1, <1>2 DEF HsmInv, VerdictInv
<1>5. KeysInv'
  BY <1>1, <1>2 DEF HsmInv, KeysInv
<1>6. DestroyedGone'
  BY <1>1 DEF HsmInv, DestroyedGone
<1>7. ASSUME NEW f \in HsmOps PROVE DestroyProgress(f)'
  <2>1. CASE f # o
    BY <1>1, <1>2, <2>1, OtherOperation DEF HsmInv
  <2>2. CASE f = o
    <3>1. DestroyProgress(o)
      BY DEF HsmInv
    <3>2. QED
      BY <1>1, <1>2, <2>2, <3>1 DEF DestroyProgress
  <2>3. QED
    BY <2>1, <2>2
<1>8. QED
  BY <1>3, <1>4, <1>5, <1>6, <1>7 DEF HsmInv

\* An operation starts on a key that its caller holds.
LEMMA OpenSessionKeepsHsmInv ==
    ASSUME HsmInv, NEW o \in HsmOps, NEW kind \in HsmKinds,
           NEW k \in HsmKeys \union {NoHsmKey}, NEW g \in BOOLEAN,
           OpenSession(o, kind, k, g)
    PROVE  HsmInv'
<1>0. HsmTypeOK
  BY DEF HsmInv
<1>1. /\ hsmPc' = [hsmPc EXCEPT ![o] = "login"] /\ hsmKind' = [hsmKind EXCEPT ![o] = kind]
      /\ hsmKey' = [hsmKey EXCEPT ![o] = k] /\ genuine' = [genuine EXCEPT ![o] = g]
      /\ answer' = [answer EXCEPT ![o] = "none"]
      /\ UNCHANGED <<objects, loggedIn, handles, lost, handedOut, destroyed, disturbed>>
      /\ kind = "destroy" => k \in handedOut
  BY DEF OpenSession, HsmAt, tokenVars
<1>2. /\ hsmPc'[o] = "login" /\ hsmKind'[o] = kind /\ hsmKey'[o] = k /\ answer'[o] = "none"
      /\ \A f \in HsmOps \ {o} :
           /\ hsmPc'[f] = hsmPc[f] /\ hsmKind'[f] = hsmKind[f] /\ hsmKey'[f] = hsmKey[f]
           /\ answer'[f] = answer[f] /\ genuine'[f] = genuine[f]
  BY <1>0, <1>1 DEF HsmTypeOK
<1>3. HsmTypeOK'
  <2>1. /\ answer' \in [HsmOps -> {"none", "ok", "true", "false", "error"}]
        /\ hsmPc' \in [HsmOps -> {"idle", "login", "find", "find2", "use", "use2", "logout", "drop"}]
        /\ hsmKind' \in [HsmOps -> HsmKinds] /\ hsmKey' \in [HsmOps -> HsmKeys \union {NoHsmKey}]
    BY <1>0, <1>1 DEF HsmTypeOK
  <2>2. genuine' \in [HsmOps -> BOOLEAN]
    BY <1>0, <1>1 DEF HsmTypeOK
  <2>3. QED
    BY <1>0, <1>1, <2>1, <2>2 DEF HsmTypeOK
<1>4. VerdictInv'
  BY <1>2 DEF HsmInv, VerdictInv
<1>5. KeysInv'
  BY <1>1, <1>2 DEF HsmInv, KeysInv
<1>6. DestroyedGone'
  BY <1>1 DEF HsmInv, DestroyedGone
<1>7. ASSUME NEW f \in HsmOps PROVE DestroyProgress(f)'
  <2>1. CASE f # o
    BY <1>1, <1>2, <2>1, OtherOperation DEF HsmInv
  <2>2. CASE f = o
    BY <1>1, <1>2, <2>2 DEF DestroyProgress
  <2>3. QED
    BY <2>1, <2>2
<1>8. QED
  BY <1>3, <1>4, <1>5, <1>6, <1>7 DEF HsmInv

\* The login that every operation makes.
LEMMA LoginKeepsHsmInv ==
    ASSUME HsmInv, NEW o \in HsmOps, Login(o)
    PROVE  HsmInv'
<1>0. HsmTypeOK
  BY DEF HsmInv
<1>1. PICK p \in {"use", "find"} : /\ hsmPc' = [hsmPc EXCEPT ![o] = p]
                                   /\ p = "use" => hsmKind[o] # "destroy"
  BY DEF Login, HsmAt
<1>2. /\ hsmPc[o] = "login" /\ loggedIn' = TRUE
      /\ UNCHANGED <<objects, hsmKind, hsmKey, handles, lost, genuine, answer, handedOut,
                     destroyed, disturbed>>
  BY DEF Login
<1>3. hsmPc'[o] = p /\ \A f \in HsmOps \ {o} : hsmPc'[f] = hsmPc[f]
  BY <1>0, <1>1 DEF HsmTypeOK
<1>4. HsmTypeOK'
  <2>1. hsmPc' \in [HsmOps -> {"idle", "login", "find", "find2", "use", "use2", "logout", "drop"}]
    BY <1>0, <1>1 DEF HsmTypeOK
  <2>2. loggedIn' \in BOOLEAN
    BY Zenon, <1>2
  <2>3. QED
    BY <1>0, <1>2, <2>1, <2>2 DEF HsmTypeOK
<1>5. VerdictInv' /\ DestroyedGone'
  BY <1>2 DEF HsmInv, VerdictInv, DestroyedGone
<1>6. KeysInv'
  BY <1>2, <1>3 DEF HsmInv, KeysInv
<1>7. ASSUME NEW f \in HsmOps PROVE DestroyProgress(f)'
  <2>1. CASE f # o
    BY <1>2, <1>3, <2>1, OtherOperation DEF HsmInv
  <2>2. CASE f = o
    <3>1. DestroyProgress(o)
      BY DEF HsmInv
    <3>2. QED
      BY <1>1, <1>2, <1>3, <2>2, <3>1 DEF DestroyProgress
  <2>3. QED
    BY <2>1, <2>2
<1>8. QED
  BY <1>4, <1>5, <1>6, <1>7 DEF HsmInv

\* find_objects: undisturbed, destroy_key finds what there is of the half of
\* its key that it looks for.
LEMMA FindObjectsKeepsHsmInv ==
    ASSUME HsmInv, NEW o \in HsmOps, FindObjects(o)
    PROVE  HsmInv'
<1>0. HsmTypeOK
  BY DEF HsmInv
<1>1. PICK p \in {"find2", "use2", "use"} :
         /\ hsmPc' = [hsmPc EXCEPT ![o] = p]
         /\ hsmKind[o] = "destroy" => p = IF hsmPc[o] = "find2" THEN "use2" ELSE "use"
  BY DEF FindObjects, HsmAt, AfterFind
<1>2. PICK hs \in SUBSET objects :
         /\ handles' = [handles EXCEPT ![o] = hs \union (IF hsmKind[o] = "wrap" THEN @ ELSE {})]
         /\ hsmKind[o] = "destroy" => hs = Matches(o)
  <2>1. Matches(o) \in SUBSET objects
    BY DEF Matches
  <2>2. QED
    BY <2>1 DEF FindObjects
<1>3. /\ hsmPc[o] \in {"find", "find2"}
      /\ UNCHANGED <<objects, loggedIn, hsmKind, hsmKey, lost, genuine, answer, handedOut,
                     destroyed, disturbed>>
  BY DEF FindObjects, tokenVars
<1>4. /\ hsmPc'[o] = p /\ \A f \in HsmOps \ {o} : hsmPc'[f] = hsmPc[f] /\ handles'[f] = handles[f]
      /\ hsmKind[o] = "destroy" => handles'[o] = Matches(o)
  BY <1>0, <1>1, <1>2 DEF HsmTypeOK
<1>5. HsmTypeOK'
  <2>1. hsmPc' \in [HsmOps -> {"idle", "login", "find", "find2", "use", "use2", "logout", "drop"}]
    BY <1>0, <1>1 DEF HsmTypeOK
  <2>2. handles' \in [HsmOps -> SUBSET Objects]
    <3>1. objects \in SUBSET Objects
      BY <1>0 DEF HsmTypeOK
    <3>2. hs \union (IF hsmKind[o] = "wrap" THEN handles[o] ELSE {}) \in SUBSET Objects
      BY <1>0, <3>1 DEF HsmTypeOK
    <3>3. QED
      BY <1>0, <1>2, <3>2 DEF HsmTypeOK
  <2>3. QED
    BY <1>0, <1>3, <2>1, <2>2 DEF HsmTypeOK
<1>6. VerdictInv' /\ DestroyedGone'
  BY <1>3 DEF HsmInv, VerdictInv, DestroyedGone
<1>7. KeysInv'
  BY <1>3, <1>4 DEF HsmInv, KeysInv
<1>8. ASSUME NEW f \in HsmOps PROVE DestroyProgress(f)'
  <2>1. CASE f # o
    BY <1>3, <1>4, <2>1, OtherOperation DEF HsmInv
  <2>2. CASE f = o
    <3>1. DestroyProgress(o)
      BY DEF HsmInv
    <3>2. SUFFICES ASSUME hsmKind[o] = "destroy" PROVE DestroyProgress(o)'
      BY <1>3, <2>2 DEF DestroyProgress
    <3>3. hsmKey[o] \in handedOut /\ hsmKind'[o] = "destroy" /\ hsmKey'[o] = hsmKey[o]
      BY <1>3, <3>1, <3>2 DEF DestroyProgress
    <3>4. CASE disturbed[o]
      BY <1>3, <3>3, <3>4 DEF DestroyProgress
    <3>5. CASE ~disturbed[o] /\ hsmPc[o] = "find"
      <4>1. loggedIn
        BY <3>1, <3>2, <3>5 DEF DestroyProgress
      <4>2. \A x \in OfKey(hsmKey[o]) : x.class = "private" => x \in Matches(o)
        BY <3>2, <3>5, <4>1 DEF OfKey, Matches, FindClass, Visible
      <4>3. QED
        BY <1>1, <1>3, <1>4, <3>2, <3>3, <3>5, <4>1, <4>2 DEF DestroyProgress, OfKey
    <3>6. CASE ~disturbed[o] /\ hsmPc[o] = "find2"
      <4>1. loggedIn /\ \A x \in OfKey(hsmKey[o]) : x.class = "public"
        BY <3>1, <3>2, <3>6 DEF DestroyProgress
      <4>2. OfKey(hsmKey[o]) \subseteq Matches(o)
        BY <3>2, <3>6, <4>1 DEF OfKey, Matches, FindClass, Visible
      <4>3. QED
        BY <1>1, <1>3, <1>4, <3>2, <3>3, <3>6, <4>1, <4>2 DEF DestroyProgress, OfKey
    <3>7. QED
      BY <1>3, <3>4, <3>5, <3>6
  <2>3. QED
    BY <2>1, <2>2
<1>9. QED
  BY <1>5, <1>6, <1>7, <1>8 DEF HsmInv

\* A key is created under an id that no caller holds, so that it belongs to
\* no key being destroyed and to none that was.
LEMMA CreateKeepsHsmInv ==
    ASSUME HsmInv, NEW o \in HsmOps, hsmPc[o] = "use", hsmKind[o] \in {"generate", "unwrap"},
           NEW k \in HsmKeys, k \notin handedOut,
           NEW new \in SUBSET KeyPairObjects(k),
           objects' = objects \union new, hsmKey' = [hsmKey EXCEPT ![o] = k],
           Answers(o, "ok", "logout"),
           UNCHANGED <<loggedIn, hsmKind, handles, lost, genuine, handedOut, destroyed, disturbed>>
    PROVE  HsmInv'
<1>0. HsmTypeOK
  BY DEF HsmInv
<1>1. answer' = [answer EXCEPT ![o] = "ok"] /\ hsmPc' = [hsmPc EXCEPT ![o] = "logout"]
  BY DEF Answers, HsmAt
<1>2. /\ answer'[o] = "ok" /\ hsmPc'[o] = "logout" /\ hsmKey'[o] = k
      /\ \A f \in HsmOps \ {o} : /\ answer'[f] = answer[f] /\ hsmPc'[f] = hsmPc[f]
                                 /\ hsmKey'[f] = hsmKey[f]
  BY <1>0, <1>1 DEF HsmTypeOK
<1>3. \A x \in new : x.key = k /\ x.class \in {"private", "public"} /\ x \in Objects
  BY DEF KeyPairObjects, Object, Objects, Classes
<1>4. HsmTypeOK'
  <2>1. /\ answer' \in [HsmOps -> {"none", "ok", "true", "false", "error"}]
        /\ hsmPc' \in [HsmOps -> {"idle", "login", "find", "find2", "use", "use2", "logout", "drop"}]
        /\ hsmKey' \in [HsmOps -> HsmKeys \union {NoHsmKey}]
    BY <1>0, <1>1 DEF HsmTypeOK
  <2>2. objects' \subseteq Objects
    BY <1>0, <1>3 DEF HsmTypeOK
  <2>3. QED
    BY <1>0, <2>1, <2>2 DEF HsmTypeOK
<1>5. VerdictInv'
  BY <1>2 DEF HsmInv, VerdictInv
<1>6. KeysInv'
  <2>1. \A x \in objects' : x.class = "secret" => x.key = Kek
    BY <1>3 DEF HsmInv, KeysInv
  <2>2. QED
    BY <1>2, <2>1 DEF HsmInv, KeysInv
<1>7. DestroyedGone'
  <2>1. k \notin destroyed
    BY DEF HsmInv, KeysInv
  <2>2. QED
    BY <1>3, <2>1 DEF HsmInv, DestroyedGone
<1>8. ASSUME NEW f \in HsmOps PROVE DestroyProgress(f)'
  <2>1. CASE f # o
    BY <1>2, <1>3, <2>1, OtherOperation DEF HsmInv
  <2>2. CASE f = o
    BY <2>2 DEF DestroyProgress
  <2>3. QED
    BY <2>1, <2>2
<1>9. QED
  BY <1>4, <1>5, <1>6, <1>7, <1>8 DEF HsmInv

\* generate_key_pair and unwrap_key.
LEMMA KeyStepsKeepHsmInv ==
    ASSUME HsmInv, NEW o \in HsmOps, NEW k \in HsmKeys,
           GenerateKeyPair(o, k) \/ UnwrapKey(o, k)
    PROVE  HsmInv'
<1>1. CASE GenerateKeyPair(o, k) /\ loggedIn
  <2>1. k \notin handedOut /\ KeyPairObjects(k) \in SUBSET KeyPairObjects(k)
    BY <1>1 DEF GenerateKeyPair, FreshIds
  <2>2. QED
    BY <1>1, <2>1, CreateKeepsHsmInv DEF GenerateKeyPair, Using
<1>2. CASE GenerateKeyPair(o, k) /\ ~loggedIn
  BY <1>2, AnswerKeepsHsmInv DEF GenerateKeyPair, Using, tokenVars
<1>3. CASE UnwrapKey(o, k) /\ HandlesGood(o)
  <2>1. k \notin handedOut /\ {Object(k, "private")} \in SUBSET KeyPairObjects(k)
    BY <1>3 DEF UnwrapKey, FreshIds, KeyPairObjects
  <2>2. QED
    BY <1>3, <2>1, CreateKeepsHsmInv DEF UnwrapKey, Using
<1>4. CASE UnwrapKey(o, k) /\ ~HandlesGood(o)
  BY <1>4, AnswerKeepsHsmInv DEF UnwrapKey, Using, tokenVars
<1>5. QED
  BY <1>1, <1>2, <1>3, <1>4

\* destroy_key removes the objects it has found: the private half, then the
\* public one, after which nothing of the key is left.
LEMMA DestroyObjectsKeepsHsmInv ==
    ASSUME HsmInv, NEW o \in HsmOps, DestroyObjects(o), HandlesGood(o)
    PROVE  HsmInv'
<1>0. HsmTypeOK
  BY DEF HsmInv
<1>1. /\ hsmKind[o] = "destroy" /\ hsmPc[o] \in {"use", "use2"}
      /\ objects' = objects \ handles[o] /\ handles' = [handles EXCEPT ![o] = {}]
      /\ UNCHANGED <<loggedIn, hsmKind, hsmKey, lost, genuine, handedOut, destroyed, disturbed>>
  BY DEF DestroyObjects
<1>2. PICK p \in {"find2", "logout"}, a \in {"ok", answer[o]} :
         /\ hsmPc' = [hsmPc EXCEPT ![o] = p] /\ answer' = [answer EXCEPT ![o] = a]
         /\ hsmPc[o] = "use" => p = "find2"
         /\ hsmPc[o] = "use2" => p = "logout" /\ a = "ok"
  <2>1. CASE hsmPc[o] = "use"
    <3>1. answer' = [answer EXCEPT ![o] = answer[o]] /\ hsmPc' = [hsmPc EXCEPT ![o] = "find2"]
      BY <1>0, <2>1 DEF DestroyObjects, HsmAt, HsmTypeOK
    <3>2. QED
      BY <2>1, <3>1
  <2>2. CASE hsmPc[o] = "use2"
    BY <2>2 DEF DestroyObjects, HsmAt, Answers
  <2>3. QED
    BY <1>1, <2>1, <2>2
<1>3. /\ answer'[o] = a /\ hsmPc'[o] = p /\ a \in {"none", "ok", "true", "false", "error"}
      /\ \A f \in HsmOps \ {o} : /\ answer'[f] = answer[f] /\ hsmPc'[f] = hsmPc[f]
                                 /\ handles'[f] = handles[f]
  BY <1>0, <1>1, <1>2 DEF HsmTypeOK
<1>4. HsmTypeOK'
  <2>1. /\ answer' \in [HsmOps -> {"none", "ok", "true", "false", "error"}]
        /\ hsmPc' \in [HsmOps -> {"idle", "login", "find", "find2", "use", "use2", "logout", "drop"}]
        /\ handles' \in [HsmOps -> SUBSET Objects]
    BY <1>0, <1>1, <1>2, <1>3 DEF HsmTypeOK
  <2>2. objects' \subseteq Objects
    BY <1>0, <1>1 DEF HsmTypeOK
  <2>3. QED
    BY <1>0, <1>1, <2>1, <2>2 DEF HsmTypeOK
<1>5. VerdictInv'
  BY <1>1, <1>2, <1>3 DEF HsmInv, VerdictInv
<1>6. KeysInv' /\ DestroyedGone'
  BY <1>1, <1>3 DEF HsmInv, KeysInv, DestroyedGone
<1>7. ASSUME NEW f \in HsmOps PROVE DestroyProgress(f)'
  <2>1. CASE f # o
    BY <1>1, <1>3, <2>1, OtherOperation DEF HsmInv
  <2>2. CASE f = o
    <3>1. DestroyProgress(o)
      BY DEF HsmInv
    <3>2. hsmKey[o] \in handedOut /\ hsmKind'[o] = "destroy" /\ hsmKey'[o] = hsmKey[o]
      BY <1>1, <3>1 DEF DestroyProgress
    <3>3. CASE disturbed[o]
      BY <1>1, <3>2, <3>3, <2>2 DEF DestroyProgress
    <3>4. CASE ~disturbed[o] /\ hsmPc[o] = "use"
      <4>1. loggedIn /\ \A x \in OfKey(hsmKey[o]) : x.class = "private" => x \in handles[o]
        BY <1>1, <3>1, <3>4 DEF DestroyProgress
      <4>2. \A x \in objects' : x.key = hsmKey[o] => x.class = "public"
        <5>1. hsmKey[o] # Kek
          BY <1>0, <3>2, HsmKeysAssumption DEF HsmTypeOK
        <5>2. \A x \in objects : x.class \in Classes
          BY <1>0 DEF HsmTypeOK, Objects
        <5>3. QED
          BY <1>1, <4>1, <5>1, <5>2 DEF OfKey, HsmInv, KeysInv, Classes
      <4>3. QED
        BY <1>1, <1>2, <1>3, <2>2, <3>2, <3>4, <4>1, <4>2 DEF DestroyProgress, OfKey
    <3>5. CASE ~disturbed[o] /\ hsmPc[o] = "use2"
      <4>1. OfKey(hsmKey[o]) \subseteq handles[o]
        BY <1>1, <3>1, <3>5 DEF DestroyProgress
      <4>2. \A x \in objects' : x.key # hsmKey[o]
        BY <1>1, <4>1 DEF OfKey
      <4>3. QED
        BY <1>1, <1>2, <1>3, <2>2, <3>2, <3>5, <4>2 DEF DestroyProgress, OfKey
    <3>6. QED
      BY <1>1, <3>3, <3>4, <3>5
  <2>3. QED
    BY <2>1, <2>2
<1>8. QED
  BY <1>4, <1>5, <1>6, <1>7 DEF HsmInv

\* A logout disturbs every other operation that is running.
LEMMA HsmLogoutKeepsHsmInv ==
    ASSUME HsmInv, NEW o \in HsmOps, Logout(o)
    PROVE  HsmInv'
<1>0. HsmTypeOK
  BY DEF HsmInv
<1>1. /\ hsmPc[o] = "logout" /\ hsmPc' = [hsmPc EXCEPT ![o] = "drop"] /\ loggedIn' = FALSE
      /\ lost' = [f \in HsmOps |-> lost[f] \/ PrivateHandles(f) # {}]
      /\ disturbed' = [f \in HsmOps |-> disturbed[f] \/ (f # o /\ hsmPc[f] # "idle")]
      /\ UNCHANGED <<objects, hsmKind, hsmKey, handles, genuine, answer, handedOut, destroyed>>
  BY DEF Logout, TokenLogout, HsmAt
<1>2. hsmPc'[o] = "drop" /\ \A f \in HsmOps \ {o} : hsmPc'[f] = hsmPc[f]
  BY <1>0, <1>1 DEF HsmTypeOK
<1>3. HsmTypeOK'
  <2>1. hsmPc' \in [HsmOps -> {"idle", "login", "find", "find2", "use", "use2", "logout", "drop"}]
    BY <1>0, <1>1 DEF HsmTypeOK
  <2>2. loggedIn' \in BOOLEAN /\ lost' \in [HsmOps -> BOOLEAN] /\ disturbed' \in [HsmOps -> BOOLEAN]
    BY Zenon, <1>1
  <2>3. QED
    BY <1>0, <1>1, <2>1, <2>2 DEF HsmTypeOK
<1>4. VerdictInv' /\ DestroyedGone'
  BY <1>1 DEF HsmInv, VerdictInv, DestroyedGone
<1>5. KeysInv'
  BY <1>1, <1>2 DEF HsmInv, KeysInv
<1>6. ASSUME NEW f \in HsmOps PROVE DestroyProgress(f)'
  <2>1. CASE f # o
    <3>1. hsmPc[f] # "idle" => disturbed'[f]
      BY <1>1, <2>1
    <3>2. QED
      BY <1>1, <1>2, <2>1, <3>1, OtherOperation DEF HsmInv
  <2>2. CASE f = o
    <3>1. DestroyProgress(o)
      BY DEF HsmInv
    <3>2. disturbed'[o] <=> disturbed[o]
      BY <1>1
    <3>3. QED
      BY <1>1, <1>2, <2>2, <3>1, <3>2 DEF DestroyProgress, OfKey
  <2>3. QED
    BY <2>1, <2>2
<1>7. QED
  BY <1>3, <1>4, <1>5, <1>6 DEF HsmInv

\* The operation returns; closing its session logs out only when it was the
\* last one.
LEMMA CloseSessionKeepsHsmInv ==
    ASSUME HsmInv, NEW o \in HsmOps, CloseSession(o)
    PROVE  HsmInv'
<1>0. HsmTypeOK
  BY DEF HsmInv
<1>1. /\ hsmPc[o] = "drop" /\ hsmPc' = [hsmPc EXCEPT ![o] = "idle"]
      /\ loggedIn' = (loggedIn /\ \E x \in HsmOps \ {o} : hsmPc[x] # "idle")
      /\ handles' = [handles EXCEPT ![o] = {}]
      /\ lost' = [lost EXCEPT ![o] = FALSE]
      /\ disturbed' = [disturbed EXCEPT ![o] = FALSE]
      /\ UNCHANGED <<objects, hsmKind, hsmKey, genuine, answer>>
  BY DEF CloseSession, HsmAt
<1>2. /\ hsmPc'[o] = "idle"
      /\ \A f \in HsmOps \ {o} : /\ hsmPc'[f] = hsmPc[f] /\ handles'[f] = handles[f]
                                 /\ disturbed'[f] = disturbed[f]
  BY <1>0, <1>1 DEF HsmTypeOK
<1>3. PICK h \in SUBSET HsmKeys : handedOut' = handedOut \union h
  <2>1. CASE hsmKind[o] \in {"generate", "unwrap"} /\ answer[o] = "ok"
    <3>1. hsmKey[o] \in HsmKeys
      BY <1>1, <2>1 DEF HsmInv, KeysInv
    <3>2. handedOut' = handedOut \union {hsmKey[o]}
      BY <2>1 DEF CloseSession
    <3>3. QED
      BY <3>1, <3>2
  <2>2. CASE ~ (hsmKind[o] \in {"generate", "unwrap"} /\ answer[o] = "ok")
    <3>1. {} \in SUBSET HsmKeys /\ handedOut' = handedOut \union {}
      BY <2>2 DEF CloseSession
    <3>2. QED
      BY <3>1
  <2>3. QED
    BY <2>1, <2>2
<1>4. PICK d \in SUBSET handedOut : /\ destroyed' = destroyed \union d
                                    /\ \A x \in objects : x.key \notin d
  <2>1. CASE hsmKind[o] = "destroy" /\ answer[o] = "ok" /\ ~disturbed[o]
    <3>1. hsmKey[o] \in handedOut /\ OfKey(hsmKey[o]) = {}
      BY <1>1, <2>1 DEF HsmInv, DestroyProgress
    <3>2. destroyed' = destroyed \union {hsmKey[o]}
      BY <2>1 DEF CloseSession
    <3>3. {hsmKey[o]} \in SUBSET handedOut /\ \A x \in objects : x.key \notin {hsmKey[o]}
      BY <3>1 DEF OfKey
    <3>4. QED
      BY <3>2, <3>3
  <2>2. CASE ~ (hsmKind[o] = "destroy" /\ answer[o] = "ok" /\ ~disturbed[o])
    <3>1. {} \in SUBSET handedOut /\ destroyed' = destroyed \union {}
      BY <2>2 DEF CloseSession
    <3>2. QED
      BY <3>1
  <2>3. QED
    BY <2>1, <2>2
<1>5. HsmTypeOK'
  <2>1. /\ hsmPc' \in [HsmOps -> {"idle", "login", "find", "find2", "use", "use2", "logout", "drop"}]
        /\ handles' \in [HsmOps -> SUBSET Objects]
    BY <1>0, <1>1 DEF HsmTypeOK
  <2>2. loggedIn' \in BOOLEAN
    BY Zenon, <1>1
  <2>3. lost' \in [HsmOps -> BOOLEAN] /\ disturbed' \in [HsmOps -> BOOLEAN]
    BY Zenon, <1>0, <1>1 DEF HsmTypeOK
  <2>4. handedOut' \subseteq HsmKeys /\ destroyed' \subseteq HsmKeys
    BY <1>0, <1>3, <1>4 DEF HsmTypeOK
  <2>5. QED
    BY <1>0, <1>1, <2>1, <2>2, <2>3, <2>4 DEF HsmTypeOK
<1>6. VerdictInv'
  BY <1>1 DEF HsmInv, VerdictInv
<1>7. KeysInv'
  <2>1. destroyed' \subseteq handedOut'
    BY <1>3, <1>4 DEF HsmInv, KeysInv
  <2>2. QED
    BY <1>1, <1>2, <2>1 DEF HsmInv, KeysInv
<1>8. DestroyedGone'
  BY <1>1, <1>4 DEF HsmInv, DestroyedGone
<1>9. ASSUME NEW f \in HsmOps PROVE DestroyProgress(f)'
  <2>1. CASE f # o
    <3>1. hsmPc[f] # "idle" => (loggedIn => loggedIn')
      BY <1>1, <2>1
    <3>2. QED
      BY <1>1, <1>2, <1>3, <2>1, <3>1, OtherOperation DEF HsmInv
  <2>2. CASE f = o
    BY <1>2, <2>2 DEF DestroyProgress
  <2>3. QED
    BY <2>1, <2>2
<1>10. QED
  BY <1>5, <1>6, <1>7, <1>8, <1>9 DEF HsmInv

\* Every call of every operation keeps the invariant.
LEMMA HsmStepKeepsInv ==
    ASSUME HsmInv, [HsmNext]_hsmVars
    PROVE  HsmInv'
<1>1. ASSUME NEW o \in HsmOps, KeyNotFound(o) \/ TokenFault(o)
      PROVE  HsmInv'
  <2>1. PICK p \in {"logout", "drop"} : Answers(o, "error", p)
    BY <1>1 DEF KeyNotFound, TokenFault
  <2>2. QED
    BY <1>1, <2>1, AnswerKeepsHsmInv DEF KeyNotFound, TokenFault
<1>2. ASSUME NEW o \in HsmOps, NEW kind \in {"sign", "export", "wrap", "list"},
             UsesHandles(o, kind)
      PROVE  HsmInv'
  <2>1. CASE HandlesGood(o)
    BY <1>2, <2>1, AnswerKeepsHsmInv DEF UsesHandles, Using
  <2>2. CASE ~HandlesGood(o)
    BY <1>2, <2>2, AnswerKeepsHsmInv DEF UsesHandles, Using
  <2>3. QED
    BY <2>1, <2>2
<1>3. ASSUME NEW o \in HsmOps, HsmSign(o) \/ ExportPublicKey(o) \/ WrapKey(o) \/ ListKeys(o)
      PROVE  HsmInv'
  BY <1>2, <1>3 DEF HsmSign, ExportPublicKey, WrapKey, ListKeys
<1>4. ASSUME NEW o \in HsmOps, Verify(o)
      PROVE  HsmInv'
  <2>1. PICK a \in {"true", "false", "error"} :
           /\ Answers(o, a, "logout")
           /\ a = "true" => genuine[o]
           /\ a = "false" => ~genuine[o]
    BY <1>4 DEF Verify, VerifyOutcome, is_signature_rejection
  <2>2. QED
    BY <1>4, <2>1, AnswerKeepsHsmInv DEF Verify, Using
<1>5. ASSUME NEW o \in HsmOps, GenerateRandomBytes(o)
      PROVE  HsmInv'
  BY <1>5, AnswerKeepsHsmInv DEF GenerateRandomBytes, Using
<1>6. ASSUME NEW o \in HsmOps, DestroyObjects(o)
      PROVE  HsmInv'
  <2>1. CASE HandlesGood(o)
    BY <1>6, <2>1, DestroyObjectsKeepsHsmInv
  <2>2. CASE ~HandlesGood(o)
    BY <1>6, <2>2, AnswerKeepsHsmInv DEF DestroyObjects, tokenVars
  <2>3. QED
    BY <2>1, <2>2
<1>7. CASE UNCHANGED hsmVars
  BY <1>7 DEF hsmVars, tokenVars, HsmInv, HsmTypeOK, VerdictInv, KeysInv, DestroyProgress,
              OfKey, DestroyedGone
<1>8. ASSUME NEW o \in HsmOps, HsmStep(o)
      PROVE  HsmInv'
  BY <1>1, <1>3, <1>4, <1>5, <1>6, <1>8, LoginKeepsHsmInv, FindObjectsKeepsHsmInv,
     KeyStepsKeepHsmInv, HsmLogoutKeepsHsmInv, CloseSessionKeepsHsmInv DEF HsmStep
<1>9. QED
  BY <1>7, <1>8, OpenSessionKeepsHsmInv DEF HsmNext

\* verify answers true and false for what they are true of, and nothing of a
\* key is on the token once an undisturbed destroy_key has answered Ok, for
\* any number of keys and of operations that share the token's login.
THEOREM HsmAlwaysTruthful == HsmSpec => []HsmTruthful
<1>1. HsmInit => HsmInv
  <2> SUFFICES ASSUME HsmInit PROVE HsmInv
    OBVIOUS
  <2>1. /\ loggedIn \in BOOLEAN /\ lost \in [HsmOps -> BOOLEAN]
        /\ genuine \in [HsmOps -> BOOLEAN] /\ disturbed \in [HsmOps -> BOOLEAN]
    BY Zenon DEF HsmInit
  <2>2. objects \subseteq Objects /\ \A x \in objects : x.key = Kek
    BY DEF HsmInit, Objects, Object, Classes
  <2>3. HsmTypeOK
    BY <2>1, <2>2 DEF HsmInit, HsmTypeOK, HsmKinds
  <2>4. VerdictInv /\ KeysInv /\ DestroyedGone /\ \A o \in HsmOps : DestroyProgress(o)
    BY <2>2 DEF HsmInit, VerdictInv, KeysInv, DestroyedGone, DestroyProgress
  <2>5. QED
    BY <2>3, <2>4 DEF HsmInv
<1>2. HsmInv /\ [HsmNext]_hsmVars => HsmInv'
  BY HsmStepKeepsInv
<1>3. HsmInv => HsmTruthful
  BY DEF HsmInv, VerdictInv, DestroyedGone, HsmTruthful
<1>4. QED
  BY <1>1, <1>2, <1>3, PTL DEF HsmSpec

-----------------------------------------------------------------------------
(* The certificate of the NPE portal.                                      *)

\* Whatever ends an order, its tokens pass through "cleanup".
LEMMA OrderStepsKeepPortalInv ==
    ASSUME PortalInv,
           \/ StartPortal \/ LoadCached \/ Enroll \/ CreateOrder \/ AuthorizationsAnswered
           \/ CertificateIssued \/ DropTokens \/ (\E d \in Domains : ServeToken(d))
           \/ RenewalDue \/ Retry \/ CreateOrderFails \/ OrderFails \/ PortalCrash
    PROVE  PortalInv'
<1> USE DEF PortalInv, TokensTracked, BundleWhole
<1>1. CASE StartPortal \/ Enroll \/ AuthorizationsAnswered \/ RenewalDue \/ Retry
  BY <1>1 DEF StartPortal, Enroll, AuthorizationsAnswered, RenewalDue, Retry, diskVars,
              PortalTypeOK, PortalPCs
<1>2. CASE LoadCached
  <2>1. /\ portalPc' = "sleep" /\ portalPc = "load" /\ current' = bundle
        /\ UNCHANGED <<cache_dir, bundle, tmp, store, tokens, material, portalFaults>>
    BY <1>2 DEF LoadCached, diskVars
  <2>2. renewing' \in BOOLEAN
    BY Zenon, <1>2 DEF LoadCached
  <2>3. current' \in Certificate \union {None}
    BY <2>1 DEF PortalTypeOK
  <2>4. QED
    BY <2>1, <2>2, <2>3 DEF PortalTypeOK, PortalPCs
<1>3. CASE CreateOrder \/ (\E d \in Domains : ServeToken(d))
  BY <1>3 DEF CreateOrder, ServeToken, diskVars, PortalTypeOK, PortalPCs
<1>4. CASE CertificateIssued
  <2>1. Life \in Certificate
    BY PortalAssumption DEF Certificate
  <2>2. QED
    BY <1>4, <2>1 DEF CertificateIssued, diskVars, PortalTypeOK, PortalPCs
<1>5. CASE DropTokens
  BY <1>5 DEF DropTokens, diskVars, PortalTypeOK, PortalPCs
<1>6. CASE CreateOrderFails \/ OrderFails
  BY <1>6, PortalAssumption DEF CreateOrderFails, OrderFails, PortalFault, diskVars,
                               PortalTypeOK, PortalPCs
<1>7. CASE PortalCrash
  <2>1. renewing' \in BOOLEAN
    BY Zenon, <1>7 DEF PortalCrash
  <2>2. QED
    BY <1>7, <2>1, PortalAssumption DEF PortalCrash, PortalFault, diskVars, PortalTypeOK, PortalPCs
<1>8. QED
  BY <1>1, <1>2, <1>3, <1>4, <1>5, <1>6, <1>7

\* The bundle is replaced by a complete temporary file only.
LEMMA InstallStepsKeepPortalInv ==
    ASSUME PortalInv,
           Install \/ InstallFails \/ WriteTmp \/ RenameBundle \/ SaveFails
    PROVE  PortalInv'
<1> USE DEF PortalInv, TokensTracked, BundleWhole
<1>1. CASE Install
  <2>1. renewing' \in BOOLEAN
    BY Zenon, <1>1 DEF Install
  <2>2. QED
    BY <1>1, <2>1 DEF Install, diskVars, PortalTypeOK, PortalPCs
<1>2. CASE InstallFails
  BY <1>2, PortalAssumption DEF InstallFails, PortalFault, diskVars, PortalTypeOK, PortalPCs
<1>3. CASE WriteTmp
  <2>1. material # Torn
    BY DEF PortalTypeOK, Certificate, None, Torn
  <2>2. QED
    BY <1>3, <2>1 DEF WriteTmp, PortalTypeOK, PortalPCs
<1>4. CASE RenameBundle
  <2>1. renewing' \in BOOLEAN
    BY Zenon, <1>4 DEF RenameBundle, Saved
  <2>2. QED
    BY <1>4, <2>1 DEF RenameBundle, Saved, PortalTypeOK, PortalPCs
<1>5. CASE SaveFails
  <2>1. renewing' \in BOOLEAN
    BY Zenon, <1>5 DEF SaveFails, Saved
  <2>2. QED
    BY <1>5, <2>1, PortalAssumption DEF SaveFails, Saved, PortalFault, diskVars, PortalTypeOK, PortalPCs
<1>6. QED
  BY <1>1, <1>2, <1>3, <1>4, <1>5

\* Certificates age; a torn or missing one stays what it is.
LEMMA TimeKeepsPortalInv ==
    ASSUME PortalInv, TimePasses
    PROVE  PortalInv'
<1>1. \A c \in Certificate \union {None, Torn} :
         /\ Older(c) \in Certificate \union {None, Torn}
         /\ c \in Certificate \union {None} => Older(c) \in Certificate \union {None}
         /\ c # Torn => Older(c) # Torn
  BY PortalAssumption DEF Older, Certificate, None, Torn
<1>2. /\ bundle' = Older(bundle) /\ tmp' = Older(tmp) /\ current' = Older(current)
      /\ portalPc \in {"sleep", "backoff", "down"}
      /\ UNCHANGED <<cache_dir, store, tokens, material, portalPc, renewing, portalFaults>>
  BY DEF TimePasses
<1>3. PortalTypeOK'
  BY <1>1, <1>2 DEF PortalInv, PortalTypeOK
<1>4. TokensTracked'
  BY <1>2 DEF PortalInv, TokensTracked
<1>5. BundleWhole'
  BY <1>1, <1>2 DEF PortalInv, PortalTypeOK, BundleWhole
<1>6. QED
  BY <1>3, <1>4, <1>5 DEF PortalInv

\* On every path out of an order its tokens are gone from the store, and no
\* crash or failed write leaves a torn bundle for the next start, for any
\* number of domains and of faults.
THEOREM PortalLeavesNothing == PortalSpec => []NothingLeftBehind
<1>1. PortalInit => PortalInv
  <2> SUFFICES ASSUME PortalInit PROVE PortalInv
    OBVIOUS
  <2>1. renewing \in BOOLEAN
    BY Zenon DEF PortalInit
  <2>2. QED
    BY <2>1, PortalAssumption DEF PortalInit, PortalInv, PortalTypeOK, TokensTracked, BundleWhole,
                             PortalPCs, None, Torn
<1>2. PortalInv /\ [PortalNext]_portalVars => PortalInv'
  <2>1. CASE UNCHANGED portalVars
    BY <2>1 DEF portalVars, diskVars, PortalInv, PortalTypeOK, TokensTracked, BundleWhole
  <2>2. QED
    BY <2>1, OrderStepsKeepPortalInv, InstallStepsKeepPortalInv, TimeKeepsPortalInv
       DEF PortalNext, PortalStep, PortalFails
<1>3. PortalInv => NothingLeftBehind
  BY DEF PortalInv, TokensTracked, BundleWhole, NothingLeftBehind
<1>4. QED
  BY <1>1, <1>2, <1>3, PTL DEF PortalSpec

-----------------------------------------------------------------------------
(* Expiry notices.  A window has one job because it is claimed once, its   *)
(* claim is published once, and nothing else publishes while it is fresh.  *)

\* The types of the producer's side, and of the windows and their jobs.
FrontTypes ==
    /\ nCert \in [NotifyCerts -> {"live", "revoked"}]
    /\ scanPc \in {"idle", "live", "revoked"}
    /\ scanLeft \subseteq NotifyCerts
    /\ notices \in Seq(Notices)
    /\ held \in [Replicas -> Seq(Notices)]
    /\ schedules \subseteq Subjects
    /\ faults \in 0..MaxFaults

WindowTypes ==
    /\ slot \in [Slots -> {"free", "claimed", "sent"}]
    /\ age \in [Slots -> {"fresh", "stale", "old"}]
    /\ evalPc \in [Replicas -> {"idle", "claim", "redrive"}]
    /\ evalLeft \in [Replicas -> SUBSET Slots]
    /\ evalNow \in [Replicas -> SUBSET Slots]

MailTypes ==
    /\ jobs \in Seq(Jobs)
    /\ sendPc \in {"idle", "mark", "ack"}
    /\ poison \subseteq Subjects

\* NotifyTypeOK is the three together, in this state and in the next.
LEMMA NotifyTypesSplit ==
    /\ NotifyTypeOK <=> FrontTypes /\ WindowTypes /\ MailTypes
    /\ NotifyTypeOK' <=> FrontTypes' /\ WindowTypes' /\ MailTypes'
  BY DEF NotifyTypeOK, FrontTypes, WindowTypes, MailTypes

\* A job has a window, and a window a subject.
LEMMA JobFields ==
    ASSUME MailTypes, NEW i \in DOMAIN jobs
    PROVE  /\ jobs[i] \in Jobs /\ jobs[i].slot \in Slots
           /\ jobs[i].deliveries \in 0..MaxDeliver
<1>1. jobs[i] \in Jobs
  BY DEF MailTypes
<1>2. QED
  BY <1>1 DEF Jobs

\* A fault is counted within its bound.
LEMMA FaultTyped == ASSUME FrontTypes, Fault PROVE faults' \in 0..MaxFaults
  BY NotifyAssumption DEF FrontTypes, Fault

\* Steps of the producer and of the consumers touch no window and no job.
LEMMA FrontStepKeeps ==
    ASSUME NotifyInv, FrontTypes', UNCHANGED <<slot, age, evalPc, evalLeft, evalNow, jobs, sendPc, poison>>
    PROVE  NotifyInv'
<1>1. WindowTypes' /\ MailTypes'
  BY NotifyTypesSplit DEF NotifyInv, WindowTypes, MailTypes
<1>2. NoticeOnce'
  BY DEF NotifyInv, NoticeOnce
<1>3. JobsBacked' /\ EvaluationsBacked'
  BY DEF NotifyInv, JobsBacked, EvaluationsBacked, Poison
<1>4. QED
  BY <1>1, <1>2, <1>3, NotifyTypesSplit DEF NotifyInv

\* The scan, the notices and their consumers.
LEMMA ScanKeeps ==
    ASSUME NotifyInv,
           \/ \E c \in NotifyCerts : NotifyRevoke(c) \/ ScanPublish(c)
           \/ ScanQuery \/ ScanFails
    PROVE  NotifyInv'
<1>0. FrontTypes
  BY NotifyTypesSplit DEF NotifyInv
<1>1. UNCHANGED <<slot, age, evalPc, evalLeft, evalNow, jobs, sendPc, poison>>
  BY DEF NotifyRevoke, ScanPublish, ScanQuery, ScanFails, slotVars, evalVars
<1>2. ASSUME NEW c \in NotifyCerts, NotifyRevoke(c) PROVE FrontTypes'
  BY <1>0, <1>2 DEF NotifyRevoke, FrontTypes
<1>3. ASSUME NEW c \in NotifyCerts, ScanPublish(c) PROVE FrontTypes'
  <2>1. [subject |-> Subject[c], tombstone |-> scanPc = "revoked"] \in Notices
    BY NotifyAssumption DEF Notices
  <2>2. notices' \in Seq(Notices)
    BY <1>0, <1>3, <2>1 DEF ScanPublish, FrontTypes
  <2>3. QED
    BY <1>0, <1>3, <2>2 DEF ScanPublish, FrontTypes
<1>4. ASSUME ScanQuery PROVE FrontTypes'
  BY <1>0, <1>4 DEF ScanQuery, FrontTypes, Rows
<1>5. ASSUME ScanFails PROVE FrontTypes'
  BY <1>0, <1>5, FaultTyped DEF ScanFails, FrontTypes
<1>6. FrontTypes'
  BY <1>2, <1>3, <1>4, <1>5
<1>7. QED
  BY <1>1, <1>6, FrontStepKeeps

LEMMA ConsumeKeeps ==
    ASSUME NotifyInv, NEW r \in Replicas, ConsumeStep(r)
    PROVE  NotifyInv'
<1>0. FrontTypes
  BY NotifyTypesSplit DEF NotifyInv
<1>1. UNCHANGED <<slot, age, evalPc, evalLeft, evalNow, jobs, sendPc, poison>>
  BY DEF ConsumeStep, ApplyNotice, AckNotice, slotVars, evalVars
<1>2. CASE ApplyNotice(r)
  <2>1. Head(notices) \in Notices /\ Tail(notices) \in Seq(Notices)
    BY <1>0, <1>2 DEF ApplyNotice, FrontTypes
  <2>2. <<Head(notices)>> \in Seq(Notices) /\ Head(notices).subject \in Subjects
    BY <2>1 DEF Notices
  <2>3. held' \in [Replicas -> Seq(Notices)] /\ schedules' \subseteq Subjects
    BY <1>0, <1>2, <2>2 DEF ApplyNotice, FrontTypes
  <2>4. QED
    BY <1>0, <1>2, <2>1, <2>3, <1>1, FrontStepKeeps DEF ApplyNotice, FrontTypes, producerVars
<1>3. CASE AckNotice(r)
  <2>1. << >> \in Seq(Notices)
    OBVIOUS
  <2>2. held' \in [Replicas -> Seq(Notices)]
    BY <1>0, <1>3, <2>1 DEF AckNotice, FrontTypes
  <2>3. FrontTypes'
    BY <1>0, <1>3, <2>2 DEF AckNotice, FrontTypes, producerVars
  <2>4. QED
    BY <1>1, <2>3, FrontStepKeeps
<1>4. QED
  BY <1>2, <1>3 DEF ConsumeStep

-----------------------------------------------------------------------------
(* evaluate.                                                               *)

\* What an evaluation leaves alone.
LEMMA FrontStays ==
    ASSUME FrontTypes, UNCHANGED <<producerVars, notices, held, schedules>>,
           faults' \in 0..MaxFaults
    PROVE  FrontTypes'
  BY DEF FrontTypes, producerVars

\* The lists of windows are read: nothing is claimed or published.
LEMMA ListKeeps ==
    ASSUME NotifyInv, NEW r \in Replicas,
           ListUnsent(r) \/ EvaluateDone(r) \/ \E p \in Periods : ListActive(r, p)
    PROVE  NotifyInv'
<1>0. FrontTypes /\ WindowTypes /\ MailTypes
  BY NotifyTypesSplit DEF NotifyInv
<1>1. UNCHANGED <<slot, age, jobs, sendPc, poison>> /\ FrontTypes' /\ MailTypes'
  <2>1. UNCHANGED <<producerVars, notices, held, schedules, slot, age, jobs, sendPc, poison, faults>>
    BY DEF ListUnsent, EvaluateDone, ListActive, slotVars
  <2>2. faults' \in 0..MaxFaults
    BY <1>0, <2>1 DEF FrontTypes
  <2>3. FrontTypes'
    BY <1>0, <2>1, <2>2, FrontStays
  <2>4. QED
    BY <1>0, <2>1, <2>3 DEF MailTypes
<1>2. /\ WindowTypes'
      /\ \A q \in Replicas : evalNow'[q] = {} \/ evalNow'[q] = evalNow[q]
      /\ \A q \in Replicas \ {r} : evalPc'[q] = evalPc[q] /\ evalLeft'[q] = evalLeft[q]
                                   /\ evalNow'[q] = evalNow[q]
      /\ evalPc'[r] # "claim" => evalNow'[r] = {}
      /\ evalPc'[r] = "redrive" => \A x \in evalLeft'[r] : slot[x] # "free" /\ age[x] # "fresh"
  <2>1. CASE ListUnsent(r)
    BY <1>0, <1>1, <2>1 DEF ListUnsent, EvalAt, WindowTypes, list_stale_unsent
  <2>2. CASE EvaluateDone(r)
    BY <1>0, <1>1, <2>2 DEF EvaluateDone, EvalEnds, EvalAt, WindowTypes
  <2>3. ASSUME NEW p \in Periods, ListActive(r, p)
        PROVE  /\ evalLeft' \in [Replicas -> SUBSET Slots]
               /\ evalPc' = [evalPc EXCEPT ![r] = "claim"] /\ evalNow' = evalNow
               /\ \A q \in Replicas \ {r} : evalLeft'[q] = evalLeft[q]
    <3>1. { <<s, p>> : s \in schedules } \subseteq Slots
      BY <1>0 DEF FrontTypes, Slots
    <3>2. QED
      BY <1>0, <2>3, <3>1 DEF ListActive, EvalAt, WindowTypes
  <2>4. CASE \E p \in Periods : ListActive(r, p)
    BY <1>0, <1>1, <2>3, <2>4 DEF WindowTypes
  <2>5. QED
    BY <2>1, <2>2, <2>4
<1>3. NoticeOnce'
  BY <1>1, <1>2 DEF NotifyInv, NoticeOnce
<1>4. JobsBacked'
  BY <1>1 DEF NotifyInv, JobsBacked, Poison
<1>5. EvaluationsBacked'
  BY <1>1, <1>2 DEF NotifyInv, EvaluationsBacked
<1>6. QED
  BY <1>1, <1>2, <1>3, <1>4, <1>5, NotifyTypesSplit DEF NotifyInv

\* A window that was free has no job and nobody else has claimed it.
LEMMA ClaimKeeps ==
    ASSUME NotifyInv, NEW r \in Replicas, NEW x \in Slots, ClaimWindow(r, x)
    PROVE  NotifyInv'
<1>0. FrontTypes /\ WindowTypes /\ MailTypes
  BY NotifyTypesSplit DEF NotifyInv
<1>1. /\ UNCHANGED <<producerVars, notices, held, schedules, age, evalPc, jobs, sendPc, poison, faults>>
      /\ evalPc[r] = "claim"
      /\ evalLeft' = [evalLeft EXCEPT ![r] = evalLeft[r] \ {x}]
  BY DEF ClaimWindow, EvalSkips
<1>2. FrontTypes' /\ MailTypes'
  <2>1. faults' \in 0..MaxFaults
    BY <1>0, <1>1 DEF FrontTypes
  <2>2. QED
    BY <1>0, <1>1, <2>1, FrontStays DEF MailTypes
<1>3. CASE slot[x] # "free"
  <2>1. UNCHANGED <<slot, evalNow>>
    BY <1>3 DEF ClaimWindow
  <2>2. WindowTypes'
    BY <1>0, <1>1, <2>1 DEF WindowTypes
  <2>3. NoticeOnce' /\ JobsBacked'
    BY <1>1, <2>1 DEF NotifyInv, NoticeOnce, JobsBacked, Poison
  <2>4. EvaluationsBacked'
    BY <1>0, <1>1, <2>1 DEF NotifyInv, EvaluationsBacked, WindowTypes
  <2>5. QED
    BY <1>2, <2>2, <2>3, <2>4, NotifyTypesSplit DEF NotifyInv
<1>4. CASE slot[x] = "free"
  <2>1. slot' = [slot EXCEPT ![x] = "claimed"] /\ evalNow' = [evalNow EXCEPT ![r] = {x}]
    BY <1>4 DEF ClaimWindow
  <2>2. WindowTypes'
    BY <1>0, <1>1, <2>1 DEF WindowTypes
  <2>3. /\ evalNow'[r] = {x}
        /\ \A q \in Replicas \ {r} : evalNow'[q] = evalNow[q]
        /\ \A y \in Slots : slot[y] # "free" => slot'[y] # "free"
        /\ \A y \in Slots : slot'[y] = "sent" => slot[y] = "sent"
        /\ slot'[x] # "free"
    BY <1>0, <1>4, <2>1 DEF WindowTypes
  <2>4. /\ \A i \in DOMAIN jobs : jobs[i].slot # x
        /\ \A q \in Replicas : x \notin evalNow[q]
    BY <1>4 DEF NotifyInv, JobsBacked, EvaluationsBacked
  <2>5. NoticeOnce'
    BY <1>1, <2>3, <2>4 DEF NotifyInv, NoticeOnce
  <2>6. JobsBacked'
    <3>1. \A i \in DOMAIN jobs : slot'[jobs[i].slot] # "free"
      BY <1>0, <2>3, JobFields DEF NotifyInv, JobsBacked
    <3>2. QED
      BY <1>1, <2>3, <3>1 DEF NotifyInv, JobsBacked, Poison
  <2>7. EvaluationsBacked'
    <3>1. \A q \in Replicas : \A y \in evalNow'[q] : slot'[y] # "free"
      BY <1>0, <2>3 DEF NotifyInv, EvaluationsBacked, WindowTypes
    <3>2. \A q \in Replicas : evalPc'[q] # "claim" => evalNow'[q] = {}
      BY <1>1, <2>3 DEF NotifyInv, EvaluationsBacked
    <3>3. \A q \in Replicas : evalPc'[q] = "redrive" =>
            \A y \in evalLeft'[q] : slot'[y] # "free" /\ age'[y] # "fresh"
      BY <1>0, <1>1, <2>3 DEF NotifyInv, EvaluationsBacked, WindowTypes
    <3>4. QED
      BY <3>1, <3>2, <3>3 DEF EvaluationsBacked
  <2>8. QED
    BY <1>2, <2>2, <2>5, <2>6, <2>7, NotifyTypesSplit DEF NotifyInv
<1>5. QED
  BY <1>3, <1>4

\* A published job is the last one.
LEMMA JobQueued ==
    ASSUME MailTypes, NEW x \in Slots, Publish(x)
    PROVE  /\ jobs' \in Seq(Jobs) /\ jobs' # <<>>
           /\ Len(jobs') = Len(jobs) + 1
           /\ \A i \in DOMAIN jobs : i \in DOMAIN jobs' /\ jobs'[i] = jobs[i]
           /\ \A i \in DOMAIN jobs' : i \in DOMAIN jobs \/ i = Len(jobs) + 1
           /\ jobs'[Len(jobs) + 1].slot = x
           /\ jobs # <<>> => Head(jobs') = Head(jobs)
<1> DEFINE j == [slot |-> x, deliveries |-> 0]
<1>1. j \in Jobs /\ j.slot = x
  BY NotifyAssumption DEF Jobs
<1>2. jobs \in Seq(Jobs) /\ jobs' = Append(jobs, j)
  BY DEF MailTypes, Publish
<1> HIDE DEF j
<1>3. /\ jobs' \in Seq(Jobs) /\ Len(jobs') = Len(jobs) + 1
      /\ \A i \in 1..Len(jobs) : jobs'[i] = jobs[i]
      /\ jobs'[Len(jobs) + 1] = j
  BY <1>1, <1>2
<1>4. Len(jobs) \in Nat /\ DOMAIN jobs = 1..Len(jobs) /\ DOMAIN jobs' = 1..Len(jobs')
  BY <1>2, <1>3
<1>5. jobs' # <<>>
  BY <1>3, <1>4
<1>6. jobs # <<>> => Head(jobs') = Head(jobs)
  <2>1. ASSUME jobs # <<>> PROVE 1 \in 1..Len(jobs) /\ Head(jobs) = jobs[1]
    BY <1>2, <1>4, <2>1
  <2>2. Head(jobs') = jobs'[1]
    BY <1>3, <1>5
  <2>3. QED
    BY <1>3, <2>1, <2>2
<1>7. QED
  BY <1>1, <1>3, <1>4, <1>5, <1>6

\* A job is published for a window that its replica gives up, or that is no
\* longer fresh.
LEMMA PublishKeeps ==
    ASSUME NotifyInv, NEW r \in Replicas, NEW x \in Slots, Publish(x),
           FrontTypes', WindowTypes', UNCHANGED <<slot, age, sendPc, poison>>,
           slot[x] # "free", x \in evalNow[r] \/ age[x] # "fresh",
           evalNow'[r] = {},
           evalPc'[r] = "redrive" => evalPc[r] = "redrive" /\ evalLeft'[r] \subseteq evalLeft[r],
           \A q \in Replicas \ {r} : /\ evalPc'[q] = evalPc[q] /\ evalLeft'[q] = evalLeft[q]
                                     /\ evalNow'[q] = evalNow[q]
    PROVE  NotifyInv'
<1>0. WindowTypes /\ MailTypes
  BY NotifyTypesSplit DEF NotifyInv
<1>1. /\ jobs' \in Seq(Jobs) /\ jobs' # <<>>
      /\ \A i \in DOMAIN jobs : i \in DOMAIN jobs' /\ jobs'[i] = jobs[i]
      /\ \A i \in DOMAIN jobs' : i \in DOMAIN jobs \/ i = Len(jobs) + 1
      /\ jobs'[Len(jobs) + 1].slot = x
      /\ jobs # <<>> => Head(jobs') = Head(jobs)
  BY <1>0, JobQueued
<1>2. MailTypes'
  BY <1>0, <1>1 DEF MailTypes
<1>3. NoticeOnce'
  <2> SUFFICES ASSUME NEW y \in Slots, age'[y] = "fresh"
               PROVE  /\ \A i, j \in DOMAIN jobs' : jobs'[i].slot = y /\ jobs'[j].slot = y => i = j
                      /\ \A q \in Replicas : y \in evalNow'[q] =>
                           /\ \A i \in DOMAIN jobs' : jobs'[i].slot # y
                           /\ \A s \in Replicas \ {q} : y \notin evalNow'[s]
    BY DEF NoticeOnce
  <2>1. /\ \A i, j \in DOMAIN jobs : jobs[i].slot = y /\ jobs[j].slot = y => i = j
        /\ \A q \in Replicas : y \in evalNow[q] =>
             /\ \A i \in DOMAIN jobs : jobs[i].slot # y
             /\ \A s \in Replicas \ {q} : y \notin evalNow[s]
    BY DEF NotifyInv, NoticeOnce
  <2>2. CASE y # x
    BY <1>1, <2>1, <2>2
  <2>3. CASE y = x
    <3>1. x \in evalNow[r]
      BY <2>3
    <3>2. /\ \A i \in DOMAIN jobs : jobs[i].slot # y
          /\ \A s \in Replicas \ {r} : y \notin evalNow[s]
      BY <2>1, <2>3, <3>1
    <3>3. \A q \in Replicas : y \notin evalNow'[q]
      BY <3>2
    <3>4. QED
      BY <1>1, <3>2, <3>3
  <2>4. QED
    BY <2>2, <2>3
<1>4. JobsBacked'
  <2>1. \A i \in DOMAIN jobs' : slot'[jobs'[i].slot] # "free"
    BY <1>1 DEF NotifyInv, JobsBacked
  <2>3. sendPc' # "idle" => jobs # <<>>
    BY DEF NotifyInv, JobsBacked
  <2>4. \A y \in Slots : slot'[y] = "sent" => y[1] \notin poison'
    BY DEF NotifyInv, JobsBacked
  <2>5. sendPc' # "idle" => jobs' # <<>> /\ Head(jobs').slot[1] \notin poison'
    BY <1>1, <2>3 DEF NotifyInv, JobsBacked, Poison
  <2>6. QED
    BY <2>1, <2>4, <2>5 DEF JobsBacked, Poison
<1>5. EvaluationsBacked'
  BY DEF NotifyInv, EvaluationsBacked
<1>6. QED
  BY <1>2, <1>3, <1>4, <1>5, NotifyTypesSplit DEF NotifyInv

\* The claimed window is published.
LEMMA PublishJobKeeps ==
    ASSUME NotifyInv, NEW r \in Replicas, PublishJob(r)
    PROVE  NotifyInv'
<1>0. FrontTypes /\ WindowTypes
  BY NotifyTypesSplit DEF NotifyInv
<1>1. PICK x \in evalNow[r] : Publish(x)
  BY DEF PublishJob
<1>2. /\ UNCHANGED <<producerVars, notices, held, schedules, slot, age, evalPc, evalLeft, sendPc,
                     poison, faults>>
      /\ evalNow' = [evalNow EXCEPT ![r] = {}]
  BY DEF PublishJob, slotVars
<1>3. x \in Slots /\ slot[x] # "free" /\ evalPc[r] = "claim"
  BY <1>0 DEF NotifyInv, EvaluationsBacked, WindowTypes
<1>4. WindowTypes' /\ evalNow'[r] = {} /\ \A q \in Replicas \ {r} : evalNow'[q] = evalNow[q]
  BY <1>0, <1>2 DEF WindowTypes
<1>5. FrontTypes'
  BY <1>0, <1>2 DEF FrontTypes, producerVars
<1>6. QED
  BY <1>1, <1>2, <1>3, <1>4, <1>5, PublishKeeps

\* A stale claim is published once more.
LEMMA RedriveKeeps ==
    ASSUME NotifyInv, NEW r \in Replicas, NEW x \in Slots, Redrive(r, x)
    PROVE  NotifyInv'
<1>0. FrontTypes /\ WindowTypes
  BY NotifyTypesSplit DEF NotifyInv
<1>1. /\ evalPc[r] = "redrive" /\ x \in evalLeft[r] /\ Publish(x)
      /\ UNCHANGED <<producerVars, notices, held, schedules, slot, age, evalPc, evalNow, sendPc,
                     poison, faults>>
      /\ evalLeft' = [evalLeft EXCEPT ![r] = evalLeft[r] \ {x}]
  BY DEF Redrive, EvalSkips, slotVars
<1>2. slot[x] # "free" /\ age[x] # "fresh" /\ evalNow[r] = {}
  BY <1>1 DEF NotifyInv, EvaluationsBacked
<1>3. /\ WindowTypes' /\ evalLeft'[r] \subseteq evalLeft[r]
      /\ \A q \in Replicas \ {r} : evalLeft'[q] = evalLeft[q]
  BY <1>0, <1>1 DEF WindowTypes
<1>4. FrontTypes'
  BY <1>0, <1>1 DEF FrontTypes, producerVars
<1>5. QED
  BY <1>1, <1>2, <1>3, <1>4, PublishKeeps

\* What the end of an evaluation leaves.
LEMMA EvalEndsFacts ==
    ASSUME WindowTypes, NEW r \in Replicas, EvalEnds(r), UNCHANGED <<slot, age>>
    PROVE  /\ WindowTypes'
           /\ evalPc'[r] = "idle" /\ evalNow'[r] = {}
           /\ \A q \in Replicas \ {r} : /\ evalPc'[q] = evalPc[q] /\ evalLeft'[q] = evalLeft[q]
                                        /\ evalNow'[q] = evalNow[q]
  BY DEF EvalEnds, EvalAt, WindowTypes

\* The acknowledgement of a publish is lost, of a claim or of a re-drive.
LEMMA UnackedKeeps ==
    ASSUME NotifyInv, NEW r \in Replicas, PublishUnacked(r)
    PROVE  NotifyInv'
<1>0. FrontTypes /\ WindowTypes
  BY NotifyTypesSplit DEF NotifyInv
<1>1. /\ UNCHANGED <<producerVars, notices, held, schedules, slot, age, sendPc, poison>>
      /\ EvalEnds(r) /\ Fault
  BY DEF PublishUnacked, slotVars
<1>2. PICK x : /\ x \in evalNow[r] \/ (evalPc[r] = "redrive" /\ x \in evalLeft[r])
               /\ Publish(x)
  BY DEF PublishUnacked
<1>3. x \in Slots /\ slot[x] # "free" /\ (x \in evalNow[r] \/ age[x] # "fresh")
  BY <1>0, <1>2 DEF NotifyInv, EvaluationsBacked, WindowTypes
<1>4. FrontTypes'
  BY <1>0, <1>1, FaultTyped, FrontStays
<1>5. QED
  BY <1>0, <1>1, <1>2, <1>3, <1>4, EvalEndsFacts, PublishKeeps

\* An evaluation that fails and a replica that crashes leave claims behind.
LEMMA EvalFailsKeeps ==
    ASSUME NotifyInv, NEW r \in Replicas, EvalFails(r) \/ ReplicaCrashes(r)
    PROVE  NotifyInv'
<1>0. FrontTypes /\ WindowTypes /\ MailTypes
  BY NotifyTypesSplit DEF NotifyInv
<1>1. UNCHANGED <<producerVars, schedules, slot, age, jobs, sendPc, poison>> /\ EvalEnds(r) /\ Fault
  BY DEF EvalFails, ReplicaCrashes, slotVars
<1>2. notices' \in Seq(Notices) /\ held' \in [Replicas -> Seq(Notices)]
  <2>1. CASE EvalFails(r)
    BY <1>0, <2>1 DEF EvalFails, FrontTypes
  <2>2. CASE ReplicaCrashes(r)
    <3>1. << >> \in Seq(Notices) /\ held[r] \in Seq(Notices) /\ notices \in Seq(Notices)
      BY <1>0 DEF FrontTypes
    <3>2. notices' = notices \o held[r] /\ held' = [held EXCEPT ![r] = << >>]
      BY <2>2 DEF ReplicaCrashes
    <3>3. notices' \in Seq(Notices)
      BY <3>1, <3>2
    <3>4. QED
      BY <1>0, <3>1, <3>2, <3>3 DEF FrontTypes
  <2>3. QED
    BY <2>1, <2>2
<1>3. FrontTypes' /\ MailTypes'
  BY <1>0, <1>1, <1>2, FaultTyped DEF FrontTypes, MailTypes, producerVars
<1>4. /\ WindowTypes' /\ evalPc'[r] = "idle" /\ evalNow'[r] = {}
      /\ \A q \in Replicas \ {r} : /\ evalPc'[q] = evalPc[q] /\ evalLeft'[q] = evalLeft[q]
                                   /\ evalNow'[q] = evalNow[q]
  BY <1>0, <1>1, EvalEndsFacts
<1>5. NoticeOnce'
  BY <1>1, <1>4 DEF NotifyInv, NoticeOnce
<1>6. JobsBacked'
  BY <1>1 DEF NotifyInv, JobsBacked, Poison
<1>7. EvaluationsBacked'
  BY <1>1, <1>4 DEF NotifyInv, EvaluationsBacked
<1>8. QED
  BY <1>3, <1>4, <1>5, <1>6, <1>7, NotifyTypesSplit DEF NotifyInv

\* A claim grows older, and never fresh again.
LEMMA AgesKeeps ==
    ASSUME NotifyInv, NEW x \in Slots, Ages(x)
    PROVE  NotifyInv'
<1>0. FrontTypes /\ WindowTypes /\ MailTypes
  BY NotifyTypesSplit DEF NotifyInv
<1>1. UNCHANGED <<producerVars, notices, held, schedules, slot, evalPc, evalLeft, evalNow, jobs,
                  sendPc, poison, faults>>
  BY DEF Ages, evalVars
<1>2. WindowTypes' /\ \A y \in Slots : age'[y] = "fresh" => age[y] = "fresh"
  BY <1>0, <1>1 DEF Ages, WindowTypes
<1>3. FrontTypes' /\ MailTypes'
  BY <1>0, <1>1 DEF FrontTypes, MailTypes, producerVars
<1>4. NoticeOnce'
  BY <1>1, <1>2 DEF NotifyInv, NoticeOnce
<1>5. JobsBacked'
  BY <1>1 DEF NotifyInv, JobsBacked, Poison
<1>6. EvaluationsBacked'
  BY <1>0, <1>1, <1>2 DEF NotifyInv, EvaluationsBacked, WindowTypes
<1>7. QED
  BY <1>2, <1>3, <1>4, <1>5, <1>6, NotifyTypesSplit DEF NotifyInv

-----------------------------------------------------------------------------
(* The sender.                                                             *)

\* A step after which each job is one that was there, each at most once, and
\* the sender holds none.
LEMMA JobsMoveKeeps ==
    ASSUME NotifyInv, FrontTypes', jobs' \in Seq(Jobs), sendPc' = "idle",
           UNCHANGED <<slot, age, evalPc, evalLeft, evalNow, poison>>,
           NEW f \in [DOMAIN jobs' -> DOMAIN jobs],
           \A i, j \in DOMAIN jobs' : f[i] = f[j] => i = j,
           \A i \in DOMAIN jobs' : jobs'[i].slot = jobs[f[i]].slot
    PROVE  NotifyInv'
<1>0. WindowTypes /\ MailTypes
  BY NotifyTypesSplit DEF NotifyInv
<1>1. WindowTypes' /\ MailTypes'
  BY <1>0 DEF WindowTypes, MailTypes
<1>2. NoticeOnce'
  <2> SUFFICES ASSUME NEW x \in Slots, age'[x] = "fresh"
               PROVE  /\ \A i, j \in DOMAIN jobs' : jobs'[i].slot = x /\ jobs'[j].slot = x => i = j
                      /\ \A r \in Replicas : x \in evalNow'[r] =>
                           /\ \A i \in DOMAIN jobs' : jobs'[i].slot # x
                           /\ \A s \in Replicas \ {r} : x \notin evalNow'[s]
    BY DEF NoticeOnce
  <2>1. /\ \A i, j \in DOMAIN jobs : jobs[i].slot = x /\ jobs[j].slot = x => i = j
        /\ \A r \in Replicas : x \in evalNow[r] =>
             /\ \A i \in DOMAIN jobs : jobs[i].slot # x
             /\ \A s \in Replicas \ {r} : x \notin evalNow[s]
    BY DEF NotifyInv, NoticeOnce
  <2>2. \A i \in DOMAIN jobs' : f[i] \in DOMAIN jobs
    OBVIOUS
  <2>3. \A i, j \in DOMAIN jobs' : jobs'[i].slot = x /\ jobs'[j].slot = x => i = j
    BY <2>1, <2>2
  <2>4. QED
    BY <2>1, <2>2, <2>3
<1>3. JobsBacked'
  BY DEF NotifyInv, JobsBacked
<1>4. EvaluationsBacked'
  BY DEF NotifyInv, EvaluationsBacked
<1>5. QED
  BY <1>1, <1>2, <1>3, <1>4, NotifyTypesSplit DEF NotifyInv

\* The head of the stream and what is behind it.
LEMMA JobsTail ==
    ASSUME MailTypes, jobs # <<>>
    PROVE  /\ Len(jobs) \in Nat /\ Len(jobs) >= 1 /\ DOMAIN jobs = 1..Len(jobs)
           /\ Head(jobs) = jobs[1] /\ Head(jobs) \in Jobs
           /\ Tail(jobs) \in Seq(Jobs) /\ Len(Tail(jobs)) = Len(jobs) - 1
           /\ DOMAIN Tail(jobs) = 1..(Len(jobs) - 1)
           /\ \A i \in 1..(Len(jobs) - 1) : Tail(jobs)[i] = jobs[i + 1]
<1>1. jobs \in Seq(Jobs)
  BY DEF MailTypes
<1>2. QED
  BY <1>1

\* The job at the head leaves the stream.
LEMMA HeadGoesKeeps ==
    ASSUME NotifyInv, FrontTypes', jobs # <<>>, jobs' = Tail(jobs), sendPc' = "idle",
           UNCHANGED <<slot, age, evalPc, evalLeft, evalNow, poison>>
    PROVE  NotifyInv'
<1>0. MailTypes
  BY NotifyTypesSplit DEF NotifyInv
<1> DEFINE n == Len(jobs)
           f == [i \in 1..(n - 1) |-> i + 1]
<1>1. /\ n \in Nat /\ n >= 1 /\ DOMAIN jobs = 1..n
      /\ jobs' \in Seq(Jobs) /\ DOMAIN jobs' = 1..(n - 1)
      /\ \A i \in 1..(n - 1) : jobs'[i] = jobs[i + 1]
  BY <1>0, JobsTail
<1> HIDE DEF n
<1>2. f \in [DOMAIN jobs' -> DOMAIN jobs]
  BY <1>1
<1>3. /\ \A i, j \in DOMAIN jobs' : f[i] = f[j] => i = j
      /\ \A i \in DOMAIN jobs' : jobs'[i].slot = jobs[f[i]].slot
  BY <1>1
<1> HIDE DEF f
<1>4. QED
  BY <1>1, <1>2, <1>3, JobsMoveKeeps

\* The job at the head is delivered again, behind the others, or given up.
LEMMA SenderFailsKeeps ==
    ASSUME NotifyInv, SenderFails
    PROVE  NotifyInv'
<1>0. FrontTypes /\ MailTypes
  BY NotifyTypesSplit DEF NotifyInv
<1>1. /\ UNCHANGED <<producerVars, notices, held, schedules, slot, age, evalPc, evalLeft, evalNow,
                     poison>>
      /\ jobs # <<>> /\ Fault /\ jobs' = Redelivered /\ sendPc' = "idle"
  BY DEF SenderFails, slotVars, evalVars
<1>2. FrontTypes'
  BY <1>0, <1>1, FaultTyped, FrontStays
<1>3. CASE jobs' = Tail(jobs)
  BY <1>1, <1>2, <1>3, HeadGoesKeeps
<1>4. CASE jobs' # Tail(jobs)
  <2> DEFINE n == Len(jobs)
             j == [slot |-> Head(jobs).slot, deliveries |-> Head(jobs).deliveries + 1]
             f == [i \in 1..n |-> IF i = n THEN 1 ELSE i + 1]
  <2>1. /\ n \in Nat /\ n >= 1 /\ DOMAIN jobs = 1..n
        /\ Head(jobs) = jobs[1] /\ Head(jobs) \in Jobs
        /\ Tail(jobs) \in Seq(Jobs) /\ Len(Tail(jobs)) = n - 1
        /\ \A i \in 1..(n - 1) : Tail(jobs)[i] = jobs[i + 1]
    BY <1>0, <1>1, JobsTail
  <2>2. Head(jobs).deliveries + 1 < MaxDeliver /\ jobs' = Append(Tail(jobs), j)
    BY <1>1, <1>4 DEF Redelivered
  <2>3. j \in Jobs /\ j.slot = jobs[1].slot
    BY <2>1, <2>2, NotifyAssumption DEF Jobs
  <2> HIDE DEF n, j
  <2>4. /\ jobs' \in Seq(Jobs) /\ Len(jobs') = n
        /\ \A i \in 1..(n - 1) : jobs'[i] = jobs[i + 1]
        /\ jobs'[n] = j
    BY <2>1, <2>2, <2>3
  <2>5. DOMAIN jobs' = 1..n
    BY <2>1, <2>4
  <2>6. f \in [DOMAIN jobs' -> DOMAIN jobs]
    BY <2>1, <2>5
  <2>7. \A i, k \in DOMAIN jobs' : f[i] = f[k] => i = k
    BY <2>1, <2>5
  <2>8. \A i \in DOMAIN jobs' : jobs'[i].slot = jobs[f[i]].slot
    <3> SUFFICES ASSUME NEW i \in 1..n PROVE jobs'[i].slot = jobs[f[i]].slot
      BY <2>5
    <3>1. CASE i = n
      BY <2>3, <2>4, <3>1
    <3>2. CASE i # n
      BY <2>1, <2>4, <3>2
    <3>3. QED
      BY <3>1, <3>2
  <2> HIDE DEF f
  <2>9. QED
    BY <1>1, <1>2, <2>4, <2>6, <2>7, <2>8, JobsMoveKeeps
<1>5. QED
  BY <1>3, <1>4

\* A job is sent, marked and acknowledged, or dropped.
LEMMA SendKeeps ==
    ASSUME NotifyInv, SendStep \/ MarkSentFails
    PROVE  NotifyInv'
<1>0. FrontTypes /\ WindowTypes /\ MailTypes
  BY NotifyTypesSplit DEF NotifyInv
<1>1. UNCHANGED <<producerVars, notices, held, schedules, age, evalPc, evalLeft, evalNow, poison>>
  BY DEF SendStep, SendEmail, MarkSent, MarkSentFails, AckJob, DropPoison, slotVars, evalVars
<1>2. FrontTypes'
  <2>1. faults' \in 0..MaxFaults
    BY <1>0, FaultTyped DEF SendStep, SendEmail, MarkSent, MarkSentFails, AckJob, DropPoison,
       FrontTypes
  <2>2. QED
    BY <1>0, <1>1, <2>1, FrontStays
<1>3. CASE AckJob \/ DropPoison
  <2>1. jobs # <<>> /\ jobs' = Tail(jobs) /\ sendPc' = "idle" /\ UNCHANGED slot
    BY <1>3 DEF AckJob, DropPoison, slotVars, NotifyInv, JobsBacked
  <2>2. QED
    BY <1>1, <1>2, <2>1, HeadGoesKeeps
<1>4. CASE SendEmail \/ MarkSentFails
  <2>1. /\ UNCHANGED <<slot, jobs>> /\ sendPc' \in {"mark", "ack"}
        /\ jobs # <<>> /\ ~Poison(Head(jobs))
    BY <1>4 DEF SendEmail, MarkSentFails, slotVars, NotifyInv, JobsBacked
  <2>2. WindowTypes' /\ MailTypes'
    BY <1>0, <1>1, <2>1 DEF WindowTypes, MailTypes
  <2>3. NoticeOnce'
    BY <1>1, <2>1 DEF NotifyInv, NoticeOnce
  <2>4. JobsBacked'
    BY <1>1, <2>1 DEF NotifyInv, JobsBacked, Poison
  <2>5. EvaluationsBacked'
    BY <1>1, <2>1 DEF NotifyInv, EvaluationsBacked
  <2>6. QED
    BY <1>2, <2>2, <2>3, <2>4, <2>5, NotifyTypesSplit DEF NotifyInv
<1>5. CASE MarkSent
  <2> DEFINE x == Head(jobs).slot
  <2>1. /\ UNCHANGED jobs /\ sendPc' = "ack" /\ slot' = [slot EXCEPT ![x] = "sent"]
        /\ jobs # <<>> /\ x[1] \notin poison
    BY <1>5 DEF MarkSent, NotifyInv, JobsBacked, Poison
  <2>2. x \in Slots
    BY <1>0, <2>1, JobsTail DEF Jobs
  <2>3. Head(jobs').slot[1] \notin poison'
    BY <1>1, <2>1
  <2> HIDE DEF x
  <2>4. /\ WindowTypes' /\ MailTypes'
        /\ \A y \in Slots : slot[y] # "free" => slot'[y] # "free"
        /\ \A y \in Slots : slot'[y] = "sent" => slot[y] = "sent" \/ y = x
    BY <1>0, <1>1, <2>1, <2>2 DEF WindowTypes, MailTypes
  <2>5. NoticeOnce'
    BY <1>1, <2>1 DEF NotifyInv, NoticeOnce
  <2>6. JobsBacked'
    <3>1. \A i \in DOMAIN jobs' : slot'[jobs'[i].slot] # "free"
      BY <1>0, <2>1, <2>4, JobFields DEF NotifyInv, JobsBacked
    <3>2. \A y \in Slots : slot'[y] = "sent" => y[1] \notin poison'
      BY <1>1, <2>1, <2>4 DEF NotifyInv, JobsBacked
    <3>3. QED
      BY <2>1, <2>3, <3>1, <3>2 DEF JobsBacked, Poison
  <2>7. EvaluationsBacked'
    BY <1>0, <1>1, <2>4 DEF NotifyInv, EvaluationsBacked, WindowTypes
  <2>8. QED
    BY <1>2, <2>4, <2>5, <2>6, <2>7, NotifyTypesSplit DEF NotifyInv
<1>6. QED
  BY <1>3, <1>4, <1>5 DEF SendStep

\* Every step of the producer, the replicas and the sender.
LEMMA NotifyStepKeeps ==
    ASSUME NotifyInv, [NotifyNext]_notifyVars
    PROVE  NotifyInv'
<1>1. ASSUME NEW r \in Replicas, EvalStep(r)
      PROVE  NotifyInv'
  BY <1>1, ListKeeps, ClaimKeeps, PublishJobKeeps, RedriveKeeps DEF EvalStep
<1>2. ASSUME NEW r \in Replicas,
             ConsumeStep(r) \/ EvalFails(r) \/ PublishUnacked(r) \/ ReplicaCrashes(r)
      PROVE  NotifyInv'
  BY <1>2, ConsumeKeeps, EvalFailsKeeps, UnackedKeeps
<1>3. CASE UNCHANGED notifyVars
  <2>1. FrontTypes'
    BY <1>3, NotifyTypesSplit DEF NotifyInv, notifyVars, producerVars, FrontTypes
  <2>2. QED
    BY <1>3, <2>1, FrontStepKeeps DEF notifyVars, slotVars, evalVars
<1>4. QED
  BY <1>1, <1>2, <1>3, ScanKeeps, AgesKeeps, SendKeeps, SenderFailsKeeps
     DEF NotifyNext, ScanStep

\* The inductive invariant of the expiry notices, for any number of
\* certificates, windows, replicas and faults.
THEOREM NotifyInvariant == NotifySpec => []NotifyInv
<1>1. NotifyInit => NotifyInv
  <2> SUFFICES ASSUME NotifyInit PROVE NotifyInv
    OBVIOUS
  <2>1. << >> \in Seq(Notices) /\ << >> \in Seq(Jobs)
    OBVIOUS
  <2>2. FrontTypes
    BY <2>1, NotifyAssumption DEF NotifyInit, FrontTypes
  <2>3. WindowTypes /\ MailTypes
    BY <2>1 DEF NotifyInit, WindowTypes, MailTypes
  <2>4. NoticeOnce /\ JobsBacked /\ EvaluationsBacked
    BY DEF NotifyInit, NoticeOnce, JobsBacked, EvaluationsBacked
  <2>5. QED
    BY <2>2, <2>3, <2>4, NotifyTypesSplit DEF NotifyInv
<1>2. NotifyInv /\ [NotifyNext]_notifyVars => NotifyInv'
  BY NotifyStepKeeps
<1>3. QED
  BY <1>1, <1>2, PTL DEF NotifySpec

\* Until its claim is stale a window has at most one email job, whichever
\* replicas evaluate it and whatever fails.
THEOREM NoticesQueuedOnce == NotifySpec => []NoticeOnce
<1>1. NotifyInv => NoticeOnce
  BY DEF NotifyInv
<1>2. QED
  BY <1>1, NotifyInvariant, PTL
=============================================================================
