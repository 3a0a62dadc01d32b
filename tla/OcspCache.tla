----------------------------- MODULE OcspCache -----------------------------
(***************************************************************************)
(* The OCSP responder and its response cache: process_request              *)
(* (crates/ostrich-ocsp/src/responder.rs), get and insert (cache.rs), while *)
(* the CA issues and revokes and time passes.                              *)
(*                                                                         *)
(* Times are kept as what is left until next_update.  An OcspKey stands    *)
(* for a CacheKey, one hash algorithm per serial number.  The comments say *)
(* that a revocation invalidates the cache; invalidate_cache has no caller *)
(* outside of the tests, so no step of the system invalidates an entry.    *)
(***************************************************************************)
EXTENDS Naturals, Sequences, FiniteSets

CONSTANTS
    OcspKeys,
    OcspHandlers,   \* requests in flight
    CacheSize,      \* max_entries
    Validity,       \* response_validity, in ticks of the clock
    NoKey

ASSUME OcspAssumption ==
    CacheSize \in Nat \ {0} /\ Validity \in Nat \ {0} /\ NoKey \notin OcspKeys

VARIABLES
    ocspStatus,     \* what the certificates table says of each serial number
    ocspCache,      \* the entries, in the order of inserted_at
    ocspPc,         \* where each request is
    ocspKey,        \* its key
    ocspReads,      \* the status it read
    ocspLeft,       \* time left until the next_update of its answer
    ocspCacheable   \* whether it may use the cache: it has no nonce

ocspHandlerVars == <<ocspPc, ocspKey, ocspReads, ocspLeft, ocspCacheable>>
ocspVars == <<ocspStatus, ocspCache, ocspHandlerVars>>

OcspStatuses == {"unknown", "good", "revoked"}
OcspEntries == [key : OcspKeys, status : {"good", "revoked"}, left : 0..Validity]

OcspTypeOK ==
    /\ ocspStatus \in [OcspKeys -> OcspStatuses]
    /\ ocspCache \in Seq(OcspEntries)
    /\ ocspPc \in [OcspHandlers -> {"idle", "lookup", "stamp", "sign", "insert"}]
    /\ ocspKey \in [OcspHandlers -> OcspKeys \union {NoKey}]
    /\ ocspReads \in [OcspHandlers -> OcspStatuses]
    /\ ocspLeft \in [OcspHandlers -> 0..Validity]
    /\ ocspCacheable \in [OcspHandlers -> BOOLEAN]

OcspInit ==
    /\ ocspStatus = [k \in OcspKeys |-> "unknown"]
    /\ ocspCache = <<>>
    /\ ocspPc = [h \in OcspHandlers |-> "idle"]
    /\ ocspKey = [h \in OcspHandlers |-> NoKey]
    /\ ocspReads = [h \in OcspHandlers |-> "unknown"]
    /\ ocspLeft = [h \in OcspHandlers |-> 0]
    /\ ocspCacheable = [h \in OcspHandlers |-> FALSE]

-----------------------------------------------------------------------------
(* The CA and the clock.                                                   *)

OcspIssue(k) ==
    /\ ocspStatus[k] = "unknown"
    /\ ocspStatus' = [ocspStatus EXCEPT ![k] = "good"]
    /\ UNCHANGED <<ocspCache, ocspHandlerVars>>

OcspRevoke(k) ==
    /\ ocspStatus[k] = "good"
    /\ ocspStatus' = [ocspStatus EXCEPT ![k] = "revoked"]
    /\ UNCHANGED <<ocspCache, ocspHandlerVars>>

Sooner(n) == IF n = 0 THEN 0 ELSE n - 1

OcspTick ==
    /\ ocspCache' = [i \in DOMAIN ocspCache |->
                       [key |-> ocspCache[i].key,
                        status |-> ocspCache[i].status,
                        left |-> Sooner(ocspCache[i].left)]]
    /\ ocspLeft' = [h \in OcspHandlers |-> Sooner(ocspLeft[h])]
    /\ UNCHANGED <<ocspStatus, ocspPc, ocspKey, ocspReads, ocspCacheable>>

-----------------------------------------------------------------------------
(* OcspCache.                                                              *)

\* An entry is served whatever its age.
never_expires(e) == TRUE

\* CacheEntry::is_valid: now < expires_at.
is_valid(e) == e.left > 0

\* OcspCache::get returns an answer.
Hit(k) == \E i \in DOMAIN ocspCache : ocspCache[i].key = k /\ is_valid(ocspCache[i])

\* The entry with the smallest inserted_at goes when the cache is full.
evict(s) == IF Len(s) >= CacheSize THEN Tail(s) ELSE s

\* The positions I in ascending order.
Ascending(I) ==
    CHOOSE f \in [1..Cardinality(I) -> I] : \A i, j \in DOMAIN f : i < j => f[i] < f[j]

\* HashMap::retain: the entries of s at the positions I stay, in their order.
retain(s, I) == [i \in 1..Cardinality(I) |-> s[Ascending(I)[i]]]

\* No eviction before an insert.
insert_unbounded(s, e) == Append(retain(s, { i \in DOMAIN s : s[i].key # e.key }), e)

\* OcspCache::insert: expired entries go, then the oldest one when the cache
\* is full (also if the key is there), then the key's entry is replaced.
insert(s, e) ==
    LET valid == retain(s, { i \in DOMAIN s : is_valid(s[i]) })
        left == evict(valid)
    IN  Append(retain(left, { i \in DOMAIN left : left[i].key # e.key }), e)

-----------------------------------------------------------------------------
(* process_request.                                                        *)

OcspAt(h, p) == ocspPc' = [ocspPc EXCEPT ![h] = p]

OcspEnds(h) ==
    /\ OcspAt(h, "idle")
    /\ ocspKey' = [ocspKey EXCEPT ![h] = NoKey]
    /\ ocspReads' = [ocspReads EXCEPT ![h] = "unknown"]
    /\ ocspLeft' = [ocspLeft EXCEPT ![h] = 0]
    /\ ocspCacheable' = [ocspCacheable EXCEPT ![h] = FALSE]

\* A request with a nonce, or one that misses; a hit is answered at once and
\* changes nothing.
OcspRequest(h, k, cacheable) ==
    /\ ocspPc[h] = "idle"
    /\ ~(cacheable /\ Hit(k))
    /\ OcspAt(h, "lookup")
    /\ ocspKey' = [ocspKey EXCEPT ![h] = k]
    /\ ocspCacheable' = [ocspCacheable EXCEPT ![h] = cacheable]
    /\ UNCHANGED <<ocspStatus, ocspCache, ocspReads, ocspLeft>>

\* find_by_serial; create_unknown_response has no next_update and is not
\* cached.
OcspLookup(h) ==
    /\ ocspPc[h] = "lookup"
    /\ IF ocspStatus[ocspKey[h]] = "unknown"
       THEN OcspEnds(h)
       ELSE /\ ocspReads' = [ocspReads EXCEPT ![h] = ocspStatus[ocspKey[h]]]
            /\ OcspAt(h, "stamp")
            /\ UNCHANGED <<ocspKey, ocspLeft, ocspCacheable>>
    /\ UNCHANGED <<ocspStatus, ocspCache>>

\* this_update and next_update, when the row has arrived.
OcspStamp(h) ==
    /\ ocspPc[h] = "stamp"
    /\ ocspLeft' = [ocspLeft EXCEPT ![h] = Validity]
    /\ OcspAt(h, "sign")
    /\ UNCHANGED <<ocspStatus, ocspCache, ocspKey, ocspReads, ocspCacheable>>

\* sign_response; an answer with a nonce is not cached.
OcspSign(h) ==
    /\ ocspPc[h] = "sign"
    /\ IF ocspCacheable[h]
       THEN OcspAt(h, "insert") /\ UNCHANGED <<ocspKey, ocspReads, ocspLeft, ocspCacheable>>
       ELSE OcspEnds(h)
    /\ UNCHANGED <<ocspStatus, ocspCache>>

OcspInsert(h) ==
    /\ ocspPc[h] = "insert"
    /\ ocspCache' = insert(ocspCache, [key |-> ocspKey[h], status |-> ocspReads[h],
                                       left |-> ocspLeft[h]])
    /\ OcspEnds(h)
    /\ UNCHANGED ocspStatus

\* The lookup or the signature fails, or the client goes away.
OcspFails(h) ==
    /\ ocspPc[h] # "idle"
    /\ OcspEnds(h)
    /\ UNCHANGED <<ocspStatus, ocspCache>>

OcspStep(h) == OcspLookup(h) \/ OcspStamp(h) \/ OcspSign(h) \/ OcspInsert(h)

OcspNext ==
    \/ \E k \in OcspKeys : OcspIssue(k) \/ OcspRevoke(k)
    \/ OcspTick
    \/ \E h \in OcspHandlers, k \in OcspKeys, c \in BOOLEAN : OcspRequest(h, k, c)
    \/ \E h \in OcspHandlers : OcspStep(h) \/ OcspFails(h)

\* The clock goes on; the runtime polls every request until it is answered.
OcspFairness ==
    /\ WF_ocspVars(OcspTick)
    /\ \A h \in OcspHandlers : WF_ocspVars(OcspStep(h))

OcspSpec == OcspInit /\ [][OcspNext]_ocspVars /\ OcspFairness

-----------------------------------------------------------------------------
(* Properties.                                                             *)

CachedGood(k) ==
    \E i \in DOMAIN ocspCache :
        ocspCache[i].key = k /\ ocspCache[i].status = "good" /\ is_valid(ocspCache[i])

\* Whether the responder would answer good for k, or is about to.
ServesGood(k) ==
    \/ CachedGood(k)
    \/ \E h \in OcspHandlers :
         ocspPc[h] \in {"stamp", "sign", "insert"} /\ ocspKey[h] = k /\ ocspReads[h] = "good"

\* What responder.rs:117 says of the cache, "Cache invalidation: Automatic on
\* certificate revocation", and cache.rs:213-214 of invalidate, "Used when a
\* certificate is revoked to ensure fresh status is returned on next OCSP
\* query": the step that revokes a certificate leaves no answer good for it in
\* the cache.  The code does not do it: nothing calls invalidate_cache.
InvalidatedOnRevocation ==
    [][\A k \in OcspKeys :
         ocspStatus[k] # "revoked" /\ ocspStatus'[k] = "revoked" => ~CachedGood(k)']_ocspVars

\* What the code does instead (InvalidatedOnRevocation is what its comments
\* say): a revoked certificate may be answered good for a while, also through
\* an answer whose status was read before the revocation and cached after it;
\* but from some time on it never is again (next_update, is_valid, retain).
OcspForgets == \A k \in OcspKeys : <>[](ocspStatus[k] = "revoked" => ~ServesGood(k))

\* A revocation is never undone: revoked stays the answer, good may be late.
Truthful(k, s) ==
    /\ s = "revoked" => ocspStatus[k] = "revoked"
    /\ s = "good" => ocspStatus[k] # "unknown"

\* However requests overlap, expire and are dropped, the cache never holds
\* more than max_entries answers, and no answer that was never true is in it
\* or on its way to a client: a certificate answered revoked is revoked, one
\* answered good was issued (insert, and the order of find_by_serial,
\* sign_response and insert in process_request).
OcspSound ==
    /\ Len(ocspCache) <= CacheSize
    /\ \A i \in DOMAIN ocspCache : Truthful(ocspCache[i].key, ocspCache[i].status)
    /\ \A h \in OcspHandlers :
         ocspPc[h] \in {"stamp", "sign", "insert"} => Truthful(ocspKey[h], ocspReads[h])

\* The inductive invariant: a request has a key, and past its lookup a status.
OcspInv ==
    /\ OcspTypeOK
    /\ OcspSound
    /\ \A h \in OcspHandlers :
         /\ ocspPc[h] # "idle" => ocspKey[h] \in OcspKeys
         /\ ocspPc[h] \in {"stamp", "sign", "insert"} => ocspReads[h] # "unknown"
=============================================================================
