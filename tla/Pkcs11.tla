------------------------------- MODULE Pkcs11 -------------------------------
(***************************************************************************)
(* The PKCS#11 provider (crates/ostrich-crypto/src/pkcs11/mod.rs): every   *)
(* operation opens a session of its own, logs in, works and logs out.  The *)
(* login belongs to the token and is shared by all sessions of the         *)
(* process, so an operation that ends logs out the ones still running.     *)
(*                                                                         *)
(* One action is one PKCS#11 call: the library is initialised with         *)
(* OS_LOCKING_OK and the operations of several threads interleave between  *)
(* calls.  An algorithm or key type the provider does not support is       *)
(* refused before the first call that matters here and is left out.        *)
(***************************************************************************)
EXTENDS FiniteSets

CONSTANTS
    HsmOps,     \* operations that may run at the same time
    HsmKeys,    \* values of CKA_ID that getrandom may produce
    Kek,        \* CKA_ID of the wrapping key, provisioned beforehand
    NoHsmKey

ASSUME HsmKeysAssumption == Kek \notin HsmKeys /\ NoHsmKey \notin HsmKeys \union {Kek}

VARIABLES
    objects,    \* objects on the token
    loggedIn,   \* login state of the token
    hsmPc,      \* where each operation is; it has a session unless idle
    hsmKind,    \* which operation it is
    hsmKey,     \* the key_id it works on
    handles,    \* the objects its find_objects returned
    lost,       \* whether a logout has invalidated one of these handles
    genuine,    \* whether the signature it verifies is the key's
    answer,     \* what it answers
    handedOut,  \* history: the key ids returned to callers so far
    destroyed,  \* history: the keys an undisturbed destroy_key has reported destroyed
    disturbed   \* history: whether another operation logged out during this one

tokenVars == <<objects, loggedIn>>
hsmVars == <<tokenVars, hsmPc, hsmKind, hsmKey, handles, lost, genuine, answer,
             handedOut, destroyed, disturbed>>

Classes == {"private", "public", "secret"}
Objects == [key : HsmKeys \union {Kek}, class : Classes]
HsmKinds == {"generate", "sign", "verify", "export", "destroy", "wrap", "unwrap",
             "random", "list"}
Object(k, c) == [key |-> k, class |-> c]

HsmTypeOK ==
    /\ objects \subseteq Objects
    /\ loggedIn \in BOOLEAN
    /\ hsmPc \in [HsmOps -> {"idle", "login", "find", "find2", "use", "use2", "logout", "drop"}]
    /\ hsmKind \in [HsmOps -> HsmKinds]
    /\ hsmKey \in [HsmOps -> HsmKeys \union {NoHsmKey}]
    /\ handles \in [HsmOps -> SUBSET Objects]
    /\ lost \in [HsmOps -> BOOLEAN]
    /\ genuine \in [HsmOps -> BOOLEAN]
    /\ answer \in [HsmOps -> {"none", "ok", "true", "false", "error"}]
    /\ handedOut \subseteq HsmKeys
    /\ destroyed \subseteq HsmKeys
    /\ disturbed \in [HsmOps -> BOOLEAN]

\* Pkcs11Provider::new has opened a session, logged in and logged out again.
HsmInit ==
    /\ objects = {Object(Kek, "secret")}
    /\ loggedIn = FALSE
    /\ hsmPc = [o \in HsmOps |-> "idle"]
    /\ hsmKind = [o \in HsmOps |-> "random"]
    /\ hsmKey = [o \in HsmOps |-> NoHsmKey]
    /\ handles = [o \in HsmOps |-> {}]
    /\ lost = [o \in HsmOps |-> FALSE]
    /\ genuine = [o \in HsmOps |-> FALSE]
    /\ answer = [o \in HsmOps |-> "none"]
    /\ handedOut = {}
    /\ destroyed = {}
    /\ disturbed = [o \in HsmOps |-> FALSE]

-----------------------------------------------------------------------------
(* The token.                                                              *)

\* Objects with CKA_PRIVATE are seen and used by a logged-in session only.
Visible(c) == c = "public" \/ loggedIn

PrivateHandles(o) == { x \in handles[o] : x.class # "public" }

\* C_Logout: the handles of private objects are invalid from now on, also
\* after another login.
TokenLogout(caller) ==
    /\ loggedIn' = FALSE
    /\ lost' = [o \in HsmOps |-> lost[o] \/ PrivateHandles(o) # {}]
    /\ disturbed' = [o \in HsmOps |-> disturbed[o] \/ (o # caller /\ hsmPc[o] # "idle")]

HandlesGood(o) == ~lost[o] /\ handles[o] \subseteq objects

HsmAt(o, p) == hsmPc' = [hsmPc EXCEPT ![o] = p]

-----------------------------------------------------------------------------
(* open_session.                                                           *)

\* A caller works on a key it was given by generate_key_pair or unwrap_key.
OpenSession(o, kind, k, g) ==
    /\ hsmPc[o] = "idle"
    /\ k \in IF kind \in {"generate", "unwrap", "random", "list"} THEN {NoHsmKey} ELSE handedOut
    /\ g => kind = "verify"
    /\ HsmAt(o, "login")
    /\ hsmKind' = [hsmKind EXCEPT ![o] = kind]
    /\ hsmKey' = [hsmKey EXCEPT ![o] = k]
    /\ genuine' = [genuine EXCEPT ![o] = g]
    /\ answer' = [answer EXCEPT ![o] = "none"]
    /\ UNCHANGED <<tokenVars, handles, lost, handedOut, destroyed, disturbed>>

\* Ok or CKR_USER_ALREADY_LOGGED_IN.
Login(o) ==
    /\ hsmPc[o] = "login"
    /\ loggedIn' = TRUE
    /\ HsmAt(o, IF hsmKind[o] \in {"generate", "random"} THEN "use" ELSE "find")
    /\ UNCHANGED <<objects, hsmKind, hsmKey, handles, lost, genuine, answer, handedOut, destroyed, disturbed>>

\* The operation returns a value or an error; some paths log out before.
Answers(o, a, p) ==
    /\ answer' = [answer EXCEPT ![o] = a]
    /\ HsmAt(o, p)

\* A call fails on the token: an early return, without logout.
TokenFault(o) ==
    /\ hsmPc[o] \in {"login", "find", "find2", "use", "use2"}
    /\ hsmKind[o] = "random" => hsmPc[o] = "login"
    /\ Answers(o, "error", IF hsmKind[o] = "verify" /\ hsmPc[o] = "use" THEN "logout" ELSE "drop")
    /\ UNCHANGED <<tokenVars, hsmKind, hsmKey, handles, lost, genuine, handedOut, destroyed, disturbed>>

-----------------------------------------------------------------------------
(* find_objects with a class and a CKA_ID.                                 *)

FindClass(o) ==
    CASE hsmPc[o] = "find2" -> IF hsmKind[o] = "wrap" THEN "secret" ELSE "public"
      [] hsmKind[o] \in {"verify", "export"} -> "public"
      [] hsmKind[o] = "unwrap" -> "secret"
      [] OTHER -> "private"

Matches(o) ==
    { x \in objects :
        /\ x.class = FindClass(o)
        /\ Visible(x.class)
        /\ hsmKind[o] # "list" /\ x.class # "secret" => x.key = hsmKey[o] }

AfterFind(o) ==
    CASE hsmKind[o] = "wrap" /\ hsmPc[o] = "find" -> "find2"
      [] hsmPc[o] = "find2" /\ hsmKind[o] = "destroy" -> "use2"
      [] OTHER -> "use"

FindObjects(o) ==
    /\ hsmPc[o] \in {"find", "find2"}
    /\ Matches(o) # {} \/ hsmKind[o] \in {"list", "destroy"}
    /\ handles' = [handles EXCEPT ![o] = IF hsmKind[o] = "wrap" THEN @ \union Matches(o) ELSE Matches(o)]
    /\ HsmAt(o, AfterFind(o))
    /\ UNCHANGED <<tokenVars, hsmKind, hsmKey, lost, genuine, answer, handedOut, destroyed, disturbed>>

KeyNotFound(o) ==
    /\ hsmPc[o] \in {"find", "find2"}
    /\ Matches(o) = {}
    /\ hsmKind[o] \notin {"list", "destroy"}
    /\ Answers(o, "error", "drop")
    /\ UNCHANGED <<tokenVars, hsmKind, hsmKey, handles, lost, genuine, handedOut, destroyed, disturbed>>

-----------------------------------------------------------------------------
(* The operations.                                                         *)

Using(o, kind) == hsmPc[o] = "use" /\ hsmKind[o] = kind

\* The call works on the handles that were found and changes no object.
UsesHandles(o, kind) ==
    /\ Using(o, kind)
    /\ IF HandlesGood(o) THEN Answers(o, "ok", "logout") ELSE Answers(o, "error", "drop")
    /\ UNCHANGED <<tokenVars, hsmKind, hsmKey, handles, lost, genuine, handedOut, destroyed, disturbed>>

HsmSign(o) == UsesHandles(o, "sign")

\* get_attributes and the encoding of the public key.
ExportPublicKey(o) == UsesHandles(o, "export")

WrapKey(o) == UsesHandles(o, "wrap")

\* get_attributes of every private key that was found.
ListKeys(o) == UsesHandles(o, "list")

\* Any error of C_Verify taken for a rejection of the signature.
rejection_of_any_error(rv) == rv # "ok"

is_signature_rejection(rv) == rv = "SignatureInvalid"

\* C_Verify: a handle that is no longer good is an error of its own.
VerifyOutcome(o) ==
    CASE ~HandlesGood(o) -> "ObjectHandleInvalid"
      [] genuine[o] -> "ok"
      [] OTHER -> "SignatureInvalid"

Verify(o) ==
    /\ Using(o, "verify")
    /\ Answers(o, CASE VerifyOutcome(o) = "ok" -> "true"
                    [] is_signature_rejection(VerifyOutcome(o)) -> "false"
                    [] OTHER -> "error", "logout")
    /\ UNCHANGED <<tokenVars, hsmKind, hsmKey, handles, lost, genuine, handedOut, destroyed, disturbed>>

\* getrandom: an id that no key has or had.
FreshIds == HsmKeys \ (handedOut \union { x.key : x \in objects })

\* The templates of both halves, on the token and under one id.
KeyPairObjects(k) == {Object(k, "private"), Object(k, "public")}

GenerateKeyPair(o, k) ==
    /\ Using(o, "generate")
    /\ k \in FreshIds
    /\ IF loggedIn
       THEN /\ objects' = objects \union KeyPairObjects(k)
            /\ hsmKey' = [hsmKey EXCEPT ![o] = k]
            /\ Answers(o, "ok", "logout")
       ELSE Answers(o, "error", "drop") /\ UNCHANGED <<objects, hsmKey>>
    /\ UNCHANGED <<loggedIn, hsmKind, handles, lost, genuine, handedOut, destroyed, disturbed>>

\* C_UnwrapKey creates a private key only.
UnwrapKey(o, k) ==
    /\ Using(o, "unwrap")
    /\ k \in FreshIds
    /\ IF HandlesGood(o)
       THEN /\ objects' = objects \union {Object(k, "private")}
            /\ hsmKey' = [hsmKey EXCEPT ![o] = k]
            /\ Answers(o, "ok", "logout")
       ELSE /\ Answers(o, "error", "drop")
            /\ UNCHANGED <<objects, hsmKey>>
    /\ UNCHANGED <<loggedIn, hsmKind, handles, lost, genuine, handedOut, destroyed, disturbed>>

\* The loop of destroy_key over the two classes: nothing found is no error.
DestroyObjects(o) ==
    /\ hsmKind[o] = "destroy"
    /\ hsmPc[o] \in {"use", "use2"}
    /\ IF HandlesGood(o)
       THEN /\ objects' = objects \ handles[o]
            /\ handles' = [handles EXCEPT ![o] = {}]
            /\ IF hsmPc[o] = "use"
               THEN HsmAt(o, "find2") /\ UNCHANGED answer
               ELSE Answers(o, "ok", "logout")
       ELSE /\ Answers(o, "error", "drop")
            /\ UNCHANGED <<objects, handles>>
    /\ UNCHANGED <<loggedIn, hsmKind, hsmKey, lost, genuine, handedOut, destroyed, disturbed>>

\* The token's generator or, when it fails, the software DRBG; no logout.
GenerateRandomBytes(o) ==
    /\ Using(o, "random")
    /\ Answers(o, "ok", "drop")
    /\ UNCHANGED <<tokenVars, hsmKind, hsmKey, handles, lost, genuine, handedOut, destroyed, disturbed>>

-----------------------------------------------------------------------------
\* let _ = session.logout()
Logout(o) ==
    /\ hsmPc[o] = "logout"
    /\ TokenLogout(o)
    /\ HsmAt(o, "drop")
    /\ UNCHANGED <<objects, hsmKind, hsmKey, handles, genuine, answer, handedOut, destroyed>>

\* The session is dropped, which closes it, and the operation returns.
\* Closing the last session of the process logs out.
CloseSession(o) ==
    /\ hsmPc[o] = "drop"
    /\ HsmAt(o, "idle")
    /\ loggedIn' = (loggedIn /\ \E x \in HsmOps \ {o} : hsmPc[x] # "idle")
    /\ handles' = [handles EXCEPT ![o] = {}]
    /\ lost' = [lost EXCEPT ![o] = FALSE]
    /\ disturbed' = [disturbed EXCEPT ![o] = FALSE]
    /\ destroyed' = IF hsmKind[o] = "destroy" /\ answer[o] = "ok" /\ ~disturbed[o]
                    THEN destroyed \union {hsmKey[o]} ELSE destroyed
    /\ handedOut' = IF hsmKind[o] \in {"generate", "unwrap"} /\ answer[o] = "ok"
                    THEN handedOut \union {hsmKey[o]} ELSE handedOut
    /\ UNCHANGED <<objects, hsmKind, hsmKey, genuine, answer>>

HsmStep(o) ==
    \/ Login(o) \/ FindObjects(o) \/ KeyNotFound(o) \/ TokenFault(o)
    \/ HsmSign(o) \/ Verify(o) \/ ExportPublicKey(o) \/ WrapKey(o) \/ ListKeys(o)
    \/ DestroyObjects(o) \/ GenerateRandomBytes(o)
    \/ \E k \in HsmKeys : GenerateKeyPair(o, k) \/ UnwrapKey(o, k)
    \/ Logout(o) \/ CloseSession(o)

HsmNext ==
    \E o \in HsmOps :
        \/ \E kind \in HsmKinds, k \in HsmKeys \union {NoHsmKey}, g \in BOOLEAN :
              OpenSession(o, kind, k, g)
        \/ HsmStep(o)

HsmSpec == HsmInit /\ [][HsmNext]_hsmVars

-----------------------------------------------------------------------------
(* Properties.                                                             *)

\* "Only an explicit signature rejection from the token is Ok(false); any other
\* token failure is an error ... so a module fault is not mistaken for a forged
\* signature" (verify): true is answered for the key's signature only and false
\* only for another one, also when the key is destroyed or the token logged out
\* while the verification runs.  "Destroy both the private and public key
\* objects in the HSM" (destroy_key): after Ok no object of the key is on the
\* token, provided that no other operation has logged the token out meanwhile;
\* if one has, the private half is not found and stays.
HsmTruthful ==
    /\ \A o \in HsmOps :
          /\ answer[o] = "true" => genuine[o]
          /\ answer[o] = "false" => ~genuine[o]
    /\ \A x \in objects : x.key \notin destroyed

-----------------------------------------------------------------------------
(* The inductive invariant.                                                *)

\* true and false are answered for what they are true of.
VerdictInv ==
    \A o \in HsmOps :
        /\ answer[o] = "true" => genuine[o]
        /\ answer[o] = "false" => ~genuine[o]

\* An operation that created a key knows its id; key pairs have no secret
\* half; only keys that callers hold are destroyed.
KeysInv ==
    /\ \A o \in HsmOps :
         /\ hsmKind[o] \in {"generate", "unwrap"}
         /\ hsmPc[o] \in {"logout", "drop"}
         /\ answer[o] = "ok"
         => hsmKey[o] \in HsmKeys
    /\ \A x \in objects : x.class = "secret" => x.key = Kek
    /\ destroyed \subseteq handedOut

OfKey(k) == { x \in objects : x.key = k }

\* How far destroy_key has come with the two halves of its key.  As long as
\* nobody else has logged the token out it sees them all: first the private
\* half is in its handles, then gone, then the public one likewise.
DestroyProgress(o) ==
    hsmKind[o] = "destroy" /\ hsmPc[o] # "idle" =>
        /\ hsmKey[o] \in handedOut
        /\ ~disturbed[o] =>
             /\ hsmPc[o] \in {"find", "use", "find2", "use2"} => loggedIn
             /\ hsmPc[o] = "use" =>
                  \A x \in OfKey(hsmKey[o]) : x.class = "private" => x \in handles[o]
             /\ hsmPc[o] \in {"find2", "use2"} =>
                  \A x \in OfKey(hsmKey[o]) : x.class = "public"
             /\ hsmPc[o] = "use2" => OfKey(hsmKey[o]) \subseteq handles[o]
             /\ hsmPc[o] \in {"logout", "drop"} /\ answer[o] = "ok" => OfKey(hsmKey[o]) = {}

DestroyedGone == \A x \in objects : x.key \notin destroyed

HsmInv ==
    /\ HsmTypeOK
    /\ VerdictInv
    /\ KeysInv
    /\ \A o \in HsmOps : DestroyProgress(o)
    /\ DestroyedGone
=============================================================================
