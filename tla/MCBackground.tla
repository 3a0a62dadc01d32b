---------------------------- MODULE MCBackground ----------------------------
(***************************************************************************)
(* What lies behind the services, checked in one run for what it never     *)
(* does: the audit log, the expiry notices of two scheduler replicas, the  *)
(* OCSP cache, and what keeps keys: the PKCS#11 token, hardware tokens and *)
(* escrow.  They share no state: each behaviour is one of the component    *)
(* that part names, chosen at the start.                                   *)
(***************************************************************************)
EXTENDS MCAuditChain, MCNotify, OcspCache, Pkcs11, ScmsToken, KeyRecovery

VARIABLE part

PartNames == {"audit", "notify", "ocsp", "hsm", "scms", "kra"}

\* KEK bytes with no bit, some bits and every bit, and coefficients of split.
MCKekBytes == { Bits(n) : n \in {0, 83, 255} }
MCCoefficients == { Bits(n) : n \in {1, 202} }

\* Only one component moves in a behaviour, so one permutation of the calls
\* stands for one of the replicas as well: exchanging two of the three calls
\* exchanges the two replicas.
Fixed(p) == { c \in Calls : p[c] = c }
Exchange == CHOOSE q \in Permutations(Replicas) : \A r \in Replicas : q[r] # r
BackgroundSymmetry ==
    { p @@ IF Cardinality(Fixed(p)) = 1 THEN Exchange ELSE [r \in Replicas |-> r] :
        p \in CallSymmetry }

keyVars == <<hsmVars, scmsVars, kraVars>>

BackgroundInit ==
    /\ part \in PartNames
    /\ Init /\ NotifyInit /\ OcspInit /\ HsmInit /\ ScmsInit /\ KraInit
    /\ part # "notify" => poison = {}

\* The step of one component leaves the others alone.
BackgroundNext ==
    \/ part = "audit" /\ Next /\ UNCHANGED <<part, notifyVars, ocspVars, keyVars>>
    \/ part = "notify" /\ NotifyNext /\ UNCHANGED <<part, vars, ocspVars, keyVars>>
    \/ part = "ocsp" /\ OcspNext /\ UNCHANGED <<part, vars, notifyVars, keyVars>>
    \/ /\ part = "hsm" /\ HsmNext
       /\ UNCHANGED <<part, vars, notifyVars, ocspVars, scmsVars, kraVars>>
    \/ /\ part = "scms" /\ ScmsNext
       /\ UNCHANGED <<part, vars, notifyVars, ocspVars, hsmVars, kraVars>>
    \/ /\ part = "kra" /\ KraNext
       /\ UNCHANGED <<part, vars, notifyVars, ocspVars, hsmVars, scmsVars>>

backgroundVars == <<vars, notifyVars, ocspVars, keyVars, part>>

BackgroundSpec == BackgroundInit /\ [][BackgroundNext]_backgroundVars
=============================================================================
