----------------------------- MODULE MCCaServer -----------------------------
(***************************************************************************)
(* The CA server in one run.  A behaviour is one of bulk enrolment over    *)
(* the approval workflow with two handlers and one request ("issuance"),   *)
(* one with two requests of one archive and one handler ("batch"), or one  *)
(* of CrlPublication in which two of three generations overlap             *)
(* ("revocation"), which shares no state with them.                        *)
(***************************************************************************)
EXTENDS BulkEnrollment, MCApproval, MCCrlPublication

CONSTANTS r1, r2

VARIABLE half

MCMixed == {<<"csr", "bad">>, <<"bad", "csr">>}
MCBatch == {<<"csr", "csr">>}
MCArchives == MCMixed \union MCBatch

caVars == <<half, vars, approvalVars, bulkVars>>

\* A request that does not matter starts in one state.
CaInit ==
    /\ half \in {"issuance", "batch", "revocation"}
    /\ BulkInit /\ Init
    /\ \A r \in Requests : (r = r2 \/ half # "issuance") =>
          request[r].requestor = alice /\ request[r].type = "issuance"

Busy == { h \in Handlers : handler[h].pc # "idle" }

Generating == { j \in Jobs : stage[j] \notin {"idle", "done", "failed"} }

CaNext ==
    \/ /\ half = "issuance" /\ BulkNext /\ UNCHANGED <<half, vars>>
       /\ request'[r2].status = "absent"
       /\ entries' \in MCMixed \union {<< >>}
    \/ /\ half = "batch" /\ BulkNext /\ UNCHANGED <<half, vars>>
       /\ Cardinality(Busy') <= 1
       /\ entries' \in MCBatch \union {<< >>}
    \/ /\ half = "revocation" /\ Next /\ UNCHANGED <<half, approvalVars, bulkVars>>
       /\ Cardinality(Generating') <= 2

CaSpec == CaInit /\ [][CaNext]_caVars

CaSymmetry == HandlerSymmetry \union JobSymmetry
=============================================================================
