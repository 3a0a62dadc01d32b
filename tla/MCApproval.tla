----------------------------- MODULE MCApproval -----------------------------
(* Instances of Approval for TLC: one requestor who also holds the approval *)
(* permission, two other approvers, one request.                            *)
EXTENDS Approval, TLC

CONSTANTS alice, bob, carol

MCUsers == {alice, bob, carol}
MCIssuance == {"issuance"}
MCAllTypes == {"issuance", "renewal", "revocation"}

HandlerSymmetry == Permutations(Handlers)
=============================================================================
