----------------------------- MODULE MCSessions -----------------------------
(* Instances of Sessions for TLC: one user.                                *)
EXTENDS Sessions, TLC

CONSTANTS alice

MCOwner == [s \in Sessions |-> alice]

SessionSymmetry == Permutations(Sessions) \union Permutations(Calls)
=============================================================================
