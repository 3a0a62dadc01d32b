-------------------------- MODULE MCCrlPublication --------------------------
(* Instances of CrlPublication for TLC.                                    *)
EXTENDS CrlPublication, TLC

JobSymmetry == Permutations(Jobs) \union Permutations(Revocations)
=============================================================================
