---------------------------- MODULE MCAuditChain ----------------------------
(* Instances of AuditChain for TLC.                                        *)
EXTENDS AuditChain, TLC

MCTimes == {1, 2}
MCCallerTimes == {NoTime, 1}
MCNoCaller == {NoTime}
MCSigned == {TRUE}
MCBothKinds == {"record", "append"}
MCRecordOnly == {"record"}

CallSymmetry == Permutations(Calls)
=============================================================================
