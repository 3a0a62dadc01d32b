----------------------------- MODULE MCNotify -----------------------------
(* Instances of Notify for TLC: the certificates of one subject.           *)
EXTENDS Notify

CONSTANT subj

MCSubjects == {subj}
MCSubject == [c \in NotifyCerts |-> subj]
=============================================================================
