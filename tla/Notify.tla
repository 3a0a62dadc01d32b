------------------------------- MODULE Notify -------------------------------
(***************************************************************************)
(* Expiry notices: the producer of the CA                                  *)
(* (services/ca-server/src/expiry_producer.rs), the scheduler replicas and *)
(* the sender of the notify service (services/notify-server/src/           *)
(* scheduler.rs, sender.rs, db.rs) and the two JetStream subjects between  *)
(* them.                                                                   *)
(*                                                                         *)
(* A schedule is keyed by the subject of the certificate, so certificates  *)
(* with the same subject share one.  Only certificates with a recipient    *)
(* are considered, and only the part of a cadence period in which is_due   *)
(* holds: outside of it evaluate passes the schedule over.  JetStream      *)
(* keeps a message until it is acknowledged and delivers it again after a  *)
(* crash, behind the others.                                               *)
(***************************************************************************)
EXTENDS Naturals, Sequences

CONSTANTS
    NotifyCerts,    \* certificates that expire within days_before
    Subjects,
    Subject,        \* the subject_dn of each certificate
    Periods,        \* cadence periods: the window keys
    Replicas,       \* scheduler replicas
    MaxDeliver,     \* MAX_DELIVER of the sender's consumer
    MaxQueue,       \* bound on the messages of a subject of the stream
    MaxFaults       \* bound on crashes and transient failures

ASSUME NotifyAssumption ==
    /\ Subject \in [NotifyCerts -> Subjects]
    /\ MaxDeliver \in Nat \ {0}
    /\ MaxQueue \in Nat \ {0}
    /\ MaxFaults \in Nat

Slots == Subjects \X Periods     \* (certificate, window_key) of sent_notifications

VARIABLES
    nCert,      \* what the certificates table says: live or revoked
    scanPc,     \* where scan_and_publish is
    scanLeft,   \* the rows it has yet to publish
    notices,    \* cert.expiry.notify
    held,       \* the notice each replica has applied and not acknowledged
    schedules,  \* the subjects with an active schedule
    slot,       \* sent_notifications: free, claimed or sent
    age,        \* of a claim: fresh, stale (re-drive) or old (no longer)
    evalPc,     \* where each replica's evaluate is
    evalLeft,   \* the windows its loop has yet to visit, in whatever order
    evalNow,    \* the window it has claimed and has yet to publish, if any
    jobs,       \* email.send: slot and deliveries so far
    sendPc,     \* where the sender is
    poison,     \* the subjects whose email always fails to build
    faults

producerVars == <<nCert, scanPc, scanLeft>>
evalVars == <<evalPc, evalLeft, evalNow>>
slotVars == <<slot, age>>
notifyVars == <<producerVars, notices, held, schedules, slotVars, evalVars,
                jobs, sendPc, poison, faults>>

Notices == [subject : Subjects, tombstone : BOOLEAN]
Jobs == [slot : Slots, deliveries : 0..MaxDeliver]

NotifyTypeOK ==
    /\ nCert \in [NotifyCerts -> {"live", "revoked"}]
    /\ scanPc \in {"idle", "live", "revoked"}
    /\ scanLeft \subseteq NotifyCerts
    /\ notices \in Seq(Notices)
    /\ held \in [Replicas -> Seq(Notices)]
    /\ schedules \subseteq Subjects
    /\ slot \in [Slots -> {"free", "claimed", "sent"}]
    /\ age \in [Slots -> {"fresh", "stale", "old"}]
    /\ evalPc \in [Replicas -> {"idle", "claim", "redrive"}]
    /\ evalLeft \in [Replicas -> SUBSET Slots]
    /\ evalNow \in [Replicas -> SUBSET Slots]
    /\ jobs \in Seq(Jobs)
    /\ sendPc \in {"idle", "mark", "ack"}
    /\ poison \subseteq Subjects
    /\ faults \in 0..MaxFaults

NotifyInit ==
    /\ nCert = [c \in NotifyCerts |-> "live"]
    /\ scanPc = "idle"
    /\ scanLeft = {}
    /\ notices = <<>>
    /\ held = [r \in Replicas |-> <<>>]
    /\ schedules = {}
    /\ slot = [x \in Slots |-> "free"]
    /\ age = [x \in Slots |-> "fresh"]
    /\ evalPc = [r \in Replicas |-> "idle"]
    /\ evalLeft = [r \in Replicas |-> {}]
    /\ evalNow = [r \in Replicas |-> {}]
    /\ jobs = <<>>
    /\ sendPc = "idle"
    /\ poison \in SUBSET Subjects
    /\ faults = 0

Fault == faults < MaxFaults /\ faults' = faults + 1

-----------------------------------------------------------------------------
(* The producer: the live certificates first, then the revoked ones.       *)

NotifyRevoke(c) ==
    /\ nCert[c] = "live"
    /\ nCert' = [nCert EXCEPT ![c] = "revoked"]
    /\ UNCHANGED <<scanPc, scanLeft, notices, held, schedules, slotVars, evalVars,
                   jobs, sendPc, poison, faults>>

Rows(state) == { c \in NotifyCerts : nCert[c] = state }

\* The first query when the scan begins, the second when the first is published.
ScanQuery ==
    /\ scanLeft = {}
    /\ \/ scanPc = "idle" /\ scanPc' = "live" /\ scanLeft' = Rows("live")
       \/ scanPc = "live" /\ scanPc' = "revoked" /\ scanLeft' = Rows("revoked")
       \/ scanPc = "revoked" /\ scanPc' = "idle" /\ UNCHANGED scanLeft
    /\ UNCHANGED <<nCert, notices, held, schedules, slotVars, evalVars, jobs, sendPc,
                   poison, faults>>

ScanPublish(c) ==
    /\ c \in scanLeft
    /\ Len(notices) < MaxQueue
    /\ notices' = Append(notices, [subject |-> Subject[c], tombstone |-> scanPc = "revoked"])
    /\ scanLeft' = scanLeft \ {c}
    /\ UNCHANGED <<nCert, scanPc, held, schedules, slotVars, evalVars, jobs, sendPc,
                   poison, faults>>

\* A query or a publish fails: the next scan starts anew.
ScanFails ==
    /\ scanPc # "idle"
    /\ Fault
    /\ scanPc' = "idle"
    /\ scanLeft' = {}
    /\ UNCHANGED <<nCert, notices, held, schedules, slotVars, evalVars, jobs, sendPc, poison>>

-----------------------------------------------------------------------------
(* consume_loop of a replica: apply, then acknowledge.                     *)

ApplyNotice(r) ==
    /\ held[r] = <<>>
    /\ notices # <<>>
    /\ LET m == Head(notices)
       IN  /\ schedules' = IF m.tombstone THEN schedules \ {m.subject}
                                          ELSE schedules \union {m.subject}
           /\ held' = [held EXCEPT ![r] = <<m>>]
    /\ notices' = Tail(notices)
    /\ UNCHANGED <<producerVars, slotVars, evalVars, jobs, sendPc, poison, faults>>

AckNotice(r) ==
    /\ held[r] # <<>>
    /\ held' = [held EXCEPT ![r] = <<>>]
    /\ UNCHANGED <<producerVars, notices, schedules, slotVars, evalVars, jobs, sendPc,
                   poison, faults>>

-----------------------------------------------------------------------------
(* evaluate of a replica.                                                  *)

EvalAt(r, p) == evalPc' = [evalPc EXCEPT ![r] = p]
EvalSkips(r, x) == evalLeft' = [evalLeft EXCEPT ![r] = evalLeft[r] \ {x}]

\* list_active, with the window key of the period this evaluation runs in.
ListActive(r, p) ==
    /\ evalPc[r] = "idle"
    /\ evalLeft' = [evalLeft EXCEPT ![r] = { <<s, p>> : s \in schedules }]
    /\ EvalAt(r, "claim")
    /\ UNCHANGED <<producerVars, notices, held, schedules, slotVars, evalNow, jobs, sendPc,
                   poison, faults>>

\* The conflict is not looked at: the window is claimed again.
ClaimRegardless(r, x) ==
    /\ evalPc[r] = "claim"
    /\ evalNow[r] = {}
    /\ x \in evalLeft[r]
    /\ EvalSkips(r, x)
    /\ slot' = [slot EXCEPT ![x] = "claimed"]
    /\ evalNow' = [evalNow EXCEPT ![r] = {x}]
    /\ UNCHANGED <<producerVars, notices, held, schedules, age, evalPc, jobs, sendPc, poison,
                   faults>>

\* try_claim_window: INSERT ... ON CONFLICT DO NOTHING.
ClaimWindow(r, x) ==
    /\ evalPc[r] = "claim"
    /\ evalNow[r] = {}
    /\ x \in evalLeft[r]
    /\ EvalSkips(r, x)
    /\ IF slot[x] = "free"
       THEN /\ slot' = [slot EXCEPT ![x] = "claimed"]
            /\ evalNow' = [evalNow EXCEPT ![r] = {x}]
       ELSE UNCHANGED <<slot, evalNow>>
    /\ UNCHANGED <<producerVars, notices, held, schedules, age, evalPc, jobs, sendPc, poison,
                   faults>>

Publish(x) ==
    /\ Len(jobs) < MaxQueue
    /\ jobs' = Append(jobs, [slot |-> x, deliveries |-> 0])

PublishJob(r) ==
    /\ \E x \in evalNow[r] : Publish(x)
    /\ evalNow' = [evalNow EXCEPT ![r] = {}]
    /\ UNCHANGED <<producerVars, notices, held, schedules, slotVars, evalPc, evalLeft, sendPc,
                   poison, faults>>

\* Nothing is published again.
no_redrive == {}

\* Claims not marked sent, old enough and not too old, of an active schedule.
list_stale_unsent ==
    { x \in Slots : slot[x] = "claimed" /\ age[x] = "stale" /\ x[1] \in schedules }

ListUnsent(r) ==
    /\ evalPc[r] = "claim"
    /\ evalNow[r] = {} /\ evalLeft[r] = {}
    /\ evalLeft' = [evalLeft EXCEPT ![r] = list_stale_unsent]
    /\ EvalAt(r, "redrive")
    /\ UNCHANGED <<producerVars, notices, held, schedules, slotVars, evalNow, jobs, sendPc,
                   poison, faults>>

Redrive(r, x) ==
    /\ evalPc[r] = "redrive"
    /\ x \in evalLeft[r]
    /\ Publish(x)
    /\ EvalSkips(r, x)
    /\ UNCHANGED <<producerVars, notices, held, schedules, slotVars, evalPc, evalNow, sendPc,
                   poison, faults>>

EvalEnds(r) ==
    /\ EvalAt(r, "idle")
    /\ evalLeft' = [evalLeft EXCEPT ![r] = {}]
    /\ evalNow' = [evalNow EXCEPT ![r] = {}]

EvaluateDone(r) ==
    /\ evalPc[r] = "redrive"
    /\ evalLeft[r] = {}
    /\ EvalEnds(r)
    /\ UNCHANGED <<producerVars, notices, held, schedules, slotVars, jobs, sendPc, poison, faults>>

\* A statement or a publish of the evaluation fails.
EvalFails(r) ==
    /\ evalPc[r] # "idle"
    /\ Fault
    /\ EvalEnds(r)
    /\ UNCHANGED <<producerVars, notices, held, schedules, slotVars, jobs, sendPc, poison>>

\* The stream has stored a job, but its acknowledgement does not arrive.
PublishUnacked(r) ==
    /\ \E x \in evalNow[r] \union (IF evalPc[r] = "redrive" THEN evalLeft[r] ELSE {}) : Publish(x)
    /\ Fault
    /\ EvalEnds(r)
    /\ UNCHANGED <<producerVars, notices, held, schedules, slotVars, sendPc, poison>>

\* The replica stops and starts again.  JetStream delivers what it had not
\* acknowledged once more, behind what other replicas have taken meanwhile.
ReplicaCrashes(r) ==
    /\ Fault
    /\ EvalEnds(r)
    /\ held' = [held EXCEPT ![r] = <<>>]
    /\ notices' = notices \o held[r]
    /\ UNCHANGED <<producerVars, schedules, slotVars, jobs, sendPc, poison>>

\* REDRIVE_MIN_AGE_SECS and REDRIVE_MAX_AGE_SECS pass.
Ages(x) ==
    /\ slot[x] = "claimed"
    /\ \/ age[x] = "fresh" /\ age' = [age EXCEPT ![x] = "stale"]
       \/ age[x] = "stale" /\ age' = [age EXCEPT ![x] = "old"]
    /\ UNCHANGED <<producerVars, notices, held, schedules, slot, evalVars, jobs, sendPc,
                   poison, faults>>

-----------------------------------------------------------------------------
(* The sender: the job at the head of email.send.                          *)

Poison(j) == j.slot[1] \in poison

\* The relay takes the email.
SendEmail ==
    /\ sendPc = "idle"
    /\ jobs # <<>>
    /\ ~Poison(Head(jobs))
    /\ sendPc' = "mark"
    /\ UNCHANGED <<producerVars, notices, held, schedules, slotVars, evalVars, jobs,
                   poison, faults>>

\* mark_sent; its error is ignored.
MarkSent ==
    /\ sendPc = "mark"
    /\ sendPc' = "ack"
    /\ slot' = [slot EXCEPT ![Head(jobs).slot] = "sent"]
    /\ UNCHANGED <<producerVars, notices, held, schedules, age, evalVars, jobs, poison, faults>>

MarkSentFails ==
    /\ sendPc = "mark"
    /\ Fault
    /\ sendPc' = "ack"
    /\ UNCHANGED <<producerVars, notices, held, schedules, slotVars, evalVars, jobs, poison>>

AckJob ==
    /\ sendPc = "ack"
    /\ jobs' = Tail(jobs)
    /\ sendPc' = "idle"
    /\ UNCHANGED <<producerVars, notices, held, schedules, slotVars, evalVars, poison, faults>>

\* SendError::Permanent: acknowledged and dropped.
DropPoison ==
    /\ sendPc = "idle"
    /\ jobs # <<>>
    /\ Poison(Head(jobs))
    /\ jobs' = Tail(jobs)
    /\ UNCHANGED <<producerVars, notices, held, schedules, slotVars, evalVars, sendPc,
                   poison, faults>>

\* A delivery is not acknowledged: again, behind the others, up to max_deliver.
Redelivered ==
    LET j == Head(jobs)
    IN  IF j.deliveries + 1 < MaxDeliver
        THEN Append(Tail(jobs), [slot |-> j.slot, deliveries |-> j.deliveries + 1])
        ELSE Tail(jobs)

\* SendError::Transient, or the sender stops before it has acknowledged.
SenderFails ==
    /\ jobs # <<>>
    /\ Fault
    /\ jobs' = Redelivered
    /\ sendPc' = "idle"
    /\ UNCHANGED <<producerVars, notices, held, schedules, slotVars, evalVars, poison>>

-----------------------------------------------------------------------------
ScanStep == ScanQuery \/ \E c \in NotifyCerts : ScanPublish(c)
ConsumeStep(r) == ApplyNotice(r) \/ AckNotice(r)
EvalStep(r) ==
    \/ \E p \in Periods : ListActive(r, p)
    \/ \E x \in Slots : ClaimWindow(r, x) \/ Redrive(r, x)
    \/ PublishJob(r) \/ ListUnsent(r) \/ EvaluateDone(r)
SendStep == SendEmail \/ MarkSent \/ AckJob \/ DropPoison

NotifyNext ==
    \/ \E c \in NotifyCerts : NotifyRevoke(c)
    \/ ScanStep \/ ScanFails
    \/ \E r \in Replicas : ConsumeStep(r) \/ EvalStep(r) \/ EvalFails(r) \/ PublishUnacked(r)
                          \/ ReplicaCrashes(r)
    \/ \E x \in Slots : Ages(x)
    \/ SendStep \/ MarkSentFails \/ SenderFails

\* Every loop goes on, and a claim that stays unsent becomes stale; nothing
\* makes it old before it is sent.
Stales(x) == age[x] = "fresh" /\ Ages(x)

NotifyFairness ==
    /\ WF_notifyVars(ScanStep)
    /\ \A r \in Replicas : WF_notifyVars(ConsumeStep(r)) /\ WF_notifyVars(EvalStep(r))
    /\ \A x \in Slots : WF_notifyVars(Stales(x))
    /\ WF_notifyVars(SendStep)

NotifySpec == NotifyInit /\ [][NotifyNext]_notifyVars /\ NotifyFairness

-----------------------------------------------------------------------------
(* Properties.                                                             *)

\* A claimed window is not burnt: whatever crashes between the claim, the
\* publish, the delivery and mark_sent, the email is sent in the end, unless
\* it cannot be built, the claim has become too old to re-drive or the
\* schedule was deactivated (evaluate, list_stale_unsent, MAX_DELIVER).
NoticeDelivered ==
    \A x \in Slots :
      (slot[x] = "claimed") ~>
        (slot[x] = "sent" \/ age[x] = "old" \/ x[1] \notin schedules \/ x[1] \in poison)

\* A live certificate about to expire is announced in the end: "The full
\* active set is re-published every scan, so the design is self-healing" (the
\* comment of expiry_producer.rs).
LiveCertNotified ==
    \A c \in NotifyCerts :
      (nCert[c] = "live") ~>
        \/ nCert[c] = "revoked"
        \/ Subject[c] \in poison
        \/ \E p \in Periods : slot[<<Subject[c], p>>] # "free"

\* A window is announced once however many replicas evaluate it: until its
\* claim has become stale, at most one email job for it is in the stream, and
\* none while the replica that claimed it has yet to publish (ON CONFLICT DO
\* NOTHING of try_claim_window, REDRIVE_MIN_AGE_SECS of list_stale_unsent).
NoticeOnce ==
    \A x \in Slots : age[x] = "fresh" =>
      /\ \A i, j \in DOMAIN jobs : jobs[i].slot = x /\ jobs[j].slot = x => i = j
      /\ \A r \in Replicas : x \in evalNow[r] =>
           /\ \A i \in DOMAIN jobs : jobs[i].slot # x
           /\ \A s \in Replicas \ {r} : x \notin evalNow[s]

(* The inductive invariant behind NoticeOnce.                              *)

\* What the rows say is true of the stream: a job is of a claimed window, the
\* sender is at a job of which the email could be built, and no window of an
\* email that cannot be built is recorded as sent.
JobsBacked ==
    /\ \A i \in DOMAIN jobs : slot[jobs[i].slot] # "free"
    /\ sendPc # "idle" => jobs # <<>> /\ ~Poison(Head(jobs))
    /\ \A x \in Slots : slot[x] = "sent" => x[1] \notin poison

\* A replica publishes what it has claimed and re-drives what is stale.
EvaluationsBacked ==
    \A r \in Replicas :
      /\ evalPc[r] # "claim" => evalNow[r] = {}
      /\ \A x \in evalNow[r] : slot[x] # "free"
      /\ evalPc[r] = "redrive" =>
           \A x \in evalLeft[r] : slot[x] # "free" /\ age[x] # "fresh"

NotifyInv == NotifyTypeOK /\ NoticeOnce /\ JobsBacked /\ EvaluationsBacked
=============================================================================
