------------------------------ MODULE AuditLog ------------------------------
(* What the audit log promises its callers, without lock, transactions or  *)
(* hashes: a log that only grows at its end, and answers that are true.    *)
EXTENDS Integers

CONSTANT Calls

VARIABLES
    log,    \* the records persisted: their event and chain timestamp
    told    \* what each call's caller has been told

vars == <<log, told>>

Ids == { x.id : x \in log }

Init ==
    /\ log = {}
    /\ told = [e \in Calls |-> "nothing"]

\* A record is added, later than all others.  It may be added after its
\* caller was left without an answer, never after "not written".
Append(e) ==
    /\ e \notin Ids
    /\ told[e] \in {"nothing", "unknown"}
    /\ \E x \in log' : /\ x.id = e
                       /\ \A y \in log : y.timestamp < x.timestamp
                       /\ log' = log \union {x}
    /\ UNCHANGED told

Tell(e, answer) ==
    /\ told[e] = "nothing"
    /\ answer = "written" => e \in Ids
    /\ answer = "not_written" => e \notin Ids
    /\ told' = [told EXCEPT ![e] = answer]
    /\ UNCHANGED log

Next ==
    \E e \in Calls :
        \/ Append(e)
        \/ \E answer \in {"written", "not_written", "unknown"} : Tell(e, answer)

Spec == Init /\ [][Next]_vars
=============================================================================
