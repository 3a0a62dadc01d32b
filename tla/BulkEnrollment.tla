--------------------------- MODULE BulkEnrollment ---------------------------
(***************************************************************************)
(* Bulk enrolment on top of the approval workflow: bulk_enroll             *)
(* (crates/ostrich-ca/src/rest.rs) over BulkEnrollmentRepository.  One     *)
(* upload becomes a job row, an item row for each entry of the archive and *)
(* a pending issuance request, in the table that Approval keeps, for each  *)
(* entry that is a certificate request.  Nothing is done in a transaction: *)
(* each statement may fail and the server may die between two of them,     *)
(* while the requests already queued are being decided.                    *)
(*                                                                         *)
(* One job: jobs share only the requests, and each request is of one job.  *)
(***************************************************************************)
EXTENDS Approval, Naturals, Sequences, FiniteSets

CONSTANTS
    Archives,   \* what extract_csr_entries may return: sequences of "csr" and "bad"
    NoRequest   \* None of an optional request id

ASSUME ArchivesAssumption == \A a \in Archives : a # << >> /\ a \in Seq({"csr", "bad"})
ASSUME NoRequestAssumption == NoRequest \notin Requests

VARIABLES
    bulkPc,     \* where bulk_enroll is
    entries,    \* the entries of the archive
    bulkAt,     \* the entry the loop is at
    submitter,  \* the authenticated user
    item,       \* the item row about to be stored
    succeeded, failed,  \* the counters of the loop
    job,        \* the row of bulk_enrollment_jobs
    items,      \* the rows of bulk_enrollment_items, in order
    tagged      \* requests whose request_details carry the bulk identifier

bulkVars == <<bulkPc, entries, bulkAt, submitter, item, succeeded, failed, job, items, tagged>>

ItemRows == [index : Nat, status : {"queued"}, request : Requests]
            \union [index : Nat, status : {"failed"}, request : {NoRequest}]
NoItem == [index |-> 0, status |-> "failed", request |-> NoRequest]
BulkWorking == {"entry", "item", "finalize", "give up"}

\* Every variable keeps its type; an item is queued exactly with its request.
BulkTypeOK ==
    /\ bulkPc \in {"idle", "ok", "error"} \union BulkWorking
    /\ entries \in Archives \union {<< >>}
    /\ bulkAt \in Nat
    /\ submitter \in Users
    /\ item \in ItemRows
    /\ succeeded \in Nat /\ failed \in Nat
    /\ job \in [status : {"absent", "processing", "completed", "failed"}, succeeded : Nat, failed : Nat]
    /\ items \in Seq(ItemRows)
    /\ tagged \subseteq Requests

BulkInit ==
    /\ ApprovalInit
    /\ bulkPc = "idle"
    /\ entries = << >>
    /\ bulkAt = 0
    /\ submitter = CHOOSE u \in Users : TRUE
    /\ item = NoItem
    /\ succeeded = 0 /\ failed = 0
    /\ job = [status |-> "absent", succeeded |-> 0, failed |-> 0]
    /\ items = << >>
    /\ tagged = {}

-----------------------------------------------------------------------------
\* The fields and the archive are read and create_job stores the row; an
\* upload that is refused before it leaves nothing.
BulkCreateJob(u, a) ==
    /\ bulkPc = "idle"
    /\ bulkPc' = "entry"
    /\ entries' = a
    /\ bulkAt' = 1
    /\ submitter' = u
    /\ job' = [job EXCEPT !.status = "processing"]
    /\ UNCHANGED <<approvalVars, item, succeeded, failed, items, tagged>>

\* validate_csr_entry refuses the entry.
BulkRejectEntry ==
    /\ bulkPc = "entry"
    /\ entries[bulkAt] = "bad"
    /\ item' = [index |-> bulkAt, status |-> "failed", request |-> NoRequest]
    /\ failed' = failed + 1
    /\ bulkPc' = "item"
    /\ UNCHANGED <<approvalVars, entries, bulkAt, submitter, succeeded, job, items, tagged>>

\* create_request queues an issuance request of the submitter.
BulkQueueEntry(r) ==
    /\ bulkPc = "entry"
    /\ entries[bulkAt] = "csr"
    /\ request[r].requestor = submitter
    /\ request[r].type = "issuance"
    /\ Submit(r)
    /\ tagged' = tagged \union {r}
    /\ item' = [index |-> bulkAt, status |-> "queued", request |-> r]
    /\ succeeded' = succeeded + 1
    /\ bulkPc' = "item"
    /\ UNCHANGED <<entries, bulkAt, submitter, failed, job, items>>

\* After an item the loop takes the next entry or ends.
NextEntry ==
    /\ bulkPc' = IF bulkAt = Len(entries) THEN "finalize" ELSE "entry"
    /\ bulkAt' = bulkAt + 1

BulkCreateItem ==
    /\ bulkPc = "item"
    /\ items' = Append(items, item)
    /\ NextEntry
    /\ UNCHANGED <<approvalVars, entries, submitter, item, succeeded, failed, job, tagged>>

\* create_item fails and the loop goes on with the next entry.
ItemFailsUnseen ==
    /\ bulkPc = "item"
    /\ NextEntry
    /\ UNCHANGED <<approvalVars, entries, submitter, item, succeeded, failed, job, items, tagged>>

\* create_item fails: the job is given up.
BulkItemFails ==
    /\ bulkPc = "item"
    /\ bulkPc' = "give up"
    /\ UNCHANGED <<approvalVars, entries, bulkAt, submitter, item, succeeded, failed, job, items, tagged>>

\* create_request fails: the job is given up.
BulkRequestFails ==
    /\ bulkPc = "entry"
    /\ entries[bulkAt] = "csr"
    /\ bulkPc' = "give up"
    /\ UNCHANGED <<approvalVars, entries, bulkAt, submitter, item, succeeded, failed, job, items, tagged>>

\* finalize_job: the row with its counts, and the answer.
Finalize(status, answer) ==
    /\ job' = [status |-> status, succeeded |-> succeeded, failed |-> failed]
    /\ bulkPc' = answer
    /\ UNCHANGED <<approvalVars, entries, bulkAt, submitter, item, succeeded, failed, items, tagged>>

BulkComplete == bulkPc = "finalize" /\ Finalize("completed", "ok")

BulkGiveUp == bulkPc = "give up" /\ Finalize("failed", "error")

\* finalize_job fails, the client goes away or the server dies.
BulkDropped ==
    /\ bulkPc \in BulkWorking
    /\ bulkPc' = "error"
    /\ UNCHANGED <<approvalVars, entries, bulkAt, submitter, item, succeeded, failed, job, items, tagged>>

-----------------------------------------------------------------------------
BulkStep ==
    \/ \E u \in Users, a \in Archives : BulkCreateJob(u, a)
    \/ BulkRejectEntry
    \/ \E r \in Requests : BulkQueueEntry(r)
    \/ BulkCreateItem
    \/ BulkItemFails
    \/ BulkRequestFails
    \/ BulkComplete
    \/ BulkGiveUp
    \/ BulkDropped

\* Uploads, single submissions and decisions go on side by side.
BulkNext ==
    \/ ApprovalNext /\ UNCHANGED bulkVars
    \/ BulkStep

BulkSpec == BulkInit /\ [][BulkNext]_<<approvalVars, bulkVars>>

-----------------------------------------------------------------------------
(* Properties.                                                             *)

Queued == { i \in 1..Len(items) : items[i].status = "queued" }
ItemRequests == { items[i].request : i \in Queued }

\* What the submitter is shown of a job is what happened to the archive: the
\* items are a prefix of the entries, each queued one links to a request of
\* its own that the submitter made (FDP_CER_EXT.2); a completed job has an
\* item for every entry, counts them rightly and has queued nothing else; one
\* that did not complete has queued at most one request that no item shows.
JobHonest ==
    /\ \A i \in 1..Len(items) :
          /\ items[i].index = i
          /\ entries[i] = "csr" <=> i \in Queued
    /\ Cardinality(ItemRequests) = Cardinality(Queued)
    /\ ItemRequests \subseteq tagged
    /\ \A r \in tagged : /\ request[r].status # "absent"
                         /\ request[r].requestor = submitter
    /\ Cardinality(tagged \ ItemRequests) <= IF job.status = "completed" THEN 0 ELSE 1
    /\ job.status = "completed" =>
          /\ Len(items) = Len(entries)
          /\ job.succeeded = Cardinality(Queued)
          /\ job.failed = Len(items) - job.succeeded

-----------------------------------------------------------------------------
(* The inductive invariant.                                                *)

\* Requests of the upload that no item shows.
Unlisted == tagged \ ItemRequests

\* The loop is at the entry after the last item, and the item it is about to
\* store is what became of that entry.
LoopInv ==
    /\ bulkPc = "idle" => entries = << >>
    /\ Len(items) <= Len(entries)
    /\ bulkPc \in {"entry", "item"} => bulkAt = Len(items) + 1 /\ bulkAt <= Len(entries)
    /\ bulkPc = "item" => /\ item.index = bulkAt
                          /\ entries[bulkAt] = "csr" <=> item.status = "queued"
    /\ bulkPc = "finalize" => Len(items) = Len(entries)
    /\ job.status = "completed" => bulkPc = "ok"

\* While the loop runs its counters count the items stored and the one at hand.
CountInv ==
    /\ bulkPc \in {"idle", "entry", "finalize"} =>
         succeeded = Cardinality(Queued) /\ succeeded + failed = Len(items)
    /\ bulkPc = "item" =>
         /\ succeeded = Cardinality(Queued) + (IF item.status = "queued" THEN 1 ELSE 0)
         /\ succeeded + failed = Len(items) + 1

\* Only the request of the item at hand is not listed yet, and an upload that
\* ended there leaves it so.
TagInv ==
    /\ IsFiniteSet(tagged)
    /\ bulkPc \in {"idle", "entry", "finalize", "ok"} => Unlisted = {}
    /\ bulkPc = "item" => Unlisted = IF item.status = "queued" THEN {item.request} ELSE {}
    /\ \E r \in Requests : Unlisted \subseteq {r}

\* What makes JobHonest inductive, with the approval workflow underneath.
BulkInv == ApprovalInv /\ BulkTypeOK /\ LoopInv /\ CountInv /\ TagInv /\ JobHonest
=============================================================================
