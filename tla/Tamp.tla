-------------------------------- MODULE Tamp --------------------------------
(***************************************************************************)
(* The TAMP manager (crates/ostrich-tamp/src/manager.rs) over the store of *)
(* one target (ostrich-db/src/repository/tamp.rs, migrations 00014 and     *)
(* 00015): outbound messages numbered, signed and applied to the store,    *)
(* inbound ones checked for replay against the last number of their        *)
(* signer.                                                                 *)
(*                                                                         *)
(* Keys stand for SPKIs.  What a trust anchor holds besides its key, and   *)
(* the audit events, are left out.  A number above 2^63-1 is refused by    *)
(* seq_to_i64 before it reaches the table; MaxSeqNo bounds the model.      *)
(***************************************************************************)
EXTENDS Integers, Sequences

CONSTANTS
    TampSigners,    \* subjectKeyIdentifiers of the target's signers
    Ingests,        \* inbound messages that may be in flight
    Issues,         \* outbound messages that may be in flight
    TampKeys, Communities,
    TampEdits,      \* lists of trust anchor edits, records [op, key]
    MaxSeqNo,       \* bound: numbers of messages
    NoTamp          \* no handler, no signer, no key

ASSUME TampAssumption ==
    /\ NoTamp \notin Ingests \union TampSigners \union TampKeys
    /\ MaxSeqNo \in Nat
    /\ TampEdits \subseteq Seq([op : {"add", "remove", "change"}, key : TampKeys])

VARIABLES
    signerKnown,    \* tamp_target_signers
    lastSeq,        \* tamp_sequence_numbers of the target's signers, -1: no row
    seqOwner,       \* the transaction that holds such a row
    inPc, inSigner, inSeq,      \* each inbound message
    ownSeq,         \* tamp_sequence_numbers of the manager's own key
    anchors, apex,  \* tamp_trust_anchors: not apex, and the apex
    communities,    \* tamp_communities
    outPc, outMsg, outPos, outSeq,  \* each outbound message
    accepted,       \* history: the numbers accepted from each signer, in order
    emitted         \* history: the numbers of the messages handed out

inVars == <<signerKnown, lastSeq, seqOwner, inPc, inSigner, inSeq, accepted>>
storeVarsT == <<anchors, apex, communities>>
outVars == <<ownSeq, storeVarsT, outPc, outMsg, outPos, outSeq, emitted>>
tampVars == <<inVars, outVars>>

\* An outbound message: a query or an adjustment, edits of trust anchors or of
\* communities, or a new apex that may clear both.
OutMessages ==
    [kind : {"query", "adjust"}]
    \union [kind : {"update"}, edits : TampEdits]
    \union [kind : {"community"}, leave : SUBSET Communities, join : SUBSET Communities]
    \union [kind : {"apex"}, key : TampKeys, clearAnchors : BOOLEAN,
            clearCommunities : BOOLEAN]

NoMessage == [kind |-> "none"]

SeqNos == 0..MaxSeqNo

TampTypeOK ==
    /\ signerKnown \subseteq TampSigners
    /\ lastSeq \in [TampSigners -> SeqNos \union {-1}]
    /\ seqOwner \in [TampSigners -> Ingests \union {NoTamp}]
    /\ inPc \in [Ingests -> {"idle", "check", "update", "insert", "log"}]
    /\ inSigner \in [Ingests -> TampSigners \union {NoTamp}]
    /\ inSeq \in [Ingests -> SeqNos]
    /\ ownSeq \in SeqNos
    /\ anchors \subseteq TampKeys
    /\ apex \in TampKeys \union {NoTamp}
    /\ communities \subseteq Communities
    /\ outPc \in [Issues -> {"idle", "edits", "number", "sign", "apply", "finalize"}]
    /\ outMsg \in [Issues -> OutMessages \union {NoMessage}]
    /\ outPos \in [Issues -> Nat]
    /\ outSeq \in [Issues -> SeqNos]
    /\ accepted \in [TampSigners -> Seq(SeqNos)]
    /\ emitted \subseteq SeqNos

TampInit ==
    /\ signerKnown = {}
    /\ lastSeq = [s \in TampSigners |-> -1]
    /\ seqOwner = [s \in TampSigners |-> NoTamp]
    /\ inPc = [i \in Ingests |-> "idle"]
    /\ inSigner = [i \in Ingests |-> NoTamp]
    /\ inSeq = [i \in Ingests |-> 0]
    /\ ownSeq = 0
    /\ anchors = {}
    /\ apex = NoTamp
    /\ communities = {}
    /\ outPc = [o \in Issues |-> "idle"]
    /\ outMsg = [o \in Issues |-> NoMessage]
    /\ outPos = [o \in Issues |-> 0]
    /\ outSeq = [o \in Issues |-> 0]
    /\ accepted = [s \in TampSigners |-> <<>>]
    /\ emitted = {}

-----------------------------------------------------------------------------
(* Inbound messages (ingest, check_and_advance_seq).                       *)

\* register_target_signer.
RegisterSigner(s) ==
    /\ signerKnown' = signerKnown \union {s}
    /\ UNCHANGED <<lastSeq, seqOwner, inPc, inSigner, inSeq, accepted, outVars>>

InAt(i, p) == inPc' = [inPc EXCEPT ![i] = p]

IngestEnds(i) ==
    /\ InAt(i, "idle")
    /\ inSigner' = [inSigner EXCEPT ![i] = NoTamp]
    /\ inSeq' = [inSeq EXCEPT ![i] = 0]

\* find_target_signer_spki, verify and decode_inbound.
IngestNumbered(i, s, n) ==
    /\ inPc[i] = "idle"
    /\ s \in signerKnown
    /\ InAt(i, "check")
    /\ inSigner' = [inSigner EXCEPT ![i] = s]
    /\ inSeq' = [inSeq EXCEPT ![i] = n]
    /\ UNCHANGED <<signerKnown, lastSeq, seqOwner, accepted, outVars>>

\* An error message need not carry a number: it is logged unchecked.
IngestUnnumbered(i, s) ==
    /\ inPc[i] = "idle"
    /\ s \in signerKnown
    /\ InAt(i, "log")
    /\ UNCHANGED <<signerKnown, lastSeq, seqOwner, inSigner, inSeq, accepted, outVars>>

\* SELECT ... FOR UPDATE: a replay rolls back; a row that exists is locked.
LockSeq(i) ==
    /\ inPc[i] = "check"
    /\ seqOwner[inSigner[i]] = NoTamp
    /\ \/ /\ inSeq[i] <= lastSeq[inSigner[i]]
          /\ IngestEnds(i)
          /\ UNCHANGED seqOwner
       \/ /\ lastSeq[inSigner[i]] # -1
          /\ inSeq[i] > lastSeq[inSigner[i]]
          /\ InAt(i, "update")
          /\ seqOwner' = [seqOwner EXCEPT ![inSigner[i]] = i]
          /\ UNCHANGED <<inSigner, inSeq>>
       \/ /\ lastSeq[inSigner[i]] = -1
          /\ InAt(i, "insert")
          /\ UNCHANGED <<seqOwner, inSigner, inSeq>>
    /\ UNCHANGED <<signerKnown, lastSeq, accepted, outVars>>

Accept(i) ==
    /\ lastSeq' = [lastSeq EXCEPT ![inSigner[i]] = inSeq[i]]
    /\ accepted' = [accepted EXCEPT ![inSigner[i]] = Append(@, inSeq[i])]
    /\ InAt(i, "log")

\* UPDATE and commit.
UpdateSeq(i) ==
    /\ inPc[i] = "update"
    /\ Accept(i)
    /\ seqOwner' = [seqOwner EXCEPT ![inSigner[i]] = NoTamp]
    /\ UNCHANGED <<signerKnown, inSigner, inSeq, outVars>>

\* The insertion replaces a row that came in between.
insert_or_replace(i) ==
    /\ inPc[i] = "insert"
    /\ seqOwner[inSigner[i]] = NoTamp
    /\ Accept(i)
    /\ UNCHANGED <<signerKnown, seqOwner, inSigner, inSeq, outVars>>

\* INSERT and commit: UNIQUE (target_id, signer_key_id) refuses a second row.
InsertSeq(i) ==
    /\ inPc[i] = "insert"
    /\ lastSeq[inSigner[i]] = -1
    /\ Accept(i)
    /\ UNCHANGED <<signerKnown, seqOwner, inSigner, inSeq, outVars>>

\* log_message, and the answer.
LogInbound(i) ==
    /\ inPc[i] = "log"
    /\ IngestEnds(i)
    /\ UNCHANGED <<signerKnown, lastSeq, seqOwner, accepted, outVars>>

\* A statement fails, the INSERT of a row that exists included, or the request
\* is dropped: the transaction is rolled back.
IngestFails(i) ==
    /\ inPc[i] \in {"check", "update", "insert"}
    /\ IngestEnds(i)
    /\ seqOwner' = [s \in TampSigners |-> IF seqOwner[s] = i THEN NoTamp ELSE seqOwner[s]]
    /\ UNCHANGED <<signerKnown, lastSeq, accepted, outVars>>

-----------------------------------------------------------------------------
(* Outbound messages.                                                      *)

OutAt(o, p) == outPc' = [outPc EXCEPT ![o] = p]

IssueEnds(o) ==
    /\ OutAt(o, "idle")
    /\ outMsg' = [outMsg EXCEPT ![o] = NoMessage]
    /\ outPos' = [outPos EXCEPT ![o] = 0]
    /\ outSeq' = [outSeq EXCEPT ![o] = 0]

\* The start of the five issue_ operations: a community update needs a change.
IssueMessage(o, m) ==
    /\ outPc[o] = "idle"
    /\ m.kind = "community" => m.leave \union m.join # {}
    /\ m.kind = "update" => m.edits # <<>>
    /\ OutAt(o, IF m.kind = "update" THEN "edits" ELSE "number")
    /\ outMsg' = [outMsg EXCEPT ![o] = m]
    /\ outPos' = [outPos EXCEPT ![o] = IF m.kind = "update" THEN 1 ELSE 0]
    /\ UNCHANGED <<ownSeq, storeVarsT, outSeq, emitted, inVars>>

\* trust_anchor_exists of each edit in turn: no re-addition, no change of an
\* anchor that is not there.
CheckEdit(o) ==
    LET e == outMsg[o].edits[outPos[o]]
        exists == e.key \in anchors \union {apex}
    IN  /\ outPc[o] = "edits"
        /\ \/ /\ (e.op = "add" /\ exists) \/ (e.op = "change" /\ ~exists)
              /\ IssueEnds(o)
           \/ /\ (e.op = "add" => ~exists) /\ (e.op = "change" => exists)
              /\ IF outPos[o] = Len(outMsg[o].edits)
                 THEN OutAt(o, "number") /\ outPos' = [outPos EXCEPT ![o] = 0]
                 ELSE outPos' = [outPos EXCEPT ![o] = @ + 1] /\ UNCHANGED outPc
              /\ UNCHANGED <<outMsg, outSeq>>
        /\ UNCHANGED <<ownSeq, storeVarsT, emitted, inVars>>

\* allocate_next_seq: one upsert.
AllocateSeq(o) ==
    /\ outPc[o] = "number"
    /\ ownSeq < MaxSeqNo
    /\ ownSeq' = ownSeq + 1
    /\ outSeq' = [outSeq EXCEPT ![o] = ownSeq + 1]
    /\ OutAt(o, "sign")
    /\ UNCHANGED <<storeVarsT, outMsg, outPos, emitted, inVars>>

\* sign_outbound: queries and adjustments write nothing to the store.
SignOutbound(o) ==
    /\ outPc[o] = "sign"
    /\ OutAt(o, IF outMsg[o].kind \in {"query", "adjust"} THEN "finalize" ELSE "apply")
    /\ UNCHANGED <<ownSeq, storeVarsT, outMsg, outPos, outSeq, emitted, inVars>>

\* apply_one_write on the anchors as far as the transaction has come.  An
\* INSERT of a key that is there fails the transaction; DELETE and UPDATE take
\* the row whether or not it is the apex.
Write(st, e) ==
    CASE e.op = "add" ->
            [st EXCEPT !.anchors = @ \union {e.key},
                       !.ok = @ /\ e.key \notin st.anchors \union {st.apex}]
      [] e.op = "remove" ->
            [st EXCEPT !.anchors = @ \ {e.key}, !.apex = IF @ = e.key THEN NoTamp ELSE @]
      [] e.op = "change" -> st

\* apply_trust_anchor_writes.
Written(edits) ==
    LET after[n \in 0..Len(edits)] ==
          IF n = 0 THEN [anchors |-> anchors, apex |-> apex, ok |-> TRUE]
          ELSE Write(after[n - 1], edits[n])
    IN  after[Len(edits)]

ApplyWrites(o) ==
    /\ outPc[o] = "apply" /\ outMsg[o].kind = "update"
    /\ LET st == Written(outMsg[o].edits)
       IN  st.ok /\ anchors' = st.anchors /\ apex' = st.apex
    /\ OutAt(o, "finalize")
    /\ UNCHANGED <<ownSeq, communities, outMsg, outPos, outSeq, emitted, inVars>>

\* apply_community_update: remove, then add.
ApplyCommunities(o) ==
    /\ outPc[o] = "apply" /\ outMsg[o].kind = "community"
    /\ communities' = (communities \ outMsg[o].leave) \union outMsg[o].join
    /\ OutAt(o, "finalize")
    /\ UNCHANGED <<ownSeq, anchors, apex, outMsg, outPos, outSeq, emitted, inVars>>

\* apply_apex_update deletes only a row of the same key: the one-apex index
\* refuses a new key while another apex is there.
ApplyApex(o) ==
    /\ outPc[o] = "apply" /\ outMsg[o].kind = "apex"
    /\ apex \in {NoTamp, outMsg[o].key}
    /\ apex' = outMsg[o].key
    /\ anchors' = IF outMsg[o].clearAnchors THEN {} ELSE anchors \ {outMsg[o].key}
    /\ communities' = IF outMsg[o].clearCommunities THEN {} ELSE communities
    /\ OutAt(o, "finalize")
    /\ UNCHANGED <<ownSeq, outMsg, outPos, outSeq, emitted, inVars>>

\* finalize: log_message is best effort, the message is handed out.
Finalize(o) ==
    /\ outPc[o] = "finalize"
    /\ emitted' = emitted \union {outSeq[o]}
    /\ IssueEnds(o)
    /\ UNCHANGED <<ownSeq, storeVarsT, inVars>>

\* A read, the number, the signature or the store transaction fails.
IssueFailsTamp(o) ==
    /\ outPc[o] \in {"edits", "number", "sign", "apply", "finalize"}
    /\ IssueEnds(o)
    /\ UNCHANGED <<ownSeq, storeVarsT, emitted, inVars>>

-----------------------------------------------------------------------------
TampInNext ==
    \/ \E s \in TampSigners : RegisterSigner(s)
    \/ \E i \in Ingests, s \in TampSigners :
          \/ \E n \in SeqNos : IngestNumbered(i, s, n)
          \/ IngestUnnumbered(i, s)
    \/ \E i \in Ingests :
          \/ LockSeq(i) \/ UpdateSeq(i) \/ InsertSeq(i) \/ LogInbound(i) \/ IngestFails(i)

TampOutNext ==
    \/ \E o \in Issues, m \in OutMessages : IssueMessage(o, m)
    \/ \E o \in Issues :
          \/ CheckEdit(o) \/ AllocateSeq(o) \/ SignOutbound(o) \/ ApplyWrites(o)
          \/ ApplyCommunities(o) \/ ApplyApex(o) \/ Finalize(o) \/ IssueFailsTamp(o)

TampNext == TampInNext \/ TampOutNext

TampSpec == TampInit /\ [][TampNext]_tampVars

-----------------------------------------------------------------------------
(* Properties.                                                             *)

\* Replay protection in both directions: the numbers accepted from a signer
\* strictly increase, although its first messages find no row to lock and race
\* to insert it (check_and_advance_seq), and no two outbound messages carry
\* one number (allocate_next_seq).
TampSequences ==
    /\ \A s \in TampSigners : \A m, n \in 1..Len(accepted[s]) :
          m < n => accepted[s][m] < accepted[s][n]
    /\ \A o \in Issues : outPc[o] \in {"sign", "apply", "finalize"} =>
          /\ outSeq[o] \notin emitted
          /\ \A p \in Issues \ {o} :
                outPc[p] \in {"sign", "apply", "finalize"} => outSeq[p] # outSeq[o]

-----------------------------------------------------------------------------
(* The inductive invariant.  What the store of trust anchors holds does    *)
(* not matter to it, so it leaves their types out.                         *)

SeqTypeOK ==
    /\ signerKnown \subseteq TampSigners
    /\ lastSeq \in [TampSigners -> SeqNos \union {-1}]
    /\ seqOwner \in [TampSigners -> Ingests \union {NoTamp}]
    /\ inPc \in [Ingests -> {"idle", "check", "update", "insert", "log"}]
    /\ inSigner \in [Ingests -> TampSigners \union {NoTamp}]
    /\ inSeq \in [Ingests -> SeqNos]
    /\ ownSeq \in SeqNos
    /\ outPc \in [Issues -> {"idle", "edits", "number", "sign", "apply", "finalize"}]
    /\ outSeq \in [Issues -> SeqNos]
    /\ accepted \in [TampSigners -> Seq(SeqNos)]
    /\ emitted \subseteq SeqNos

\* A message being checked has a signer; one about to update owns the row of
\* its signer, which is there and below its number; and nobody else owns one.
IngestInv ==
    /\ \A i \in Ingests :
         /\ inPc[i] \in {"check", "update", "insert"} => inSigner[i] \in TampSigners
         /\ inPc[i] = "update" =>
              /\ seqOwner[inSigner[i]] = i
              /\ lastSeq[inSigner[i]] # -1
              /\ lastSeq[inSigner[i]] < inSeq[i]
    /\ \A s \in TampSigners : \A i \in Ingests :
         seqOwner[s] = i => inPc[i] = "update" /\ inSigner[i] = s

\* The stored number bounds the accepted ones, and the manager's own number
\* those that are handed out or about to be.
BoundInv ==
    /\ \A s \in TampSigners : \A n \in 1..Len(accepted[s]) : accepted[s][n] <= lastSeq[s]
    /\ \A n \in emitted : n <= ownSeq
    /\ \A o \in Issues : outPc[o] \in {"sign", "apply", "finalize"} => outSeq[o] <= ownSeq

TampInv == SeqTypeOK /\ IngestInv /\ BoundInv /\ TampSequences
=============================================================================
