-------------------------- MODULE AuditChainProofs --------------------------
(* Proofs about AuditChain.  The inductive invariant IInv is preserved by   *)
(* every step; the chain grows only in ServerCommits, where the lock makes  *)
(* the head that the event was linked to still the head of the chain.       *)
EXTENDS AuditChain, TLAPS, WellFoundedInduction

-----------------------------------------------------------------------------
(* Facts about tables.                                                      *)

\* A row linked to the head of a verified table and later than it extends
\* the table to a verified table (AuditAppendTx::commit's two checks).
LEMMA AppendKeepsChain ==
    ASSUME NEW table, \A r \in table : r.timestamp \in Nat,
           NEW n, n.timestamp \in Nat,
           NEW h \in Heads(table),
           n.previous_hash = h.event_hash,
           n.timestamp > h.timestamp,
           n.event_hash = ComputeHash(n),
           VerifyChain(table)
    PROVE  /\ VerifyChain(table \union {n})
           /\ \A r \in table : r.timestamp < n.timestamp
<1>1. \A r \in table : r.timestamp < n.timestamp
  <2>1. CASE table = {}
    BY <2>1
  <2>2. CASE table # {}
    <3>1. PICK m \in table : /\ \A s \in table : s.timestamp <= m.timestamp
                             /\ h = [event_hash |-> m.event_hash, timestamp |-> m.timestamp]
      BY <2>2 DEF Heads
    <3>2. QED
      BY <3>1
  <2>3. QED
    BY <2>1, <2>2
<1>2. \A r \in table : Earlier(table \union {n}, r) = Earlier(table, r)
  BY <1>1 DEF Earlier
<1>3. Earlier(table \union {n}, n) = table
  BY <1>1 DEF Earlier
<1>4. LinksBack(table \union {n}, n)
  <2>1. CASE table = {}
    BY <2>1, <1>3 DEF LinksBack, Heads, NoHead
  <2>2. CASE table # {}
    <3>1. PICK m \in table : /\ \A s \in table : s.timestamp <= m.timestamp
                             /\ h = [event_hash |-> m.event_hash, timestamp |-> m.timestamp]
      BY <2>2 DEF Heads
    <3>2. QED
      BY <2>2, <3>1, <1>3 DEF LinksBack
  <2>3. QED
    BY <2>1, <2>2
<1>5. \A r \in table : LinksBack(table \union {n}, r)
  BY <1>2 DEF VerifyChain, LinksBack
<1>6. QED
  BY <1>1, <1>4, <1>5 DEF VerifyChain

\* Among the rows later than r there is an earliest.
LEMMA EarliestLater ==
    ASSUME NEW table, \A q \in table : q.timestamp \in Nat,
           NEW r \in table, NEW t \in table, r.timestamp < t.timestamp
    PROVE  \E s \in table : /\ r.timestamp < s.timestamp
                            /\ \A q \in table : r.timestamp < q.timestamp
                                                => s.timestamp <= q.timestamp
<1> DEFINE later == { q \in table : r.timestamp < q.timestamp }
           times == { q.timestamp : q \in later }
           less == { ss \in Nat \X Nat : ss[1] < ss[2] }
<1>1. times \subseteq Nat /\ times # {}
  OBVIOUS
<1>2. IsWellFoundedOn(less, Nat)
  BY Zenon, NatLessThanWellFounded DEF OpToRel
<1>3. \A x, y \in Nat : <<y, x>> \in less <=> y < x
  OBVIOUS
<1>4. \E m \in times : \A y \in times : m <= y
  <2> HIDE DEF times, less
  <2>1. PICK m \in times : \A y \in times : ~ (<<y, m>> \in less)
    BY <1>1, <1>2, WFMin
  <2>2. \A y \in times : ~ (y < m)
    BY Zenon, <1>1, <1>3, <2>1
  <2>3. QED
    BY <1>1, <2>2
<1>5. QED
  BY <1>4

\* A verified table from which a row other than the newest is missing does
\* not verify: its successor's link dangles.
LEMMA MissingRowDetected ==
    ASSUME NEW table, \A q \in table : q.timestamp \in Nat,
           \A q, s \in table : q.timestamp = s.timestamp => q = s,
           VerifyChain(table),
           NEW r \in table, NEW t \in table, r.timestamp < t.timestamp
    PROVE  ~ VerifyChain(table \ {r})
<1>1. PICK s \in table : /\ r.timestamp < s.timestamp
                         /\ \A q \in table : r.timestamp < q.timestamp
                                             => s.timestamp <= q.timestamp
  BY EarliestLater
<1>2. r \in Earlier(table, s)
  BY <1>1 DEF Earlier
<1>3. \A q \in Earlier(table, s) : q.timestamp <= r.timestamp
  BY <1>1 DEF Earlier
<1>4. s.previous_hash = r.event_hash
  <2>1. PICK p \in Earlier(table, s) :
               /\ \A q \in Earlier(table, s) : q.timestamp <= p.timestamp
               /\ s.previous_hash = p.event_hash
    BY <1>2 DEF VerifyChain, LinksBack
  <2>2. p = r
    BY <1>2, <1>3, <2>1 DEF Earlier
  <2>3. QED
    BY <2>1, <2>2
<1>5. r.event_hash = ComputeHash(r)
  BY DEF VerifyChain
<1>6. SUFFICES ASSUME VerifyChain(table \ {r}) PROVE FALSE
  OBVIOUS
<1>7. s \in table \ {r}
  BY <1>1
<1>8. CASE Earlier(table \ {r}, s) = {}
  <2>1. s.previous_hash = NoHash
    BY <1>6, <1>7, <1>8 DEF VerifyChain, LinksBack
  <2>2. ComputeHash(r) # NoHash
    BY Zenon DEF NoHash, ComputeHash, Digest
  <2>3. QED
    BY <2>1, <2>2, <1>4, <1>5
<1>9. CASE Earlier(table \ {r}, s) # {}
  <2>1. PICK p \in Earlier(table \ {r}, s) : s.previous_hash = p.event_hash
    BY <1>6, <1>7, <1>9 DEF VerifyChain, LinksBack
  <2>2. p \in table /\ p # r /\ p.event_hash = ComputeHash(p)
    BY <2>1 DEF Earlier, VerifyChain
  <2>3. p.timestamp = r.timestamp
    BY <2>1, <2>2, <1>4, <1>5 DEF ComputeHash, Digest
  <2>4. QED
    BY <2>2, <2>3
<1>10. QED
  BY <1>8, <1>9

-----------------------------------------------------------------------------
(* Preservation of the inductive invariant, action by action.              *)

\* The initial state satisfies the invariant: the log is empty.
LEMMA InitIInv == Init => IInv
<1> SUFFICES ASSUME Init PROVE IInv
  OBVIOUS
<1>1. TypeOK
  BY DEF Init, TypeOK, IsEvent, NewEvent, IsHeadRecord, NoHead, NoTime, PCs, SessionStates, Replies
<1>2. LockInv /\ ProgressInv /\ HeadInv /\ EventInv
  BY DEF Init, LockInv, ProgressInv, HeadInv, EventInv, Holding, NewEvent
<1>3. RowsInv /\ TimestampsDistinct /\ VerifyChain(rows)
  BY DEF Init, RowsInv, TimestampsDistinct, VerifyChain
<1>4. QED
  BY <1>1, <1>2, <1>3 DEF IInv

\* A step in which a call merely reports to its caller.
LEMMA ReturnKeepsIInv ==
    ASSUME IInv, NEW e \in Calls, NEW r \in Replies,
           pc[e] \notin {"new", "done"},
           r = "ok" => sess[e] = "committed",
           r = "failed" => sess[e] \notin {"committing", "committed"},
           Return(e, r), UNCHANGED <<rows, input, ev, head, sess>>
    PROVE  IInv'
<1>1. TypeOK'
  BY DEF IInv, TypeOK, Return, PCs
<1>2. LockInv' /\ RowsInv' /\ TimestampsDistinct' /\ VerifyChain(rows)'
  BY DEF IInv, LockInv, RowsInv, TimestampsDistinct, Return
<1>3. ProgressInv'
  BY DEF IInv, TypeOK, ProgressInv, Return
<1>4. HeadInv'
  BY DEF IInv, TypeOK, HeadInv, Return
<1>5. EventInv'
  BY DEF IInv, TypeOK, EventInv, Return
<1>6. QED
  BY <1>1, <1>2, <1>3, <1>4, <1>5 DEF IInv

\* record() is called and begin_append opens its transaction.
LEMMA CallRecordKeepsIInv ==
    ASSUME IInv, NEW e \in Calls, NEW t \in Times, NEW c \in CallerTimes,
           NEW s \in SignerConfigs, CallRecord(e, t, c, s)
    PROVE  IInv'
<1> USE DEF CallRecord
<1>0. t \in Nat /\ c \in Nat \union {NoTime} /\ s \in BOOLEAN
  BY TimesAssumption, CallerTimesAssumption, SignerConfigsAssumption
<1>a. IsEvent(ev'[e]) /\ ev'[e].id = e /\ ev'[e].signature = NoHash
  <2>1. ev[e].id = e /\ ev[e].signature = NoHash /\ ev'[e] = NewEvent(e, t, c)
    BY DEF IInv, TypeOK, EventInv
  <2>2. QED
    BY <1>0, <2>1 DEF IsEvent, NewEvent
<1>b. \A f \in Calls : f # e => /\ ev'[f] = ev[f] /\ pc'[f] = pc[f]
                                /\ sess'[f] = sess[f] /\ input'[f] = input[f]
  BY DEF IInv, TypeOK
<1>1. TypeOK'
  <2>1. /\ input' \in [Calls -> [kind : {"record", "append"}, signer : BOOLEAN, created : Nat]]
        /\ pc' \in [Calls -> PCs] /\ sess' \in [Calls -> SessionStates]
    BY <1>0 DEF IInv, TypeOK, PCs, SessionStates
  <2>2. ev' = [f \in Calls |-> ev'[f]] /\ \A f \in Calls : IsEvent(ev'[f])
    BY <1>a, <1>b DEF IInv, TypeOK
  <2>3. QED
    BY <2>1, <2>2 DEF IInv, TypeOK
<1>2. LockInv' /\ TimestampsDistinct' /\ VerifyChain(rows)'
  BY DEF IInv, TypeOK, LockInv, TimestampsDistinct, Holding
<1>3. ProgressInv'
  BY DEF IInv, TypeOK, ProgressInv
<1>4. HeadInv'
  BY DEF IInv, TypeOK, HeadInv, Holding
<1>5. EventInv'
  <2>1. pc[e] = "new" /\ pc'[e] = "begin" /\ sess'[e] = "open" /\ input'[e].kind = "record"
    BY DEF IInv, TypeOK
  <2>2. EventInv
    BY DEF IInv
  <2>3. SUFFICES ASSUME NEW f \in Calls PROVE EventInv!(f)'
    BY DEF EventInv
  <2>4. CASE f = e
    BY <2>1, <2>2, <2>4, <1>a DEF EventInv
  <2>5. CASE f # e
    BY <2>2, <2>5, <1>b DEF EventInv, ComputeHash
  <2>6. QED
    BY <2>4, <2>5
<1>6. RowsInv'
  <2>1. \A q \in rows : q.id \in Calls /\ q.id # e
    BY DEF IInv, TypeOK, IsEvent, RowsInv, ProgressInv
  <2>2. QED
    BY <2>1 DEF IInv, TypeOK, RowsInv
<1>7. QED
  BY <1>1, <1>2, <1>3, <1>4, <1>5, <1>6 DEF IInv

\* append() is called with an event linked to a head that may be stale.
LEMMA CallAppendKeepsIInv ==
    ASSUME IInv, NEW e \in Calls, NEW t \in Times, CallAppend(e, t)
    PROVE  IInv'
<1>0. t \in Nat
  BY TimesAssumption
<1>p. PICK h \in Heads(rows) :
         ev' = [ev EXCEPT ![e] = HashedEvent(e, t, NoTime, NoTime, h.event_hash)]
  BY DEF CallAppend
<1>1. /\ IsEvent(ev'[e]) /\ ev'[e].id = e /\ ev'[e].signature = NoHash
      /\ ev'[e].event_hash = ComputeHash(ev'[e])
  <2>1. ev'[e] = HashedEvent(e, t, NoTime, NoTime, h.event_hash)
    BY <1>p DEF IInv, TypeOK
  <2>2. QED
    BY <1>0, <2>1 DEF IsEvent, HashedEvent, ComputeHash
<1>2. \A f \in Calls : f # e => /\ ev'[f] = ev[f] /\ pc'[f] = pc[f]
                                /\ sess'[f] = sess[f] /\ input'[f] = input[f]
  BY <1>p DEF IInv, TypeOK, CallAppend
<1>3. pc'[e] = "begin" /\ sess'[e] = "open" /\ pc[e] = "new" /\ UNCHANGED <<rows, head, reply>>
  BY DEF IInv, TypeOK, CallAppend
<1>4. TypeOK'
  <2>1. /\ input' \in [Calls -> [kind : {"record", "append"}, signer : BOOLEAN, created : Nat]]
        /\ pc' \in [Calls -> PCs] /\ sess' \in [Calls -> SessionStates]
    BY <1>0 DEF IInv, TypeOK, CallAppend, PCs, SessionStates
  <2>2. ev' = [f \in Calls |-> ev'[f]] /\ \A f \in Calls : IsEvent(ev'[f])
    BY <1>p, <1>1, <1>2 DEF IInv, TypeOK
  <2>3. QED
    BY <2>1, <2>2, <1>3 DEF IInv, TypeOK
<1>5. LockInv' /\ TimestampsDistinct' /\ VerifyChain(rows)'
  BY <1>2, <1>3 DEF IInv, LockInv, TimestampsDistinct, Holding
<1>6. ProgressInv'
  BY <1>2, <1>3 DEF IInv, ProgressInv
<1>7. HeadInv'
  BY <1>2, <1>3 DEF IInv, HeadInv, Holding
<1>8. EventInv'
  BY <1>1, <1>2, <1>3 DEF IInv, EventInv
<1>9. RowsInv'
  <2>1. \A q \in rows : q.id \in Calls /\ q.id # e
    BY <1>3 DEF IInv, TypeOK, IsEvent, RowsInv, ProgressInv
  <2>2. QED
    BY <2>1, <1>2, <1>3 DEF IInv, RowsInv
<1>10. QED
  BY <1>4, <1>5, <1>6, <1>7, <1>8, <1>9 DEF IInv

\* Linking yields an event later than the head that links to it.
LEMMA LinkFacts ==
    ASSUME NEW v, IsEvent(v), NEW h, IsHeadRecord(h)
    PROVE  LET w == Link(v, h) IN
           /\ IsEvent(w) /\ w.id = v.id /\ w.signature = NoHash
           /\ w.previous_hash = h.event_hash
           /\ w.timestamp > h.timestamp
           /\ w.event_hash = ComputeHash(w)
<1> DEFINE ts == ChainTimestamp(v.timestamp, h.timestamp)
           occurred == IF ts # v.timestamp THEN v.timestamp ELSE NoTime
           caller == IF v.occurred_at = occurred THEN NoTime ELSE v.occurred_at
<1>1. ts \in Nat /\ ts > h.timestamp
  BY DEF ChainTimestamp, IsEvent, IsHeadRecord, NoTime
<1>2. occurred \in Nat \union {NoTime} /\ caller \in Nat \union {NoTime}
  BY DEF IsEvent
<1>3. Link(v, h) = HashedEvent(v.id, ts, occurred, caller, h.event_hash)
  BY Zenon DEF Link
<1> HIDE DEF ts, occurred, caller
<1>4. QED
  BY <1>1, <1>2, <1>3 DEF IsEvent, HashedEvent, ComputeHash

\* Every answer of the head query is well formed.
LEMMA HeadsType ==
    ASSUME TypeOK, NEW h \in Heads(rows)
    PROVE  IsHeadRecord(h)
<1>1. CASE rows = {}
  BY <1>1 DEF Heads, NoHead, IsHeadRecord
<1>2. CASE rows # {}
  BY <1>2 DEF Heads, TypeOK, IsEvent, IsHeadRecord
<1>3. QED
  BY <1>1, <1>2

\* The head read under the lock is the head of the chain, and the event now
\* links to it and is hashed.
LEMMA ReadHeadKeepsIInv ==
    ASSUME IInv, NEW e \in Calls, ReadHeadAndLink(e)
    PROVE  IInv'
<1>1. PICK h \in Heads(rows) :
         /\ head' = [head EXCEPT ![e] = h]
         /\ ev' = IF input[e].kind = "record" THEN [ev EXCEPT ![e] = Link(ev[e], h)] ELSE ev
  BY DEF ReadHeadAndLink
<1>2. /\ pc[e] = "begin" /\ sess[e] = "locked" /\ UNCHANGED <<rows, input, sess, reply>>
      /\ pc'[e] \in {"sign", "commit"}
      /\ pc' \in [Calls -> PCs] /\ \A f \in Calls : f # e => pc'[f] = pc[f]
  BY DEF IInv, TypeOK, ReadHeadAndLink, PCs
<1>3. IsHeadRecord(h) /\ IsEvent(ev[e]) /\ TypeOK
  BY HeadsType DEF IInv, TypeOK
<1>4. /\ IsEvent(ev'[e]) /\ ev'[e].id = e /\ ev'[e].signature = NoHash
      /\ ev'[e].event_hash = ComputeHash(ev'[e])
  <2>1. ev[e].id = e /\ ev[e].signature = NoHash
    BY <1>2 DEF IInv, EventInv
  <2>2. CASE input[e].kind = "record"
    <3>1. ev'[e] = Link(ev[e], h)
      BY <1>1, <1>3, <2>2 DEF TypeOK
    <3>2. QED
      BY <1>3, <2>1, <3>1, LinkFacts
  <2>3. CASE input[e].kind # "record"
    <3>1. ev' = ev /\ input[e].kind = "append"
      BY <1>1, <1>3, <2>3 DEF TypeOK
    <3>2. QED
      BY <1>2, <1>3, <2>1, <3>1 DEF IInv, EventInv
  <2>4. QED
    BY <2>2, <2>3
<1>5. \A f \in Calls : f # e => ev'[f] = ev[f] /\ head'[f] = head[f]
  BY <1>1, <1>3 DEF TypeOK
<1>6. head'[e] = h
  BY <1>1, <1>3 DEF TypeOK
<1>7. TypeOK'
  <2>1. ev' = [f \in Calls |-> ev'[f]] /\ head' = [f \in Calls |-> head'[f]]
    BY <1>1, <1>3 DEF TypeOK
  <2>2. \A f \in Calls : IsEvent(ev'[f]) /\ IsHeadRecord(head'[f])
    BY <1>3, <1>4, <1>5, <1>6 DEF TypeOK
  <2>3. QED
    BY <1>2, <1>3, <2>1, <2>2 DEF TypeOK
<1>8. LockInv' /\ TimestampsDistinct' /\ VerifyChain(rows)'
  BY <1>2 DEF IInv, LockInv, TimestampsDistinct
<1>9. ProgressInv'
  BY <1>2 DEF IInv, ProgressInv
<1>10. HeadInv'
  BY <1>2, <1>5, <1>6 DEF IInv, HeadInv
<1>11. EventInv'
  BY <1>2, <1>4, <1>5 DEF IInv, EventInv
<1>12. RowsInv'
  <2>1. \A q \in rows : q.id \in Calls /\ q.id # e
    BY <1>2, <1>3 DEF IInv, TypeOK, IsEvent, RowsInv
  <2>2. QED
    BY <2>1, <1>2, <1>5 DEF IInv, RowsInv
<1>13. QED
  BY <1>7, <1>8, <1>9, <1>10, <1>11, <1>12 DEF IInv

\* Signing sets the signature to the event's own hash and nothing else.
LEMMA SignKeepsIInv ==
    ASSUME IInv, NEW e \in Calls, Sign(e)
    PROVE  IInv'
<1>1. /\ pc[e] = "sign" /\ UNCHANGED <<rows, input, head, sess, reply>>
      /\ pc'[e] = "commit" /\ ev'[e] = SignHash(ev[e], ev[e].event_hash)
      /\ pc' \in [Calls -> PCs]
      /\ \A f \in Calls : f # e => pc'[f] = pc[f] /\ ev'[f] = ev[f]
  BY DEF IInv, TypeOK, Sign, PCs
<1>2. sess[e] \in {"locked", "aborted"} /\ ev[e].id = e /\ ev[e].event_hash = ComputeHash(ev[e])
  BY <1>1 DEF IInv, ProgressInv, EventInv
<1>3. /\ IsEvent(ev'[e]) /\ ev'[e].id = e /\ ev'[e].signature = ev'[e].event_hash
      /\ ev'[e].event_hash = ComputeHash(ev'[e])
  <2>1. IsEvent(ev[e])
    BY DEF IInv, TypeOK
  <2>2. QED
    BY <1>1, <1>2, <2>1 DEF IsEvent, SignHash, ComputeHash
<1>4. TypeOK'
  <2>1. ev' = [f \in Calls |-> ev'[f]] /\ \A f \in Calls : IsEvent(ev'[f])
    BY <1>1, <1>3 DEF IInv, TypeOK, Sign
  <2>2. QED
    BY <1>1, <2>1 DEF IInv, TypeOK
<1>5. LockInv' /\ TimestampsDistinct' /\ VerifyChain(rows)'
  BY <1>1 DEF IInv, LockInv, TimestampsDistinct
<1>6. ProgressInv'
  BY <1>1, <1>2 DEF IInv, ProgressInv
<1>7. HeadInv'
  BY <1>1, <1>2 DEF IInv, HeadInv
<1>8. EventInv'
  BY <1>1, <1>2, <1>3 DEF IInv, EventInv
<1>9. RowsInv'
  <2>1. \A q \in rows : q.id \in Calls /\ q.id # e
    BY <1>2 DEF IInv, TypeOK, IsEvent, RowsInv
  <2>2. QED
    BY <2>1, <1>1, <1>2 DEF IInv, RowsInv
<1>10. QED
  BY <1>4, <1>5, <1>6, <1>7, <1>8, <1>9 DEF IInv

\* commit()'s checks establish what HeadInv says of a committing call.
LEMMA SendCommitKeepsIInv ==
    ASSUME IInv, NEW e \in Calls, SendCommit(e)
    PROVE  IInv'
<1>1. /\ pc[e] = "commit" /\ sess[e] = "locked" /\ UNCHANGED <<rows, input, ev, head, reply>>
      /\ ev[e].previous_hash = head[e].event_hash /\ ev[e].timestamp > head[e].timestamp
      /\ pc'[e] = "committing" /\ sess'[e] = "committing"
      /\ pc' \in [Calls -> PCs] /\ sess' \in [Calls -> SessionStates]
      /\ \A f \in Calls : f # e => pc'[f] = pc[f] /\ sess'[f] = sess[f]
  BY DEF IInv, TypeOK, SendCommit, PCs, SessionStates
<1>2. TypeOK'
  BY <1>1 DEF IInv, TypeOK
<1>3. LockInv'
  BY <1>1 DEF IInv, LockInv, Holding
<1>4. ProgressInv'
  BY <1>1 DEF IInv, ProgressInv
<1>5. HeadInv'
  BY <1>1 DEF IInv, HeadInv, Holding
<1>6. EventInv'
  BY <1>1 DEF IInv, EventInv
<1>7. RowsInv' /\ TimestampsDistinct' /\ VerifyChain(rows)'
  <2>1. \A q \in rows : q.id \in Calls
    BY DEF IInv, TypeOK, IsEvent
  <2>2. QED
    BY <1>1, <2>1 DEF IInv, RowsInv, TimestampsDistinct
<1>8. QED
  BY <1>2, <1>3, <1>4, <1>5, <1>6, <1>7 DEF IInv

\* The advisory lock is granted only when nobody holds it.
LEMMA GrantLockKeepsIInv ==
    ASSUME IInv, NEW e \in Calls, GrantLock(e)
    PROVE  IInv'
<1>1. /\ sess[e] = "open" /\ UNCHANGED <<rows, pc, input, ev, head, reply>>
      /\ \A f \in Calls : sess[f] \notin Holding
      /\ sess'[e] = "locked" /\ sess' \in [Calls -> SessionStates]
      /\ \A f \in Calls : f # e => sess'[f] = sess[f]
  BY DEF IInv, TypeOK, GrantLock, LockFree, clientVars, SessionStates
<1>2. TypeOK'
  BY <1>1 DEF IInv, TypeOK
<1>3. LockInv'
  BY <1>1 DEF IInv, LockInv
<1>4. ProgressInv'
  BY <1>1 DEF IInv, ProgressInv
<1>5. HeadInv'
  <2>1. pc[e] \notin {"sign", "commit"}
    BY <1>1 DEF IInv, ProgressInv
  <2>2. QED
    BY <1>1, <2>1 DEF IInv, HeadInv, Holding
<1>6. EventInv'
  BY <1>1 DEF IInv, EventInv
<1>7. RowsInv' /\ TimestampsDistinct' /\ VerifyChain(rows)'
  <2>1. \A q \in rows : q.id \in Calls
    BY DEF IInv, TypeOK, IsEvent
  <2>2. QED
    BY <1>1, <2>1 DEF IInv, RowsInv, TimestampsDistinct
<1>8. QED
  BY <1>2, <1>3, <1>4, <1>5, <1>6, <1>7 DEF IInv

\* A rollback releases the lock and leaves the log alone.
LEMMA ServerAbortsKeepsIInv ==
    ASSUME IInv, NEW e \in Calls, ServerAborts(e)
    PROVE  IInv'
<1>1. /\ sess[e] \in {"open", "locked", "committing"}
      /\ UNCHANGED <<rows, pc, input, ev, head, reply>>
      /\ sess'[e] = "aborted" /\ sess' \in [Calls -> SessionStates]
      /\ \A f \in Calls : f # e => sess'[f] = sess[f]
  BY DEF IInv, TypeOK, ServerAborts, clientVars, SessionStates
<1>2. TypeOK'
  BY <1>1 DEF IInv, TypeOK
<1>3. LockInv'
  BY <1>1 DEF IInv, LockInv, Holding
<1>4. ProgressInv'
  BY <1>1 DEF IInv, ProgressInv
<1>5. HeadInv'
  BY <1>1 DEF IInv, HeadInv, Holding
<1>6. EventInv'
  BY <1>1 DEF IInv, EventInv
<1>7. RowsInv' /\ TimestampsDistinct' /\ VerifyChain(rows)'
  <2>1. \A q \in rows : q.id \in Calls
    BY DEF IInv, TypeOK, IsEvent
  <2>2. QED
    BY <1>1, <2>1 DEF IInv, RowsInv, TimestampsDistinct
<1>8. QED
  BY <1>2, <1>3, <1>4, <1>5, <1>6, <1>7 DEF IInv

\* The step that extends the chain.  Only e holds the lock, so no other call
\* has read a head that this commit makes stale.
LEMMA ServerCommitsKeepsIInv ==
    ASSUME IInv, NEW e \in Calls, ServerCommits(e)
    PROVE  IInv' /\ \A s \in rows : s.timestamp < ev[e].timestamp
<1>1. /\ sess[e] = "committing" /\ rows' = rows \union {ev[e]}
      /\ UNCHANGED <<pc, input, ev, head, reply>>
      /\ sess'[e] = "committed" /\ sess' \in [Calls -> SessionStates]
      /\ \A f \in Calls : f # e => sess'[f] = sess[f]
  BY DEF IInv, TypeOK, ServerCommits, clientVars, SessionStates
<1>2. /\ IsEvent(ev[e]) /\ ev[e].id = e /\ head[e] \in Heads(rows)
      /\ ev[e].previous_hash = head[e].event_hash
      /\ ev[e].timestamp > head[e].timestamp
      /\ ev[e].event_hash = ComputeHash(ev[e])
  BY <1>1 DEF IInv, TypeOK, HeadInv, EventInv
<1>3. VerifyChain(rows)' /\ \A r \in rows : r.timestamp < ev[e].timestamp
  <2>1. ev[e].timestamp \in Nat /\ \A r \in rows : r.timestamp \in Nat
    BY <1>2 DEF IInv, TypeOK, IsEvent
  <2>2. VerifyChain(rows \union {ev[e]}) /\ \A r \in rows : r.timestamp < ev[e].timestamp
    BY <1>2, <2>1, AppendKeepsChain DEF IInv
  <2>3. QED
    BY <1>1, <2>2
<1>4. TypeOK'
  BY <1>1, <1>2 DEF IInv, TypeOK
<1>5. LockInv' /\ \A f \in Calls : sess'[f] \notin Holding
  BY <1>1 DEF IInv, LockInv, Holding
<1>6. ProgressInv'
  BY <1>1 DEF IInv, ProgressInv
<1>7. HeadInv'
  BY <1>5 DEF HeadInv, Holding
<1>8. EventInv'
  BY <1>1 DEF IInv, EventInv
<1>9. RowsInv'
  <2>1. \A q \in rows : q.id \in Calls
    BY DEF IInv, TypeOK, IsEvent
  <2>2. QED
    BY <1>1, <1>2, <2>1 DEF IInv, RowsInv
<1>10. TimestampsDistinct'
  <2>1. ev[e].timestamp \in Nat /\ \A r \in rows : r.timestamp \in Nat
    BY <1>2 DEF IInv, TypeOK, IsEvent
  <2>2. QED
    BY <1>1, <1>3, <2>1 DEF IInv, TimestampsDistinct
<1>11. QED
  BY <1>3, <1>4, <1>5, <1>6, <1>7, <1>8, <1>9, <1>10 DEF IInv

-----------------------------------------------------------------------------
(* Theorems.                                                               *)

\* Every step of any writer or of the server keeps the invariant, and every
\* step that changes the log adds one row later than all others.
LEMMA StepKeepsIInv ==
    ASSUME IInv, [Next]_vars
    PROVE  /\ IInv'
           /\ rows' # rows => \E e \in Calls : ServerCommits(e)
<1>1. ASSUME NEW e \in Calls, NEW t \in Times, NEW c \in CallerTimes,
             NEW s \in SignerConfigs, CallRecord(e, t, c, s)
      PROVE  IInv' /\ rows' = rows
  BY <1>1, CallRecordKeepsIInv DEF CallRecord
<1>2. ASSUME NEW e \in Calls, NEW t \in Times, CallAppend(e, t)
      PROVE  IInv' /\ rows' = rows
  BY <1>2, CallAppendKeepsIInv DEF CallAppend
<1>3. ASSUME NEW e \in Calls, BeginFails(e)
      PROVE  IInv' /\ rows' = rows
  <2>1. sess[e] \notin {"committing", "committed"}
    BY <1>3 DEF BeginFails, IInv, ProgressInv
  <2>2. QED
    BY <1>3, <2>1, ReturnKeepsIInv DEF BeginFails, Replies
<1>4. ASSUME NEW e \in Calls, ReadHeadAndLink(e)
      PROVE  IInv' /\ rows' = rows
  BY <1>4, ReadHeadKeepsIInv DEF ReadHeadAndLink
<1>5. ASSUME NEW e \in Calls, Sign(e)
      PROVE  IInv' /\ rows' = rows
  BY <1>5, SignKeepsIInv DEF Sign
<1>6. ASSUME NEW e \in Calls, SignFails(e)
      PROVE  IInv' /\ rows' = rows
  <2>1. sess[e] \notin {"committing", "committed"}
    BY <1>6 DEF SignFails, IInv, ProgressInv
  <2>2. QED
    BY <1>6, <2>1, ReturnKeepsIInv DEF SignFails, Replies
<1>7. ASSUME NEW e \in Calls, SendCommit(e)
      PROVE  IInv' /\ rows' = rows
  BY <1>7, SendCommitKeepsIInv DEF SendCommit
<1>8. ASSUME NEW e \in Calls, CommitFails(e)
      PROVE  IInv' /\ rows' = rows
  BY <1>8, ReturnKeepsIInv DEF CommitFails, Replies
<1>9. ASSUME NEW e \in Calls, CommitTimesOut(e)
      PROVE  IInv' /\ rows' = rows
  BY <1>9, ReturnKeepsIInv DEF CommitTimesOut, Replies
<1>10. ASSUME NEW e \in Calls, CommitReturns(e)
       PROVE  IInv' /\ rows' = rows
  BY <1>10, ReturnKeepsIInv DEF CommitReturns, Replies
<1>11. ASSUME NEW e \in Calls, Crash(e)
       PROVE  IInv' /\ rows' = rows
  BY <1>11, ReturnKeepsIInv DEF Crash, Replies
<1>12. ASSUME NEW e \in Calls, GrantLock(e)
       PROVE  IInv' /\ rows' = rows
  BY <1>12, GrantLockKeepsIInv DEF GrantLock
<1>13. ASSUME NEW e \in Calls, ServerCommits(e)
       PROVE  IInv'
  BY <1>13, ServerCommitsKeepsIInv
<1>14. ASSUME NEW e \in Calls, ServerAborts(e)
       PROVE  IInv' /\ rows' = rows
  BY <1>14, ServerAbortsKeepsIInv DEF ServerAborts
<1>15. CASE UNCHANGED vars
  BY <1>15 DEF vars, IInv, TypeOK, LockInv, ProgressInv, HeadInv, EventInv, RowsInv,
               TimestampsDistinct
<1>16. QED
  BY <1>1, <1>2, <1>3, <1>4, <1>5, <1>6, <1>7, <1>8, <1>9, <1>10, <1>11, <1>12,
     <1>13, <1>14, <1>15 DEF Next, ClientStep, ServerStep

\* The inductive invariant holds in every reachable state, for any number of
\* writers, any clocks and any of the failures modelled.
THEOREM InductiveInvariant == Spec => []IInv
<1>1. IInv /\ [Next]_vars => IInv'
  BY StepKeepsIInv
<1>2. QED
  BY InitIInv, <1>1, PTL DEF Spec

\* Type correctness of the variables.
THEOREM TypeCorrect == Spec => []TypeOK
<1>1. IInv => TypeOK
  BY DEF IInv
<1>2. QED
  BY InductiveInvariant, <1>1, PTL

\* The audit log always passes verify_chain and verify_signed_chain: no
\* interleaving of writers, timeout or crash forks or breaks the chain that
\* begin_append and commit build.
THEOREM ChainAlwaysIntact == Spec => []ChainIntact
<1>1. IInv => ChainIntact
  <2> SUFFICES ASSUME IInv, NEW r \in rows, r.signature # NoHash
               PROVE  r.signature = r.event_hash
    BY DEF IInv, ChainIntact, VerifySignedChain
  <2>1. r.id \in Calls
    BY DEF IInv, TypeOK, IsEvent
  <2>2. QED
    BY <2>1 DEF IInv, RowsInv, EventInv
<1>2. QED
  BY InductiveInvariant, <1>1, PTL

\* Ok from record() means the record is in the log; an error raised before
\* commit means that it is not, then or later.
THEOREM RepliesTruthful == Spec => []ReplyTruthful
<1>1. IInv => ReplyTruthful
  <2> SUFFICES ASSUME IInv, NEW e \in Calls
               PROVE  /\ reply[e] = "ok" => \E r \in rows : r.id = e
                      /\ reply[e] = "failed" => \A r \in rows : r.id # e
    BY DEF ReplyTruthful
  <2>1. ASSUME reply[e] = "ok" PROVE \E r \in rows : r.id = e
    <3>1. ev[e] \in rows /\ ev[e].id = e
      BY <2>1 DEF IInv, ProgressInv, RowsInv, EventInv
    <3>2. QED
      BY <3>1
  <2>2. ASSUME reply[e] = "failed", NEW r \in rows PROVE r.id # e
    BY <2>2 DEF IInv, ProgressInv, RowsInv
  <2>3. QED
    BY <2>1, <2>2
<1>2. QED
  BY InductiveInvariant, <1>1, PTL

\* The loss of any record but the newest makes verify_chain fail.
THEOREM DeletionsDetected == Spec => []DeletionDetected
<1>1. IInv => DeletionDetected
  <2> SUFFICES ASSUME IInv, NEW r \in rows, NEW s \in rows, r.timestamp < s.timestamp
               PROVE  ~ VerifyChain(rows \ {r})
    BY DEF DeletionDetected
  <2>1. \A q \in rows : q.timestamp \in Nat
    BY DEF IInv, TypeOK, IsEvent
  <2>2. \A q, u \in rows : q.timestamp = u.timestamp => q = u
    BY DEF IInv, TimestampsDistinct
  <2>3. VerifyChain(rows)
    BY DEF IInv
  <2>4. QED
    BY <2>1, <2>2, <2>3, MissingRowDetected
<1>2. QED
  BY InductiveInvariant, <1>1, PTL

\* The log only ever grows, one record at a time and at its end.
THEOREM LogAppendOnly == Spec => AppendOnly
<1>1. IInv /\ [Next]_vars =>
        [ /\ rows \subseteq rows'
          /\ \A r \in rows' \ rows, s \in rows : s.timestamp < r.timestamp
          /\ \A r, s \in rows' \ rows : r = s ]_rows
  <2> SUFFICES ASSUME IInv, [Next]_vars, rows' # rows
               PROVE  /\ rows \subseteq rows'
                      /\ \A r \in rows' \ rows, s \in rows : s.timestamp < r.timestamp
                      /\ \A r, s \in rows' \ rows : r = s
    OBVIOUS
  <2>1. PICK e \in Calls : ServerCommits(e)
    BY StepKeepsIInv
  <2>2. rows' = rows \union {ev[e]} /\ \A s \in rows : s.timestamp < ev[e].timestamp
    BY <2>1, ServerCommitsKeepsIInv DEF ServerCommits
  <2>3. QED
    BY <2>2
<1>2. QED
  BY InductiveInvariant, <1>1, PTL DEF Spec, AppendOnly

-----------------------------------------------------------------------------
(* The time of an event.                                                   *)

\* Linking keeps the event's time readable: a timestamp that is moved goes
\* to occurred_at, one that is not leaves occurred_at empty.
LEMMA LinkKeepsTime ==
    ASSUME NEW v, IsEvent(v), NEW h, IsHeadRecord(h)
    PROVE  LET w == Link(v, h) IN
           v.timestamp = IF w.occurred_at = NoTime THEN w.timestamp ELSE w.occurred_at
<1> DEFINE ts == ChainTimestamp(v.timestamp, h.timestamp)
           occurred == IF ts # v.timestamp THEN v.timestamp ELSE NoTime
           caller == IF v.occurred_at = occurred THEN NoTime ELSE v.occurred_at
<1>1. v.timestamp = IF occurred = NoTime THEN ts ELSE occurred
  BY DEF IsEvent, NoTime
<1>2. Link(v, h) = HashedEvent(v.id, ts, occurred, caller, h.event_hash)
  BY Zenon DEF Link
<1> HIDE DEF ts, occurred, caller
<1>3. Link(v, h).occurred_at = occurred /\ Link(v, h).timestamp = ts
  BY <1>2 DEF HashedEvent
<1>4. QED
  BY <1>1, <1>3

\* A step that changes no event and brings none closer to the log than it was.
LEMMA OtherStepsKeepTime ==
    ASSUME TimeInv, UNCHANGED <<ev, input>>,
           \A f \in Calls :
               /\ pc'[f] = "begin" => pc[f] = "begin"
               /\ pc'[f] \in {"sign", "commit"} \/ sess'[f] \in {"committing", "committed"}
                  => \/ pc[f] \in {"sign", "commit"}
                     \/ sess[f] \in {"committing", "committed"}
    PROVE  TimeInv'
  BY DEF TimeInv

\* Every step keeps the time of every event that may reach the log.
LEMMA StepKeepsTimeInv ==
    ASSUME IInv, TimeInv, [Next]_vars
    PROVE  TimeInv'
<1>t. /\ pc \in [Calls -> PCs] /\ sess \in [Calls -> SessionStates]
      /\ input \in [Calls -> [kind : {"record", "append"}, signer : BOOLEAN, created : Nat]]
      /\ ev = [f \in Calls |-> ev[f]] /\ \A f \in Calls : IsEvent(ev[f])
      /\ ProgressInv /\ TypeOK
  BY DEF IInv, TypeOK
<1>1. ASSUME NEW e \in Calls, NEW t \in Times, NEW c \in CallerTimes,
             NEW s \in SignerConfigs, CallRecord(e, t, c, s)
      PROVE  TimeInv'
  <2>1. /\ pc'[e] = "begin" /\ sess'[e] = "open"
        /\ input'[e].created = t /\ input'[e].kind = "record"
        /\ ev'[e] = NewEvent(e, t, c)
        /\ \A f \in Calls : f # e => /\ pc'[f] = pc[f] /\ sess'[f] = sess[f]
                                      /\ input'[f] = input[f] /\ ev'[f] = ev[f]
    BY <1>1, <1>t DEF CallRecord
  <2>2. ev'[e].timestamp = t
    BY <2>1 DEF NewEvent
  <2>3. QED
    BY <2>1, <2>2 DEF TimeInv
<1>2. ASSUME NEW e \in Calls, NEW t \in Times, CallAppend(e, t)
      PROVE  TimeInv'
  <2>1. PICK h : ev' = [ev EXCEPT ![e] = HashedEvent(e, t, NoTime, NoTime, h.event_hash)]
    BY <1>2 DEF CallAppend
  <2>2. /\ pc'[e] = "begin" /\ sess'[e] = "open" /\ input'[e].created = t
        /\ ev'[e] = HashedEvent(e, t, NoTime, NoTime, h.event_hash)
        /\ \A f \in Calls : f # e => /\ pc'[f] = pc[f] /\ sess'[f] = sess[f]
                                      /\ input'[f] = input[f] /\ ev'[f] = ev[f]
    BY <1>2, <1>t, <2>1 DEF CallAppend
  <2>3. ev'[e].timestamp = t /\ ev'[e].occurred_at = NoTime
    BY <2>2 DEF HashedEvent
  <2>4. QED
    BY <2>2, <2>3 DEF TimeInv
<1>3. ASSUME NEW e \in Calls, ReadHeadAndLink(e)
      PROVE  TimeInv'
  <2>1. PICK h \in Heads(rows) :
           ev' = IF input[e].kind = "record" THEN [ev EXCEPT ![e] = Link(ev[e], h)] ELSE ev
    BY <1>3 DEF ReadHeadAndLink
  <2>2. /\ pc[e] = "begin" /\ pc'[e] \in {"sign", "commit"}
        /\ UNCHANGED <<input, sess>>
        /\ \A f \in Calls : f # e => pc'[f] = pc[f] /\ ev'[f] = ev[f]
    BY <1>3, <1>t, <2>1 DEF ReadHeadAndLink
  <2>3. ev[e].timestamp = input[e].created
    BY <2>2 DEF TimeInv
  <2>4. input[e].created = IF ev'[e].occurred_at = NoTime
                           THEN ev'[e].timestamp ELSE ev'[e].occurred_at
    <3>1. CASE input[e].kind = "record"
      <4>1. ev'[e] = Link(ev[e], h) /\ IsHeadRecord(h) /\ IsEvent(ev[e])
        BY <1>t, <2>1, <3>1, HeadsType
      <4>2. QED
        BY <2>3, <4>1, LinkKeepsTime
    <3>2. CASE input[e].kind # "record"
      <4>1. input[e].kind = "append" /\ ev' = ev
        BY <1>t, <2>1, <3>2
      <4>2. QED
        BY <2>2, <2>3, <4>1 DEF TimeInv
    <3>3. QED
      BY <3>1, <3>2
  <2>5. QED
    BY <2>2, <2>4 DEF TimeInv
<1>4. ASSUME NEW e \in Calls, Sign(e)
      PROVE  TimeInv'
  <2>1. /\ pc[e] = "sign" /\ pc'[e] = "commit" /\ UNCHANGED <<input, sess>>
        /\ ev'[e] = SignHash(ev[e], ev[e].event_hash)
        /\ \A f \in Calls : f # e => pc'[f] = pc[f] /\ ev'[f] = ev[f]
    BY <1>4, <1>t DEF Sign
  <2>2. ev'[e].timestamp = ev[e].timestamp /\ ev'[e].occurred_at = ev[e].occurred_at
    BY <2>1 DEF SignHash
  <2>3. QED
    BY <2>1, <2>2 DEF TimeInv
<1>5. ASSUME NEW e \in Calls,
             \/ BeginFails(e) \/ SignFails(e) \/ CommitFails(e) \/ CommitTimesOut(e)
             \/ CommitReturns(e) \/ Crash(e)
      PROVE  TimeInv'
  <2>1. UNCHANGED <<ev, input, sess>> /\ pc' = [pc EXCEPT ![e] = "done"]
    BY <1>5 DEF BeginFails, SignFails, CommitFails, CommitTimesOut, CommitReturns, Crash, Return
  <2>2. QED
    BY <1>t, <2>1, OtherStepsKeepTime
<1>6. ASSUME NEW e \in Calls, SendCommit(e)
      PROVE  TimeInv'
  <2>1. /\ UNCHANGED <<ev, input>> /\ pc[e] = "commit"
        /\ pc' = [pc EXCEPT ![e] = "committing"] /\ sess' = [sess EXCEPT ![e] = "committing"]
    BY <1>6 DEF SendCommit
  <2>2. QED
    BY <1>t, <2>1, OtherStepsKeepTime
<1>7. ASSUME NEW e \in Calls, GrantLock(e) \/ ServerAborts(e) \/ ServerCommits(e)
      PROVE  TimeInv'
  <2>1. /\ UNCHANGED <<ev, input, pc>>
        /\ \/ sess' = [sess EXCEPT ![e] = "locked"]
           \/ sess' = [sess EXCEPT ![e] = "aborted"]
           \/ sess[e] = "committing" /\ sess' = [sess EXCEPT ![e] = "committed"]
    BY <1>7 DEF GrantLock, ServerAborts, ServerCommits, clientVars
  <2>2. QED
    BY <1>t, <2>1, OtherStepsKeepTime
<1>8. CASE UNCHANGED vars
  BY <1>8 DEF vars, TimeInv
<1>9. QED
  BY <1>1, <1>2, <1>3, <1>4, <1>5, <1>6, <1>7, <1>8 DEF Next, ClientStep, ServerStep

\* The chain's invariant and the times of the events, in every reachable state.
THEOREM AuditInvariant == Spec => []AuditInv
<1>1. Init => TimeInv
  BY DEF Init, TimeInv
<1>2. IInv /\ TimeInv /\ [Next]_vars => TimeInv'
  BY StepKeepsTimeInv
<1>3. IInv /\ TimeInv => AuditInv
  BY DEF AuditInv
<1>4. QED
  BY InductiveInvariant, <1>1, <1>2, <1>3, PTL DEF Spec

\* The time at which an event happened can be read from its row, whatever
\* the clocks of the writers and the occurred_at values of the callers
\* (apply_chain_timestamp).
THEOREM OriginalTimesKept == Spec => []OriginalTimeKept
<1>1. AuditInv => OriginalTimeKept
  <2> SUFFICES ASSUME IInv, TimeInv, NEW r \in rows
               PROVE  input[r.id].created =
                          IF r.occurred_at = NoTime THEN r.timestamp ELSE r.occurred_at
    BY DEF OriginalTimeKept, AuditInv
  <2>1. r.id \in Calls /\ sess[r.id] = "committed" /\ r = ev[r.id]
    BY DEF IInv, TypeOK, IsEvent, RowsInv
  <2>2. QED
    BY <2>1 DEF TimeInv
<1>2. QED
  BY AuditInvariant, <1>1, PTL

-----------------------------------------------------------------------------
(* AuditChain implements AuditLog.                                         *)

\* A step in which a call reports to its caller is a Tell step.
LEMMA ReturnSimulates ==
    ASSUME IInv, NEW e \in Calls, NEW r \in Replies \ {"none"},
           pc[e] # "done",
           r = "ok" => sess[e] = "committed",
           r = "failed" => sess[e] \notin {"committing", "committed"},
           Return(e, r), UNCHANGED <<rows, input, ev, head, sess>>
    PROVE  Log!Next
<1>1. reply[e] = "none" /\ reply' = [reply EXCEPT ![e] = r] /\ reply \in [Calls -> Replies]
  BY DEF IInv, ProgressInv, TypeOK, Return
<1>2. toldBar[e] = "nothing"
  BY <1>1 DEF toldBar, Answer
<1>3. toldBar' = [toldBar EXCEPT ![e] = Answer[r]]
  <2>1. \A f \in Calls : reply'[f] = IF f = e THEN r ELSE reply[f]
    BY <1>1
  <2>2. toldBar' = [f \in Calls |-> IF f = e THEN Answer[r] ELSE Answer[reply[f]]]
    BY <2>1 DEF toldBar
  <2>3. QED
    BY <2>2 DEF toldBar
<1>4. Answer[r] \in {"written", "not_written", "unknown"}
  BY DEF Answer, Replies
<1>5. Answer[r] = "written" => e \in Log!Ids
  <2> SUFFICES ASSUME Answer[r] = "written" PROVE e \in Log!Ids
    OBVIOUS
  <2>1. r = "ok"
    BY DEF Answer, Replies
  <2>2. ev[e] \in rows /\ ev[e].id = e
    BY <2>1 DEF IInv, RowsInv, EventInv
  <2>3. [id |-> e, timestamp |-> ev[e].timestamp] \in logBar
    BY <2>2 DEF logBar
  <2>4. QED
    BY <2>3 DEF Log!Ids
<1>6. Answer[r] = "not_written" => e \notin Log!Ids
  <2> SUFFICES ASSUME Answer[r] = "not_written" PROVE e \notin Log!Ids
    OBVIOUS
  <2>1. r = "failed"
    BY DEF Answer, Replies
  <2>2. \A q \in rows : q.id # e
    BY <2>1 DEF IInv, RowsInv
  <2>3. QED
    BY <2>2 DEF Log!Ids, logBar
<1>7. logBar' = logBar
  BY DEF logBar
<1>8. Log!Tell(e, Answer[r])
  BY <1>2, <1>3, <1>5, <1>6, <1>7 DEF Log!Tell
<1>9. QED
  BY <1>4, <1>8 DEF Log!Next

\* The server's commit is an Append step.
LEMMA CommitSimulates ==
    ASSUME IInv, NEW e \in Calls, ServerCommits(e)
    PROVE  Log!Next
<1> DEFINE x == [id |-> e, timestamp |-> ev[e].timestamp]
<1>1. rows' = rows \union {ev[e]} /\ reply' = reply /\ sess[e] = "committing" /\ ev[e].id = e
  BY DEF IInv, EventInv, ServerCommits, clientVars
<1>2. e \notin Log!Ids
  BY <1>1 DEF Log!Ids, logBar, IInv, RowsInv
<1>3. toldBar[e] \in {"nothing", "unknown"}
  <2>1. reply[e] \in Replies \ {"ok", "failed"}
    BY <1>1 DEF IInv, TypeOK, ProgressInv
  <2>2. QED
    BY <2>1 DEF toldBar, Answer, Replies
<1>4. logBar' = logBar \union {x}
  BY <1>1 DEF logBar
<1>5. \A y \in logBar : y.timestamp < x.timestamp
  BY ServerCommitsKeepsIInv DEF logBar
<1>6. toldBar' = toldBar
  BY <1>1 DEF toldBar
<1>7. Log!Append(e)
  BY <1>2, <1>3, <1>4, <1>5, <1>6 DEF Log!Append
<1>8. QED
  BY <1>7 DEF Log!Next

\* The audit log that AuditLog promises is the one that the services build:
\* every step appends at the end, answers truthfully, or is invisible.
THEOREM ImplementsAuditLog == Spec => ImplementsLog
<1>1. Init => Log!Init
  BY DEF Init, Log!Init, logBar, toldBar, Answer
<1>2. IInv /\ [Next]_vars => [Log!Next]_(Log!vars)
  <2> SUFFICES ASSUME IInv, [Next]_vars PROVE Log!Next \/ UNCHANGED <<logBar, toldBar>>
    BY DEF Log!vars
  <2> USE DEF Replies
  <2>1. ASSUME UNCHANGED <<rows, reply>>
        PROVE  UNCHANGED <<logBar, toldBar>>
    BY <2>1 DEF logBar, toldBar
  <2>2. ASSUME NEW e \in Calls, BeginFails(e) \/ SignFails(e)
        PROVE  Log!Next
    <3>1. sess[e] \notin {"committing", "committed"} /\ pc[e] # "done"
      BY <2>2 DEF BeginFails, SignFails, IInv, ProgressInv
    <3>2. QED
      BY <2>2, <3>1, ReturnSimulates DEF BeginFails, SignFails
  <2>3. ASSUME NEW e \in Calls, CommitFails(e)
        PROVE  Log!Next
    BY <2>3, ReturnSimulates DEF CommitFails
  <2>4. ASSUME NEW e \in Calls, CommitTimesOut(e)
        PROVE  Log!Next
    BY <2>4, ReturnSimulates DEF CommitTimesOut
  <2>5. ASSUME NEW e \in Calls, CommitReturns(e)
        PROVE  Log!Next
    BY <2>5, ReturnSimulates DEF CommitReturns
  <2>6. ASSUME NEW e \in Calls, Crash(e)
        PROVE  Log!Next
    BY <2>6, ReturnSimulates DEF Crash
  <2>7. ASSUME NEW e \in Calls, ServerCommits(e)
        PROVE  Log!Next
    BY <2>7, CommitSimulates
  <2>8. ASSUME NEW e \in Calls, NEW t \in Times, NEW c \in CallerTimes,
               NEW s \in SignerConfigs, CallRecord(e, t, c, s)
        PROVE  UNCHANGED <<rows, reply>>
    BY <2>8 DEF CallRecord
  <2>9. ASSUME NEW e \in Calls, NEW t \in Times, CallAppend(e, t)
        PROVE  UNCHANGED <<rows, reply>>
    BY <2>9 DEF CallAppend
  <2>10. ASSUME NEW e \in Calls,
                ReadHeadAndLink(e) \/ Sign(e) \/ SendCommit(e) \/ GrantLock(e) \/ ServerAborts(e)
         PROVE  UNCHANGED <<rows, reply>>
    BY <2>10 DEF ReadHeadAndLink, Sign, SendCommit, GrantLock, ServerAborts, clientVars
  <2>11. CASE UNCHANGED vars
    BY <2>1, <2>11 DEF vars
  <2>12. QED
    BY <2>1, <2>2, <2>3, <2>4, <2>5, <2>6, <2>7, <2>8, <2>9, <2>10, <2>11
       DEF Next, ClientStep, ServerStep
<1>3. QED
  BY InductiveInvariant, <1>1, <1>2, PTL DEF Spec, ImplementsLog, Log!Spec
=============================================================================
