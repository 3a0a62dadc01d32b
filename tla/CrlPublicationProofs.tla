------------------------ MODULE CrlPublicationProofs ------------------------
(* Proofs about CrlPublication for any number of certificates, revocations *)
(* and generations: the invariant CrlInv is inductive, and with it the     *)
(* order of CRL numbers, the soundness of deltas and the truth of what     *)
(* revoke() reports follow.                                                *)
EXTENDS CrlPublication, TLAPS

\* What a step leaves alone stays as it was.
LEMMA NumbersUndisturbed ==
    ASSUME NumbersContiguous, NumberTaken, UNCHANGED <<crls, jobVars>>
    PROVE  NumbersContiguous' /\ NumberTaken'
  BY DEF NumbersContiguous, NumberTaken, Follows, jobVars

\* A clock is not further off than MaxSkew.
LEMMA ReadingsNear ==
    ASSUME now \in Nat
    PROVE  \A t \in Readings : /\ t \in Nat /\ t > 0
                               /\ t <= now + MaxSkew
                               /\ now <= t + MaxSkew
  BY TimeAssumption DEF Readings

\* Generations do not mind what happens outside of their tables and locals.
LEMMA GenerationUndisturbed ==
    ASSUME GenerationInv, UNCHANGED <<crls, jobVars, revokedAt>>
    PROVE  GenerationInv'
  BY DEF GenerationInv, ListedInTime, FitsBase, DeltaTo, Revoked, jobVars

-----------------------------------------------------------------------------
\* The absent CRL has the type of a row.
LEMMA NoCrlIsRow == NoCrl \in CrlRows
  BY DEF NoCrl, CrlRows

\* The initial state satisfies the invariant.
LEMMA InitCrlInv == ASSUME Init PROVE CrlInv
<1>2. TypeOK
  BY NoCrlIsRow DEF Init, TypeOK, RevokerPCs, Stages
<1>3. NumbersContiguous /\ NumberTaken
  BY DEF Init, NumbersContiguous, NumberTaken
<1>4. RevocationInv
  BY TimeAssumption DEF Init, RevocationInv
<1>5. GenerationInv
  BY DEF Init, GenerationInv, Revoked
<1> QED
  BY <1>2, <1>3, <1>4, <1>5 DEF CrlInv

\* The clock moves on.
LEMMA TickKeeps == ASSUME CrlInv, Tick PROVE CrlInv'
<1> USE DEF CrlInv, Tick
<1>1. TypeOK'
  BY DEF TypeOK, jobVars
<1>2. NumbersContiguous' /\ NumberTaken'
  BY NumbersUndisturbed
<1>3. RevocationInv'
  BY TimeAssumption DEF RevocationInv, TypeOK
<1>4. GenerationInv'
  BY GenerationUndisturbed
<1> QED
  BY <1>1, <1>2, <1>3, <1>4

\* A step of revoke() that only moves the call on.
LEMMA RevokerMoves ==
    ASSUME CrlInv, NEW v \in Revocations,
           \/ FindCertificate(v) \/ StartUpdate(v)
           \/ AuditRevocation(v) \/ RevocationFails(v)
    PROVE  CrlInv'
<1> DEFINE r == revoker[v]
           After(pc, time) == revoker' = [revoker EXCEPT ![v] =
                                [pc |-> pc, cert |-> r.cert, time |-> time]]
<1>0. UNCHANGED <<now, revokedAt, crls, jobVars>>
  BY DEF FindCertificate, StartUpdate, AuditRevocation, RevocationFails
<1>1. \/ After("already", 0) /\ revokedAt[r.cert] # 0
      \/ After("update", 0)
      \/ \E t \in Readings : After("commit", t)
      \/ After("ok", r.time) /\ r.pc = "audit"
      \/ After("error", 0)
  BY DEF FindCertificate, StartUpdate, AuditRevocation, RevocationFails, RevokerAt
<1>2. /\ now \in Nat
      /\ revoker \in [Revocations -> [pc : RevokerPCs, cert : Certs, time : Nat]]
      /\ revokedAt \in [Certs -> Nat]
      /\ RevocationInv
  BY DEF CrlInv, TypeOK
<1>3. revoker' \in [Revocations -> [pc : RevokerPCs, cert : Certs, time : Nat]]
  BY <1>1, <1>2, ReadingsNear DEF RevokerPCs
<1>4. TypeOK'
  BY <1>0, <1>3 DEF CrlInv, TypeOK, jobVars
<1>5. RevocationInv'
  <2> USE TimeAssumption
  <2>1. CASE After("already", 0) /\ revokedAt[r.cert] # 0
    BY <1>0, <1>2, <2>1 DEF RevocationInv
  <2>2. CASE After("update", 0)
    BY <1>0, <1>2, <2>2 DEF RevocationInv
  <2>3. CASE \E t \in Readings : After("commit", t)
    <3>1. PICK t \in Readings : After("commit", t)
      BY <2>3
    <3>2. t \in Nat /\ t > 0 /\ t <= now + MaxSkew
      BY <1>2, ReadingsNear
    <3> QED
      BY <1>0, <1>2, <3>1, <3>2 DEF RevocationInv
  <2>4. CASE After("ok", r.time) /\ r.pc = "audit"
    BY <1>0, <1>2, <2>4 DEF RevocationInv
  <2>5. CASE After("error", 0)
    BY <1>0, <1>2, <2>5 DEF RevocationInv
  <2> QED
    BY <1>1, <2>1, <2>2, <2>3, <2>4, <2>5
<1>6. NumbersContiguous' /\ NumberTaken' /\ GenerationInv'
  BY <1>0, NumbersUndisturbed, GenerationUndisturbed DEF CrlInv
<1> QED
  BY <1>4, <1>5, <1>6 DEF CrlInv

\* The UPDATE takes effect, or matches no row.
LEMMA CommitKeeps ==
    ASSUME CrlInv, NEW v \in Revocations, CommitUpdate(v)
    PROVE  CrlInv'
<1> DEFINE r == revoker[v]
           After(pc, time) == revoker' = [revoker EXCEPT ![v] =
                                [pc |-> pc, cert |-> r.cert, time |-> time]]
<1>0. UNCHANGED <<now, crls, jobVars>>
  BY DEF CommitUpdate
<1>1. \/ /\ revokedAt[r.cert] = 0 /\ r.pc = "commit"
         /\ revokedAt' = [revokedAt EXCEPT ![r.cert] = r.time]
         /\ After("audit", r.time)
      \/ revokedAt[r.cert] # 0 /\ revokedAt' = revokedAt /\ After("conflict", 0)
  BY DEF CommitUpdate, RevokerAt
<1>2. /\ now \in Nat
      /\ revoker \in [Revocations -> [pc : RevokerPCs, cert : Certs, time : Nat]]
      /\ revokedAt \in [Certs -> Nat]
      /\ RevocationInv
  BY DEF CrlInv, TypeOK
<1>3. /\ revoker' \in [Revocations -> [pc : RevokerPCs, cert : Certs, time : Nat]]
      /\ revokedAt' \in [Certs -> Nat]
  BY <1>1, <1>2 DEF RevokerPCs
<1>4. TypeOK'
  BY <1>0, <1>3 DEF CrlInv, TypeOK, jobVars
<1>5. RevocationInv'
  BY <1>0, <1>1, <1>2, TimeAssumption DEF RevocationInv
<1>6. NumbersContiguous' /\ NumberTaken'
  BY <1>0, NumbersUndisturbed DEF CrlInv
<1>7. \A c \in Certs : revokedAt[c] # 0 => revokedAt'[c] = revokedAt[c]
  BY <1>1, <1>2
<1>8. GenerationInv'
  <2>1. Revoked \subseteq Revoked'
    BY <1>7, <1>1, <1>2 DEF Revoked
  <2>2. \A c \in CrlRows : ListedInTime(c) => ListedInTime(c)'
    BY <1>7 DEF ListedInTime, CrlRows
  <2>3. \A c \in CrlRows : ListedInTime(c) /\ FitsBase(c) => FitsBase(c)'
    BY <1>0, <1>7 DEF FitsBase, DeltaTo, ListedInTime, CrlRows
  <2>4. TypeOK /\ GenerationInv
    BY DEF CrlInv
  <2>5. \A c \in crls : ListedInTime(c)' /\ FitsBase(c)'
    BY <2>2, <2>3, <2>4 DEF GenerationInv, TypeOK
  <2>6. \A j \in Jobs : stage[j] = "store" => ListedInTime(draft[j])' /\ FitsBase(draft[j])'
    BY <1>0, <2>2, <2>3, <2>4 DEF GenerationInv, TypeOK, jobVars, ListedInTime, FitsBase, DeltaTo
  <2> QED
    BY <1>0, <2>1, <2>4, <2>5, <2>6 DEF GenerationInv, jobVars
<1> QED
  BY <1>4, <1>5, <1>6, <1>8 DEF CrlInv

-----------------------------------------------------------------------------
\* No step of a generation touches revocations.
LEMMA RevocationUndisturbed ==
    ASSUME RevocationInv, UNCHANGED <<now, revokedAt, revoker>>
    PROVE  RevocationInv'
  BY DEF RevocationInv

\* Reading the revoked certificates, at the start of a full generation or
\* after the base has been read.
LEMMA ReadKeeps ==
    ASSUME CrlInv, NEW j \in Jobs, StartFull(j) \/ ReadRevoked(j)
    PROVE  CrlInv'
<1>1. /\ stage' = [stage EXCEPT ![j] = "number"]
      /\ seen' = [seen EXCEPT ![j] = Revoked]
      /\ UNCHANGED <<now, revokedAt, revoker, crls, base, number, draft>>
  BY DEF StartFull, ReadRevoked
<1>2. Revoked \in SUBSET Certs
  BY DEF Revoked
<1>3. TypeOK /\ NumbersContiguous /\ NumberTaken /\ RevocationInv /\ GenerationInv
  BY DEF CrlInv
<1>4. TypeOK'
  BY <1>1, <1>2, <1>3 DEF TypeOK, Stages
<1>5. NumbersContiguous' /\ NumberTaken'
  BY <1>1, <1>3 DEF NumbersContiguous, NumberTaken, Follows, TypeOK
<1>6. RevocationInv'
  BY <1>1, <1>3, RevocationUndisturbed
<1>7. GenerationInv'
  BY <1>1, <1>3 DEF GenerationInv, TypeOK, ListedInTime, FitsBase, DeltaTo, Revoked
<1> QED
  BY <1>4, <1>5, <1>6, <1>7 DEF CrlInv

\* A delta reads its base, a stored full CRL.
LEMMA StartDeltaKeeps ==
    ASSUME CrlInv, NEW j \in Jobs, StartDelta(j)
    PROVE  CrlInv'
<1>1. /\ \/ stage' = [stage EXCEPT ![j] = "failed"] /\ base' = base
         \/ \E b \in crls : /\ b.base_number = 0
                            /\ stage' = [stage EXCEPT ![j] = "list"]
                            /\ base' = [base EXCEPT ![j] = b]
      /\ UNCHANGED <<now, revokedAt, revoker, crls, seen, number, draft>>
  BY DEF StartDelta, LatestFull
<1>3. TypeOK /\ NumbersContiguous /\ NumberTaken /\ RevocationInv /\ GenerationInv
  BY DEF CrlInv
<1>4. TypeOK'
  BY <1>1, <1>3 DEF TypeOK, Stages
<1>5. NumbersContiguous' /\ NumberTaken'
  BY <1>1, <1>3 DEF NumbersContiguous, NumberTaken, Follows, TypeOK
<1>6. RevocationInv'
  BY <1>1, <1>3, RevocationUndisturbed
<1>7. GenerationInv'
  BY <1>1, <1>3 DEF GenerationInv, TypeOK, ListedInTime, FitsBase, DeltaTo, Revoked
<1> QED
  BY <1>4, <1>5, <1>6, <1>7 DEF CrlInv

\* The next number is read: above all numbers there are, its base's included.
LEMMA NumberKeeps ==
    ASSUME CrlInv, NEW j \in Jobs, NextCrlNumber(j)
    PROVE  CrlInv'
<1>1. PICK n \in { c.number : c \in crls } \union {0} :
         /\ \A c \in crls : c.number <= n
         /\ number' = [number EXCEPT ![j] = n + 1]
  BY DEF NextCrlNumber
<1>2. /\ stage' = [stage EXCEPT ![j] = "build"]
      /\ UNCHANGED <<now, revokedAt, revoker, crls, base, seen, draft>>
  BY DEF NextCrlNumber
<1>3. TypeOK /\ NumbersContiguous /\ NumberTaken /\ RevocationInv /\ GenerationInv
  BY DEF CrlInv
<1>4. n \in Nat /\ (n = 0 \/ \E c \in crls : c.number = n)
  BY <1>3 DEF TypeOK, CrlRows
<1>5. TypeOK'
  BY <1>1, <1>2, <1>3, <1>4 DEF TypeOK, Stages
<1>6. Follows(n + 1)
  BY <1>4 DEF Follows
<1>7. NumbersContiguous' /\ NumberTaken'
  BY <1>1, <1>2, <1>3, <1>6 DEF NumbersContiguous, NumberTaken, Follows, TypeOK
<1>8. RevocationInv'
  BY <1>2, <1>3, RevocationUndisturbed
<1>9. \A c \in crls : c.number < n + 1
  BY <1>1, <1>3, <1>4 DEF TypeOK, CrlRows
<1>10. GenerationInv'
  BY <1>1, <1>2, <1>3, <1>9 DEF GenerationInv, TypeOK, ListedInTime, FitsBase, DeltaTo, Revoked
<1> QED
  BY <1>5, <1>7, <1>8, <1>10 DEF CrlInv

\* The list is built: in time for what it lists, by the clocks, and fitting
\* its base.
LEMMA BuildKeeps ==
    ASSUME CrlInv, NEW j \in Jobs, BuildAndSign(j)
    PROVE  CrlInv'
<1> DEFINE D(t) == [number |-> number[j], this_update |-> t, base_number |-> base[j].number,
                    entries |-> Entries(j), seen |-> seen[j]]
<1>0. PICK t \in Readings : draft' = [draft EXCEPT ![j] = D(t)]
  BY DEF BuildAndSign
<1> DEFINE d == D(t)
<1>1. /\ stage[j] = "build"
      /\ draft' = [draft EXCEPT ![j] = d]
      /\ stage' = [stage EXCEPT ![j] = "store"]
      /\ base' = [base EXCEPT ![j] = NoCrl]
      /\ seen' = [seen EXCEPT ![j] = {}]
      /\ number' = [number EXCEPT ![j] = 0]
      /\ UNCHANGED <<now, revokedAt, revoker, crls>>
  BY <1>0 DEF BuildAndSign, Forget
<1>2. TypeOK /\ NumbersContiguous /\ NumberTaken /\ RevocationInv /\ GenerationInv
  BY DEF CrlInv
<1>3. Entries(j) \subseteq seen[j] /\ seen[j] \subseteq Certs
  BY <1>2 DEF Entries, TypeOK
<1>t. now \in Nat /\ t \in Nat /\ now <= t + MaxSkew
  BY <1>2, ReadingsNear DEF TypeOK
<1>4. d \in CrlRows
  BY <1>2, <1>3, <1>t DEF CrlRows, TypeOK
<1>5. TypeOK'
  BY <1>1, <1>2, <1>4, NoCrlIsRow DEF TypeOK, Stages
<1>6. NumbersContiguous' /\ NumberTaken'
  BY <1>1, <1>2 DEF NumbersContiguous, NumberTaken, Follows, TypeOK
<1>7. RevocationInv'
  BY <1>1, <1>2, RevocationUndisturbed
<1>8. ListedInTime(d)
  <2>1. \A x \in Entries(j) : /\ revokedAt[x] \in Nat
                              /\ revokedAt[x] # 0
                              /\ revokedAt[x] <= now + MaxSkew
    BY <1>2, <1>3 DEF GenerationInv, Revoked, RevocationInv, TypeOK
  <2>2. \A x \in Entries(j) : revokedAt[x] <= t + 2 * MaxSkew
    BY <1>t, <2>1, TimeAssumption
  <2> QED
    BY <2>1, <2>2 DEF ListedInTime
<1>9. FitsBase(d)
  <2>1. CASE base[j] = NoCrl
    BY <2>1 DEF FitsBase, NoCrl
  <2>2. CASE base[j] # NoCrl
    <3>1. base[j] \in crls /\ base[j].base_number = 0 /\ base[j].number < number[j]
      BY <1>1, <1>2, <2>2 DEF GenerationInv
    <3>2. \A x \in base[j].entries : revokedAt[x] <= base[j].this_update + 2 * MaxSkew
      BY <1>2, <3>1 DEF GenerationInv, ListedInTime
    <3>3. \A x \in Entries(j) : revokedAt[x] > base[j].this_update
      BY <1>3, <2>2 DEF Entries
    <3> QED
      BY <3>1, <3>2, <3>3 DEF FitsBase, DeltaTo
  <2> QED
    BY <2>1, <2>2
<1>10. GenerationInv'
  <2> HIDE DEF d, D
  <2>1. \A c : ListedInTime(c) => ListedInTime(c)'
    BY <1>1 DEF ListedInTime
  <2>2. \A c : FitsBase(c) => FitsBase(c)'
    BY <1>1 DEF FitsBase, DeltaTo
  <2>3. draft'[j] = d /\ \A i \in Jobs : i # j => draft'[i] = draft[i] /\ stage'[i] = stage[i]
    BY <1>1, <1>2 DEF TypeOK
  <2>4. \A i \in Jobs : stage'[i] = "store" => ListedInTime(draft'[i]) /\ FitsBase(draft'[i])
    BY <1>2, <1>8, <1>9, <2>3 DEF GenerationInv
  <2>5. \A i \in Jobs : stage'[i] = "store" => ListedInTime(draft[i])' /\ FitsBase(draft[i])'
    BY <1>1, <2>4 DEF ListedInTime, FitsBase, DeltaTo
  <2>6. \A i \in Jobs : stage'[i] = "build" =>
            stage[i] = "build" /\ base'[i] = base[i] /\ number'[i] = number[i]
    BY <1>1, <1>2 DEF TypeOK
  <2>7. Revoked' = Revoked
    BY <1>1 DEF Revoked
  <2>8. \A i \in Jobs : /\ seen'[i] = {} \/ seen'[i] = seen[i]
                        /\ base'[i] = NoCrl \/ base'[i] = base[i]
    BY <1>1, <1>2 DEF TypeOK
  <2> QED
    BY <1>1, <1>2, <2>1, <2>2, <2>5, <2>6, <2>7, <2>8 DEF GenerationInv
<1> QED
  BY <1>5, <1>6, <1>7, <1>10 DEF CrlInv

\* A number that waits to be used and is free is above all numbers in use.
LEMMA FreeNumberIsHighest ==
    ASSUME TypeOK, NumbersContiguous,
           NEW n \in Nat, n > 0,
           \A c \in crls : c.number # n
    PROVE  \A c \in crls : c.number < n
<1> SUFFICES ASSUME NEW c \in crls, ~(c.number < n) PROVE FALSE
  OBVIOUS
<1>1. c.number \in Nat
  BY DEF TypeOK, CrlRows
<1>2. n \in 1..c.number
  BY <1>1
<1>3. \E d \in crls : d.number = n
  BY <1>2 DEF NumbersContiguous
<1> QED
  BY <1>3

\* The INSERT, or its refusal: the table stays contiguous and the new row
\* brings along what GenerationInv says of a stored one.
LEMMA StoreKeeps ==
    ASSUME CrlInv, NEW j \in Jobs, StoreCrl(j)
    PROVE  CrlInv'
<1> DEFINE d == draft[j]
<1>1. /\ stage[j] = "store"
      /\ \/ stage' = [stage EXCEPT ![j] = "failed"] /\ crls' = crls
         \/ /\ \A c \in crls : c.number # d.number
            /\ crls' = crls \union {d}
            /\ stage' = [stage EXCEPT ![j] = "audit"]
      /\ draft' = [draft EXCEPT ![j] = NoCrl]
      /\ UNCHANGED <<now, revokedAt, revoker, base, seen, number>>
  BY DEF StoreCrl
<1>2. TypeOK /\ NumbersContiguous /\ NumberTaken /\ RevocationInv /\ GenerationInv
  BY DEF CrlInv
<1>3. d \in CrlRows /\ Follows(d.number) /\ ListedInTime(d) /\ FitsBase(d)
  BY <1>1, <1>2 DEF TypeOK, NumberTaken, GenerationInv
<1>4. crls \subseteq crls' /\ crls' \subseteq crls \union {d}
  BY <1>1
<1>5. TypeOK'
  BY <1>1, <1>2, <1>3, NoCrlIsRow DEF TypeOK, Stages
<1>6. RevocationInv'
  BY <1>1, <1>2, RevocationUndisturbed
<1>7. NumbersContiguous'
  <2>1. CASE crls' = crls
    BY <1>2, <2>1 DEF NumbersContiguous
  <2>2. CASE crls' = crls \union {d} /\ \A c \in crls : c.number # d.number
    <3>1. d.number \in Nat /\ d.number > 0
      BY <1>3 DEF CrlRows, Follows
    <3>2. \A m \in 1..d.number : m = d.number \/ \E c \in crls : c.number = m
      <4> SUFFICES ASSUME NEW m \in 1..d.number, m # d.number
                   PROVE  \E c \in crls : c.number = m
        OBVIOUS
      <4>1. PICK c \in crls : c.number + 1 = d.number
        BY <1>3, <3>1 DEF Follows
      <4>2. c.number \in Nat
        BY <1>2 DEF TypeOK, CrlRows
      <4>3. m \in 1..c.number
        BY <4>1, <4>2, <3>1
      <4> QED
        BY <1>2, <4>3 DEF NumbersContiguous
    <3> HIDE DEF d
    <3>3. \A c \in crls' : \A m \in 1..c.number : \E e \in crls' : e.number = m
      BY <1>2, <2>2, <3>2 DEF NumbersContiguous
    <3> QED
      BY <1>2, <2>2, <3>1, <3>3 DEF NumbersContiguous
  <2> QED
    BY <1>1, <2>1, <2>2
<1>8. NumberTaken'
  BY <1>1, <1>2, <1>4 DEF NumberTaken, Follows, TypeOK
<1>9. GenerationInv'
  <2>1. \A c : ListedInTime(c) => ListedInTime(c)'
    BY <1>1 DEF ListedInTime
  <2>2. \A c : FitsBase(c) => FitsBase(c)'
    BY <1>1, <1>4 DEF FitsBase, DeltaTo
  <2>3. \A c \in crls' : ListedInTime(c)' /\ FitsBase(c)'
    BY <1>2, <1>3, <1>4, <2>1, <2>2 DEF GenerationInv
  <2>4. \A i \in Jobs : stage'[i] = "store" =>
            /\ stage[i] = "store" /\ draft'[i] = draft[i]
            /\ ListedInTime(draft[i]) /\ FitsBase(draft[i])
    BY <1>1, <1>2 DEF TypeOK, GenerationInv
  <2>5. \A i \in Jobs : stage'[i] = "store" => ListedInTime(draft[i])' /\ FitsBase(draft[i])'
    BY <1>1, <1>4, <2>4 DEF ListedInTime, FitsBase, DeltaTo
  <2>6. \A i \in Jobs : stage'[i] = "build" => stage[i] = "build"
    BY <1>1, <1>2 DEF TypeOK
  <2>7. Revoked' = Revoked
    BY <1>1 DEF Revoked
  <2> QED
    BY <1>1, <1>2, <1>4, <2>3, <2>5, <2>6, <2>7 DEF GenerationInv
<1> QED
  BY <1>5, <1>6, <1>7, <1>8, <1>9 DEF CrlInv

\* A generation ends.
LEMMA EndKeeps ==
    ASSUME CrlInv, NEW j \in Jobs, AuditCrl(j) \/ GenerationFails(j)
    PROVE  CrlInv'
<1>1. /\ stage' = [stage EXCEPT ![j] = "done"] \/ stage' = [stage EXCEPT ![j] = "failed"]
      /\ draft' = draft \/ draft' = [draft EXCEPT ![j] = NoCrl]
      /\ base' = base \/ base' = [base EXCEPT ![j] = NoCrl]
      /\ seen' = seen \/ seen' = [seen EXCEPT ![j] = {}]
      /\ number' = number \/ number' = [number EXCEPT ![j] = 0]
      /\ UNCHANGED <<now, revokedAt, revoker, crls>>
  BY DEF AuditCrl, GenerationFails, Forget
<1>2. TypeOK /\ NumbersContiguous /\ NumberTaken /\ RevocationInv /\ GenerationInv
  BY DEF CrlInv
<1>3. TypeOK'
  BY <1>1, <1>2, NoCrlIsRow DEF TypeOK, Stages
<1>4. NumbersContiguous' /\ NumberTaken'
  BY <1>1, <1>2 DEF NumbersContiguous, NumberTaken, Follows, TypeOK
<1>5. RevocationInv'
  BY <1>1, <1>2, RevocationUndisturbed
<1>6. GenerationInv'
  BY <1>1, <1>2 DEF GenerationInv, TypeOK, ListedInTime, FitsBase, DeltaTo, Revoked
<1> QED
  BY <1>3, <1>4, <1>5, <1>6 DEF CrlInv

-----------------------------------------------------------------------------
\* A step in which nothing changes keeps the invariant.
LEMMA StutterKeeps == ASSUME CrlInv, UNCHANGED vars PROVE CrlInv'
<1>1. UNCHANGED <<now, revokedAt, revoker, crls, jobVars>>
  BY DEF vars
<1>2. TypeOK'
  BY <1>1 DEF CrlInv, TypeOK, jobVars
<1>3. NumbersContiguous' /\ NumberTaken'
  BY <1>1, NumbersUndisturbed DEF CrlInv
<1>4. RevocationInv'
  BY <1>1, RevocationUndisturbed DEF CrlInv
<1>5. GenerationInv'
  BY <1>1, GenerationUndisturbed DEF CrlInv
<1> QED
  BY <1>2, <1>3, <1>4, <1>5 DEF CrlInv

\* Every step keeps the invariant.
LEMMA NextKeeps == ASSUME CrlInv, [Next]_vars PROVE CrlInv'
<1>1. CASE Tick
  BY <1>1, TickKeeps
<1>2. ASSUME NEW v \in Revocations, RevocationStep(v) PROVE CrlInv'
  BY <1>2, RevokerMoves, CommitKeeps DEF RevocationStep
<1>3. ASSUME NEW j \in Jobs, JobStep(j) PROVE CrlInv'
  BY <1>3, ReadKeeps, StartDeltaKeeps, NumberKeeps, BuildKeeps, StoreKeeps, EndKeeps
     DEF JobStep
<1>4. CASE UNCHANGED vars
  BY <1>4, StutterKeeps
<1> QED
  BY <1>1, <1>2, <1>3, <1>4 DEF Next

\* CrlInv holds in every reachable state of revoke(), build_full_crl and
\* build_delta_crl.
THEOREM CrlInvariant == Spec => []CrlInv
<1>1. Init => CrlInv
  BY InitCrlInv
<1>2. CrlInv /\ [Next]_vars => CrlInv'
  BY NextKeeps
<1> QED
  BY <1>1, <1>2, PTL DEF Spec

\* A delta CRL fits a stored full CRL: it lists only what was revoked after
\* this base's thisUpdate, and repeats an entry of it only as far as the clocks
\* of the database and the CA may differ (build_delta_crl), for every MaxSkew.
THEOREM DeltasSound == Spec => []DeltaOnlyChanges
<1>1. CrlInv => DeltaOnlyChanges
  BY DEF CrlInv, GenerationInv, FitsBase, DeltaTo, DeltaOnlyChanges
<1> QED
  BY <1>1, CrlInvariant, PTL

\* revoke() tells the truth, and of concurrent calls for a certificate at
\* most one reports success.
THEOREM RevocationsTruthful == Spec => []RevocationTruthful
<1>1. CrlInv => RevocationTruthful
  BY DEF CrlInv, RevocationInv, RevocationTruthful
<1> QED
  BY <1>1, CrlInvariant, PTL

\* A step changes the table of CRLs only by an INSERT above all numbers.
LEMMA StepInOrder ==
    ASSUME CrlInv, [Next]_vars, crls' # crls
    PROVE  /\ crls \subseteq crls'
           /\ \A c \in crls' \ crls, d \in crls : d.number < c.number
           /\ \A c, d \in crls' \ crls : c = d
<1>1. PICK j \in Jobs : StoreCrl(j)
  BY DEF Next, Tick, RevocationStep, FindCertificate, StartUpdate, CommitUpdate,
     AuditRevocation, RevocationFails, JobStep, StartFull, StartDelta, ReadRevoked,
     NextCrlNumber, BuildAndSign, AuditCrl, GenerationFails, vars
<1>2. crls' = crls \union {draft[j]} /\ \A c \in crls : c.number # draft[j].number
  BY <1>1 DEF StoreCrl
<1>3. draft[j].number \in Nat /\ draft[j].number > 0
  BY <1>1 DEF StoreCrl, CrlInv, TypeOK, CrlRows, NumberTaken, Follows
<1>4. \A d \in crls : d.number < draft[j].number
  BY <1>2, <1>3, FreeNumberIsHighest DEF CrlInv
<1> QED
  BY <1>2, <1>4

\* CRLs are inserted in the order of their numbers, whatever generations run
\* side by side: next_crl_number and the unique constraint together.
THEOREM CrlNumbersInOrder == Spec => NumbersInOrder
<1>1. CrlInv /\ [Next]_vars =>
        [ /\ crls \subseteq crls'
          /\ \A c \in crls' \ crls, d \in crls : d.number < c.number
          /\ \A c, d \in crls' \ crls : c = d ]_crls
  BY StepInOrder
<1> QED
  BY <1>1, CrlInvariant, PTL DEF Spec, NumbersInOrder
=============================================================================
