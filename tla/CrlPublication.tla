--------------------------- MODULE CrlPublication ---------------------------
(***************************************************************************)
(* Revocation and the publication of full and delta CRLs.                  *)
(*                                                                         *)
(* RevocationManager::revoke, build_full_crl and build_delta_crl           *)
(* (crates/ostrich-ca/src/revocation.rs) over CertificateRepository and    *)
(* CrlRepository (crates/ostrich-db/src/repository).  Calls run side by    *)
(* side, in one or more CA servers; each SQL statement is atomic, no       *)
(* transaction spans two of them.  Revocation times are PostgreSQL's       *)
(* NOW(), thisUpdate is the Utc::now() of the CA server that builds the    *)
(* list: clocks of different hosts, each of which may differ from the time *)
(* by up to MaxSkew, differently at every reading, and may step back.      *)
(***************************************************************************)
EXTENDS Naturals

CONSTANTS
    Certs,          \* certificates of one CA
    Revocations,    \* calls of revoke()
    Jobs,           \* calls of generate_crl_by and generate_delta_crl_by
    MaxTime,        \* time stops here
    MaxSkew         \* how far a host's clock may be off

ASSUME TimeAssumption == MaxTime \in Nat /\ MaxSkew \in Nat

VARIABLES
    now,        \* the time, which no program sees
    revokedAt,  \* revocation_time of each certificate, 0 while it is valid
    revoker,    \* the state of each revocation
    crls,       \* table crls
    stage,      \* where each generation is
    base,       \* the base CRL a delta generation has read
    seen,       \* the revoked certificates a generation has read
    number,     \* the CRL number a generation has read
    draft       \* the signed CRL a generation is about to store

jobVars == <<stage, base, seen, number, draft>>
vars == <<now, revokedAt, revoker, crls, jobVars>>

\* None of an optional CRL, and a generation that has not built one yet.
NoCrl == [number |-> 0, this_update |-> 0, base_number |-> 0, entries |-> {}, seen |-> {}]

\* A row of crls.  base_number is 0 in a full CRL (is_delta = false); seen
\* is kept for the properties: what the generator had read.
CrlRows == [number : Nat, this_update : Nat, base_number : Nat,
            entries : SUBSET Certs, seen : SUBSET Certs]

Stages == {"idle", "list", "number", "build", "store", "audit", "done", "failed"}
RevokerPCs == {"idle", "update", "commit", "audit", "ok", "already", "conflict", "error"}

TypeOK ==
    /\ now \in Nat
    /\ revokedAt \in [Certs -> Nat]
    /\ revoker \in [Revocations -> [pc : RevokerPCs, cert : Certs, time : Nat]]
    /\ crls \subseteq CrlRows
    /\ stage \in [Jobs -> Stages]
    /\ base \in [Jobs -> CrlRows]
    /\ seen \in [Jobs -> SUBSET Certs]
    /\ number \in [Jobs -> Nat]
    /\ draft \in [Jobs -> CrlRows]

Init ==
    /\ now = 1
    /\ revokedAt = [c \in Certs |-> 0]
    /\ revoker \in [Revocations -> [pc : {"idle"}, cert : Certs, time : {0}]]
    /\ crls = {}
    /\ stage = [j \in Jobs |-> "idle"]
    /\ base = [j \in Jobs |-> NoCrl]
    /\ seen = [j \in Jobs |-> {}]
    /\ number = [j \in Jobs |-> 0]
    /\ draft = [j \in Jobs |-> NoCrl]

Tick ==
    /\ now < MaxTime
    /\ now' = now + 1
    /\ UNCHANGED <<revokedAt, revoker, crls, jobVars>>

\* What a host's clock may show.
Readings == { t \in 1..(now + MaxSkew) : now <= t + MaxSkew }

-----------------------------------------------------------------------------
(* revoke().                                                               *)

RevokerAt(v, pc, time) ==
    revoker' = [revoker EXCEPT ![v] = [pc |-> pc, cert |-> revoker[v].cert, time |-> time]]

\* find_by_id; a certificate read as revoked is refused.
FindCertificate(v) ==
    /\ revoker[v].pc = "idle"
    /\ RevokerAt(v, IF revokedAt[revoker[v].cert] # 0 THEN "already" ELSE "update", 0)
    /\ UNCHANGED <<now, revokedAt, crls, jobVars>>

\* The UPDATE starts: NOW() is the time at which its transaction began.
StartUpdate(v) ==
    /\ revoker[v].pc = "update"
    /\ \E t \in Readings : RevokerAt(v, "commit", t)
    /\ UNCHANGED <<now, revokedAt, crls, jobVars>>

\* An UPDATE without its "AND revoked = false".
CommitUpdateAlways(v) ==
    LET r == revoker[v] IN
    /\ r.pc = "commit"
    /\ revokedAt' = [revokedAt EXCEPT ![r.cert] = r.time]
    /\ RevokerAt(v, "audit", r.time)
    /\ UNCHANGED <<now, crls, jobVars>>

\* The UPDATE, WHERE revoked = false, takes effect; it matches no row when
\* another call was first.
CommitUpdate(v) ==
    LET r == revoker[v] IN
    /\ r.pc = "commit"
    /\ IF revokedAt[r.cert] = 0
       THEN /\ revokedAt' = [revokedAt EXCEPT ![r.cert] = r.time]
            /\ RevokerAt(v, "audit", r.time)
       ELSE /\ RevokerAt(v, "conflict", 0)
            /\ UNCHANGED revokedAt
    /\ UNCHANGED <<now, crls, jobVars>>

\* The success record is written.
AuditRevocation(v) ==
    /\ revoker[v].pc = "audit"
    /\ RevokerAt(v, "ok", revoker[v].time)
    /\ UNCHANGED <<now, revokedAt, crls, jobVars>>

\* The database or the audit sink fails, or the server dies; a committed
\* revocation stays.
RevocationFails(v) ==
    /\ revoker[v].pc \in {"update", "commit", "audit"}
    /\ RevokerAt(v, "error", 0)
    /\ UNCHANGED <<now, revokedAt, crls, jobVars>>

-----------------------------------------------------------------------------
(* build_full_crl and build_delta_crl.                                     *)

Revoked == { c \in Certs : revokedAt[c] # 0 }

\* ORDER BY crl_number DESC LIMIT 1, over the full CRLs.
LatestFull ==
    { c \in crls : /\ c.base_number = 0
                   /\ \A d \in crls : d.base_number = 0 => d.number <= c.number }

\* A full generation begins with find_revoked.
StartFull(j) ==
    /\ stage[j] = "idle"
    /\ stage' = [stage EXCEPT ![j] = "number"]
    /\ seen' = [seen EXCEPT ![j] = Revoked]
    /\ UNCHANGED <<now, revokedAt, revoker, crls, base, number, draft>>

\* A delta generation begins with find_latest_crl; without one it fails.
StartDelta(j) ==
    /\ stage[j] = "idle"
    /\ \/ /\ LatestFull = {}
          /\ stage' = [stage EXCEPT ![j] = "failed"]
          /\ UNCHANGED base
       \/ \E b \in LatestFull :
             /\ stage' = [stage EXCEPT ![j] = "list"]
             /\ base' = [base EXCEPT ![j] = b]
    /\ UNCHANGED <<now, revokedAt, revoker, crls, seen, number, draft>>

ReadRevoked(j) ==
    /\ stage[j] = "list"
    /\ stage' = [stage EXCEPT ![j] = "number"]
    /\ seen' = [seen EXCEPT ![j] = Revoked]
    /\ UNCHANGED <<now, revokedAt, revoker, crls, base, number, draft>>

\* SELECT COALESCE(MAX(crl_number), 0) + 1, full and delta CRLs together.
NextCrlNumber(j) ==
    /\ stage[j] = "number"
    /\ \E n \in { c.number : c \in crls } \union {0} :
         /\ \A c \in crls : c.number <= n
         /\ number' = [number EXCEPT ![j] = n + 1]
    /\ stage' = [stage EXCEPT ![j] = "build"]
    /\ UNCHANGED <<now, revokedAt, revoker, crls, base, seen, draft>>

\* What a generation has read is not needed any more.
Forget(j) ==
    /\ base' = [base EXCEPT ![j] = NoCrl]
    /\ seen' = [seen EXCEPT ![j] = {}]
    /\ number' = [number EXCEPT ![j] = 0]

\* A filter that keeps what was revoked at thisUpdate itself.
EntriesFrom(j) ==
    IF base[j] = NoCrl THEN seen[j]
    ELSE { c \in seen[j] : revokedAt[c] >= base[j].this_update }

\* The entries: for a delta, those revoked after the base's thisUpdate.
Entries(j) ==
    IF base[j] = NoCrl THEN seen[j]
    ELSE { c \in seen[j] : revokedAt[c] > base[j].this_update }

\* The list is built, thisUpdate is Utc::now(), and signed.
BuildAndSign(j) ==
    /\ stage[j] = "build"
    /\ \E t \in Readings :
         draft' = [draft EXCEPT ![j] =
           [number |-> number[j], this_update |-> t, base_number |-> base[j].number,
            entries |-> Entries(j), seen |-> seen[j]]]
    /\ stage' = [stage EXCEPT ![j] = "store"]
    /\ Forget(j)
    /\ UNCHANGED <<now, revokedAt, revoker, crls>>

\* A table without its unique constraint.
StoreAnyNumber(j) ==
    /\ stage[j] = "store"
    /\ crls' = crls \union {draft[j]}
    /\ stage' = [stage EXCEPT ![j] = "audit"]
    /\ draft' = [draft EXCEPT ![j] = NoCrl]
    /\ UNCHANGED <<now, revokedAt, revoker, base, seen, number>>

\* create_crl: INSERT, refused by UNIQUE (ca_id, crl_number).
StoreCrl(j) ==
    /\ stage[j] = "store"
    /\ IF \E c \in crls : c.number = draft[j].number
       THEN /\ stage' = [stage EXCEPT ![j] = "failed"]
            /\ UNCHANGED crls
       ELSE /\ crls' = crls \union {draft[j]}
            /\ stage' = [stage EXCEPT ![j] = "audit"]
    /\ draft' = [draft EXCEPT ![j] = NoCrl]
    /\ UNCHANGED <<now, revokedAt, revoker, base, seen, number>>

\* The CrlGeneration record is written.
AuditCrl(j) ==
    /\ stage[j] = "audit"
    /\ stage' = [stage EXCEPT ![j] = "done"]
    /\ UNCHANGED <<now, revokedAt, revoker, crls, base, seen, number, draft>>

\* Any stage may fail (database, key, signing, audit), or the server die; a
\* stored CRL stays published.
GenerationFails(j) ==
    /\ stage[j] \in {"list", "number", "build", "store", "audit"}
    /\ stage' = [stage EXCEPT ![j] = "failed"]
    /\ draft' = [draft EXCEPT ![j] = NoCrl]
    /\ Forget(j)
    /\ UNCHANGED <<now, revokedAt, revoker, crls>>

-----------------------------------------------------------------------------
RevocationStep(v) ==
    \/ FindCertificate(v)
    \/ StartUpdate(v)
    \/ CommitUpdate(v)
    \/ AuditRevocation(v)
    \/ RevocationFails(v)

JobStep(j) ==
    \/ StartFull(j)
    \/ StartDelta(j)
    \/ ReadRevoked(j)
    \/ NextCrlNumber(j)
    \/ BuildAndSign(j)
    \/ StoreCrl(j)
    \/ AuditCrl(j)
    \/ GenerationFails(j)

Next ==
    \/ Tick
    \/ \E v \in Revocations : RevocationStep(v)
    \/ \E j \in Jobs : JobStep(j)

Spec == Init /\ [][Next]_vars

-----------------------------------------------------------------------------
(* Properties.                                                             *)

\* CRLs are published in the order of their numbers (RFC 5280 5.2.3): a step
\* adds at most one CRL, numbered above all others, and alters none, although
\* MAX(crl_number) + 1 is read long before the row is inserted.
NumbersInOrder ==
    [][ /\ crls \subseteq crls'
        /\ \A c \in crls' \ crls, d \in crls : d.number < c.number
        /\ \A c, d \in crls' \ crls : c = d ]_crls

\* d is a delta to the full CRL b: b has a lower number, the times recorded
\* for the entries of d are after b's thisUpdate, and an entry that b has too
\* is one that a clock ahead of b's put there, by no more than two clocks can
\* differ.
DeltaTo(d, b) ==
    /\ b.number = d.base_number
    /\ b.number < d.number
    /\ b.base_number = 0
    /\ \A x \in d.entries : revokedAt[x] > b.this_update
    /\ \A x \in d.entries \intersect b.entries : revokedAt[x] <= b.this_update + 2 * MaxSkew

\* A delta names a stored full CRL with a lower number as its base and lists
\* only what was revoked after this base's thisUpdate (RFC 5280 5.2.4); it
\* repeats an entry of the base only as far as the clocks of the database and
\* the CA differ, so never when they agree.
DeltaOnlyChanges ==
    \A d \in crls : d.base_number # 0 => \E b \in crls : DeltaTo(d, b)

\* What revoke() reports is what happened, and of concurrent revocations of a
\* certificate one at most reports success: the one whose time is recorded.
RevocationTruthful ==
    \A v \in Revocations :
        LET r == revoker[v] IN
        /\ r.pc = "ok" =>
             /\ revokedAt[r.cert] = r.time
             /\ \A w \in Revocations :
                  revoker[w].pc = "ok" /\ revoker[w].cert = r.cert => w = v
        /\ r.pc \in {"already", "conflict"} => revokedAt[r.cert] # 0

\* A certificate that a full CRL lists is listed by every later one: the
\* latest CRL, the one that is served, takes no revocation back.
RevokedStaysListed ==
    \A c, d \in crls :
        c.base_number = 0 /\ d.base_number = 0 /\ c.number < d.number
          => c.entries \subseteq d.entries

\* A delta and its base together list every revoked certificate that the
\* delta's generator has read.
DeltaComplete ==
    \A d \in crls : d.base_number # 0 =>
        \A b \in crls : b.number = d.base_number => d.seen \subseteq b.entries \union d.entries

(* The inductive invariant behind NumbersInOrder, DeltaOnlyChanges and     *)
(* RevocationTruthful.                                                     *)

\* CRL numbers are unique and leave no gap.
NumbersContiguous ==
    /\ \A c, d \in crls : c.number = d.number => c = d
    /\ \A c \in crls : c.number > 0
    /\ \A c \in crls : \A n \in 1..c.number : \E d \in crls : d.number = n

\* The predecessor of a number that is waiting to be used has been used: with
\* NumbersContiguous, a number still free at the INSERT is above all others.
Follows(n) == n > 0 /\ (n = 1 \/ \E c \in crls : c.number + 1 = n)

NumberTaken ==
    \A j \in Jobs :
        /\ stage[j] = "build" => Follows(number[j])
        /\ stage[j] = "store" => Follows(draft[j].number)

\* No recorded time is further ahead than a clock can be, and the calls that
\* committed their UPDATE own the revocation time of their certificate, each
\* certificate one.
RevocationInv ==
    /\ now > 0
    /\ \A c \in Certs : revokedAt[c] <= now + MaxSkew
    /\ \A v \in Revocations : revoker[v].time <= now + MaxSkew
    /\ \A v \in Revocations : revoker[v].pc = "commit" => revoker[v].time > 0
    /\ \A v \in Revocations : revoker[v].pc \in {"audit", "ok"} =>
         /\ revoker[v].time > 0
         /\ revokedAt[revoker[v].cert] = revoker[v].time
    /\ \A v, w \in Revocations :
         /\ revoker[v].pc \in {"audit", "ok"}
         /\ revoker[w].pc \in {"audit", "ok"}
         /\ revoker[v].cert = revoker[w].cert
         => v = w
    /\ \A v \in Revocations :
         revoker[v].pc \in {"already", "conflict"} => revokedAt[revoker[v].cert] # 0

\* The entries of a CRL were revoked before it was built: by the clocks, not
\* more than twice the skew after its thisUpdate.
ListedInTime(c) ==
    \A x \in c.entries : revokedAt[x] # 0 /\ revokedAt[x] <= c.this_update + 2 * MaxSkew

\* A delta fits a stored base.
FitsBase(d) == d.base_number # 0 => \E b \in crls : DeltaTo(d, b)

\* What a generation carries along: its base is a stored full CRL numbered
\* below it, and what it read as revoked is revoked.
GenerationInv ==
    /\ \A c \in crls : ListedInTime(c) /\ FitsBase(c)
    /\ \A j \in Jobs :
         /\ seen[j] \subseteq Revoked
         /\ base[j] # NoCrl => base[j] \in crls /\ base[j].base_number = 0
         /\ stage[j] = "build" /\ base[j] # NoCrl => base[j].number < number[j]
         /\ stage[j] = "store" => ListedInTime(draft[j]) /\ FitsBase(draft[j])

CrlInv == TypeOK /\ NumbersContiguous /\ NumberTaken /\ RevocationInv /\ GenerationInv
=============================================================================
