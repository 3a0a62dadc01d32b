--------------------------- MODULE FrontEndProofs ---------------------------
(* Proofs about the front ends.  GrpcListener, for any finite number of    *)
(* connections, any sources and any limits: no failure escapes the audit   *)
(* trail, and no handshake slot is lost or given back twice.  OcspCache,   *)
(* for any number of requests and keys and any size of the cache.          *)
EXTENDS GrpcListener, OcspCache, FiniteSetTheorems, WellFoundedInduction, TLAPS

-----------------------------------------------------------------------------
(* Sums over finite sets.                                                  *)

\* The function that SumFunctionOnSet evaluates, and the equation it solves.
PickOf(s) == CHOOSE x \in s : TRUE
Unfold(f, g, s) == IF s = {} THEN 0 ELSE f[PickOf(s)] + g[s \ {PickOf(s)}]
SumFcn(f, S) == CHOOSE g : g = [s \in SUBSET S |-> Unfold(f, g, s)]

\* The community operator is that function's value at the whole set.
LEMMA SumIs == ASSUME NEW f, NEW S PROVE SumFunctionOnSet(f, S) = SumFcn(f, S)[S]
  BY DEF SumFunctionOnSet, FoldFunctionOnSet, MapThenFoldSet, SumFcn, Unfold, PickOf

\* A nonempty set of naturals has a least element.
LEMMA LeastNat ==
    ASSUME NEW T \in SUBSET Nat, T # {}
    PROVE  \E n \in T : \A m \in T : n <= m
<1> DEFINE R == { ss \in Nat \X Nat : ss[1] < ss[2] }
<1>1. IsWellFoundedOn(R, Nat)
  BY NatLessThanWellFounded, Zenon DEF OpToRel
<1>2. \E x \in T : \A y \in T : ~ (<<y, x>> \in R)
  <2> HIDE DEF R
  <2>1. QED
    BY <1>1, WFMin
<1>3. PICK n \in T : \A m \in T : <<m, n>> \notin R
  BY <1>2
<1>4. ASSUME NEW m \in T PROVE n <= m
  <2>1. m \in Nat /\ n \in Nat /\ <<m, n>> \notin R
    BY <1>3
  <2>2. <<m, n>> \in Nat \X Nat /\ <<m, n>>[1] = m /\ <<m, n>>[2] = n
    BY <2>1
  <2>3. ~ (m < n)
    BY <2>1, <2>2
  <2>4. QED
    BY <2>1, <2>3
<1>5. QED
  BY <1>4

\* Induction on a set of naturals.
LEMMA SetInduction ==
    ASSUME NEW G \in SUBSET Nat, 0 \in G, \A n \in Nat : n \in G => n + 1 \in G
    PROVE  G = Nat
<1>1. SUFFICES ASSUME Nat \ G # {} PROVE FALSE
  OBVIOUS
<1>2. PICK n \in Nat \ G : \A m \in Nat \ G : n <= m
  BY <1>1, LeastNat
<1>3. n # 0 /\ n - 1 \in Nat /\ n = (n - 1) + 1
  BY <1>2
<1>4. n - 1 \in G
  BY <1>2, <1>3
<1>5. QED
  BY <1>2, <1>3, <1>4

\* Taking an element out of a finite set.
LEMMA PickOut ==
    ASSUME NEW S, IsFiniteSet(S), NEW s \in SUBSET S, s # {}
    PROVE  /\ PickOf(s) \in s /\ s \ {PickOf(s)} \in SUBSET S /\ IsFiniteSet(s)
           /\ Cardinality(s) \in Nat /\ Cardinality(s \ {PickOf(s)}) \in Nat
           /\ Cardinality(s) = Cardinality(s \ {PickOf(s)}) + 1
<1>1. PickOf(s) \in s
  BY DEF PickOf
<1>2. IsFiniteSet(s)
  BY FS_Subset
<1>3. /\ IsFiniteSet(s \ {PickOf(s)})
      /\ Cardinality(s \ {PickOf(s)}) = Cardinality(s) - 1
  BY <1>1, <1>2, FS_RemoveElement
<1>4. Cardinality(s) \in Nat /\ Cardinality(s \ {PickOf(s)}) \in Nat
  BY <1>2, <1>3, FS_CardinalityType
<1>5. QED
  BY <1>1, <1>2, <1>3, <1>4

\* The equation has a solution on a finite set, so SumFcn is one.
LEMMA SumUnfolds ==
    ASSUME NEW f, NEW S, IsFiniteSet(S)
    PROVE  \A s \in SUBSET S : SumFcn(f, S)[s] = Unfold(f, SumFcn(f, S), s)
<1> DEFINE Sub(n) == { s \in SUBSET S : Cardinality(s) <= n }
           G == { n \in Nat : \E g : g = [s \in Sub(n) |-> Unfold(f, g, s)] }
<1>1. 0 \in G
  <2> DEFINE g0 == [s \in Sub(0) |-> 0]
  <2>1. ASSUME NEW s \in Sub(0) PROVE s = {}
    <3>1. IsFiniteSet(s) /\ Cardinality(s) \in Nat
      BY FS_Subset, FS_CardinalityType
    <3>2. QED
      BY <3>1, FS_EmptySet
  <2>2. g0 = [s \in Sub(0) |-> Unfold(f, g0, s)]
    BY <2>1 DEF Unfold
  <2>3. QED
    BY <2>2
<1>2. ASSUME NEW n \in Nat, n \in G PROVE n + 1 \in G
  <2>1. PICK g : g = [s \in Sub(n) |-> Unfold(f, g, s)]
    BY <1>2
  <2> DEFINE h == [s \in Sub(n + 1) |-> Unfold(f, g, s)]
  <2>2. ASSUME NEW s \in Sub(n + 1) PROVE Unfold(f, g, s) = Unfold(f, h, s)
    <3>1. CASE s = {}
      BY <3>1 DEF Unfold
    <3>2. CASE s # {}
      <4> DEFINE r == s \ {PickOf(s)}
      <4>1. r \in SUBSET S /\ Cardinality(r) \in Nat /\ Cardinality(s) = Cardinality(r) + 1
        BY <3>2, PickOut
      <4>2. r \in Sub(n) /\ r \in Sub(n + 1)
        BY <4>1
      <4>3. h[r] = Unfold(f, g, r) /\ g[r] = Unfold(f, g, r)
        <5> HIDE DEF Sub, r
        <5>1. QED
          BY <2>1, <4>2
      <4>4. QED
        <5> HIDE DEF h
        <5>1. QED
          BY <3>2, <4>3 DEF Unfold
    <3>3. QED
      BY <3>1, <3>2
  <2>3. h = [s \in Sub(n + 1) |-> Unfold(f, h, s)]
    <3>1. \A s \in Sub(n + 1) : Unfold(f, g, s) = Unfold(f, h, s)
      BY <2>2
    <3> DEFINE k == [s \in Sub(n + 1) |-> Unfold(f, h, s)]
    <3>2. h = k
      <4> HIDE DEF Sub
      <4>1. \A s \in Sub(n + 1) : h[s] = Unfold(f, g, s) /\ k[s] = Unfold(f, h, s)
        OBVIOUS
      <4>2. QED
        BY <3>1
    <3>3. QED
      BY <3>2
  <2>4. \E q : q = [s \in Sub(n + 1) |-> Unfold(f, q, s)]
    <3> HIDE DEF h, Sub
    <3>1. QED
      BY <2>3
  <2>5. n + 1 \in Nat
    OBVIOUS
  <2>6. QED
    <3> HIDE DEF Sub
    <3>1. QED
      BY <2>4, <2>5
<1>3. G = Nat
  <2> HIDE DEF G
  <2>1. G \in SUBSET Nat
    BY DEF G
  <2>2. QED
    BY <1>1, <1>2, <2>1, SetInduction
<1>4. Cardinality(S) \in G
  BY <1>3, FS_CardinalityType
<1>5. Sub(Cardinality(S)) = SUBSET S
  BY FS_Subset
<1>6. \E g : g = [s \in SUBSET S |-> Unfold(f, g, s)]
  BY <1>4, <1>5
<1> DEFINE F == SumFcn(f, S)
<1>7. F = [s \in SUBSET S |-> Unfold(f, F, s)]
  BY <1>6 DEF SumFcn
<1>8. \A s \in SUBSET S : F[s] = Unfold(f, F, s)
  <2> HIDE DEF F
  <2>1. QED
    BY <1>7
<1>9. QED
  BY <1>8

\* A sum of naturals is one.
LEMMA SumNat ==
    ASSUME NEW S, IsFiniteSet(S), NEW f \in [S -> Nat]
    PROVE  \A s \in SUBSET S : SumFcn(f, S)[s] \in Nat
<1> DEFINE F == SumFcn(f, S)
           G == { n \in Nat : \A s \in SUBSET S : Cardinality(s) = n => F[s] \in Nat }
<1>0. \A s \in SUBSET S : F[s] = Unfold(f, F, s)
  BY SumUnfolds
<1> HIDE DEF F
<1>1. 0 \in G
  <2>1. ASSUME NEW s \in SUBSET S, Cardinality(s) = 0 PROVE F[s] \in Nat
    <3>1. IsFiniteSet(s)
      BY FS_Subset
    <3>2. s = {}
      BY <2>1, <3>1, FS_EmptySet
    <3>3. QED
      BY <1>0, <3>2 DEF Unfold
  <2>2. QED
    BY <2>1
<1>2. ASSUME NEW n \in Nat, n \in G PROVE n + 1 \in G
  <2>1. ASSUME NEW s \in SUBSET S, Cardinality(s) = n + 1 PROVE F[s] \in Nat
    <3>1. s # {}
      BY <2>1, FS_EmptySet
    <3>2. /\ PickOf(s) \in S /\ s \ {PickOf(s)} \in SUBSET S
          /\ Cardinality(s \ {PickOf(s)}) = n
      BY <2>1, <3>1, PickOut
    <3>3. F[s \ {PickOf(s)}] \in Nat
      BY <1>2, <3>2
    <3>4. QED
      BY <1>0, <3>1, <3>2, <3>3 DEF Unfold
  <2>2. QED
    BY <2>1
<1>3. G = Nat
  <2> HIDE DEF G
  <2>1. G \in SUBSET Nat
    BY DEF G
  <2>2. QED
    BY <1>1, <1>2, <2>1, SetInduction
<1>4. ASSUME NEW s \in SUBSET S PROVE F[s] \in Nat
  <2>1. Cardinality(s) \in G
    BY <1>3, FS_Subset, FS_CardinalityType
  <2>2. QED
    BY <2>1
<1>5. QED
  BY <1>4 DEF F

\* Changing the value at one point changes the sum by as much.
LEMMA SumChanges ==
    ASSUME NEW S, IsFiniteSet(S), NEW f \in [S -> Nat], NEW g \in [S -> Nat], NEW c \in S,
           \A x \in S \ {c} : g[x] = f[x]
    PROVE  /\ SumFunctionOnSet(f, S) \in Nat /\ SumFunctionOnSet(g, S) \in Nat
           /\ SumFunctionOnSet(g, S) + f[c] = SumFunctionOnSet(f, S) + g[c]
<1> DEFINE A == SumFcn(f, S)
           B == SumFcn(g, S)
           Moves(s) == IF c \in s THEN B[s] + f[c] = A[s] + g[c] ELSE B[s] = A[s]
           G == { n \in Nat : \A s \in SUBSET S : Cardinality(s) = n => Moves(s) }
<1>0. \A s \in SUBSET S : A[s] = Unfold(f, A, s) /\ B[s] = Unfold(g, B, s)
  BY SumUnfolds
<1>n. \A s \in SUBSET S : A[s] \in Nat /\ B[s] \in Nat
  BY SumNat
<1> HIDE DEF A, B
<1>1. 0 \in G
  <2>1. ASSUME NEW s \in SUBSET S, Cardinality(s) = 0 PROVE Moves(s)
    <3>1. IsFiniteSet(s)
      BY FS_Subset
    <3>2. s = {}
      BY <2>1, <3>1, FS_EmptySet
    <3>3. QED
      BY <1>0, <3>2 DEF Unfold
  <2>2. QED
    BY <2>1
<1>2. ASSUME NEW n \in Nat, n \in G PROVE n + 1 \in G
  <2>1. ASSUME NEW s \in SUBSET S, Cardinality(s) = n + 1 PROVE Moves(s)
    <3>1. s # {}
      BY <2>1, FS_EmptySet
    <3> DEFINE x == PickOf(s)
               r == s \ {x}
    <3>2. x \in s /\ x \in S /\ r \in SUBSET S /\ Cardinality(r) = n
      BY <2>1, <3>1, PickOut
    <3>3. Moves(r) /\ A[r] \in Nat /\ B[r] \in Nat /\ f[x] \in Nat /\ g[x] \in Nat /\ f[c] \in Nat /\ g[c] \in Nat
      BY <1>2, <1>n, <3>2
    <3>4. A[s] = f[x] + A[r] /\ B[s] = g[x] + B[r]
      BY <1>0, <3>1 DEF Unfold
    <3>5. c \in r <=> c \in s /\ c # x
      OBVIOUS
    <3> HIDE DEF x, r
    <3>6. CASE c = x
      BY <3>2, <3>3, <3>4, <3>5, <3>6
    <3>7. CASE c # x
      BY <3>2, <3>3, <3>4, <3>5, <3>7
    <3>8. QED
      BY <3>6, <3>7
  <2>2. QED
    BY <2>1
<1>3. G = Nat
  <2> HIDE DEF G
  <2>1. G \in SUBSET Nat
    BY DEF G
  <2>2. QED
    BY <1>1, <1>2, <2>1, SetInduction
<1>4. Moves(S)
  <2>1. Cardinality(S) \in G
    BY <1>3, FS_CardinalityType
  <2>2. QED
    BY <2>1
<1>5. SumFunctionOnSet(f, S) = A[S] /\ SumFunctionOnSet(g, S) = B[S]
  BY SumIs DEF A, B
<1>6. QED
  BY <1>4, <1>5, <1>n

\* The sum of zeros.
LEMMA SumZero ==
    ASSUME NEW S, IsFiniteSet(S), NEW f, \A x \in S : f[x] = 0
    PROVE  SumFunctionOnSet(f, S) = 0
<1> DEFINE F == SumFcn(f, S)
           G == { n \in Nat : \A s \in SUBSET S : Cardinality(s) = n => F[s] = 0 }
<1>0. \A s \in SUBSET S : F[s] = Unfold(f, F, s)
  BY SumUnfolds
<1> HIDE DEF F
<1>1. 0 \in G
  <2>1. ASSUME NEW s \in SUBSET S, Cardinality(s) = 0 PROVE F[s] = 0
    <3>1. IsFiniteSet(s)
      BY FS_Subset
    <3>2. s = {}
      BY <2>1, <3>1, FS_EmptySet
    <3>3. QED
      BY <1>0, <3>2 DEF Unfold
  <2>2. QED
    BY <2>1
<1>2. ASSUME NEW n \in Nat, n \in G PROVE n + 1 \in G
  <2>1. ASSUME NEW s \in SUBSET S, Cardinality(s) = n + 1 PROVE F[s] = 0
    <3>1. s # {}
      BY <2>1, FS_EmptySet
    <3>2. /\ PickOf(s) \in S /\ s \ {PickOf(s)} \in SUBSET S
          /\ Cardinality(s \ {PickOf(s)}) = n
      BY <2>1, <3>1, PickOut
    <3>3. F[s \ {PickOf(s)}] = 0
      BY <1>2, <3>2
    <3>4. QED
      BY <1>0, <3>1, <3>2, <3>3 DEF Unfold
  <2>2. QED
    BY <2>1
<1>3. G = Nat
  <2> HIDE DEF G
  <2>1. G \in SUBSET Nat
    BY DEF G
  <2>2. QED
    BY <1>1, <1>2, <2>1, SetInduction
<1>4. F[S] = 0
  <2>1. Cardinality(S) \in G
    BY <1>3, FS_CardinalityType
  <2>2. QED
    BY <2>1
<1>5. QED
  BY <1>4, SumIs DEF F

-----------------------------------------------------------------------------
(* What a step leaves alone.                                               *)

\* The types, without the bounds on the slots.
PlainTypes ==
    /\ limits \in Limits
    /\ open \in BOOLEAN
    /\ loopPc \in {"permit", "accept", "stopped"}
    /\ connPc \in [Conns -> {"new", "handshake", "failed", "send", "queued", "served",
                             "handling", "denied", "summary", "record", "closed"}]
    /\ task \in [Conns -> [limiter : Limiters, summary : Nat, record : BOOLEAN]]
    /\ stale \subseteq Conns
    /\ recorded \in [Limiters -> 0..limits.audit]
    /\ suppressed \in [Limiters -> Nat]
    /\ windowOver \in [Limiters -> BOOLEAN]
    /\ flushing \in [Limiters -> Nat]
    /\ owed \in [Limiters -> Int]

\* The slots, with their bounds.
SlotTypes ==
    /\ permits \in 0..limits.inflight
    /\ perSource \in [Sources -> 0..limits.per_source]

\* The parts of the invariant.
LEMMA InvParts ==
    ASSUME ListenerInv
    PROVE  PlainTypes /\ SlotTypes /\ SlotsBalanced /\ TaskInv /\ FailuresAccounted
  BY DEF ListenerInv, ListenerTypeOK, PlainTypes, SlotTypes

\* What tasks hold is a natural number, and so is the sum of it.
LEMMA HeldNat ==
    ASSUME NEW t \in [Conns -> [limiter : Limiters, summary : Nat, record : BOOLEAN]],
           NEW c \in Conns, NEW l \in Limiters
    PROVE  (IF t[c].limiter # l THEN 0 ELSE t[c].summary + (IF t[c].record THEN 1 ELSE 0)) \in Nat
<1>1. t[c].summary \in Nat
  OBVIOUS
<1>2. (IF t[c].record THEN 1 ELSE 0) \in Nat
  OBVIOUS
<1>3. QED
  BY <1>1, <1>2

\* The task of one connection changes: what all hold changes by as much.
LEMMA HeldChanges ==
    ASSUME PlainTypes, NEW c \in Conns, NEW l \in Limiters,
           task' \in [Conns -> [limiter : Limiters, summary : Nat, record : BOOLEAN]],
           \A d \in Conns \ {c} : task'[d] = task[d]
    PROVE  /\ HeldTotal(l) \in Nat /\ HeldTotal(l)' \in Nat
           /\ Held(c, l) \in Nat /\ Held(c, l)' \in Nat
           /\ HeldTotal(l)' + Held(c, l) = HeldTotal(l) + Held(c, l)'
<1> DEFINE f == [d \in Conns |-> Held(d, l)]
           g == [d \in Conns |-> Held(d, l)']
<1>1. \A d \in Conns : Held(d, l) \in Nat /\ Held(d, l)' \in Nat
  BY HeldNat DEF PlainTypes, Held
<1>2. f \in [Conns -> Nat] /\ g \in [Conns -> Nat] /\ f[c] = Held(c, l) /\ g[c] = Held(c, l)'
  BY <1>1
<1>3. \A d \in Conns \ {c} : g[d] = f[d]
  BY DEF Held
<1>4. HeldTotal(l) = SumFunctionOnSet(f, Conns) /\ HeldTotal(l)' = SumFunctionOnSet(g, Conns)
  BY DEF HeldTotal
<1>5. IsFiniteSet(Conns)
  BY ListenerAssumption
<1> HIDE DEF f, g
<1>6. /\ SumFunctionOnSet(f, Conns) \in Nat /\ SumFunctionOnSet(g, Conns) \in Nat
      /\ SumFunctionOnSet(g, Conns) + f[c] = SumFunctionOnSet(f, Conns) + g[c]
  BY <1>2, <1>3, <1>5, SumChanges
<1>7. QED
  BY <1>1, <1>2, <1>4, <1>6

\* The sum of what tasks hold is a natural number.
LEMMA HeldSumNat == ASSUME PlainTypes, NEW l \in Limiters PROVE HeldTotal(l) \in Nat
<1> DEFINE f == [d \in Conns |-> Held(d, l)]
<1>1. \A d \in Conns : Held(d, l) \in Nat
  BY HeldNat DEF PlainTypes, Held
<1>2. f \in [Conns -> Nat] /\ HeldTotal(l) = SumFunctionOnSet(f, Conns)
  BY <1>1 DEF HeldTotal
<1>3. IsFiniteSet(Conns) /\ Conns \in SUBSET Conns
  BY ListenerAssumption
<1> HIDE DEF f
<1>4. QED
  BY <1>2, <1>3, SumNat, SumIs

\* No task changes.
LEMMA HeldStays ==
    ASSUME NEW l \in Limiters, task' = task
    PROVE  HeldTotal(l)' = HeldTotal(l)
  BY DEF HeldTotal, Held

\* The counters stay.
LEMMA AuditStays ==
    ASSUME FailuresAccounted, UNCHANGED <<task, suppressed, flushing, owed>>
    PROVE  FailuresAccounted'
  BY HeldStays DEF FailuresAccounted

\* No handshake begins or ends and the loop does not move.
LEMMA SlotsStay ==
    ASSUME SlotTypes, SlotsBalanced, UNCHANGED <<limits, permits, perSource, loopPc>>,
           \A c \in Conns : connPc'[c] = "handshake" <=> connPc[c] = "handshake"
    PROVE  SlotTypes' /\ SlotsBalanced'
<1>1. Shaking' = Shaking
  BY DEF Shaking
<1>2. \A s \in Sources : ShakingOf(s)' = ShakingOf(s)
  BY <1>1 DEF ShakingOf
<1>3. QED
  BY <1>1, <1>2 DEF SlotTypes, SlotsBalanced

\* No task changes, and no connection comes to write or stops writing.
LEMMA TasksStay ==
    ASSUME TaskInv, task' = task,
           \A c \in Conns : \/ connPc'[c] = connPc[c]
                            \/ /\ connPc[c] \notin {"summary", "record"}
                               /\ connPc'[c] \notin {"summary", "record"}
    PROVE  TaskInv'
  BY DEF TaskInv

\* Nothing negative: the parts put together after a step.
LEMMA PartsInv ==
    ASSUME PlainTypes', SlotTypes', SlotsBalanced', TaskInv', FailuresAccounted'
    PROVE  ListenerInv'
<1>1. ASSUME NEW l \in Limiters PROVE owed'[l] \in Nat
  <2> DEFINE g == [d \in Conns |-> Held(d, l)']
  <2>1. \A d \in Conns : Held(d, l)' \in Nat
    BY HeldNat DEF PlainTypes, Held
  <2>2. g \in [Conns -> Nat] /\ HeldTotal(l)' = SumFunctionOnSet(g, Conns)
    BY <2>1 DEF HeldTotal
  <2>3. IsFiniteSet(Conns)
    BY ListenerAssumption
  <2> HIDE DEF g
  <2>4. SumFunctionOnSet(g, Conns) \in Nat
    <3>1. Conns \in SUBSET Conns
      OBVIOUS
    <3>2. QED
      BY <2>2, <2>3, <3>1, SumNat, SumIs
  <2>5. suppressed'[l] \in Nat /\ flushing'[l] \in Nat
    BY DEF PlainTypes
  <2>6. QED
    BY <2>2, <2>4, <2>5 DEF FailuresAccounted
<1>2. owed' \in [Limiters -> Nat]
  BY <1>1 DEF PlainTypes
<1>3. QED
  BY <1>2 DEF ListenerInv, ListenerTypeOK, PlainTypes, SlotTypes

-----------------------------------------------------------------------------
(* The handshake slots.                                                    *)

\* The counts of handshakes are numbers.
LEMMA ShakingFinite ==
    /\ IsFiniteSet(Shaking) /\ Cardinality(Shaking) \in Nat
    /\ \A s \in Sources : IsFiniteSet(ShakingOf(s)) /\ Cardinality(ShakingOf(s)) \in Nat
<1>1. IsFiniteSet(Conns) /\ Shaking \in SUBSET Conns
  BY ListenerAssumption DEF Shaking
<1>2. IsFiniteSet(Shaking) /\ Cardinality(Shaking) \in Nat
  BY <1>1, FS_Subset, FS_CardinalityType
<1>3. ASSUME NEW s \in Sources
      PROVE  IsFiniteSet(ShakingOf(s)) /\ Cardinality(ShakingOf(s)) \in Nat
  <2>1. ShakingOf(s) \in SUBSET Shaking
    BY DEF ShakingOf
  <2>2. QED
    BY <1>2, <2>1, FS_Subset, FS_CardinalityType
<1>4. QED
  BY <1>2, <1>3

\* A handshake begins.
LEMMA HandshakeBegins ==
    ASSUME PlainTypes, NEW c \in Conns, connPc[c] # "handshake", ConnAt(c, "handshake")
    PROVE  /\ Cardinality(Shaking)' = Cardinality(Shaking) + 1
           /\ \A s \in Sources : Cardinality(ShakingOf(s))' =
                Cardinality(ShakingOf(s)) + (IF s = SourceOf[c] THEN 1 ELSE 0)
<1>1. Shaking' = Shaking \union {c} /\ c \notin Shaking
  BY DEF PlainTypes, ConnAt, Shaking
<1>2. Cardinality(Shaking') = Cardinality(Shaking) + 1
  BY <1>1, ShakingFinite, FS_AddElement
<1>3. ASSUME NEW s \in Sources
      PROVE  Cardinality(ShakingOf(s)') =
               Cardinality(ShakingOf(s)) + (IF s = SourceOf[c] THEN 1 ELSE 0)
  <2>1. CASE s = SourceOf[c]
    <3>1. ShakingOf(s)' = ShakingOf(s) \union {c} /\ c \notin ShakingOf(s)
      BY <1>1, <2>1 DEF ShakingOf
    <3>2. QED
      BY <2>1, <3>1, ShakingFinite, FS_AddElement
  <2>2. CASE s # SourceOf[c]
    <3>1. ShakingOf(s)' = ShakingOf(s)
      BY <1>1, <2>2 DEF ShakingOf
    <3>2. QED
      BY <2>2, <3>1, ShakingFinite
  <2>3. QED
    BY <2>1, <2>2
<1>4. QED
  BY <1>2, <1>3

\* A handshake ends.
LEMMA HandshakeOver ==
    ASSUME PlainTypes, NEW c \in Conns, connPc[c] = "handshake",
           NEW p, p # "handshake", ConnAt(c, p)
    PROVE  /\ Cardinality(Shaking)' + 1 = Cardinality(Shaking) /\ Cardinality(Shaking)' \in Nat
           /\ \A s \in Sources :
                /\ Cardinality(ShakingOf(s))' \in Nat
                /\ Cardinality(ShakingOf(s))' + (IF s = SourceOf[c] THEN 1 ELSE 0) =
                     Cardinality(ShakingOf(s))
<1>1. Shaking' = Shaking \ {c} /\ c \in Shaking
  BY DEF PlainTypes, ConnAt, Shaking
<1>2. Cardinality(Shaking') + 1 = Cardinality(Shaking) /\ Cardinality(Shaking') \in Nat
  <2>1. IsFiniteSet(Shaking \ {c}) /\ Cardinality(Shaking \ {c}) = Cardinality(Shaking) - 1
    BY <1>1, ShakingFinite, FS_RemoveElement
  <2>2. QED
    BY <1>1, <2>1, ShakingFinite, FS_CardinalityType
<1>3. ASSUME NEW s \in Sources
      PROVE  /\ Cardinality(ShakingOf(s)') \in Nat
             /\ Cardinality(ShakingOf(s)') + (IF s = SourceOf[c] THEN 1 ELSE 0) =
                  Cardinality(ShakingOf(s))
  <2>1. CASE s = SourceOf[c]
    <3>1. ShakingOf(s)' = ShakingOf(s) \ {c} /\ c \in ShakingOf(s)
      BY <1>1, <2>1 DEF ShakingOf
    <3>2. /\ IsFiniteSet(ShakingOf(s) \ {c})
          /\ Cardinality(ShakingOf(s) \ {c}) = Cardinality(ShakingOf(s)) - 1
      BY <3>1, ShakingFinite, FS_RemoveElement
    <3>3. QED
      BY <2>1, <3>1, <3>2, ShakingFinite, FS_CardinalityType
  <2>2. CASE s # SourceOf[c]
    <3>1. ShakingOf(s)' = ShakingOf(s)
      BY <1>1, <2>2 DEF ShakingOf
    <3>2. QED
      BY <2>2, <3>1, ShakingFinite
  <2>3. QED
    BY <2>1, <2>2
<1>4. QED
  BY <1>2, <1>3

\* The configuration in force.
LEMMA LimitTypes ==
    ASSUME limits \in Limits
    PROVE  /\ limits.inflight \in Nat /\ limits.per_source \in Nat /\ limits.audit \in Nat
  BY ListenerAssumption

\* The loop takes a permit, or drops it after a failed accept.
LEMMA LoopKeepsInv == ASSUME ListenerInv, AcquirePermit \/ AcceptFails PROVE ListenerInv'
<1>0. PlainTypes /\ SlotTypes /\ SlotsBalanced /\ TaskInv /\ FailuresAccounted
  BY InvParts
<1>1. /\ UNCHANGED <<limits, open, perSource, connPc, task, stale, recorded, suppressed,
                     windowOver, flushing, owed>>
      /\ \/ loopPc = "permit" /\ loopPc' = "accept" /\ permits > 0 /\ permits' = permits - 1
         \/ loopPc = "accept" /\ loopPc' = "permit" /\ permits' = permits + 1
  BY DEF AcquirePermit, AcceptFails, rateVars
<1>2. PlainTypes'
  BY <1>0, <1>1 DEF PlainTypes
<1>3. TaskInv' /\ FailuresAccounted'
  BY <1>0, <1>1, TasksStay, AuditStays
<1>4. Shaking' = Shaking /\ \A s \in Sources : ShakingOf(s)' = ShakingOf(s)
  BY <1>1 DEF Shaking, ShakingOf
<1>5. limits.inflight \in Nat /\ Cardinality(Shaking) \in Nat /\ permits \in Nat
  BY <1>0, LimitTypes, ShakingFinite DEF PlainTypes, SlotTypes
<1>6. SlotsBalanced'
  <2>1. permits' + Cardinality(Shaking) + (IF loopPc' = "accept" THEN 1 ELSE 0) = limits.inflight
    BY <1>0, <1>1, <1>5 DEF SlotsBalanced
  <2>2. QED
    BY <1>0, <1>1, <1>4, <2>1 DEF SlotsBalanced
<1>7. SlotTypes'
  <2>1. permits' \in Nat /\ permits' <= limits.inflight
    BY <1>1, <1>4, <1>5, <1>6 DEF SlotsBalanced
  <2>2. QED
    BY <1>0, <1>1, <1>5, <2>1 DEF SlotTypes
<1>8. QED
  BY <1>2, <1>3, <1>6, <1>7, PartsInv

\* A connection is accepted, or dropped at the cap of its source.
LEMMA AcceptKeepsInv == ASSUME ListenerInv, NEW c \in Conns, AcceptConn(c) PROVE ListenerInv'
<1>0. PlainTypes /\ SlotTypes /\ SlotsBalanced /\ TaskInv /\ FailuresAccounted
  BY InvParts
<1>1. /\ loopPc = "accept" /\ connPc[c] = "new" /\ loopPc' = "permit"
      /\ UNCHANGED <<limits, open, task, stale, recorded, suppressed, windowOver, flushing, owed>>
  BY DEF AcceptConn, rateVars
<1>2. /\ SourceOf[c] \in Sources /\ limits.inflight \in Nat /\ limits.per_source \in Nat
      /\ Cardinality(Shaking) \in Nat /\ permits \in Nat
  BY <1>0, ListenerAssumption, LimitTypes, ShakingFinite DEF PlainTypes, SlotTypes
<1>3. CASE ConnAt(c, "failed") /\ permits' = permits + 1 /\ UNCHANGED perSource
  <2>1. /\ connPc'[c] = "failed" /\ \A d \in Conns \ {c} : connPc'[d] = connPc[d]
    BY <1>0, <1>3 DEF ConnAt, PlainTypes
  <2>2. PlainTypes'
    BY <1>0, <1>1, <1>3 DEF ConnAt, PlainTypes
  <2>3. TaskInv' /\ FailuresAccounted'
    BY <1>0, <1>1, <2>1, TasksStay, AuditStays
  <2>4. Shaking' = Shaking
    BY <1>1, <2>1 DEF Shaking
  <2>5. \A s \in Sources : ShakingOf(s)' = ShakingOf(s)
    BY <2>4 DEF ShakingOf
  <2>6. permits' + Cardinality(Shaking) = limits.inflight
    BY <1>0, <1>1, <1>2, <1>3 DEF SlotsBalanced
  <2>7. SlotsBalanced'
    BY <1>0, <1>1, <1>2, <1>3, <2>4, <2>5, <2>6 DEF SlotsBalanced
  <2>8. SlotTypes'
    BY <1>0, <1>1, <1>2, <1>3, <2>6 DEF SlotTypes
  <2>9. QED
    BY <2>2, <2>3, <2>7, <2>8, PartsInv
<1>4. CASE /\ ConnAt(c, "handshake") /\ UNCHANGED permits
           /\ perSource[SourceOf[c]] < limits.per_source
           /\ perSource' = [perSource EXCEPT ![SourceOf[c]] = perSource[SourceOf[c]] + 1]
  <2>1. /\ connPc'[c] = "handshake" /\ \A d \in Conns \ {c} : connPc'[d] = connPc[d]
    BY <1>0, <1>4 DEF ConnAt, PlainTypes
  <2>2. PlainTypes'
    BY <1>0, <1>1, <1>4 DEF ConnAt, PlainTypes
  <2>3. TaskInv' /\ FailuresAccounted'
    BY <1>0, <1>1, <2>1, TasksStay, AuditStays
  <2>4. /\ Cardinality(Shaking)' = Cardinality(Shaking) + 1
        /\ \A s \in Sources : Cardinality(ShakingOf(s))' =
             Cardinality(ShakingOf(s)) + (IF s = SourceOf[c] THEN 1 ELSE 0)
    BY <1>0, <1>1, <1>4, HandshakeBegins
  <2>5. perSource' \in [Sources -> 0..limits.per_source]
    BY <1>0, <1>2, <1>4 DEF SlotTypes
  <2>6. SlotTypes'
    BY <1>0, <1>1, <1>4, <2>5 DEF SlotTypes
  <2>7. \A s \in Sources : perSource'[s] = Cardinality(ShakingOf(s))'
    <3>1. \A s \in Sources : /\ perSource[s] = Cardinality(ShakingOf(s))
                             /\ Cardinality(ShakingOf(s)) \in Nat
      BY <1>0, ShakingFinite DEF SlotsBalanced
    <3>2. \A s \in Sources :
             perSource'[s] = perSource[s] + (IF s = SourceOf[c] THEN 1 ELSE 0)
      BY <1>0, <1>4, <3>1 DEF SlotTypes
    <3>3. QED
      BY <2>4, <3>1, <3>2
  <2>8. permits' + Cardinality(Shaking)' + (IF loopPc' = "accept" THEN 1 ELSE 0) = limits'.inflight
    BY <1>0, <1>1, <1>2, <1>4, <2>4 DEF SlotsBalanced
  <2>9. SlotsBalanced'
    BY <2>7, <2>8 DEF SlotsBalanced
  <2>10. QED
    BY <2>2, <2>3, <2>6, <2>9, PartsInv
<1>5. QED
  <2>1. perSource[SourceOf[c]] \in Nat
    BY <1>0, <1>2 DEF SlotTypes
  <2>2. QED
    BY <1>2, <1>3, <1>4, <2>1 DEF AcceptConn

\* A handshake gives both slots back, however it ends.
LEMMA HandshakeKeepsInv ==
    ASSUME ListenerInv, NEW c \in Conns, NEW p \in {"send", "failed", "closed"}, HandshakeEnds(c, p)
    PROVE  ListenerInv'
<1>0. PlainTypes /\ SlotTypes /\ SlotsBalanced /\ TaskInv /\ FailuresAccounted
  BY InvParts
<1>1. /\ connPc[c] = "handshake" /\ ConnAt(c, p) /\ permits' = permits + 1
      /\ perSource' = [perSource EXCEPT ![SourceOf[c]] = perSource[SourceOf[c]] - 1]
      /\ UNCHANGED <<limits, open, loopPc, task, stale, recorded, suppressed, windowOver,
                     flushing, owed>>
  BY DEF HandshakeEnds, Release, rateVars
<1>2. /\ SourceOf[c] \in Sources /\ limits.inflight \in Nat /\ limits.per_source \in Nat
      /\ Cardinality(Shaking) \in Nat /\ permits \in Nat
  BY <1>0, ListenerAssumption, LimitTypes, ShakingFinite DEF PlainTypes, SlotTypes
<1>3. /\ connPc'[c] = p /\ \A d \in Conns \ {c} : connPc'[d] = connPc[d]
  BY <1>0, <1>1 DEF ConnAt, PlainTypes
<1>4. PlainTypes'
  BY <1>0, <1>1 DEF ConnAt, PlainTypes
<1>5. TaskInv' /\ FailuresAccounted'
  BY <1>0, <1>1, <1>3, TasksStay, AuditStays
<1>6. /\ Cardinality(Shaking)' + 1 = Cardinality(Shaking) /\ Cardinality(Shaking)' \in Nat
      /\ \A s \in Sources :
           /\ Cardinality(ShakingOf(s))' \in Nat
           /\ Cardinality(ShakingOf(s))' + (IF s = SourceOf[c] THEN 1 ELSE 0) =
                Cardinality(ShakingOf(s))
  <2>1. p # "handshake"
    OBVIOUS
  <2>2. QED
    BY <1>0, <1>1, <2>1, HandshakeOver
<1>7. \A s \in Sources : perSource'[s] = Cardinality(ShakingOf(s))'
  <2>1. \A s \in Sources : perSource[s] = Cardinality(ShakingOf(s)) /\ perSource[s] \in Nat
    BY <1>0, ShakingFinite DEF SlotsBalanced
  <2>2. \A s \in Sources : perSource'[s] = perSource[s] - (IF s = SourceOf[c] THEN 1 ELSE 0)
    BY <1>0, <1>1, <2>1 DEF SlotTypes
  <2>3. QED
    BY <1>6, <2>1, <2>2
<1>8. SlotsBalanced'
  <2>1. permits' + Cardinality(Shaking)' + (IF loopPc' = "accept" THEN 1 ELSE 0) = limits'.inflight
    BY <1>0, <1>1, <1>2, <1>6 DEF SlotsBalanced
  <2>2. QED
    BY <1>7, <2>1 DEF SlotsBalanced
<1>9. SlotTypes'
  <2>1. permits' \in 0..limits.inflight
    BY <1>1, <1>2, <1>6, <1>8 DEF SlotsBalanced
  <2>2. perSource' \in [Sources -> 0..limits.per_source]
    <3>1. ASSUME NEW s \in Sources PROVE perSource'[s] \in 0..limits.per_source
      <4>1. /\ perSource[s] \in 0..limits.per_source /\ perSource[s] = Cardinality(ShakingOf(s))
        BY <1>0 DEF SlotTypes, SlotsBalanced
      <4>2. QED
        BY <1>2, <1>6, <1>7, <4>1
    <3>2. QED
      BY <1>0, <1>1, <3>1 DEF SlotTypes
  <2>3. QED
    BY <1>1, <2>1, <2>2 DEF SlotTypes
<1>10. QED
  BY <1>4, <1>5, <1>8, <1>9, PartsInv

-----------------------------------------------------------------------------
(* Connections, windows and flushes.                                       *)

\* A flush takes what was suppressed, and owes it.
LEMMA TakeKeepsAccounts ==
    ASSUME PlainTypes, FailuresAccounted, NEW l \in Limiters, TakeSuppressed(l),
           UNCHANGED <<task, owed>>
    PROVE  /\ FailuresAccounted'
           /\ suppressed' \in [Limiters -> Nat] /\ flushing' \in [Limiters -> Nat]
<1>1. suppressed \in [Limiters -> Nat] /\ flushing \in [Limiters -> Nat]
  BY DEF PlainTypes
<1>2. /\ flushing' = [flushing EXCEPT ![l] = flushing[l] + suppressed[l]]
      /\ suppressed' = [suppressed EXCEPT ![l] = 0]
  BY DEF TakeSuppressed
<1>3. suppressed' \in [Limiters -> Nat] /\ flushing' \in [Limiters -> Nat]
  BY <1>1, <1>2
<1>4. \A k \in Limiters : suppressed'[k] + flushing'[k] = suppressed[k] + flushing[k]
  BY <1>1, <1>2
<1>5. \A k \in Limiters : HeldTotal(k)' = HeldTotal(k)
  BY HeldStays
<1>6. QED
  BY <1>3, <1>4, <1>5 DEF FailuresAccounted

\* The loop ends: a permit in its hands goes back.
LEMMA LoopStopsKeepsInv == ASSUME ListenerInv, LoopStops PROVE ListenerInv'
<1>0. PlainTypes /\ SlotTypes /\ SlotsBalanced /\ TaskInv /\ FailuresAccounted
  BY InvParts
<1>1. /\ loopPc' = "stopped" /\ permits' = IF loopPc = "accept" THEN permits + 1 ELSE permits
      /\ TakeSuppressed("handshake") /\ loopPc \in {"permit", "accept"}
      /\ UNCHANGED <<limits, open, perSource, connPc, task, stale, recorded, windowOver, owed>>
  BY DEF LoopStops
<1>2. "handshake" \in Limiters
  BY DEF Limiters
<1>3. /\ FailuresAccounted'
      /\ suppressed' \in [Limiters -> Nat] /\ flushing' \in [Limiters -> Nat]
  BY <1>0, <1>1, <1>2, TakeKeepsAccounts
<1>4. PlainTypes'
  BY <1>0, <1>1, <1>3 DEF PlainTypes
<1>5. TaskInv'
  BY <1>0, <1>1, TasksStay
<1>6. Shaking' = Shaking /\ \A s \in Sources : ShakingOf(s)' = ShakingOf(s)
  BY <1>1 DEF Shaking, ShakingOf
<1>7. limits.inflight \in Nat /\ Cardinality(Shaking) \in Nat /\ permits \in Nat
  BY <1>0, LimitTypes, ShakingFinite DEF PlainTypes, SlotTypes
<1>8. permits' + Cardinality(Shaking) = limits.inflight /\ permits' \in Nat
  BY <1>0, <1>1, <1>7 DEF SlotsBalanced
<1>9. SlotsBalanced'
  BY <1>0, <1>1, <1>6, <1>7, <1>8 DEF SlotsBalanced
<1>10. SlotTypes'
  BY <1>0, <1>1, <1>7, <1>8 DEF SlotTypes
<1>11. QED
  BY <1>3, <1>4, <1>5, <1>9, <1>10, PartsInv

\* Connections move on through the queue, tonic and the layer.
LEMMA ConnKeepsInv ==
    ASSUME ListenerInv, NEW c \in Conns, Send(c) \/ Serve(c) \/ LeafExpires(c) \/ Call(c) \/ Bind(c)
    PROVE  ListenerInv'
<1>0. PlainTypes /\ SlotTypes /\ SlotsBalanced /\ TaskInv /\ FailuresAccounted
  BY InvParts
<1>1. /\ UNCHANGED <<limits, open, loopPc, permits, perSource, task, recorded, suppressed,
                     windowOver, flushing, owed>>
      /\ stale' \subseteq Conns
      /\ \/ connPc' = connPc
         \/ /\ connPc[c] \in {"send", "queued", "served", "handling"}
            /\ \E p \in {"queued", "closed", "served", "handling", "denied"} : ConnAt(c, p)
  <2>1. CASE Send(c)
    BY <1>0, <2>1 DEF Send, loopVars, rateVars, PlainTypes
  <2>2. CASE Serve(c)
    BY <1>0, <2>2 DEF Serve, loopVars, rateVars, PlainTypes
  <2>3. CASE LeafExpires(c)
    BY <1>0, <2>3 DEF LeafExpires, loopVars, rateVars, PlainTypes
  <2>4. CASE Call(c)
    BY <1>0, <2>4 DEF Call, loopVars, rateVars, PlainTypes
  <2>5. CASE Bind(c)
    BY <1>0, <2>5 DEF Bind, loopVars, rateVars, PlainTypes
  <2>6. QED
    BY <2>1, <2>2, <2>3, <2>4, <2>5
<1>2. /\ connPc' \in [Conns -> {"new", "handshake", "failed", "send", "queued", "served",
                                "handling", "denied", "summary", "record", "closed"}]
      /\ \A d \in Conns : \/ connPc'[d] = connPc[d]
                          \/ /\ connPc[d] \in {"send", "queued", "served", "handling"}
                             /\ connPc'[d] \in {"queued", "closed", "served", "handling", "denied"}
  BY <1>0, <1>1 DEF PlainTypes, ConnAt
<1>3. PlainTypes'
  BY <1>0, <1>1, <1>2 DEF PlainTypes
<1>4. TaskInv' /\ FailuresAccounted'
  BY <1>0, <1>1, <1>2, TasksStay, AuditStays
<1>5. SlotTypes' /\ SlotsBalanced'
  BY <1>0, <1>1, <1>2, SlotsStay
<1>6. QED
  BY <1>3, <1>4, <1>5, PartsInv

\* The server stops: its connections are dropped.
LEMMA StopKeepsInv == ASSUME ListenerInv, ServerStops PROVE ListenerInv'
<1>0. PlainTypes /\ SlotTypes /\ SlotsBalanced /\ TaskInv /\ FailuresAccounted
  BY InvParts
<1>1. /\ open' = FALSE /\ TakeSuppressed("denial")
      /\ connPc' = [c \in Conns |->
                      IF connPc[c] \in {"queued", "served"} THEN "closed" ELSE connPc[c]]
      /\ UNCHANGED <<limits, loopPc, permits, perSource, task, stale, recorded, windowOver, owed>>
  BY DEF ServerStops, loopVars
<1>2. "denial" \in Limiters
  BY DEF Limiters
<1>3. /\ FailuresAccounted'
      /\ suppressed' \in [Limiters -> Nat] /\ flushing' \in [Limiters -> Nat]
  BY <1>0, <1>1, <1>2, TakeKeepsAccounts
<1>4. \A c \in Conns : \/ connPc'[c] = connPc[c]
                       \/ connPc[c] \in {"queued", "served"} /\ connPc'[c] = "closed"
  BY <1>1
<1>5. PlainTypes'
  BY <1>0, <1>1, <1>3 DEF PlainTypes
<1>6. TaskInv'
  BY <1>0, <1>1, <1>4, TasksStay
<1>7. SlotTypes' /\ SlotsBalanced'
  BY <1>0, <1>1, <1>4, SlotsStay
<1>8. QED
  BY <1>3, <1>5, <1>6, <1>7, PartsInv

\* The timers and the writes of a limiter.
LEMMA TimerKeepsInv == ASSUME ListenerInv, NEW l \in Limiters, TimerStep(l) PROVE ListenerInv'
<1>0. PlainTypes /\ SlotTypes /\ SlotsBalanced /\ TaskInv /\ FailuresAccounted
  BY InvParts
<1>1. UNCHANGED <<limits, open, loopPc, permits, perSource, connPc, task, stale>>
  BY DEF TimerStep, WindowEnds, FlushExpired, DropLimiter, WriteFlushed, loopVars
<1>2. SlotTypes' /\ SlotsBalanced' /\ TaskInv'
  BY <1>0, <1>1, SlotsStay, TasksStay
<1>3. CASE WindowEnds(l)
  <2>1. /\ windowOver' = [windowOver EXCEPT ![l] = TRUE]
        /\ UNCHANGED <<recorded, suppressed, flushing, owed>>
    BY <1>3 DEF WindowEnds
  <2>2. windowOver' \in [Limiters -> BOOLEAN]
    BY <1>0, <2>1, Zenon DEF PlainTypes
  <2>3. PlainTypes'
    BY <1>0, <1>1, <2>1, <2>2 DEF PlainTypes
  <2>4. FailuresAccounted'
    BY <1>0, <1>1, <2>1, AuditStays
  <2>5. QED
    BY <1>2, <2>3, <2>4, PartsInv
<1>4. CASE FlushExpired(l) \/ DropLimiter(l)
  <2>1. /\ TakeSuppressed(l) /\ owed' = owed
        /\ recorded' = recorded \/ recorded' = [recorded EXCEPT ![l] = 0]
        /\ windowOver' = windowOver \/ windowOver' = [windowOver EXCEPT ![l] = FALSE]
    BY <1>4 DEF FlushExpired, DropLimiter
  <2>2. /\ FailuresAccounted'
        /\ suppressed' \in [Limiters -> Nat] /\ flushing' \in [Limiters -> Nat]
    BY <1>0, <1>1, <2>1, TakeKeepsAccounts
  <2>3. windowOver' \in [Limiters -> BOOLEAN]
    <3>1. windowOver \in [Limiters -> BOOLEAN]
      BY <1>0 DEF PlainTypes
    <3>2. QED
      BY <2>1, <3>1, Zenon
  <2>4. recorded' \in [Limiters -> 0..limits.audit]
    <3>1. recorded \in [Limiters -> 0..limits.audit] /\ limits.audit \in Nat
      BY <1>0, LimitTypes DEF PlainTypes
    <3>2. QED
      BY <2>1, <3>1
  <2>5. PlainTypes'
    BY <1>0, <1>1, <2>1, <2>2, <2>3, <2>4 DEF PlainTypes
  <2>6. QED
    BY <1>2, <2>2, <2>5, PartsInv
<1>5. CASE WriteFlushed(l)
  <2>1. /\ owed' = [owed EXCEPT ![l] = owed[l] - flushing[l]]
        /\ flushing' = [flushing EXCEPT ![l] = 0]
        /\ UNCHANGED <<recorded, suppressed, windowOver>>
    BY <1>5 DEF WriteFlushed, rateVars
  <2>2. PlainTypes'
    <3>1. owed \in [Limiters -> Int] /\ flushing \in [Limiters -> Nat]
      BY <1>0 DEF PlainTypes
    <3>2. owed' \in [Limiters -> Int] /\ flushing' \in [Limiters -> Nat]
      BY <2>1, <3>1
    <3>3. QED
      BY <1>0, <1>1, <2>1, <3>2 DEF PlainTypes
  <2>3. FailuresAccounted'
    <3>1. \A k \in Limiters : HeldTotal(k)' = HeldTotal(k) /\ HeldTotal(k) \in Nat
      <4>1. \A k \in Limiters : HeldTotal(k)' = HeldTotal(k)
        BY <1>1, HeldStays
      <4>2. \A k \in Limiters : HeldTotal(k) \in Nat
        BY <1>0, HeldSumNat
      <4>3. QED
        BY <4>1, <4>2
    <3>2. \A k \in Limiters : /\ suppressed[k] \in Nat /\ flushing[k] \in Nat
                              /\ owed[k] = suppressed[k] + flushing[k] + HeldTotal(k)
      BY <1>0 DEF PlainTypes, FailuresAccounted
    <3>3. \A k \in Limiters : owed'[k] = suppressed'[k] + flushing'[k] + HeldTotal(k)
      BY <1>0, <2>1, <3>1, <3>2 DEF PlainTypes
    <3>4. QED
      BY <3>1, <3>3 DEF FailuresAccounted
  <2>4. QED
    BY <1>2, <2>2, <2>3, PartsInv
<1>6. QED
  BY <1>3, <1>4, <1>5 DEF TimerStep

-----------------------------------------------------------------------------
(* The tasks that audit a failure.                                         *)

\* One task takes over, or settles, what owed and suppressed change by.
LEMMA TaskAccounts ==
    ASSUME PlainTypes, FailuresAccounted, NEW c \in Conns, NEW l \in Limiters,
           task' \in [Conns -> [limiter : Limiters, summary : Nat, record : BOOLEAN]],
           \A d \in Conns \ {c} : task'[d] = task[d],
           suppressed' \in [Limiters -> Nat], owed' \in [Limiters -> Int], flushing' = flushing,
           \A k \in Limiters \ {l} :
             /\ owed'[k] = owed[k] /\ suppressed'[k] = suppressed[k]
             /\ Held(c, k)' = Held(c, k),
           owed'[l] - suppressed'[l] - Held(c, l)' = owed[l] - suppressed[l] - Held(c, l)
    PROVE  FailuresAccounted'
<1>1. ASSUME NEW k \in Limiters PROVE owed'[k] = suppressed'[k] + flushing'[k] + HeldTotal(k)'
  <2>1. /\ HeldTotal(k) \in Nat /\ HeldTotal(k)' \in Nat
        /\ Held(c, k) \in Nat /\ Held(c, k)' \in Nat
        /\ HeldTotal(k)' + Held(c, k) = HeldTotal(k) + Held(c, k)'
    BY HeldChanges
  <2>2. /\ owed[k] \in Int /\ owed'[k] \in Int /\ suppressed[k] \in Nat /\ suppressed'[k] \in Nat
        /\ flushing[k] \in Nat /\ flushing'[k] = flushing[k]
        /\ owed[k] = suppressed[k] + flushing[k] + HeldTotal(k)
    BY DEF PlainTypes, FailuresAccounted
  <2>3. owed'[k] - suppressed'[k] - Held(c, k)' = owed[k] - suppressed[k] - Held(c, k)
    <3>1. CASE k = l
      BY <3>1
    <3>2. CASE k # l
      BY <3>2
    <3>3. QED
      BY <3>1, <3>2
  <2>4. QED
    BY <2>1, <2>2, <2>3
<1>2. QED
  BY <1>1 DEF FailuresAccounted

\* What a task that writes to the other limiter, or to none, holds of l.
LEMMA HeldOf ==
    ASSUME NEW c \in Conns, NEW l \in Limiters
    PROVE  /\ task[c].limiter # l => Held(c, l) = 0
           /\ task[c].limiter = l /\ task[c].record => Held(c, l) = task[c].summary + 1
           /\ task[c].limiter = l /\ ~task[c].record => Held(c, l) = task[c].summary + 0
           /\ task'[c].limiter # l => Held(c, l)' = 0
           /\ task'[c].limiter = l /\ task'[c].record => Held(c, l)' = task'[c].summary + 1
           /\ task'[c].limiter = l /\ ~task'[c].record => Held(c, l)' = task'[c].summary + 0
  BY DEF Held

\* The limiter is asked: what it rolls goes to the task, the failure to the
\* task or to the count of the new window.
LEMMA AdmitKeepsInv == ASSUME ListenerInv, NEW c \in Conns, Admit(c) PROVE ListenerInv'
<1>0. PlainTypes /\ SlotTypes /\ SlotsBalanced /\ TaskInv /\ FailuresAccounted
  BY InvParts
<1>2. PICK l \in Limiters : l = LimiterOf(c)
  BY DEF LimiterOf, Limiters
<1> DEFINE used == IF windowOver[l] THEN 0 ELSE recorded[l]
           flushed == IF windowOver[l] THEN suppressed[l] ELSE 0
           kept == suppressed[l] - flushed
           record == used < limits.audit
           next == IF flushed > 0 THEN "summary" ELSE IF record THEN "record" ELSE "closed"
<1>1. /\ connPc[c] \in {"failed", "denied"}
      /\ task' = [task EXCEPT ![c] = [limiter |-> l, summary |-> flushed, record |-> record]]
      /\ recorded' = [recorded EXCEPT ![l] = IF record THEN used + 1 ELSE used]
      /\ suppressed' = [suppressed EXCEPT ![l] = IF record THEN kept ELSE kept + 1]
      /\ windowOver' = [windowOver EXCEPT ![l] = FALSE]
      /\ owed' = [owed EXCEPT ![l] = owed[l] + 1]
      /\ ConnAt(c, next)
      /\ UNCHANGED <<limits, open, loopPc, permits, perSource, stale, flushing>>
  BY <1>2 DEF Admit, loopVars
<1>3. /\ limits.audit \in Nat /\ recorded[l] \in 0..limits.audit /\ suppressed[l] \in Nat
      /\ windowOver[l] \in BOOLEAN /\ owed[l] \in Int
  BY <1>0, <1>2, LimitTypes DEF PlainTypes
<1>4. /\ used \in 0..limits.audit /\ flushed \in Nat /\ kept \in Nat
      /\ kept + flushed = suppressed[l] /\ record \in BOOLEAN
      /\ record => used < limits.audit
  BY <1>3
<1>5. next \in {"summary", "record", "closed"} /\ (next # "summary" => flushed = 0)
      /\ (next = "record" => record) /\ (next \notin {"summary", "record"} => ~record)
  BY <1>4
<1> HIDE DEF used, flushed, kept, record, next
<1>6. /\ connPc'[c] = next /\ \A d \in Conns \ {c} : connPc'[d] = connPc[d]
      /\ connPc' \in [Conns -> {"new", "handshake", "failed", "send", "queued", "served",
                                "handling", "denied", "summary", "record", "closed"}]
  BY <1>0, <1>1, <1>5 DEF ConnAt, PlainTypes
<1>7. [limiter |-> l, summary |-> flushed, record |-> record]
        \in [limiter : Limiters, summary : Nat, record : BOOLEAN]
  BY <1>2, <1>4
<1>8. /\ task'[c] = [limiter |-> l, summary |-> flushed, record |-> record]
      /\ \A d \in Conns \ {c} : task'[d] = task[d]
      /\ task' \in [Conns -> [limiter : Limiters, summary : Nat, record : BOOLEAN]]
  BY <1>0, <1>1, <1>7 DEF PlainTypes
<1>9. task'[c].limiter = l /\ task'[c].summary = flushed /\ task'[c].record = record
  BY <1>8
<1>10. recorded' \in [Limiters -> 0..limits.audit]
  <2>1. (IF record THEN used + 1 ELSE used) \in 0..limits.audit
    BY <1>3, <1>4
  <2>2. QED
    BY <1>0, <1>1, <2>1 DEF PlainTypes
<1>11. windowOver' \in [Limiters -> BOOLEAN]
  <2>1. windowOver \in [Limiters -> BOOLEAN]
    BY <1>0 DEF PlainTypes
  <2>2. QED
    BY <1>1, <2>1, Zenon
<1>12. /\ suppressed' \in [Limiters -> Nat] /\ owed' \in [Limiters -> Int]
       /\ owed'[l] = owed[l] + 1 /\ suppressed'[l] = IF record THEN kept ELSE kept + 1
       /\ \A k \in Limiters \ {l} : owed'[k] = owed[k] /\ suppressed'[k] = suppressed[k]
  <2>1. (IF record THEN kept ELSE kept + 1) \in Nat
    BY <1>4
  <2>2. QED
    BY <1>0, <1>1, <1>2, <1>3, <2>1 DEF PlainTypes
<1>13. PlainTypes'
  BY <1>0, <1>1, <1>6, <1>8, <1>10, <1>11, <1>12 DEF PlainTypes
<1>14. TaskInv'
  <2>1. ASSUME NEW d \in Conns
        PROVE  /\ connPc'[d] # "summary" => task'[d].summary = 0
               /\ connPc'[d] = "record" => task'[d].record
               /\ connPc'[d] \notin {"summary", "record"} => ~task'[d].record
    <3>1. CASE d = c
      BY <1>5, <1>6, <1>9, <3>1
    <3>2. CASE d # c
      BY <1>0, <1>6, <1>8, <3>2 DEF TaskInv
    <3>3. QED
      BY <3>1, <3>2
  <2>2. QED
    BY <2>1 DEF TaskInv
<1>15. FailuresAccounted'
  <2>1. \A k \in Limiters : Held(c, k) = 0
    <3>1. task[c].summary = 0 /\ ~task[c].record
      BY <1>0, <1>1 DEF TaskInv
    <3>2. QED
      BY <3>1, HeldOf
  <2>2. \A k \in Limiters \ {l} : Held(c, k)' = 0
    BY <1>9, HeldOf
  <2>3. Held(c, l)' = flushed + (IF record THEN 1 ELSE 0)
    BY <1>2, <1>9, HeldOf
  <2>4. owed'[l] - suppressed'[l] - Held(c, l)' = owed[l] - suppressed[l] - Held(c, l)
    <3>1. CASE record
      BY <1>2, <1>3, <1>4, <1>12, <2>1, <2>3, <3>1
    <3>2. CASE ~record
      BY <1>2, <1>3, <1>4, <1>12, <2>1, <2>3, <3>2
    <3>3. QED
      BY <3>1, <3>2
  <2>5. \A k \in Limiters \ {l} :
          /\ owed'[k] = owed[k] /\ suppressed'[k] = suppressed[k]
          /\ Held(c, k)' = Held(c, k)
    BY <1>12, <2>1, <2>2
  <2>6. QED
    BY <1>0, <1>1, <1>2, <1>8, <1>12, <2>4, <2>5, TaskAccounts
<1>16. SlotTypes' /\ SlotsBalanced'
  <2>1. \A d \in Conns : connPc'[d] = "handshake" <=> connPc[d] = "handshake"
    BY <1>1, <1>5, <1>6
  <2>2. QED
    BY <1>0, <1>1, <2>1, SlotsStay
<1>17. QED
  BY <1>13, <1>14, <1>15, <1>16, PartsInv

\* The task writes: the log tells of what it held.
LEMMA WriteKeepsInv ==
    ASSUME ListenerInv, NEW c \in Conns, WriteSummary(c) \/ WriteRecord(c)
    PROVE  ListenerInv'
<1>0. PlainTypes /\ SlotTypes /\ SlotsBalanced /\ TaskInv /\ FailuresAccounted
  BY InvParts
<1>a. PICK l \in Limiters : l = task[c].limiter
  BY <1>0 DEF PlainTypes
<1> DEFINE paid == IF connPc[c] = "summary" THEN task[c].summary ELSE 1
           next == IF connPc[c] = "summary" /\ task[c].record THEN "record" ELSE "closed"
<1>1. /\ connPc[c] \in {"summary", "record"}
      /\ owed' = [owed EXCEPT ![l] = owed[l] - paid]
      /\ ConnAt(c, next)
      /\ UNCHANGED <<limits, open, loopPc, permits, perSource, stale, recorded, suppressed,
                     windowOver, flushing>>
  BY <1>a DEF WriteSummary, WriteRecord, loopVars, rateVars
<1>2. /\ paid \in Nat /\ owed[l] \in Int /\ suppressed[l] \in Nat
      /\ task[c].summary \in Nat /\ task[c].record \in BOOLEAN
      /\ task[c] \in [limiter : Limiters, summary : Nat, record : BOOLEAN]
  BY <1>0 DEF PlainTypes
<1>3. /\ \A d \in Conns \ {c} : task'[d] = task[d]
      /\ task'[c].summary = 0
      /\ connPc[c] = "summary" => task'[c].limiter = l /\ task'[c].record = task[c].record
      /\ connPc[c] = "record" => ~task'[c].record /\ task[c].record /\ task[c].summary = 0
      /\ task' \in [Conns -> [limiter : Limiters, summary : Nat, record : BOOLEAN]]
  <2>0. task \in [Conns -> [limiter : Limiters, summary : Nat, record : BOOLEAN]]
    BY <1>0 DEF PlainTypes
  <2>1. CASE WriteSummary(c)
    <3>1. connPc[c] = "summary" /\ task' = [task EXCEPT ![c] = [task[c] EXCEPT !.summary = 0]]
      BY <2>1 DEF WriteSummary
    <3>2. /\ [task[c] EXCEPT !.summary = 0].limiter = l
          /\ [task[c] EXCEPT !.summary = 0].summary = 0
          /\ [task[c] EXCEPT !.summary = 0].record = task[c].record
          /\ [task[c] EXCEPT !.summary = 0] \in [limiter : Limiters, summary : Nat, record : BOOLEAN]
      BY <1>a, <1>2
    <3>3. QED
      BY <2>0, <3>1, <3>2
  <2>2. CASE WriteRecord(c)
    <3>1. connPc[c] = "record" /\ task' = [task EXCEPT ![c] = Idle]
      BY <2>2 DEF WriteRecord
    <3>2. /\ Idle \in [limiter : Limiters, summary : Nat, record : BOOLEAN]
          /\ Idle.summary = 0 /\ ~Idle.record
      BY DEF Idle, Limiters
    <3>3. task[c].record /\ task[c].summary = 0
      BY <1>0, <3>1 DEF TaskInv
    <3>4. QED
      BY <2>0, <3>1, <3>2, <3>3
  <2>3. QED
    BY <2>1, <2>2
<1>4. /\ next \in {"record", "closed"}
      /\ (next = "record" => connPc[c] = "summary" /\ task[c].record)
      /\ (next = "closed" => connPc[c] # "summary" \/ ~task[c].record)
  BY <1>2
<1>5. /\ connPc[c] = "summary" => paid = task[c].summary
      /\ connPc[c] = "record" => paid = 1
  OBVIOUS
<1> HIDE DEF paid, next
<1>6. /\ connPc'[c] = next /\ \A d \in Conns \ {c} : connPc'[d] = connPc[d]
      /\ connPc' \in [Conns -> {"new", "handshake", "failed", "send", "queued", "served",
                                "handling", "denied", "summary", "record", "closed"}]
  BY <1>0, <1>1, <1>4 DEF ConnAt, PlainTypes
<1>7. /\ owed' \in [Limiters -> Int] /\ owed'[l] = owed[l] - paid
      /\ \A k \in Limiters \ {l} : owed'[k] = owed[k]
  BY <1>0, <1>1, <1>2 DEF PlainTypes
<1>8. PlainTypes'
  BY <1>0, <1>1, <1>3, <1>6, <1>7 DEF PlainTypes
<1>9. TaskInv'
  <2>1. ASSUME NEW d \in Conns
        PROVE  /\ connPc'[d] # "summary" => task'[d].summary = 0
               /\ connPc'[d] = "record" => task'[d].record
               /\ connPc'[d] \notin {"summary", "record"} => ~task'[d].record
    <3>1. CASE d = c
      BY <1>1, <1>3, <1>4, <1>6, <3>1
    <3>2. CASE d # c
      BY <1>0, <1>3, <1>6, <3>2 DEF TaskInv
    <3>3. QED
      BY <3>1, <3>2
  <2>2. QED
    BY <2>1 DEF TaskInv
<1>10. FailuresAccounted'
  <2>1. l = task[c].limiter
    BY <1>a
  <2>2. \A k \in Limiters \ {l} : Held(c, k) = 0 /\ Held(c, k)' = 0
    <3>1. ASSUME NEW k \in Limiters \ {l} PROVE Held(c, k) = 0 /\ Held(c, k)' = 0
      <4>1. Held(c, k) = 0
        BY <2>1, HeldOf
      <4>2. CASE connPc[c] = "summary"
        BY <1>3, <4>1, <4>2, HeldOf
      <4>3. CASE connPc[c] = "record"
        <5>1. ~task'[c].record /\ task'[c].summary = 0
          BY <1>3, <4>3
        <5>2. QED
          BY <4>1, <5>1, HeldOf
      <4>4. QED
        BY <1>1, <4>2, <4>3
    <3>2. QED
      BY <3>1
  <2>3. Held(c, l) \in Nat /\ Held(c, l)' \in Nat /\ Held(c, l)' = Held(c, l) - paid
    <3>1. CASE connPc[c] = "summary"
      <4>1. CASE task[c].record
        <5>1. Held(c, l) = task[c].summary + 1
          BY <2>1, <4>1, HeldOf
        <5>2. Held(c, l)' = 0 + 1
          BY <1>3, <3>1, <4>1, HeldOf
        <5>3. QED
          BY <1>2, <1>5, <3>1, <5>1, <5>2
      <4>2. CASE ~task[c].record
        BY <1>2, <1>3, <1>5, <2>1, <3>1, <4>2, HeldOf
      <4>3. QED
        BY <4>1, <4>2
    <3>2. CASE connPc[c] = "record"
      <4>1. Held(c, l) = 0 + 1
        BY <1>2, <1>3, <2>1, <3>2, HeldOf
      <4>2. Held(c, l)' = 0
        BY <1>2, <1>3, <3>2, HeldOf
      <4>3. QED
        BY <1>5, <3>2, <4>1, <4>2
    <3>3. QED
      BY <1>1, <3>1, <3>2
  <2>4. owed'[l] - suppressed'[l] - Held(c, l)' = owed[l] - suppressed[l] - Held(c, l)
    BY <1>1, <1>2, <1>7, <2>3
  <2>5. \A k \in Limiters \ {l} :
          /\ owed'[k] = owed[k] /\ suppressed'[k] = suppressed[k]
          /\ Held(c, k)' = Held(c, k)
    BY <1>1, <1>7, <2>2
  <2>6. suppressed' \in [Limiters -> Nat]
    BY <1>8 DEF PlainTypes
  <2>7. QED
    BY <1>0, <1>1, <1>2, <1>3, <1>7, <2>4, <2>5, <2>6, TaskAccounts
<1>11. SlotTypes' /\ SlotsBalanced'
  <2>1. \A d \in Conns : connPc'[d] = "handshake" <=> connPc[d] = "handshake"
    BY <1>1, <1>4, <1>6
  <2>2. QED
    BY <1>0, <1>1, <2>1, SlotsStay
<1>12. QED
  BY <1>8, <1>9, <1>10, <1>11, PartsInv

-----------------------------------------------------------------------------
(* The theorems.                                                           *)

\* At the start every slot is free and nothing is owed.
LEMMA InitInv == ASSUME ListenerInit PROVE ListenerInv
<1>1. limits \in Limits /\ limits.inflight \in Nat /\ limits.per_source \in Nat
      /\ limits.audit \in Nat
  BY LimitTypes DEF ListenerInit
<1>2. \A c \in Conns : connPc[c] = "new" /\ task[c] = Idle
  BY DEF ListenerInit
<1>3. Idle \in [limiter : Limiters, summary : Nat, record : BOOLEAN]
      /\ Idle.summary = 0 /\ ~Idle.record
  BY DEF Idle, Limiters
<1>4. ListenerTypeOK
  <2>1. windowOver \in [Limiters -> BOOLEAN]
    BY Zenon DEF ListenerInit
  <2>2. recorded \in [Limiters -> 0..limits.audit] /\ perSource \in [Sources -> 0..limits.per_source]
    BY <1>1 DEF ListenerInit
  <2>3. task \in [Conns -> [limiter : Limiters, summary : Nat, record : BOOLEAN]]
    BY <1>3 DEF ListenerInit
  <2>4. QED
    BY <1>1, <2>1, <2>2, <2>3 DEF ListenerInit, ListenerTypeOK
<1>5. SlotsBalanced
  <2>1. Shaking = {}
    BY <1>2 DEF Shaking
  <2>2. \A s \in Sources : ShakingOf(s) = {}
    BY <2>1 DEF ShakingOf
  <2>3. Cardinality({}) = 0
    BY FS_EmptySet
  <2>4. QED
    BY <1>1, <2>1, <2>2, <2>3 DEF SlotsBalanced, ListenerInit
<1>6. TaskInv
  BY <1>2, <1>3 DEF TaskInv
<1>7. FailuresAccounted
  <2>1. ASSUME NEW l \in Limiters PROVE owed[l] = suppressed[l] + flushing[l] + HeldTotal(l)
    <3>1. \A c \in Conns : Held(c, l) = 0
      <4>1. ASSUME NEW c \in Conns PROVE Held(c, l) = 0
        <5>1. task[c].summary = 0 /\ ~task[c].record
          BY <1>2, <1>3
        <5>2. QED
          BY <5>1, HeldOf
      <4>2. QED
        BY <4>1
    <3> DEFINE f == [c \in Conns |-> Held(c, l)]
    <3>2. \A c \in Conns : f[c] = 0
      BY <3>1
    <3>3. IsFiniteSet(Conns)
      BY ListenerAssumption
    <3>4. HeldTotal(l) = SumFunctionOnSet(f, Conns)
      BY DEF HeldTotal
    <3> HIDE DEF f
    <3>5. SumFunctionOnSet(f, Conns) = 0
      BY <3>2, <3>3, SumZero
    <3>6. owed[l] = 0 /\ suppressed[l] = 0 /\ flushing[l] = 0
      BY DEF ListenerInit
    <3>7. QED
      BY <3>4, <3>5, <3>6
  <2>2. QED
    BY <2>1 DEF FailuresAccounted
<1>8. QED
  BY <1>4, <1>5, <1>6, <1>7 DEF ListenerInv

\* Every step of the listener keeps the invariant.
LEMMA ListenerStepKeeps ==
    ASSUME ListenerInv, [ListenerNext]_listenerVars
    PROVE  ListenerInv'
<1>1. CASE UNCHANGED listenerVars
  <2>1. UNCHANGED <<limits, open, loopPc, permits, perSource, connPc, task, stale, recorded,
                    suppressed, windowOver, flushing, owed>>
    BY <1>1 DEF listenerVars, loopVars, rateVars
  <2>2. PlainTypes /\ SlotTypes /\ SlotsBalanced /\ TaskInv /\ FailuresAccounted
    BY InvParts
  <2>3. PlainTypes'
    BY <2>1, <2>2 DEF PlainTypes
  <2>4. SlotTypes' /\ SlotsBalanced' /\ TaskInv' /\ FailuresAccounted'
    BY <2>1, <2>2, SlotsStay, TasksStay, AuditStays
  <2>5. QED
    BY <2>3, <2>4, PartsInv
<1>2. CASE ListenerNext
  <2>1. CASE AcquirePermit \/ AcceptFails
    BY <2>1, LoopKeepsInv
  <2>2. CASE LoopStops
    BY <2>2, LoopStopsKeepsInv
  <2>3. CASE ServerStops
    BY <2>3, StopKeepsInv
  <2>4. CASE \E l \in Limiters : TimerStep(l)
    BY <2>4, TimerKeepsInv
  <2>5. ASSUME NEW c \in Conns,
               AcceptConn(c) \/ TaskStep(c) \/ Send(c) \/ Serve(c) \/ LeafExpires(c) \/ Call(c)
                 \/ Bind(c)
        PROVE  ListenerInv'
    <3>1. CASE AcceptConn(c)
      BY <3>1, AcceptKeepsInv
    <3>2. CASE TaskStep(c)
      <4>1. CASE \E p \in {"send", "failed", "closed"} : HandshakeEnds(c, p)
        BY <4>1, HandshakeKeepsInv
      <4>2. CASE Admit(c)
        BY <4>2, AdmitKeepsInv
      <4>3. CASE WriteSummary(c) \/ WriteRecord(c)
        BY <4>3, WriteKeepsInv
      <4>4. QED
        BY <3>2, <4>1, <4>2, <4>3 DEF TaskStep
    <3>3. CASE Send(c) \/ Serve(c) \/ LeafExpires(c) \/ Call(c) \/ Bind(c)
      BY <3>3, ConnKeepsInv
    <3>4. QED
      BY <2>5, <3>1, <3>2, <3>3
  <2>6. QED
    BY <1>2, <2>1, <2>2, <2>3, <2>4, <2>5 DEF ListenerNext
<1>3. QED
  BY <1>1, <1>2

\* The slots, the tasks and the accounts of the listener hold at all times,
\* for any number of connections, sources and limits.
THEOREM ListenerInvariant == ListenerSpec => []ListenerInv
<1>1. ListenerInit => ListenerInv
  BY InitInv
<1>2. ListenerInv /\ [ListenerNext]_listenerVars => ListenerInv'
  BY ListenerStepKeeps
<1>3. QED
  BY <1>1, <1>2, PTL DEF ListenerSpec

\* No handshake slot is lost or given back twice: what accept_loop takes, the
\* handshake tasks and the free permits add up to the configured limits.
THEOREM SlotsAlwaysBalanced == ListenerSpec => []SlotsBalanced
<1>1. ListenerInv => SlotsBalanced
  BY DEF ListenerInv
<1>2. QED
  BY <1>1, ListenerInvariant, PTL

\* No failed handshake and no denied call escapes the audit log, although
\* the rate limiter suppresses, windows end and the listener stops.
THEOREM FailuresAlwaysAccounted == ListenerSpec => []FailuresAccounted
<1>1. ListenerInv => FailuresAccounted
  BY DEF ListenerInv
<1>2. QED
  BY <1>1, ListenerInvariant, PTL

-----------------------------------------------------------------------------
(* The OCSP responder.  The cache keeps its bound because an insert evicts *)
(* first, and its answers are true because no status is ever taken back.   *)

\* Positions can be put in ascending order, by induction on the largest.
LEMMA AscendingExists ==
    ASSUME NEW m \in Nat, NEW I \in SUBSET (1..m)
    PROVE  \E f \in [1..Cardinality(I) -> I] : \A i, j \in DOMAIN f : i < j => f[i] < f[j]
<1> DEFINE Ordered(J) ==
             \E f \in [1..Cardinality(J) -> J] : \A i, j \in DOMAIN f : i < j => f[i] < f[j]
           G == { n \in Nat : \A J \in SUBSET (1..n) : Ordered(J) }
<1> HIDE DEF Ordered
<1>1. 0 \in G
  <2>1. ASSUME NEW J \in SUBSET (1..0) PROVE Ordered(J)
    <3>1. J = {}
      OBVIOUS
    <3>2. Cardinality(J) = 0
      BY <3>1, FS_EmptySet
    <3>3. [x \in 1..0 |-> x] \in [1..Cardinality(J) -> J]
      BY <3>2
    <3>4. QED
      BY <3>2, <3>3 DEF Ordered
  <2>2. QED
    BY <2>1
<1>2. ASSUME NEW n \in Nat, n \in G PROVE n + 1 \in G
  <2> SUFFICES ASSUME NEW J \in SUBSET (1..(n + 1)) PROVE Ordered(J)
    OBVIOUS
  <2>1. CASE n + 1 \notin J
    <3>1. J \in SUBSET (1..n)
      BY <2>1
    <3>2. QED
      BY <1>2, <3>1
  <2>2. CASE n + 1 \in J
    <3> DEFINE K == J \ {n + 1}
               c == Cardinality(K)
    <3>1. K \in SUBSET (1..n) /\ IsFiniteSet(1..(n + 1))
      BY FS_Interval
    <3>2. IsFiniteSet(J)
      BY <3>1, FS_Subset
    <3>3. c \in Nat /\ Cardinality(J) = c + 1
      <4>1. IsFiniteSet(K) /\ c = Cardinality(J) - 1
        BY <2>2, <3>2, FS_RemoveElement
      <4>2. Cardinality(J) \in Nat /\ c \in Nat
        BY <3>2, <4>1, FS_CardinalityType
      <4> HIDE DEF c
      <4>3. QED
        BY <4>1, <4>2
    <3>4. PICK f \in [1..c -> K] : \A i, j \in DOMAIN f : i < j => f[i] < f[j]
      BY <1>2, <3>1 DEF Ordered
    <3> HIDE DEF c
    <3> DEFINE g == [i \in 1..(c + 1) |-> IF i = c + 1 THEN n + 1 ELSE f[i]]
    <3>5. g \in [1..(c + 1) -> J]
      BY <2>2, <3>3, <3>4
    <3>6. ASSUME NEW i \in 1..(c + 1), NEW j \in 1..(c + 1), i < j PROVE g[i] < g[j]
      <4>0. i \in 1..c /\ i # c + 1
        BY <3>3, <3>6
      <4>1. g[i] = f[i] /\ f[i] \in 1..n
        BY <3>1, <3>4, <4>0
      <4>2. CASE j = c + 1
        BY <3>3, <4>1, <4>2
      <4>3. CASE j # c + 1
        <5>1. j \in 1..c /\ g[j] = f[j]
          BY <3>3, <4>3
        <5>2. QED
          BY <3>4, <3>6, <4>0, <4>1, <5>1
      <4>4. QED
        BY <4>2, <4>3
    <3>7. DOMAIN g = 1..(c + 1)
      OBVIOUS
    <3> HIDE DEF g
    <3>8. QED
      BY <3>3, <3>5, <3>6, <3>7 DEF Ordered
  <2>3. QED
    BY <2>1, <2>2
<1>3. m \in G
  BY <1>1, <1>2, SetInduction
<1>4. Ordered(I)
  BY <1>3
<1>5. QED
  BY <1>4 DEF Ordered

\* What retain leaves: no more entries, and no others.
LEMMA RetainFacts ==
    ASSUME NEW S, NEW s \in Seq(S), NEW I \in SUBSET DOMAIN s
    PROVE  /\ retain(s, I) \in Seq(S)
           /\ Len(retain(s, I)) <= Len(s)
           /\ \A i \in DOMAIN retain(s, I) : \E j \in DOMAIN s : retain(s, I)[i] = s[j]
<1> DEFINE n == Cardinality(I)
           f == Ascending(I)
           t == retain(s, I)
<1>1. Len(s) \in Nat /\ DOMAIN s = 1..Len(s) /\ IsFiniteSet(1..Len(s))
  BY FS_Interval
<1>2. Cardinality(1..Len(s)) = Len(s)
  <2>1. 1 \in Int /\ Len(s) \in Int
    BY <1>1
  <2>2. Cardinality(1..Len(s)) = IF 1 > Len(s) THEN 0 ELSE Len(s) - 1 + 1
    BY <2>1, FS_Interval
  <2>3. QED
    BY <1>1, <2>2
<1>3. n \in Nat /\ n <= Len(s)
  BY <1>1, <1>2, FS_Subset, FS_CardinalityType
<1>4. f \in [1..n -> I]
  BY <1>1, AscendingExists DEF Ascending
<1>5. t = [i \in 1..n |-> s[f[i]]]
  BY DEF retain
<1> HIDE DEF n, f, t
<1>6. \A i \in 1..n : f[i] \in DOMAIN s /\ s[f[i]] \in S /\ t[i] = s[f[i]]
  BY <1>1, <1>4, <1>5
<1>7. t \in Seq(S) /\ Len(t) = n /\ DOMAIN t = 1..n
  BY <1>3, <1>5, <1>6
<1>8. QED
  BY <1>3, <1>6, <1>7 DEF t

\* An insert keeps the bound, adds the new entry and no other.
LEMMA InsertFacts ==
    ASSUME NEW s \in Seq(OcspEntries), Len(s) <= CacheSize, NEW e \in OcspEntries
    PROVE  /\ insert(s, e) \in Seq(OcspEntries)
           /\ Len(insert(s, e)) <= CacheSize
           /\ \A i \in DOMAIN insert(s, e) :
                insert(s, e)[i] = e \/ \E j \in DOMAIN s : insert(s, e)[i] = s[j]
<1> DEFINE I == { i \in DOMAIN s : is_valid(s[i]) }
           valid == retain(s, I)
           left == evict(valid)
           J == { i \in DOMAIN left : left[i].key # e.key }
           kept == retain(left, J)
<1>1. /\ valid \in Seq(OcspEntries) /\ Len(valid) <= Len(s)
      /\ \A i \in DOMAIN valid : \E j \in DOMAIN s : valid[i] = s[j]
  <2>1. I \in SUBSET DOMAIN s
    OBVIOUS
  <2> HIDE DEF I
  <2>2. QED
    BY <2>1, RetainFacts
<1>2. insert(s, e) = Append(kept, e)
  BY DEF insert
<1>0. Len(s) \in Nat /\ CacheSize \in Nat \ {0}
  BY OcspAssumption
<1> HIDE DEF I, valid
<1>3. /\ left \in Seq(OcspEntries) /\ Len(left) <= CacheSize - 1
      /\ \A i \in DOMAIN left : \E j \in DOMAIN valid : left[i] = valid[j]
  <2>1. Len(valid) \in Nat
    BY <1>1
  <2>2. CASE Len(valid) >= CacheSize
    <3>1. valid # <<>> /\ left = Tail(valid)
      BY <1>0, <1>1, <2>2 DEF evict
    <3>2. left \in Seq(OcspEntries) /\ Len(left) = Len(valid) - 1
      BY <1>1, <3>1
    <3>3. \A i \in 1..(Len(valid) - 1) : left[i] = valid[i + 1] /\ i + 1 \in DOMAIN valid
      BY <1>1, <3>1
    <3>4. DOMAIN left = 1..(Len(valid) - 1)
      BY <3>2
    <3>5. QED
      BY <1>0, <1>1, <2>1, <3>2, <3>3, <3>4
  <2>3. CASE ~(Len(valid) >= CacheSize)
    BY <1>0, <1>1, <2>1, <2>3 DEF evict
  <2>4. QED
    BY <2>2, <2>3
<1> HIDE DEF left
<1>4. /\ kept \in Seq(OcspEntries) /\ Len(kept) <= Len(left)
      /\ \A i \in DOMAIN kept : \E j \in DOMAIN left : kept[i] = left[j]
  <2>1. J \in SUBSET DOMAIN left
    OBVIOUS
  <2> HIDE DEF J
  <2>2. QED
    BY <1>3, <2>1, RetainFacts
<1> HIDE DEF kept
<1>5. /\ Append(kept, e) \in Seq(OcspEntries) /\ Len(Append(kept, e)) = Len(kept) + 1
      /\ \A i \in 1..Len(kept) : Append(kept, e)[i] = kept[i]
      /\ Append(kept, e)[Len(kept) + 1] = e
  BY <1>4
<1>6. Len(kept) \in Nat /\ Len(left) \in Nat /\ DOMAIN kept = 1..Len(kept)
  BY <1>3, <1>4
<1>7. Len(Append(kept, e)) <= CacheSize /\ DOMAIN Append(kept, e) = 1..(Len(kept) + 1)
  BY <1>0, <1>3, <1>4, <1>5, <1>6
<1>8. \A i \in DOMAIN kept : \E j \in DOMAIN s : kept[i] = s[j]
  BY <1>1, <1>3, <1>4
<1>9. \A i \in DOMAIN Append(kept, e) :
        Append(kept, e)[i] = e \/ \E j \in DOMAIN s : Append(kept, e)[i] = s[j]
  BY <1>5, <1>6, <1>7, <1>8
<1>10. QED
  BY <1>2, <1>5, <1>7, <1>9

\* The types of the requests in flight.
OcspRequestTypes ==
    /\ ocspPc \in [OcspHandlers -> {"idle", "lookup", "stamp", "sign", "insert"}]
    /\ ocspKey \in [OcspHandlers -> OcspKeys \union {NoKey}]
    /\ ocspReads \in [OcspHandlers -> OcspStatuses]
    /\ ocspLeft \in [OcspHandlers -> 0..Validity]
    /\ ocspCacheable \in [OcspHandlers -> BOOLEAN]

\* The clauses of the invariant about the cache, and about one request.
OcspCacheOK ==
    /\ ocspCache \in Seq(OcspEntries)
    /\ Len(ocspCache) <= CacheSize
    /\ \A i \in DOMAIN ocspCache : Truthful(ocspCache[i].key, ocspCache[i].status)

OcspRequestOK(h) ==
    /\ ocspPc[h] # "idle" => ocspKey[h] \in OcspKeys
    /\ ocspPc[h] \in {"stamp", "sign", "insert"} =>
         ocspReads[h] # "unknown" /\ Truthful(ocspKey[h], ocspReads[h])

\* OcspInv in these parts, in this state and in the next.
LEMMA OcspParts ==
    /\ OcspInv <=> /\ ocspStatus \in [OcspKeys -> OcspStatuses]
                   /\ OcspRequestTypes /\ OcspCacheOK /\ \A h \in OcspHandlers : OcspRequestOK(h)
    /\ OcspInv' <=> /\ ocspStatus' \in [OcspKeys -> OcspStatuses]
                    /\ OcspRequestTypes' /\ OcspCacheOK'
                    /\ \A h \in OcspHandlers : OcspRequestOK(h)'
  BY DEF OcspInv, OcspTypeOK, OcspSound, OcspRequestTypes, OcspCacheOK, OcspRequestOK

\* Issued and revoked are for good: what was true stays true.
LEMMA StatusKeeps ==
    ASSUME OcspInv, NEW k \in OcspKeys, OcspIssue(k) \/ OcspRevoke(k)
    PROVE  OcspInv'
<1>0. /\ ocspStatus \in [OcspKeys -> OcspStatuses] /\ OcspRequestTypes /\ OcspCacheOK
      /\ \A h \in OcspHandlers : OcspRequestOK(h)
  BY OcspParts
<1>1. UNCHANGED <<ocspCache, ocspPc, ocspKey, ocspReads, ocspLeft, ocspCacheable>>
  BY DEF OcspIssue, OcspRevoke, ocspHandlerVars
<1>2. ocspStatus' \in [OcspKeys -> OcspStatuses]
  BY <1>0 DEF OcspIssue, OcspRevoke, OcspStatuses
<1>3. ASSUME NEW q \in OcspKeys, NEW s, Truthful(q, s) PROVE Truthful(q, s)'
  BY <1>0, <1>3 DEF OcspIssue, OcspRevoke, Truthful
<1>4. OcspRequestTypes'
  BY <1>0, <1>1 DEF OcspRequestTypes
<1>5. OcspCacheOK'
  <2>0. \A i \in DOMAIN ocspCache : ocspCache[i] \in OcspEntries
    BY <1>0 DEF OcspCacheOK
  <2>1. \A i \in DOMAIN ocspCache : ocspCache[i].key \in OcspKeys
    BY <2>0 DEF OcspEntries
  <2>2. QED
    BY <1>0, <1>1, <1>3, <2>1 DEF OcspCacheOK
<1>6. \A h \in OcspHandlers : OcspRequestOK(h)'
  BY <1>0, <1>1, <1>3 DEF OcspRequestOK
<1>7. QED
  BY <1>2, <1>4, <1>5, <1>6, OcspParts

\* Time passes: answers get older.
LEMMA OcspTickKeeps == ASSUME OcspInv, OcspTick PROVE OcspInv'
<1>0. /\ ocspStatus \in [OcspKeys -> OcspStatuses] /\ OcspRequestTypes /\ OcspCacheOK
      /\ \A h \in OcspHandlers : OcspRequestOK(h)
  BY OcspParts
<1>1. UNCHANGED <<ocspStatus, ocspPc, ocspKey, ocspReads, ocspCacheable>>
  BY DEF OcspTick
<1>2. \A n \in 0..Validity : Sooner(n) \in 0..Validity
  BY OcspAssumption DEF Sooner
<1>3. OcspRequestTypes'
  BY <1>0, <1>1, <1>2 DEF OcspTick, OcspRequestTypes
<1>4. OcspCacheOK'
  <2> DEFINE n == Len(ocspCache)
             Older(i) == [key |-> ocspCache[i].key, status |-> ocspCache[i].status,
                          left |-> Sooner(ocspCache[i].left)]
  <2>1. n \in Nat /\ DOMAIN ocspCache = 1..n /\ n <= CacheSize
    BY <1>0 DEF OcspCacheOK
  <2>2. \A i \in 1..n : ocspCache[i] \in OcspEntries
    BY <1>0, <2>1 DEF OcspCacheOK
  <2>3. \A i \in 1..n : Older(i) \in OcspEntries
    BY <1>2, <2>2 DEF OcspEntries
  <2>4. ocspCache' = [i \in 1..n |-> Older(i)]
    BY <2>1 DEF OcspTick
  <2> HIDE DEF n
  <2>5. \A i \in 1..n : Older(i).key = ocspCache[i].key /\ Older(i).status = ocspCache[i].status
    OBVIOUS
  <2> HIDE DEF Older
  <2>6. ocspCache' \in Seq(OcspEntries) /\ Len(ocspCache') = n /\ DOMAIN ocspCache' = 1..n
    BY <2>1, <2>3, <2>4
  <2>7. \A i \in 1..n : /\ ocspCache'[i].key = ocspCache[i].key
                        /\ ocspCache'[i].status = ocspCache[i].status
    BY <2>4, <2>5
  <2>8. \A i \in 1..n : Truthful(ocspCache[i].key, ocspCache[i].status)
    BY <1>0, <2>1 DEF OcspCacheOK
  <2>9. QED
    BY <1>1, <2>1, <2>6, <2>7, <2>8 DEF OcspCacheOK, Truthful
<1>5. \A h \in OcspHandlers : OcspRequestOK(h)'
  BY <1>0, <1>1 DEF OcspRequestOK, Truthful
<1>6. QED
  BY <1>0, <1>1, <1>3, <1>4, <1>5, OcspParts

\* A step of one request that leaves the status table alone.
LEMMA OneRequestKeeps ==
    ASSUME OcspInv, NEW h \in OcspHandlers, UNCHANGED ocspStatus, OcspCacheOK', OcspRequestTypes',
           OcspRequestOK(h)',
           \A g \in OcspHandlers \ {h} : /\ ocspPc'[g] = ocspPc[g] /\ ocspKey'[g] = ocspKey[g]
                                         /\ ocspReads'[g] = ocspReads[g]
    PROVE  OcspInv'
<1>0. ocspStatus \in [OcspKeys -> OcspStatuses] /\ \A g \in OcspHandlers : OcspRequestOK(g)
  BY OcspParts
<1>1. \A g \in OcspHandlers \ {h} : OcspRequestOK(g)'
  BY <1>0 DEF OcspRequestOK, Truthful
<1>2. QED
  BY <1>0, <1>1, OcspParts

\* A request that ends keeps nothing.
LEMMA OcspEndsFacts ==
    ASSUME OcspRequestTypes, NEW h \in OcspHandlers, OcspEnds(h)
    PROVE  /\ OcspRequestTypes' /\ OcspRequestOK(h)'
           /\ \A g \in OcspHandlers \ {h} : /\ ocspPc'[g] = ocspPc[g] /\ ocspKey'[g] = ocspKey[g]
                                            /\ ocspReads'[g] = ocspReads[g]
<1>1. 0 \in 0..Validity
  BY OcspAssumption
<1>2. OcspRequestTypes'
  BY <1>1 DEF OcspEnds, OcspAt, OcspRequestTypes, OcspStatuses
<1>3. ocspPc'[h] = "idle"
  BY DEF OcspEnds, OcspAt, OcspRequestTypes
<1>4. QED
  BY <1>2, <1>3 DEF OcspEnds, OcspAt, OcspRequestTypes, OcspRequestOK

\* The cache stays as it is.
LEMMA OcspCacheStays ==
    ASSUME OcspCacheOK, UNCHANGED <<ocspStatus, ocspCache>> PROVE OcspCacheOK'
  BY DEF OcspCacheOK, Truthful

\* A request that is not answered from the cache goes on to its lookup.
LEMMA OcspFrontKeeps ==
    ASSUME OcspInv, NEW h \in OcspHandlers, NEW k \in OcspKeys, NEW c \in BOOLEAN,
           OcspRequest(h, k, c)
    PROVE  OcspInv'
<1>0. OcspRequestTypes /\ OcspCacheOK
  BY OcspParts
<1>1. /\ UNCHANGED <<ocspStatus, ocspCache, ocspReads, ocspLeft>>
      /\ ocspPc' = [ocspPc EXCEPT ![h] = "lookup"] /\ ocspKey' = [ocspKey EXCEPT ![h] = k]
      /\ ocspCacheable' = [ocspCacheable EXCEPT ![h] = c]
  BY DEF OcspRequest, OcspAt
<1>2. OcspRequestTypes'
  BY <1>0, <1>1 DEF OcspRequestTypes
<1>3. OcspRequestOK(h)' /\ \A g \in OcspHandlers \ {h} : /\ ocspPc'[g] = ocspPc[g]
                                                        /\ ocspKey'[g] = ocspKey[g]
  BY <1>0, <1>1 DEF OcspRequestTypes, OcspRequestOK
<1>4. QED
  BY <1>0, <1>1, <1>2, <1>3, OcspCacheStays, OneRequestKeeps

\* The status is read, the answer stamped and signed, or the request ends.
LEMMA OcspAnswerKeeps ==
    ASSUME OcspInv, NEW h \in OcspHandlers,
           OcspLookup(h) \/ OcspStamp(h) \/ OcspSign(h) \/ OcspFails(h)
    PROVE  OcspInv'
<1>0. /\ ocspStatus \in [OcspKeys -> OcspStatuses] /\ OcspRequestTypes /\ OcspCacheOK
      /\ OcspRequestOK(h)
  BY OcspParts
<1>1. UNCHANGED <<ocspStatus, ocspCache>> /\ OcspCacheOK'
  BY <1>0, OcspCacheStays DEF OcspLookup, OcspStamp, OcspSign, OcspFails
<1>2. CASE OcspEnds(h)
  BY <1>0, <1>1, <1>2, OcspEndsFacts, OneRequestKeeps
<1>3. CASE OcspLookup(h) /\ ~OcspEnds(h)
  <2>1. /\ ocspPc[h] = "lookup" /\ ocspStatus[ocspKey[h]] # "unknown"
        /\ ocspReads' = [ocspReads EXCEPT ![h] = ocspStatus[ocspKey[h]]]
        /\ ocspPc' = [ocspPc EXCEPT ![h] = "stamp"]
        /\ UNCHANGED <<ocspKey, ocspLeft, ocspCacheable>>
    BY <1>3 DEF OcspLookup, OcspAt
  <2>2. ocspKey[h] \in OcspKeys /\ ocspStatus[ocspKey[h]] \in OcspStatuses
    BY <1>0, <2>1 DEF OcspRequestOK
  <2>3. OcspRequestTypes'
    BY <1>0, <2>1, <2>2 DEF OcspRequestTypes
  <2>4. /\ ocspPc'[h] = "stamp" /\ ocspKey'[h] = ocspKey[h]
        /\ ocspReads'[h] = ocspStatus[ocspKey[h]]
        /\ \A g \in OcspHandlers \ {h} : ocspPc'[g] = ocspPc[g] /\ ocspReads'[g] = ocspReads[g]
    BY <1>0, <2>1 DEF OcspRequestTypes
  <2>5. OcspRequestOK(h)'
    BY <1>1, <2>1, <2>2, <2>4 DEF OcspRequestOK, Truthful
  <2>6. QED
    BY <1>1, <2>1, <2>3, <2>4, <2>5, OneRequestKeeps
<1>4. CASE (OcspStamp(h) \/ OcspSign(h)) /\ ~OcspEnds(h)
  <2>1. /\ ocspPc[h] \in {"stamp", "sign"}
        /\ ocspPc' = [ocspPc EXCEPT ![h] = "sign"] \/ ocspPc' = [ocspPc EXCEPT ![h] = "insert"]
        /\ UNCHANGED <<ocspKey, ocspReads, ocspCacheable>>
        /\ UNCHANGED ocspLeft \/ ocspLeft' = [ocspLeft EXCEPT ![h] = Validity]
    BY <1>4 DEF OcspStamp, OcspSign, OcspAt
  <2>2. Validity \in 0..Validity
    BY OcspAssumption
  <2>3. OcspRequestTypes'
    BY <1>0, <2>1, <2>2 DEF OcspRequestTypes
  <2>4. \A g \in OcspHandlers \ {h} : ocspPc'[g] = ocspPc[g]
    BY <1>0, <2>1 DEF OcspRequestTypes
  <2>5. OcspRequestOK(h)'
    BY <1>0, <1>1, <2>1 DEF OcspRequestOK, Truthful
  <2>6. QED
    BY <1>1, <2>1, <2>3, <2>4, <2>5, OneRequestKeeps
<1>5. QED
  BY <1>2, <1>3, <1>4 DEF OcspFails

\* The answer is cached and the request ends.
LEMMA OcspInsertKeeps ==
    ASSUME OcspInv, NEW h \in OcspHandlers, OcspInsert(h)
    PROVE  OcspInv'
<1>0. OcspRequestTypes /\ OcspCacheOK /\ OcspRequestOK(h)
  BY OcspParts
<1> DEFINE e == [key |-> ocspKey[h], status |-> ocspReads[h], left |-> ocspLeft[h]]
<1>1. /\ ocspPc[h] = "insert" /\ ocspCache' = insert(ocspCache, e)
      /\ OcspEnds(h) /\ UNCHANGED ocspStatus
  BY DEF OcspInsert
<1>2. e \in OcspEntries /\ Truthful(e.key, e.status)
  <2>1. ocspKey[h] \in OcspKeys /\ ocspReads[h] # "unknown" /\ Truthful(ocspKey[h], ocspReads[h])
    BY <1>0, <1>1 DEF OcspRequestOK
  <2>2. ocspReads[h] \in {"good", "revoked"} /\ ocspLeft[h] \in 0..Validity
    BY <1>0, <2>1 DEF OcspRequestTypes, OcspStatuses
  <2>3. QED
    BY <2>1, <2>2 DEF OcspEntries
<1> HIDE DEF e
<1>3. /\ ocspCache' \in Seq(OcspEntries) /\ Len(ocspCache') <= CacheSize
      /\ \A i \in DOMAIN ocspCache' :
           ocspCache'[i] = e \/ \E j \in DOMAIN ocspCache : ocspCache'[i] = ocspCache[j]
  BY <1>0, <1>1, <1>2, InsertFacts DEF OcspCacheOK
<1>4. \A i \in DOMAIN ocspCache' : Truthful(ocspCache'[i].key, ocspCache'[i].status)
  BY <1>0, <1>2, <1>3 DEF OcspCacheOK
<1>5. OcspCacheOK'
  BY <1>1, <1>3, <1>4 DEF OcspCacheOK, Truthful
<1>6. QED
  BY <1>0, <1>1, <1>5, OcspEndsFacts, OneRequestKeeps

\* Every step of the CA, the clock and the responder.
LEMMA OcspStepKeeps == ASSUME OcspInv, [OcspNext]_ocspVars PROVE OcspInv'
<1>1. CASE UNCHANGED ocspVars
  <2>1. UNCHANGED <<ocspStatus, ocspCache, ocspPc, ocspKey, ocspReads, ocspLeft, ocspCacheable>>
    BY <1>1 DEF ocspVars, ocspHandlerVars
  <2>2. OcspRequestTypes' /\ OcspCacheOK' /\ \A h \in OcspHandlers : OcspRequestOK(h)'
    BY <2>1, OcspParts DEF OcspRequestTypes, OcspCacheOK, OcspRequestOK, Truthful
  <2>3. QED
    BY <2>1, <2>2, OcspParts
<1>2. QED
  BY <1>1, StatusKeeps, OcspTickKeeps, OcspFrontKeeps, OcspAnswerKeeps, OcspInsertKeeps
     DEF OcspNext, OcspStep

\* However many requests overlap, the cache keeps its bound and only answers
\* that were true are cached or sent.
THEOREM OcspAlwaysSound == OcspSpec => []OcspSound
<1>1. OcspInit => OcspInv
  <2> SUFFICES ASSUME OcspInit PROVE OcspInv
    OBVIOUS
  <2>1. << >> \in Seq(OcspEntries) /\ Len(<< >>) = 0 /\ 0 \in 0..Validity /\ 0 <= CacheSize
    BY OcspAssumption
  <2>2. OcspRequestTypes /\ ocspStatus \in [OcspKeys -> OcspStatuses]
    BY <2>1 DEF OcspInit, OcspRequestTypes, OcspStatuses
  <2>3. OcspCacheOK
    BY <2>1 DEF OcspInit, OcspCacheOK
  <2>4. \A h \in OcspHandlers : OcspRequestOK(h)
    BY DEF OcspInit, OcspRequestOK
  <2>5. QED
    BY <2>2, <2>3, <2>4, OcspParts
<1>2. OcspInv /\ [OcspNext]_ocspVars => OcspInv'
  BY OcspStepKeeps
<1>3. OcspInv => OcspSound
  BY DEF OcspInv
<1>4. QED
  BY <1>1, <1>2, <1>3, PTL DEF OcspSpec
=============================================================================
