---------------------- MODULE ResizeTransactionProofs ----------------------
(***************************************************************************)
(* Proofs of ResizeTransaction's safety properties, for any surfaces,      *)
(* rects, timeout and number of gated batches.  The broker's record is     *)
(* rewritten several times in one turn (begin arms, then evaluates, which  *)
(* may apply), so the invariant is stated of any record u and each         *)
(* operator on records has a lemma saying which part of it it keeps.       *)
(***************************************************************************)
EXTENDS ResizeTransaction, FiniteSetTheorems, SequenceTheorems,
        WellFoundedInduction, TLAPS

(* Each held geometry has one owner, a hold on the books or a gated batch. *)
Owned(u) ==
  \A s \in SurfaceIds :
    /\ u.pend[s] # NoPend <=> \E k \in 0..Len(u.gates) : "wm-tx" \in TagsAt(u, s, k)
    /\ \A j, k \in 0..Len(u.gates) :
         "wm-tx" \in TagsAt(u, s, j) /\ "wm-tx" \in TagsAt(u, s, k) => j = k

(* Each snapshot on screen has a hold or a gated batch that takes it off. *)
Thawing(u) ==
  \A s \in u.frozen : \E k \in 0..Len(u.gates) : TagsAt(u, s, k) # {}

Good(u) == u \in Transactions /\ Owned(u) /\ Thawing(u)

(* There is room behind the gates for the batch on the books. *)
Bounded(u) == Len(u.gates) <= MaxGates /\ (Held(u) # {} => Len(u.gates) < MaxGates)

(* A timer that is armed is armed for a hold, and in time. *)
InTime(u) ==
  u.timer # NoTimer => /\ Held(u) # {}
                       /\ \A s \in Held(u) : u.timer <= Max({1, u.holds[s].left})

Timed(u) == InTime(u) /\ (Held(u) # {} => u.timer # NoTimer)

(* What each window of W is drawn at, or will be, is what w says. *)
Placed(u, w, W) ==
  \A s \in W : w[s] = IF u.pend[s] = NoPend THEN u.rect[s] ELSE u.pend[s].rect

(* The windows that no pass left alone by mistake. *)
Kept == windows \ skipped

(* The inductive invariant. *)
IInv ==
  /\ Good(t) /\ Bounded(t) /\ Timed(t) /\ Placed(t, want, Kept)
  /\ windows \subseteq SurfaceIds /\ skipped \subseteq SurfaceIds
  /\ client \in [SurfaceIds -> [asked: Sizes, committed: Sizes]]
  /\ pass \in Passes \cup {NoPass}
  /\ want \in [SurfaceIds -> Rects]

-----------------------------------------------------------------------------
(* The earliest of the deadlines exists: a set of naturals has a minimum. *)
LEMMA MinExists ==
  ASSUME NEW S \in SUBSET Nat, S # {}
  PROVE  Min(S) \in S /\ \A y \in S : Min(S) <= y
  <1>1. \E x \in S : \A y \in S : ~(<<y, x>> \in OpToRel(<, Nat))
    BY NatLessThanWellFounded, WFMin
  <1>2. \E x \in S : \A y \in S : x <= y
    <2>1. PICK x \in S : \A y \in S : ~(<<y, x>> \in OpToRel(<, Nat))
      BY <1>1
    <2>2. \A y \in S : ~(y < x)
      BY <2>1 DEF OpToRel
    <2> QED BY <2>2
  <1> QED BY <1>2 DEF Min

(* The larger of 1 and x. *)
LEMMA MaxOne ==
  ASSUME NEW x \in Nat
  PROVE  /\ Max({1, x}) \in Nat /\ Max({1, x}) >= 1 /\ Max({1, x}) >= x
         /\ x >= 1 => Max({1, x}) = x
         /\ x < 1 => Max({1, x}) = 1
  <1>1. \E z \in {1, x} : \A y \in {1, x} : z >= y
    OBVIOUS
  <1> QED BY <1>1 DEF Max

(* The gates without the k-th. *)
LEMMA RemoveAtFacts ==
  ASSUME NEW S, NEW q \in Seq(S), NEW k \in 1..Len(q)
  PROVE  /\ RemoveAt(q, k) \in Seq(S)
         /\ Len(RemoveAt(q, k)) = Len(q) - 1
         /\ \A i \in 1..Len(q) - 1 : RemoveAt(q, k)[i] = IF i < k THEN q[i] ELSE q[i + 1]
  <1> DEFINE a == SubSeq(q, 1, k - 1)
             b == SubSeq(q, k + 1, Len(q))
  <1>1. a \in Seq(S) /\ Len(a) = k - 1 /\ \A i \in 1..k - 1 : a[i] = q[i]
    OBVIOUS
  <1>2. b \in Seq(S) /\ Len(b) = Len(q) - k /\ \A i \in 1..Len(q) - k : b[i] = q[k + i]
    OBVIOUS
  <1>3. RemoveAt(q, k) = a \o b
    BY DEF RemoveAt
  <1> HIDE DEF a, b
  <1>4. /\ a \o b \in Seq(S) /\ Len(a \o b) = Len(q) - 1
        /\ \A i \in 1..Len(q) - 1 :
             (a \o b)[i] = IF i <= Len(a) THEN a[i] ELSE b[i - Len(a)]
    BY <1>1, <1>2, ConcatProperties
  <1>5. ASSUME NEW i \in 1..Len(q) - 1
        PROVE  (a \o b)[i] = IF i < k THEN q[i] ELSE q[i + 1]
    <2>1. CASE i < k
      BY <1>1, <1>4, <2>1
    <2>2. CASE ~(i < k)
      <3>1. i - Len(a) \in 1..Len(q) - k /\ k + (i - Len(a)) = i + 1
        BY <1>1, <2>2
      <3> QED BY <1>1, <1>2, <1>4, <2>2, <3>1
    <2> QED BY <2>1, <2>2
  <1> QED BY <1>3, <1>4, <1>5

(* A batch that goes behind the gates and leaves them again. *)
LEMMA AppendRemove ==
  ASSUME NEW S, NEW q \in Seq(S), NEW e \in S
  PROVE  RemoveAt(Append(q, e), Len(q) + 1) = q
  BY DEF RemoveAt

-----------------------------------------------------------------------------
(* The two halves of doApply: the batch leaves the books, and a batch that *)
(* waited behind the gates finishes.                                       *)
OffTheBooks(u) ==
  [u EXCEPT !.holds = [s \in SurfaceIds |-> NoHold], !.timer = NoTimer,
            !.gates = Append(@, Batch(u))]

Resolved(u, k) == Finished([u EXCEPT !.gates = RemoveAt(@, k)], u.gates[k])

(* The batch that leaves the books keeps what it owns. *)
LEMMA OffTheBooksGood ==
  ASSUME NEW u, Good(u)
  PROVE  /\ Good(OffTheBooks(u))
         /\ Held(OffTheBooks(u)) = {} /\ OffTheBooks(u).timer = NoTimer
         /\ OffTheBooks(u).pend = u.pend /\ OffTheBooks(u).rect = u.rect
         /\ OffTheBooks(u).gates = Append(u.gates, Batch(u))
  <1> DEFINE v == OffTheBooks(u)
  <1>1. u \in Transactions
    BY DEF Good
  <1>2. Batch(u) \in [SurfaceIds -> SUBSET Tags]
    BY <1>1 DEF Batch, Transactions
  <1>3. NoHold \in [tags: SUBSET Tags, left: 0..Timeout] /\ NoHold.tags = {}
    BY TimeoutAssumption DEF NoHold
  <1>4. /\ v.holds = [s \in SurfaceIds |-> NoHold] /\ v.timer = NoTimer
        /\ v.gates = Append(u.gates, Batch(u))
        /\ v.pend = u.pend /\ v.rect = u.rect /\ v.frozen = u.frozen
    BY <1>1 DEF OffTheBooks, Transactions
  <1>5. Append(u.gates, Batch(u)) \in Seq([SurfaceIds -> SUBSET Tags])
    BY <1>1, <1>2 DEF Transactions
  <1>6. v \in Transactions
    BY <1>1, <1>3, <1>5 DEF OffTheBooks, Transactions
  <1>7. u.gates \in Seq([SurfaceIds -> SUBSET Tags])
    BY <1>1 DEF Transactions
  <1>8. /\ Len(v.gates) = Len(u.gates) + 1 /\ Len(u.gates) \in Nat
        /\ v.gates[Len(u.gates) + 1] = Batch(u)
        /\ \A k \in 1..Len(u.gates) : v.gates[k] = u.gates[k]
    BY <1>2, <1>4, <1>7
  <1>9. \A s \in SurfaceIds :
          /\ TagsAt(v, s, 0) = {}
          /\ TagsAt(v, s, Len(u.gates) + 1) = TagsAt(u, s, 0)
          /\ \A k \in 1..Len(u.gates) : TagsAt(v, s, k) = TagsAt(u, s, k)
    BY <1>3, <1>4, <1>8 DEF TagsAt, Batch
  <1>10. Held(v) = {}
    BY <1>3, <1>4 DEF Held
  <1> HIDE DEF v
  <1>11. Owned(v)
    <2> SUFFICES ASSUME NEW s \in SurfaceIds
                 PROVE  /\ v.pend[s] # NoPend <=>
                             \E k \in 0..Len(v.gates) : "wm-tx" \in TagsAt(v, s, k)
                        /\ \A j, k \in 0..Len(v.gates) :
                             "wm-tx" \in TagsAt(v, s, j) /\ "wm-tx" \in TagsAt(v, s, k) => j = k
      BY DEF Owned
    <2> DEFINE old(k) == IF k = Len(u.gates) + 1 THEN 0 ELSE k
    <2>1. ASSUME NEW k \in 0..Len(v.gates), "wm-tx" \in TagsAt(v, s, k)
          PROVE  k # 0 /\ old(k) \in 0..Len(u.gates) /\ "wm-tx" \in TagsAt(u, s, old(k))
      BY <1>8, <1>9, <2>1
    <2>2. \A j, k \in 0..Len(u.gates) :
            "wm-tx" \in TagsAt(u, s, j) /\ "wm-tx" \in TagsAt(u, s, k) => j = k
      BY DEF Good, Owned
    <2>3. u.pend[s] # NoPend <=> \E k \in 0..Len(u.gates) : "wm-tx" \in TagsAt(u, s, k)
      BY DEF Good, Owned
    <2>4. ASSUME NEW k \in 0..Len(u.gates), "wm-tx" \in TagsAt(u, s, k)
          PROVE  \E j \in 0..Len(v.gates) : "wm-tx" \in TagsAt(v, s, j)
      <3>1. CASE k = 0
        BY <1>8, <1>9, <2>4, <3>1
      <3>2. CASE k # 0
        BY <1>8, <1>9, <2>4, <3>2
      <3> QED BY <3>1, <3>2
    <2>5. ASSUME NEW j \in 0..Len(v.gates), NEW k \in 0..Len(v.gates),
                 "wm-tx" \in TagsAt(v, s, j), "wm-tx" \in TagsAt(v, s, k)
          PROVE  j = k
      <3>1. old(j) = old(k) /\ j # 0 /\ k # 0
        BY <2>1, <2>2, <2>5
      <3> QED BY <1>8, <3>1
    <2> QED BY <1>4, <2>1, <2>3, <2>4, <2>5
  <1>12. Thawing(v)
    <2> SUFFICES ASSUME NEW s \in v.frozen
                 PROVE  \E k \in 0..Len(v.gates) : TagsAt(v, s, k) # {}
      BY DEF Thawing
    <2>1. s \in SurfaceIds /\ s \in u.frozen
      BY <1>1, <1>4 DEF Transactions
    <2>2. PICK k \in 0..Len(u.gates) : TagsAt(u, s, k) # {}
      BY <2>1 DEF Good, Thawing
    <2>3. CASE k = 0
      BY <1>8, <1>9, <2>1, <2>2, <2>3
    <2>4. CASE k # 0
      BY <1>8, <1>9, <2>1, <2>2, <2>4
    <2> QED BY <2>3, <2>4
  <1> QED BY <1>4, <1>6, <1>10, <1>11, <1>12 DEF Good, v

(* finish lands the geometry of its batch and nothing else. *)
LEMMA FinishedFields ==
  ASSUME NEW u \in Transactions, NEW g \in [SurfaceIds -> SUBSET Tags],
         windows \subseteq SurfaceIds
  PROVE  /\ Finished(u, g) \in Transactions
         /\ Finished(u, g).holds = u.holds /\ Finished(u, g).timer = u.timer
         /\ Finished(u, g).gates = u.gates
         /\ Finished(u, g).frozen = u.frozen \ InBatch(g)
         /\ \A s \in SurfaceIds : Finished(u, g).pend[s] =
               IF "wm-tx" \in g[s] THEN NoPend ELSE u.pend[s]
         /\ \A s \in windows : Finished(u, g).rect[s] =
               IF "wm-tx" \in g[s] /\ u.pend[s] # NoPend THEN u.pend[s].rect ELSE u.rect[s]
  <1> DEFINE landing == {s \in InBatch(g) : "wm-tx" \in g[s] /\ u.pend[s] # NoPend}
             pend == [s \in SurfaceIds |-> IF s \in landing THEN NoPend ELSE u.pend[s]]
             rect == [s \in SurfaceIds |-> IF s \in landing \cap windows
                                              THEN u.pend[s].rect ELSE u.rect[s]]
             v == [u EXCEPT !.pend = pend, !.rect = rect, !.frozen = @ \ InBatch(g),
                            !.deferred = FALSE]
  <1>1. /\ u.pend \in [SurfaceIds -> PendingResize \cup {NoPend}]
        /\ u.rect \in [SurfaceIds -> Rects]
        /\ u.frozen \in SUBSET SurfaceIds
    BY DEF Transactions
  <1>2. \A s \in SurfaceIds : s \in landing <=> "wm-tx" \in g[s] /\ u.pend[s] # NoPend
    BY DEF InBatch
  <1>3. \A s \in SurfaceIds : u.pend[s] # NoPend => u.pend[s].rect \in Rects
    BY <1>1 DEF PendingResize
  <1> HIDE DEF landing
  <1>4. /\ pend \in [SurfaceIds -> PendingResize \cup {NoPend}]
        /\ rect \in [SurfaceIds -> Rects]
    BY <1>1, <1>2, <1>3
  <1>5. Finished(u, g) = v
    BY DEF Finished, Flushed, Transactions, landing
  <1>6. /\ \A s \in SurfaceIds : pend[s] = IF "wm-tx" \in g[s] THEN NoPend ELSE u.pend[s]
        /\ \A s \in windows : rect[s] =
              IF "wm-tx" \in g[s] /\ u.pend[s] # NoPend THEN u.pend[s].rect ELSE u.rect[s]
    BY <1>2
  <1> HIDE DEF pend, rect
  <1>7. /\ v \in Transactions
        /\ v.holds = u.holds /\ v.timer = u.timer /\ v.gates = u.gates
        /\ v.frozen = u.frozen \ InBatch(g) /\ v.pend = pend /\ v.rect = rect
    BY <1>1, <1>4 DEF Transactions
  <1> QED BY <1>5, <1>6, <1>7

(* A gated batch that finishes: what it owned is placed and thawed. *)
LEMMA ResolvedGood ==
  ASSUME NEW u, Good(u), NEW k \in 1..Len(u.gates), windows \subseteq SurfaceIds,
         NEW W \in SUBSET windows, NEW w, Placed(u, w, W)
  PROVE  /\ Good(Resolved(u, k)) /\ Placed(Resolved(u, k), w, W)
         /\ Resolved(u, k).holds = u.holds /\ Resolved(u, k).timer = u.timer
         /\ Resolved(u, k).gates = RemoveAt(u.gates, k)
         /\ Len(Resolved(u, k).gates) = Len(u.gates) - 1
  <1> DEFINE n == [u EXCEPT !.gates = RemoveAt(@, k)]
             g == u.gates[k]
             v == Resolved(u, k)
             old(i) == IF i < k THEN i ELSE i + 1
  <1>1. u \in Transactions /\ u.gates \in Seq([SurfaceIds -> SUBSET Tags])
    BY DEF Good, Transactions
  <1>2. /\ RemoveAt(u.gates, k) \in Seq([SurfaceIds -> SUBSET Tags])
        /\ Len(RemoveAt(u.gates, k)) = Len(u.gates) - 1
        /\ \A i \in 1..Len(u.gates) - 1 :
              RemoveAt(u.gates, k)[i] = IF i < k THEN u.gates[i] ELSE u.gates[i + 1]
    BY <1>1, RemoveAtFacts
  <1>3. /\ n \in Transactions /\ n.gates = RemoveAt(u.gates, k)
        /\ n.holds = u.holds /\ n.timer = u.timer /\ n.frozen = u.frozen
        /\ n.pend = u.pend /\ n.rect = u.rect
    BY <1>1, <1>2 DEF Transactions
  <1>4. g \in [SurfaceIds -> SUBSET Tags]
    BY <1>1
  <1>5. v = Finished(n, g)
    BY DEF Resolved
  <1> HIDE DEF n, g
  <1>6. /\ v \in Transactions
        /\ v.holds = u.holds /\ v.timer = u.timer
        /\ v.gates = RemoveAt(u.gates, k)
        /\ v.frozen = u.frozen \ InBatch(g)
        /\ \A s \in SurfaceIds : v.pend[s] = IF "wm-tx" \in g[s] THEN NoPend ELSE u.pend[s]
        /\ \A s \in windows : v.rect[s] =
              IF "wm-tx" \in g[s] /\ u.pend[s] # NoPend THEN u.pend[s].rect ELSE u.rect[s]
    BY <1>3, <1>4, <1>5, FinishedFields
  <1>7. Len(u.gates) \in Nat /\ Len(v.gates) = Len(u.gates) - 1
    BY <1>1, <1>2, <1>6
  <1>8. \A s \in SurfaceIds :
          /\ TagsAt(v, s, 0) = TagsAt(u, s, 0)
          /\ TagsAt(u, s, k) = g[s]
          /\ \A i \in 1..Len(v.gates) :
               TagsAt(v, s, i) = TagsAt(u, s, IF i < k THEN i ELSE i + 1)
    BY <1>2, <1>6, <1>7 DEF TagsAt, g
  <1> HIDE DEF v
  <1>9. \A s \in SurfaceIds, i \in 0..Len(v.gates) :
          LET j == IF i = 0 THEN 0 ELSE IF i < k THEN i ELSE i + 1
          IN  j \in 0..Len(u.gates) /\ j # k /\ TagsAt(v, s, i) = TagsAt(u, s, j)
    BY <1>7, <1>8
  <1>10. \A s \in SurfaceIds, j \in 0..Len(u.gates) :
          j # k => \E i \in 0..Len(v.gates) : TagsAt(v, s, i) = TagsAt(u, s, j)
    <2> SUFFICES ASSUME NEW s \in SurfaceIds, NEW j \in 0..Len(u.gates), j # k
                 PROVE  \E i \in 0..Len(v.gates) : TagsAt(v, s, i) = TagsAt(u, s, j)
      OBVIOUS
    <2>1. CASE j = 0
      BY <1>7, <1>8, <2>1
    <2>2. CASE j # 0 /\ j < k
      <3>1. j \in 1..Len(v.gates)
        BY <1>7, <2>2
      <3>2. TagsAt(v, s, j) = TagsAt(u, s, j)
        BY <1>8, <2>2, <3>1
      <3> QED BY <1>7, <3>1, <3>2
    <2>3. CASE j > k
      <3>1. j - 1 \in 1..Len(v.gates) /\ ~(j - 1 < k) /\ (j - 1) + 1 = j
        BY <1>7, <2>3
      <3>2. TagsAt(v, s, j - 1) = TagsAt(u, s, j)
        BY <1>8, <3>1
      <3> QED BY <1>7, <3>1, <3>2
    <2> QED BY <2>1, <2>2, <2>3
  <1>11. Owned(v)
    <2> SUFFICES ASSUME NEW s \in SurfaceIds
                 PROVE  /\ v.pend[s] # NoPend <=>
                             \E i \in 0..Len(v.gates) : "wm-tx" \in TagsAt(v, s, i)
                        /\ \A i, j \in 0..Len(v.gates) :
                             "wm-tx" \in TagsAt(v, s, i) /\ "wm-tx" \in TagsAt(v, s, j) => i = j
      BY DEF Owned
    <2>1. /\ u.pend[s] # NoPend <=> \E i \in 0..Len(u.gates) : "wm-tx" \in TagsAt(u, s, i)
          /\ \A i, j \in 0..Len(u.gates) :
               "wm-tx" \in TagsAt(u, s, i) /\ "wm-tx" \in TagsAt(u, s, j) => i = j
      BY DEF Good, Owned
    <2>2. k \in 0..Len(u.gates)
      OBVIOUS
    <2>3. CASE "wm-tx" \in g[s]
      BY <1>6, <1>8, <1>9, <2>1, <2>2, <2>3
    <2>4. CASE "wm-tx" \notin g[s]
      <3>1. v.pend[s] = u.pend[s] /\ "wm-tx" \notin TagsAt(u, s, k)
        BY <1>6, <1>8, <2>4
      <3>2. v.pend[s] # NoPend <=> \E i \in 0..Len(v.gates) : "wm-tx" \in TagsAt(v, s, i)
        BY <1>9, <1>10, <2>1, <3>1
      <3>3. ASSUME NEW i \in 0..Len(v.gates), NEW j \in 0..Len(v.gates),
                   "wm-tx" \in TagsAt(v, s, i), "wm-tx" \in TagsAt(v, s, j)
            PROVE  i = j
        BY <1>7, <1>9, <2>1, <3>3
      <3> QED BY <3>2, <3>3
    <2> QED BY <2>3, <2>4
  <1>12. Thawing(v)
    <2> SUFFICES ASSUME NEW s \in v.frozen
                 PROVE  \E i \in 0..Len(v.gates) : TagsAt(v, s, i) # {}
      BY DEF Thawing
    <2>1. s \in SurfaceIds /\ s \in u.frozen /\ s \notin InBatch(g)
      BY <1>1, <1>6 DEF Transactions
    <2>2. PICK j \in 0..Len(u.gates) : TagsAt(u, s, j) # {}
      BY <2>1 DEF Good, Thawing
    <2>3. j # k
      BY <1>8, <2>1, <2>2 DEF InBatch
    <2> QED BY <1>10, <2>1, <2>2, <2>3
  <1>13. Placed(v, w, W)
    <2>1. \A s \in W : w[s] = IF u.pend[s] = NoPend THEN u.rect[s] ELSE u.pend[s].rect
      BY DEF Placed
    <2> QED BY <1>6, <2>1 DEF Placed
  <1> QED BY <1>6, <1>7, <1>11, <1>12, <1>13 DEF Good, v

(* doApply. *)
LEMMA AppliedGood ==
  ASSUME NEW u, Good(u), Len(u.gates) < MaxGates, windows \subseteq SurfaceIds,
         NEW W \in SUBSET windows, NEW w, Placed(u, w, W)
  PROVE  /\ Good(Applied(u)) /\ Bounded(Applied(u)) /\ Timed(Applied(u))
         /\ Placed(Applied(u), w, W) /\ Held(Applied(u)) = {}
         /\ Applied(u).timer = NoTimer
  <1> DEFINE g == Batch(u)
             v == [u EXCEPT !.holds = [s \in SurfaceIds |-> NoHold], !.timer = NoTimer]
             n == OffTheBooks(u)
             k == Len(u.gates) + 1
  <1>1. u \in Transactions /\ u.gates \in Seq([SurfaceIds -> SUBSET Tags])
    BY DEF Good, Transactions
  <1>2. /\ Good(n) /\ Held(n) = {} /\ n.timer = NoTimer
        /\ n.pend = u.pend /\ n.rect = u.rect /\ n.gates = Append(u.gates, g)
    BY OffTheBooksGood
  <1>3. g \in [SurfaceIds -> SUBSET Tags]
    BY <1>1 DEF Batch, Transactions
  <1>4. /\ Len(n.gates) = k /\ k \in 1..Len(n.gates) /\ k <= MaxGates /\ n.gates[k] = g
        /\ RemoveAt(n.gates, k) = u.gates
    BY <1>1, <1>2, <1>3, MaxGatesAssumption, AppendRemove
  <1>5. Placed(n, w, W)
    BY <1>2 DEF Placed
  <1>6. \/ Applied(u) = n
        \/ Applied(u) = Resolved(n, k)
    <2>1. Applied(u) = IF Gated(v, g) THEN [v EXCEPT !.gates = Append(@, g)] ELSE Finished(v, g)
      BY DEF Applied
    <2>2. [v EXCEPT !.gates = Append(@, g)] = n
      BY <1>1 DEF OffTheBooks, Transactions
    <2>3. [n EXCEPT !.gates = u.gates] = v
      BY <1>1 DEF OffTheBooks, Transactions
    <2>4. Resolved(n, k) = Finished(v, g)
      BY <1>4, <2>3 DEF Resolved
    <2> QED BY <2>1, <2>2, <2>4
  <1> HIDE DEF n, k
  <1>7. CASE Applied(u) = n
    BY <1>2, <1>4, <1>5, <1>7 DEF Bounded, Timed, InTime
  <1>8. CASE Applied(u) = Resolved(n, k)
    <2>1. /\ Good(Applied(u)) /\ Placed(Applied(u), w, W)
          /\ Applied(u).holds = n.holds /\ Applied(u).timer = NoTimer
          /\ Len(Applied(u).gates) = Len(n.gates) - 1
      BY <1>2, <1>4, <1>5, <1>8, ResolvedGood
    <2>2. Held(Applied(u)) = {}
      BY <1>2, <2>1 DEF Held
    <2> QED BY <1>4, <2>1, <2>2, MaxGatesAssumption DEF Bounded, Timed, InTime
  <1> QED BY <1>6, <1>7, <1>8

(* evaluate does nothing, or applies every hold. *)
LEMMA EvaluatedGood ==
  ASSUME NEW u, Good(u), Bounded(u), Timed(u), windows \subseteq SurfaceIds,
         NEW W \in SUBSET windows, NEW w, Placed(u, w, W)
  PROVE  /\ Good(Evaluated(u)) /\ Bounded(Evaluated(u)) /\ Timed(Evaluated(u))
         /\ Placed(Evaluated(u), w, W)
         /\ Evaluated(u) = u \/ Held(Evaluated(u)) = {}
  <1>1. CASE Evaluated(u) = u
    BY <1>1
  <1>2. CASE Evaluated(u) = Applied(u) /\ Held(u) # {}
    <2>1. Len(u.gates) < MaxGates
      BY <1>2 DEF Bounded
    <2> QED BY <1>2, <2>1, AppliedGood
  <1> QED BY <1>1, <1>2 DEF Evaluated

(* Only Timed looks at the timer. *)
LEMMA RetimedGood ==
  ASSUME NEW u, Good(u), NEW x \in (0..Timeout) \cup {NoTimer}
  PROVE  LET n == [u EXCEPT !.timer = x] IN
         /\ Good(n) /\ n.timer = x
         /\ Held(n) = Held(u) /\ n.holds = u.holds /\ n.gates = u.gates
         /\ n.pend = u.pend /\ n.rect = u.rect
  <1> DEFINE n == [u EXCEPT !.timer = x]
  <1>1. u \in Transactions
    BY DEF Good
  <1>2. /\ n \in Transactions /\ n.timer = x /\ n.holds = u.holds
        /\ n.gates = u.gates /\ n.pend = u.pend /\ n.rect = u.rect /\ n.frozen = u.frozen
    BY <1>1 DEF Transactions
  <1> HIDE DEF n
  <1>3. \A s, k : TagsAt(n, s, k) = TagsAt(u, s, k)
    BY <1>2 DEF TagsAt
  <1>4. Owned(n) /\ Thawing(n)
    BY <1>2, <1>3 DEF Good, Owned, Thawing
  <1>5. Held(n) = Held(u)
    BY <1>2 DEF Held
  <1> QED BY <1>2, <1>4, <1>5 DEF Good, n

(* armTimer arms for the earliest deadline. *)
LEMMA ArmedGood ==
  ASSUME NEW u, Good(u), InTime(u)
  PROVE  /\ Good(Armed(u)) /\ Timed(Armed(u))
         /\ Held(Armed(u)) = Held(u) /\ Armed(u).holds = u.holds
         /\ Armed(u).gates = u.gates
         /\ Armed(u).pend = u.pend /\ Armed(u).rect = u.rect
  <1>1. CASE u.timer # NoTimer \/ Held(u) = {}
    <2>1. Armed(u) = u
      BY <1>1 DEF Armed
    <2> QED BY <1>1, <2>1 DEF Timed
  <1>2. CASE u.timer = NoTimer /\ Held(u) # {}
    <2> DEFINE lefts == {u.holds[s].left : s \in Held(u)}
               x == Max({1, Min(lefts)})
    <2>1. \A s \in Held(u) : u.holds[s].left \in 0..Timeout
      BY DEF Good, Transactions, Held
    <2>2. lefts \in SUBSET Nat /\ lefts # {}
      BY <1>2, <2>1, TimeoutAssumption
    <2> HIDE DEF lefts
    <2>3. Min(lefts) \in lefts /\ \A y \in lefts : Min(lefts) <= y
      BY <2>2, MinExists
    <2>4. Min(lefts) \in 0..Timeout
      BY <2>1, <2>3 DEF lefts
    <2>5. /\ x \in 0..Timeout
          /\ x = Max({1, Min(lefts)})
      BY <2>4, MaxOne, TimeoutAssumption
    <2>6. ASSUME NEW s \in Held(u) PROVE x <= Max({1, u.holds[s].left})
      <3>1. u.holds[s].left \in Nat /\ Min(lefts) <= u.holds[s].left
        BY <2>1, <2>3, TimeoutAssumption DEF lefts
      <3>2. /\ Max({1, u.holds[s].left}) >= 1
            /\ Max({1, u.holds[s].left}) >= u.holds[s].left
            /\ Max({1, u.holds[s].left}) \in Nat
        BY <3>1, MaxOne
      <3>3. Min(lefts) \in Nat
        BY <2>4
      <3>4. x = 1 \/ x = Min(lefts)
        BY <3>3, MaxOne
      <3> QED BY <3>1, <3>2, <3>3, <3>4
    <2>7. Armed(u) = [u EXCEPT !.timer = x]
      BY <1>2 DEF Armed, lefts
    <2> HIDE DEF x
    <2>8. /\ Good(Armed(u)) /\ Armed(u).timer = x
          /\ Held(Armed(u)) = Held(u) /\ Armed(u).holds = u.holds
          /\ Armed(u).gates = u.gates
          /\ Armed(u).pend = u.pend /\ Armed(u).rect = u.rect
      BY <2>5, <2>7, RetimedGood
    <2>9. x # NoTimer
      BY <2>5, NoTimerAssumption
    <2> QED BY <1>2, <2>6, <2>8, <2>9 DEF Timed, InTime
  <1> QED BY <1>1, <1>2

-----------------------------------------------------------------------------
(* begin, before it arms the timer. *)
Joined(u, s, tag) ==
  [u EXCEPT !.holds[s] = [tags |-> @.tags \cup {tag}, left |-> Timeout],
            !.frozen = IF u.holds[s].tags = {} THEN @ \cup {s} ELSE @]

(* The tags, the holds and the deadlines after a requirement joined. *)
LEMMA JoinedFields ==
  ASSUME NEW u \in Transactions, NEW s \in SurfaceIds, NEW tag \in Tags
  PROVE  LET n == Joined(u, s, tag) IN
         /\ n \in Transactions
         /\ n.timer = u.timer /\ n.gates = u.gates /\ n.pend = u.pend /\ n.rect = u.rect
         /\ Held(n) = Held(u) \cup {s} /\ n.holds[s].left = Timeout
         /\ \A c \in SurfaceIds \ {s} : n.holds[c] = u.holds[c]
         /\ \A c \in SurfaceIds, k \in 0..Len(u.gates) :
               TagsAt(n, c, k) = IF c = s /\ k = 0 THEN TagsAt(u, s, 0) \cup {tag}
                                 ELSE TagsAt(u, c, k)
         /\ n.frozen \subseteq u.frozen \cup {s}
  <1> DEFINE h == [tags |-> u.holds[s].tags \cup {tag}, left |-> Timeout]
             f == IF u.holds[s].tags = {} THEN u.frozen \cup {s} ELSE u.frozen
             n == Joined(u, s, tag)
  <1>1. /\ u.holds \in [SurfaceIds -> [tags: SUBSET Tags, left: 0..Timeout]]
        /\ u.frozen \in SUBSET SurfaceIds
    BY DEF Transactions
  <1>2. h \in [tags: SUBSET Tags, left: 0..Timeout] /\ f \in SUBSET SurfaceIds
    BY <1>1, TimeoutAssumption
  <1>3. n = [u EXCEPT !.holds = [u.holds EXCEPT ![s] = h], !.frozen = f]
    BY DEF Joined, Transactions
  <1>4. h.tags = u.holds[s].tags \cup {tag} /\ h.left = Timeout
        /\ f \subseteq u.frozen \cup {s}
    OBVIOUS
  <1> HIDE DEF h, f, n
  <1>5. /\ n \in Transactions
        /\ n.timer = u.timer /\ n.gates = u.gates /\ n.pend = u.pend /\ n.rect = u.rect
        /\ n.holds = [u.holds EXCEPT ![s] = h] /\ n.frozen = f
    BY <1>1, <1>2, <1>3 DEF Transactions
  <1>6. /\ n.holds[s].left = Timeout /\ n.holds[s].tags = u.holds[s].tags \cup {tag}
        /\ \A c \in SurfaceIds \ {s} : n.holds[c] = u.holds[c]
    BY <1>1, <1>4, <1>5
  <1>7. Held(n) = Held(u) \cup {s}
    BY <1>6 DEF Held
  <1>8. \A c \in SurfaceIds, k \in 0..Len(u.gates) :
          TagsAt(n, c, k) = IF c = s /\ k = 0 THEN TagsAt(u, s, 0) \cup {tag}
                            ELSE TagsAt(u, c, k)
    BY <1>5, <1>6 DEF TagsAt
  <1> QED BY <1>4, <1>5, <1>6, <1>7, <1>8 DEF n

(* A requirement that joins keeps the snapshots owned. *)
LEMMA JoinedThawing ==
  ASSUME NEW u \in Transactions, Thawing(u), NEW s \in SurfaceIds, NEW tag \in Tags
  PROVE  Thawing(Joined(u, s, tag))
  <1> DEFINE n == Joined(u, s, tag)
  <1>1. /\ n.gates = u.gates /\ n.frozen \subseteq u.frozen \cup {s}
        /\ \A c \in SurfaceIds, k \in 0..Len(u.gates) :
              TagsAt(n, c, k) = IF c = s /\ k = 0 THEN TagsAt(u, s, 0) \cup {tag}
                                ELSE TagsAt(u, c, k)
    BY JoinedFields
  <1> HIDE DEF n
  <1>2. u.frozen \subseteq SurfaceIds /\ Len(u.gates) \in Nat
    BY DEF Transactions
  <1>3. ASSUME NEW c \in n.frozen
        PROVE  \E k \in 0..Len(n.gates) : TagsAt(n, c, k) # {}
    <2>1. CASE c = s
      <3>1. 0 \in 0..Len(u.gates)
        BY <1>2
      <3>2. tag \in TagsAt(n, s, 0)
        BY <1>1, <3>1
      <3> QED BY <1>1, <2>1, <3>1, <3>2
    <2>2. CASE c # s
      <3>1. PICK k \in 0..Len(u.gates) : TagsAt(u, c, k) # {}
        BY <1>1, <1>3, <2>2 DEF Thawing
      <3> QED BY <1>1, <1>2, <1>3, <2>2, <3>1
    <2> QED BY <2>1, <2>2
  <1> QED BY <1>3 DEF Thawing, n

(* The rest of begin: armTimer, evaluate. *)
LEMMA BegunGood ==
  ASSUME NEW u \in Transactions, NEW s \in SurfaceIds, NEW tag \in Tags,
         Good(Joined(u, s, tag)), InTime(u), Len(u.gates) < MaxGates,
         windows \subseteq SurfaceIds, NEW W \in SUBSET windows, NEW w, Placed(u, w, W)
  PROVE  /\ Good(Begun(u, s, tag)) /\ Bounded(Begun(u, s, tag)) /\ Timed(Begun(u, s, tag))
         /\ Placed(Begun(u, s, tag), w, W)
         /\ \/ Held(Begun(u, s, tag)) = {}
            \/ Held(Begun(u, s, tag)) = Held(u) \cup {s}
  <1> DEFINE n == Joined(u, s, tag)
  <1>1. /\ n.timer = u.timer /\ n.gates = u.gates /\ n.pend = u.pend /\ n.rect = u.rect
        /\ Held(n) = Held(u) \cup {s} /\ n.holds[s].left = Timeout
        /\ \A c \in SurfaceIds \ {s} : n.holds[c] = u.holds[c]
    BY JoinedFields
  <1>2. Begun(u, s, tag) = Evaluated(Armed(n))
    BY DEF Begun, Joined
  <1> HIDE DEF n
  <1>3. InTime(n)
    <2> SUFFICES ASSUME u.timer # NoTimer, NEW c \in Held(n)
                 PROVE  u.timer <= Max({1, n.holds[c].left})
      BY <1>1 DEF InTime
    <2>1. CASE c = s
      <3>1. u.timer \in 0..Timeout
        BY DEF Transactions
      <3>2. Max({1, Timeout}) = Timeout
        BY MaxOne, TimeoutAssumption
      <3>3. n.holds[c].left = Timeout
        BY <1>1, <2>1
      <3> QED BY <3>1, <3>2, <3>3, TimeoutAssumption
    <2>2. CASE c # s
      BY <1>1, <2>2 DEF InTime, Held
    <2> QED BY <2>1, <2>2
  <1>4. /\ Good(Armed(n)) /\ Timed(Armed(n)) /\ Held(Armed(n)) = Held(n)
        /\ Armed(n).gates = u.gates /\ Armed(n).pend = u.pend /\ Armed(n).rect = u.rect
    <2>1. Good(n)
      BY DEF n
    <2> QED BY <1>1, <1>3, <2>1, ArmedGood
  <1>5. Bounded(Armed(n)) /\ Placed(Armed(n), w, W)
    <2>1. Len(u.gates) <= MaxGates
      BY MaxGatesAssumption DEF Transactions
    <2> QED BY <1>4, <2>1 DEF Bounded, Placed
  <1> QED BY <1>1, <1>2, <1>4, <1>5, EvaluatedGood

(* A hold joined by the window's move between outputs. *)
LEMMA MoveJoinedGood ==
  ASSUME NEW u, Good(u), NEW s \in SurfaceIds
  PROVE  Good(Joined(u, s, "cross-output"))
  <1> DEFINE n == Joined(u, s, "cross-output")
  <1>1. u \in Transactions /\ "cross-output" \in Tags
    BY DEF Good, Tags
  <1>2. /\ n \in Transactions /\ n.gates = u.gates /\ n.pend = u.pend
        /\ \A c \in SurfaceIds, k \in 0..Len(u.gates) :
              TagsAt(n, c, k) = IF c = s /\ k = 0 THEN TagsAt(u, s, 0) \cup {"cross-output"}
                                ELSE TagsAt(u, c, k)
    BY <1>1, JoinedFields
  <1>3. Thawing(n)
    BY <1>1, JoinedThawing DEF Good
  <1> HIDE DEF n
  <1>4. \A c \in SurfaceIds, k \in 0..Len(u.gates) :
          "wm-tx" \in TagsAt(n, c, k) <=> "wm-tx" \in TagsAt(u, c, k)
    BY <1>2
  <1>5. Owned(n)
    BY <1>2, <1>4 DEF Good, Owned
  <1> QED BY <1>2, <1>3, <1>5 DEF Good, n

(* A hold begun by the WM, which had none for the window. *)
LEMMA WmJoinedGood ==
  ASSUME NEW u, Good(u), NEW s \in SurfaceIds, u.pend[s] = NoPend,
         NEW p \in PendingResize
  PROVE  LET v == [u EXCEPT !.pend[s] = p] IN
         /\ v \in Transactions /\ Good(Joined(v, s, "wm-tx"))
         /\ v.timer = u.timer /\ v.gates = u.gates /\ v.rect = u.rect
         /\ v.holds = u.holds /\ Held(v) = Held(u)
         /\ v.pend = [u.pend EXCEPT ![s] = p]
  <1> DEFINE v == [u EXCEPT !.pend[s] = p]
             n == Joined(v, s, "wm-tx")
  <1>1. /\ u \in Transactions /\ "wm-tx" \in Tags
        /\ u.pend \in [SurfaceIds -> PendingResize \cup {NoPend}]
    BY DEF Good, Tags, Transactions
  <1>2. v = [u EXCEPT !.pend = [u.pend EXCEPT ![s] = p]]
    BY <1>1 DEF Transactions
  <1> HIDE DEF v
  <1>3. /\ v \in Transactions
        /\ v.timer = u.timer /\ v.gates = u.gates /\ v.rect = u.rect
        /\ v.holds = u.holds /\ v.frozen = u.frozen
        /\ v.pend = [u.pend EXCEPT ![s] = p]
    BY <1>1, <1>2 DEF Transactions
  <1>4. Held(v) = Held(u) /\ \A c, k : TagsAt(v, c, k) = TagsAt(u, c, k)
    BY <1>3 DEF Held, TagsAt
  <1>5. Thawing(v)
    BY <1>3, <1>4 DEF Thawing, Good
  <1>6. /\ n \in Transactions /\ n.gates = u.gates /\ n.pend = v.pend
        /\ \A c \in SurfaceIds, k \in 0..Len(u.gates) :
              TagsAt(n, c, k) = IF c = s /\ k = 0 THEN TagsAt(u, s, 0) \cup {"wm-tx"}
                                ELSE TagsAt(u, c, k)
    BY <1>1, <1>3, <1>4, JoinedFields
  <1>7. Thawing(n)
    BY <1>1, <1>3, <1>5, JoinedThawing
  <1> HIDE DEF n
  <1>8. Owned(n)
    <2> SUFFICES ASSUME NEW c \in SurfaceIds
                 PROVE  /\ n.pend[c] # NoPend <=>
                             \E k \in 0..Len(n.gates) : "wm-tx" \in TagsAt(n, c, k)
                        /\ \A j, k \in 0..Len(n.gates) :
                             "wm-tx" \in TagsAt(n, c, j) /\ "wm-tx" \in TagsAt(n, c, k) => j = k
      BY DEF Owned
    <2>1. /\ u.pend[c] # NoPend <=> \E k \in 0..Len(u.gates) : "wm-tx" \in TagsAt(u, c, k)
          /\ \A j, k \in 0..Len(u.gates) :
               "wm-tx" \in TagsAt(u, c, j) /\ "wm-tx" \in TagsAt(u, c, k) => j = k
      BY DEF Good, Owned
    <2>2. CASE c # s
      <3>1. n.pend[c] = u.pend[c]
        BY <1>1, <1>3, <1>6, <2>2
      <3>2. \A k \in 0..Len(u.gates) : TagsAt(n, c, k) = TagsAt(u, c, k)
        BY <1>6, <2>2
      <3> QED BY <1>6, <2>1, <3>1, <3>2
    <2>3. CASE c = s
      <3>1. n.pend[c] # NoPend
        BY <1>1, <1>3, <1>6, <2>3, NoPendAssumption
      <3>2. \A k \in 0..Len(u.gates) : "wm-tx" \in TagsAt(n, c, k) <=> k = 0
        BY <1>6, <2>1, <2>3
      <3>3. 0 \in 0..Len(u.gates)
        BY <1>1 DEF Transactions
      <3> QED BY <1>6, <3>1, <3>2, <3>3
    <2> QED BY <2>2, <2>3
  <1> QED BY <1>3, <1>4, <1>6, <1>7, <1>8 DEF Good, n, v

(* cancel: the holds of S leave the books with what they own. *)
LEMMA CancelledGood ==
  ASSUME NEW u, Good(u), Bounded(u), Timed(u), NEW S
  PROVE  LET v == Cancelled(u, S) IN
         /\ Good(v) /\ Bounded(v) /\ Timed(v)
         /\ Held(v) = Held(u) \ S
         /\ v.gates = u.gates /\ v.rect = u.rect
         /\ \A c \in SurfaceIds : v.pend[c] = u.pend[c]
                                   \/ (c \in S /\ v.pend[c] = NoPend)
  <1> DEFINE cut == S \cap Held(u)
             holds == [s \in SurfaceIds |-> IF s \in cut THEN NoHold ELSE u.holds[s]]
             pend == [s \in SurfaceIds |-> IF s \in cut /\ "wm-tx" \in u.holds[s].tags
                                              THEN NoPend ELSE u.pend[s]]
             n == [u EXCEPT !.holds = holds, !.pend = pend, !.frozen = @ \ cut]
  <1>1. /\ u \in Transactions
        /\ u.holds \in [SurfaceIds -> [tags: SUBSET Tags, left: 0..Timeout]]
        /\ u.pend \in [SurfaceIds -> PendingResize \cup {NoPend}]
        /\ u.frozen \in SUBSET SurfaceIds
        /\ Len(u.gates) \in Nat
    BY DEF Good, Transactions
  <1>2. NoHold \in [tags: SUBSET Tags, left: 0..Timeout] /\ NoHold.tags = {}
    BY TimeoutAssumption DEF NoHold
  <1>3. /\ holds \in [SurfaceIds -> [tags: SUBSET Tags, left: 0..Timeout]]
        /\ pend \in [SurfaceIds -> PendingResize \cup {NoPend}]
    BY <1>1, <1>2
  <1>4. Cancelled(u, S) = IF cut # {} /\ Held(n) = {} THEN [n EXCEPT !.timer = NoTimer] ELSE n
    BY <1>1 DEF Cancelled, Transactions
  <1>5. cut \subseteq SurfaceIds /\ \A s \in SurfaceIds : s \in cut <=> s \in S /\ u.holds[s].tags # {}
    BY DEF Held
  <1>6. \A s \in SurfaceIds :
          /\ holds[s].tags = IF s \in S THEN {} ELSE u.holds[s].tags
          /\ s \notin S => holds[s] = u.holds[s]
          /\ pend[s] = IF s \in S /\ "wm-tx" \in u.holds[s].tags THEN NoPend ELSE u.pend[s]
    BY <1>2, <1>5
  <1> HIDE DEF cut, holds, pend
  <1>7. /\ n \in Transactions /\ n.holds = holds /\ n.pend = pend /\ n.frozen = u.frozen \ cut
        /\ n.gates = u.gates /\ n.rect = u.rect /\ n.timer = u.timer
    BY <1>1, <1>3 DEF Transactions
  <1> HIDE DEF n
  <1>8. /\ Held(n) = Held(u) \ S
    BY <1>6, <1>7 DEF Held
  <1>9. \A s \in SurfaceIds, k \in 0..Len(u.gates) :
          TagsAt(n, s, k) = IF k = 0 /\ s \in S THEN {} ELSE TagsAt(u, s, k)
    BY <1>6, <1>7 DEF TagsAt
  <1>10. Owned(n)
    <2> SUFFICES ASSUME NEW s \in SurfaceIds
                 PROVE  /\ n.pend[s] # NoPend <=>
                             \E k \in 0..Len(n.gates) : "wm-tx" \in TagsAt(n, s, k)
                        /\ \A j, k \in 0..Len(n.gates) :
                             "wm-tx" \in TagsAt(n, s, j) /\ "wm-tx" \in TagsAt(n, s, k) => j = k
      BY DEF Owned
    <2>1. /\ u.pend[s] # NoPend <=> \E k \in 0..Len(u.gates) : "wm-tx" \in TagsAt(u, s, k)
          /\ \A j, k \in 0..Len(u.gates) :
               "wm-tx" \in TagsAt(u, s, j) /\ "wm-tx" \in TagsAt(u, s, k) => j = k
      BY DEF Good, Owned
    <2>2. 0 \in 0..Len(u.gates) /\ TagsAt(u, s, 0) = u.holds[s].tags
      BY <1>1 DEF TagsAt
    <2>3. CASE s \in S /\ "wm-tx" \in u.holds[s].tags
      <3>1. \A k \in 0..Len(u.gates) : "wm-tx" \notin TagsAt(n, s, k)
        BY <1>9, <2>1, <2>2, <2>3
      <3> QED BY <1>6, <1>7, <2>3, <3>1
    <2>4. CASE ~(s \in S /\ "wm-tx" \in u.holds[s].tags)
      <3>1. \A k \in 0..Len(u.gates) :
              "wm-tx" \in TagsAt(n, s, k) <=> "wm-tx" \in TagsAt(u, s, k)
        BY <1>9, <2>2, <2>4
      <3>2. n.pend[s] = u.pend[s]
        BY <1>6, <1>7, <2>4
      <3> QED BY <1>7, <2>1, <3>1, <3>2
    <2> QED BY <2>3, <2>4
  <1>11. Thawing(n)
    <2> SUFFICES ASSUME NEW s \in n.frozen
                 PROVE  \E k \in 0..Len(n.gates) : TagsAt(n, s, k) # {}
      BY DEF Thawing
    <2>1. s \in SurfaceIds /\ s \in u.frozen /\ s \notin cut
      BY <1>1, <1>7
    <2>2. PICK k \in 0..Len(u.gates) : TagsAt(u, s, k) # {}
      BY <2>1 DEF Good, Thawing
    <2>3. ~(k = 0 /\ s \in S)
      BY <1>5, <2>1, <2>2 DEF TagsAt
    <2> QED BY <1>7, <1>9, <2>1, <2>2, <2>3
  <1>12. Good(n)
    BY <1>7, <1>10, <1>11 DEF Good
  <1>13. Held(n) # {} => \A s \in Held(n) : n.holds[s] = u.holds[s]
    BY <1>6, <1>7, <1>8 DEF Held
  <1>14. /\ \A s \in SurfaceIds : n.pend[s] = u.pend[s] \/ (s \in S /\ n.pend[s] = NoPend)
         /\ Bounded(n)
    BY <1>6, <1>7, <1>8 DEF Bounded
  <1>15. CASE cut # {} /\ Held(n) = {}
    <2> DEFINE v == [n EXCEPT !.timer = NoTimer]
    <2>1. Cancelled(u, S) = v
      BY <1>4, <1>15
    <2>2. NoTimer \in (0..Timeout) \cup {NoTimer}
      OBVIOUS
    <2>3. /\ Good(v) /\ v.timer = NoTimer /\ Held(v) = Held(n)
          /\ v.gates = n.gates /\ v.pend = n.pend /\ v.rect = n.rect
      BY <1>12, <2>2, RetimedGood
    <2> HIDE DEF v
    <2>4. Timed(v) /\ Bounded(v)
      BY <1>14, <1>15, <2>3 DEF Timed, InTime, Bounded
    <2> QED BY <1>7, <1>8, <1>14, <2>1, <2>3, <2>4
  <1>16. CASE ~(cut # {} /\ Held(n) = {})
    <2>1. Cancelled(u, S) = n
      BY <1>4, <1>16
    <2>2. Held(n) = {} => Held(u) = {}
      BY <1>8, <1>16 DEF cut
    <2>3. Timed(n)
      BY <1>7, <1>8, <1>13, <2>2 DEF Timed, InTime
    <2> QED BY <1>7, <1>8, <1>12, <1>14, <2>1, <2>3
  <1> QED BY <1>15, <1>16

(* A step that touches neither the holds nor who owns a geometry. *)
LEMMA SameHolds ==
  ASSUME NEW u, Good(u), Bounded(u), Timed(u), NEW n \in Transactions,
         n.holds = u.holds, n.gates = u.gates, n.timer = u.timer,
         n.frozen \subseteq u.frozen,
         \A c \in SurfaceIds : n.pend[c] = NoPend <=> u.pend[c] = NoPend
  PROVE  Good(n) /\ Bounded(n) /\ Timed(n) /\ Held(n) = Held(u)
  <1>1. \A c, k : TagsAt(n, c, k) = TagsAt(u, c, k)
    BY DEF TagsAt
  <1>2. Held(n) = Held(u)
    BY DEF Held
  <1>3. Owned(n)
    BY <1>1 DEF Good, Owned
  <1>4. Thawing(n)
    BY <1>1 DEF Good, Thawing
  <1>5. Bounded(n) /\ Timed(n)
    BY <1>2 DEF Bounded, Timed, InTime
  <1> QED BY <1>2, <1>3, <1>4, <1>5 DEF Good

(* A turn in which a hold leaves the books while another stays applies     *)
(* nothing.                                                                *)
Swap ==
  \/ Held(t') = {} \/ Held(t) \subseteq Held(t')
  \/ t'.rect = t.rect /\ t'.gates = t.gates

(* The types the invariant gives. *)
LEMMA IInvFacts ==
  ASSUME IInv
  PROVE  /\ t \in Transactions /\ Good(t) /\ Bounded(t) /\ Timed(t)
         /\ Placed(t, want, Kept)
         /\ t.pend \in [SurfaceIds -> PendingResize \cup {NoPend}]
         /\ t.rect \in [SurfaceIds -> Rects]
         /\ t.drawable \in [SurfaceIds -> Sizes]
         /\ windows \subseteq SurfaceIds /\ Kept \subseteq windows
         /\ skipped \subseteq SurfaceIds /\ pass \in Passes \cup {NoPass}
         /\ client \in [SurfaceIds -> [asked: Sizes, committed: Sizes]]
         /\ want \in [SurfaceIds -> Rects]
  BY DEF IInv, Good, Transactions, Kept

(* A configure keeps the client's record well-typed. *)
LEMMA ConfiguredType ==
  ASSUME IInv, NEW s \in SurfaceIds, NEW r \in Rects
  PROVE  Configured(s, r.size) \in [SurfaceIds -> [asked: Sizes, committed: Sizes]]
  <1>1. r.size \in Sizes
    BY DEF Sizes
  <1> QED BY <1>1, IInvFacts DEF Configured

(* A new hold for the window s. *)
LEMMA BeginHoldIInv ==
  ASSUME IInv, NEW s \in SurfaceIds, NEW p \in PendingResize, BeginHold(s, p),
         want' = [want EXCEPT ![s] = p.rect], skipped' = skipped \ {s},
         UNCHANGED windows, pass' = NoPass,
         client' \in [SurfaceIds -> [asked: Sizes, committed: Sizes]]
  PROVE  IInv' /\ Swap
  <1> DEFINE v == [t EXCEPT !.pend[s] = p]
             n == Begun(v, s, "wm-tx")
  <1>1. /\ t.pend[s] = NoPend /\ Len(t.gates) < MaxGates /\ t' = n
        /\ Good(t) /\ "wm-tx" \in Tags /\ p.rect \in Rects /\ InTime(t)
        /\ windows \subseteq SurfaceIds
    BY IInvFacts DEF BeginHold, Tags, PendingResize, Timed
  <1>2. /\ v \in Transactions /\ Good(Joined(v, s, "wm-tx"))
        /\ v.timer = t.timer /\ v.gates = t.gates /\ v.rect = t.rect
        /\ v.holds = t.holds /\ Held(v) = Held(t)
        /\ v.pend = [t.pend EXCEPT ![s] = p]
    BY <1>1, WmJoinedGood, SMTT(30)
  <1> HIDE DEF v
  <1>3. InTime(v)
    BY <1>1, <1>2 DEF InTime
  <1>4. want' \in [SurfaceIds -> Rects]
    BY <1>1, IInvFacts
  <1> DEFINE W == windows \ (skipped \ {s})
  <1>5. Placed(v, want', W)
    <2> SUFFICES ASSUME NEW c \in W
                 PROVE  want'[c] = IF v.pend[c] = NoPend THEN v.rect[c] ELSE v.pend[c].rect
      BY DEF Placed
    <2>1. CASE c = s
      BY <1>1, <1>2, <2>1, IInvFacts, NoPendAssumption
    <2>2. CASE c # s
      <3>1. c \in Kept
        BY <2>2 DEF Kept
      <3> QED BY <1>1, <1>2, <2>2, <3>1, IInvFacts DEF Placed
    <2> QED BY <2>1, <2>2
  <1>6. /\ Good(n) /\ Bounded(n) /\ Timed(n) /\ Placed(n, want', W)
        /\ Held(n) = {} \/ Held(n) = Held(v) \cup {s}
    <2>1. W \in SUBSET windows
      OBVIOUS
    <2> HIDE DEF W
    <2> QED BY <1>1, <1>2, <1>3, <1>5, <2>1, BegunGood
  <1> HIDE DEF n
  <1>7. IInv'
    <2>1. skipped' \subseteq SurfaceIds
      BY IInvFacts
    <2> QED BY <1>1, <1>4, <1>6, <2>1 DEF IInv, Kept
  <1> QED BY <1>1, <1>2, <1>6, <1>7 DEF Swap

(* A hold that is there is retargeted, or the window placed at once, or    *)
(* left where it is.                                                       *)
LEMMA RetargetIInv ==
  ASSUME IInv, NEW s \in SurfaceIds, NEW r \in Rects,
         NEW q \in PendingResize \cup {NoPend}, NEW x \in Rects,
         t' = [t EXCEPT !.rect[s] = x, !.pend[s] = q],
         q = NoPend <=> t.pend[s] = NoPend,
         \/ skipped' = skipped \ {s} /\ r = IF q = NoPend THEN x ELSE q.rect
         \/ skipped' = skipped \cup {s},
         want' = [want EXCEPT ![s] = r], UNCHANGED windows, pass' = NoPass,
         client' \in [SurfaceIds -> [asked: Sizes, committed: Sizes]]
  PROVE  IInv' /\ Swap
  <1>1. t' = [t EXCEPT !.rect = [t.rect EXCEPT ![s] = x], !.pend = [t.pend EXCEPT ![s] = q]]
    BY IInvFacts DEF Transactions
  <1>2. /\ [t.rect EXCEPT ![s] = x] \in [SurfaceIds -> Rects]
        /\ [t.pend EXCEPT ![s] = q] \in [SurfaceIds -> PendingResize \cup {NoPend}]
    BY IInvFacts
  <1>3. /\ t' \in Transactions
        /\ t'.holds = t.holds /\ t'.gates = t.gates /\ t'.timer = t.timer
        /\ t'.frozen \subseteq t.frozen
        /\ t'.rect = [t.rect EXCEPT ![s] = x] /\ t'.pend = [t.pend EXCEPT ![s] = q]
    BY <1>1, <1>2, IInvFacts DEF Transactions
  <1>4. \A c \in SurfaceIds : t'.pend[c] = NoPend <=> t.pend[c] = NoPend
    BY <1>3, IInvFacts
  <1>5. Good(t') /\ Bounded(t') /\ Timed(t') /\ Held(t') = Held(t)
    BY <1>3, <1>4, IInvFacts, SameHolds
  <1>6. Placed(t', want', windows \ skipped')
    <2> SUFFICES ASSUME NEW c \in windows \ skipped'
                 PROVE  want'[c] = IF t'.pend[c] = NoPend THEN t'.rect[c] ELSE t'.pend[c].rect
      BY DEF Placed
    <2>1. CASE c = s
      BY <1>3, <2>1, IInvFacts
    <2>2. CASE c # s
      <3>1. c \in Kept
        BY <2>2 DEF Kept
      <3> QED BY <1>3, <2>2, <3>1, IInvFacts DEF Placed
    <2> QED BY <2>1, <2>2
  <1>7. want' \in [SurfaceIds -> Rects] /\ skipped' \subseteq SurfaceIds
    BY IInvFacts
  <1>8. IInv'
    BY <1>5, <1>6, <1>7, IInvFacts DEF IInv, Kept
  <1> QED BY <1>5, <1>8 DEF Swap

(* A layout pass awaits the plugins. *)
LEMMA RelayoutIInv ==
  ASSUME IInv, NEW s \in SurfaceIds, Relayout(s)
  PROVE  IInv' /\ Swap
  <1>1. /\ pass' = [win |-> s, prev |-> t.rect[s]]
        /\ UNCHANGED <<t, windows, client, want, skipped>>
    BY DEF Relayout
  <1>2. pass' \in Passes
    BY <1>1, IInvFacts DEF Passes
  <1> QED BY <1>1, <1>2 DEF IInv, Kept, Swap

(* One window of a layout pass. *)
LEMMA RetileIInv ==
  ASSUME IInv, NEW r \in Rects, Retile(r)
  PROVE  IInv' /\ Swap
  <1> DEFINE s == pass.win
             prev == pass.prev
             resize == [rect |-> r, cfg |-> r.size, moveOnly |-> FALSE, acked |-> FALSE,
                        requireAck |-> s \notin XwaylandIds]
             move == [rect |-> r, cfg |-> r.size, moveOnly |-> TRUE, acked |-> TRUE,
                      requireAck |-> FALSE]
             asked == Configured(s, r.size)
             skips == t.pend[s] = NoPend /\ r = prev /\ r # t.rect[s]
  <1>1. r.size \in Sizes /\ s \in SurfaceIds /\ pass' = NoPass /\ windows' = windows
    BY IInvFacts DEF Sizes, Retile, Passes
  <1> HIDE DEF s, prev
  <1>2. resize \in PendingResize /\ move \in PendingResize
        /\ resize.rect = r /\ move.rect = r
    BY <1>1 DEF PendingResize
  <1>3. asked \in [SurfaceIds -> [asked: Sizes, committed: Sizes]]
    BY <1>1, ConfiguredType
  <1>4. /\ client \in [SurfaceIds -> [asked: Sizes, committed: Sizes]]
        /\ t \in Transactions
        /\ t.pend \in [SurfaceIds -> PendingResize \cup {NoPend}]
        /\ t.rect \in [SurfaceIds -> Rects]
    BY IInvFacts
  <1>5. CASE UNCHANGED <<t, client, want, skipped>>
    BY <1>1, <1>5 DEF IInv, Kept, Swap
  <1>6. \A q : [t EXCEPT !.pend[s] = q] = [t EXCEPT !.rect[s] = t.rect[s], !.pend[s] = q]
    <2> TAKE q
    <2>1. [t.rect EXCEPT ![s] = t.rect[s]] = t.rect
      BY <1>1, <1>4
    <2> QED BY <1>4, <2>1 DEF Transactions
  <1>7. ASSUME want' = [want EXCEPT ![s] = r],
               skipped' = IF skips THEN skipped \cup {s} ELSE skipped \ {s},
               HoldResize(s, r, prev)
        PROVE  IInv' /\ Swap
    <2>1. client' \in [SurfaceIds -> [asked: Sizes, committed: Sizes]]
      BY <1>3, <1>4, <1>7 DEF HoldResize
    <2>2. \/ BeginHold(s, resize) /\ ~skips
          \/ BeginHold(s, move) /\ ~skips
          \/ t.pend[s] # NoPend /\ t' = [t EXCEPT !.pend[s] = resize]
          \/ t.pend[s] # NoPend /\ t' = [t EXCEPT !.pend[s].rect = r]
          \/ t.pend[s] = NoPend /\ r = prev /\ t' = t
      BY <1>7 DEF HoldResize, BeginHold, LastConfigured
    <2> HIDE DEF resize, move
    <2>3. CASE (BeginHold(s, resize) \/ BeginHold(s, move)) /\ ~skips
      BY <1>1, <1>2, <1>7, <2>1, <2>3, BeginHoldIInv
    <2>4. CASE t.pend[s] # NoPend /\ t' = [t EXCEPT !.pend[s] = resize]
      <3>1. t' = [t EXCEPT !.rect[s] = t.rect[s], !.pend[s] = resize]
        BY <1>6, <2>4
      <3>2. resize # NoPend /\ t.rect[s] \in Rects /\ skipped' = skipped \ {s}
        BY <1>1, <1>2, <1>4, <1>7, <2>4, NoPendAssumption
      <3> QED BY <1>1, <1>2, <1>7, <2>1, <2>4, <3>1, <3>2, RetargetIInv
    <2>5. CASE t.pend[s] # NoPend /\ t' = [t EXCEPT !.pend[s].rect = r]
      <3> DEFINE q == [t.pend[s] EXCEPT !.rect = r]
      <3>1. t' = [t EXCEPT !.pend[s] = q]
        BY <1>1, <1>4, <2>5 DEF Transactions
      <3>2. q \in PendingResize /\ q.rect = r
        BY <1>1, <1>4, <2>5 DEF PendingResize
      <3> HIDE DEF q
      <3>3. t' = [t EXCEPT !.rect[s] = t.rect[s], !.pend[s] = q]
        BY <1>6, <3>1
      <3>4. q # NoPend /\ t.rect[s] \in Rects /\ skipped' = skipped \ {s}
        BY <1>1, <1>4, <1>7, <2>5, <3>2, NoPendAssumption
      <3> QED BY <1>1, <1>7, <2>1, <2>5, <3>2, <3>3, <3>4, RetargetIInv
    <2>6. CASE t.pend[s] = NoPend /\ r = prev /\ t' = t
      <3>1. t' = [t EXCEPT !.rect[s] = t.rect[s], !.pend[s] = NoPend]
        <4>1. [t.pend EXCEPT ![s] = NoPend] = t.pend /\ [t.rect EXCEPT ![s] = t.rect[s]] = t.rect
          BY <1>1, <1>4, <2>6
        <4> QED BY <1>4, <2>6, <4>1 DEF Transactions
      <3>2. /\ t.rect[s] \in Rects
            /\ \/ skipped' = skipped \cup {s}
               \/ skipped' = skipped \ {s} /\ r = t.rect[s]
        BY <1>1, <1>4, <1>7, <2>6
      <3> QED BY <1>1, <1>7, <2>1, <2>6, <3>1, <3>2, RetargetIInv
    <2> QED BY <2>2, <2>3, <2>4, <2>5, <2>6
  <1>8. ASSUME want' = [want EXCEPT ![s] = r],
               skipped' = IF skips THEN skipped \cup {s} ELSE skipped \ {s},
               PlaceNow(s, r, prev)
        PROVE  IInv' /\ Swap
    <2> DEFINE x == IF r = prev THEN t.rect[s] ELSE r
               q == IF t.pend[s] = NoPend THEN NoPend
                    ELSE [t.pend[s] EXCEPT !.rect = r, !.moveOnly = FALSE]
    <2>1. client' \in [SurfaceIds -> [asked: Sizes, committed: Sizes]]
      BY <1>3, <1>4, <1>8 DEF PlaceNow
    <2>2. t' = [t EXCEPT !.rect[s] = x, !.pend[s] = q] /\ x \in Rects
      BY <1>1, <1>4, <1>8 DEF PlaceNow, Transactions
    <2>3. /\ q \in PendingResize \cup {NoPend}
          /\ q = NoPend <=> t.pend[s] = NoPend
          /\ ~skips => r = IF q = NoPend THEN x ELSE q.rect
      <3>1. CASE t.pend[s] = NoPend
        BY <3>1
      <3>2. CASE t.pend[s] # NoPend
        <4>1. q \in PendingResize /\ q.rect = r
          <5>1. t.pend[s] \in PendingResize
            BY <1>1, <1>4, <3>2
          <5>2. q = [t.pend[s] EXCEPT !.rect = r, !.moveOnly = FALSE]
            BY <3>2
          <5> HIDE DEF q
          <5> QED BY <5>1, <5>2 DEF PendingResize
        <4> QED BY <3>2, <4>1, NoPendAssumption
      <3> QED BY <3>1, <3>2
    <2> HIDE DEF q, x, skips
    <2> QED BY <1>1, <1>8, <2>1, <2>2, <2>3, RetargetIInv
  <1> QED BY <1>5, <1>7, <1>8 DEF Retile, s, prev

(* The end of a layout pass. *)
LEMMA EndPassIInv ==
  ASSUME IInv, NEW members \in SUBSET SurfaceIds, EndPass(members)
  PROVE  IInv' /\ Swap
  <1> DEFINE dropped == {s \in SurfaceIds \ members : t.pend[s] # NoPend}
             u == Cancelled(t, dropped)
             w == [s \in SurfaceIds |-> IF s \in dropped /\ u.pend[s] = NoPend THEN t.rect[s]
                                       ELSE want[s]]
  <1>1. t' = Evaluated(u) /\ want' = w /\ UNCHANGED <<windows, client, pass, skipped>>
    BY DEF EndPass
  <1>2. /\ Good(t) /\ Bounded(t) /\ Timed(t) /\ Placed(t, want, Kept)
        /\ t.rect \in [SurfaceIds -> Rects] /\ want \in [SurfaceIds -> Rects]
        /\ windows \subseteq SurfaceIds /\ Kept \in SUBSET windows
        /\ client \in [SurfaceIds -> [asked: Sizes, committed: Sizes]]
    BY IInvFacts
  <1>3. \A c \in dropped : t.pend[c] # NoPend
    OBVIOUS
  <1> HIDE DEF dropped
  <1>4. /\ Good(u) /\ Bounded(u) /\ Timed(u)
        /\ u.gates = t.gates /\ u.rect = t.rect
        /\ \A c \in SurfaceIds : u.pend[c] = t.pend[c] \/ (c \in dropped /\ u.pend[c] = NoPend)
    BY <1>2, CancelledGood
  <1> HIDE DEF u
  <1>5. w \in [SurfaceIds -> Rects]
    BY <1>2
  <1>6. Placed(u, w, Kept)
    BY <1>2, <1>3, <1>4 DEF Placed
  <1> HIDE DEF w
  <1>7. /\ Good(t') /\ Bounded(t') /\ Timed(t') /\ Placed(t', w, Kept)
        /\ t' = u \/ Held(t') = {}
    BY <1>1, <1>2, <1>4, <1>6, EvaluatedGood
  <1>8. IInv'
    BY <1>1, <1>2, <1>5, <1>7, IInvFacts DEF IInv, Kept
  <1> QED BY <1>4, <1>7, <1>8 DEF Swap

(* A record that differs in deferred, drawable or frozen only. *)
LEMMA LooksIInv ==
  ASSUME IInv, NEW n \in Transactions,
         n.holds = t.holds, n.gates = t.gates, n.timer = t.timer,
         n.frozen \subseteq t.frozen, n.rect = t.rect,
         \A c \in SurfaceIds : /\ n.pend[c] = NoPend <=> t.pend[c] = NoPend
                               /\ n.pend[c].rect = t.pend[c].rect,
         t' = n \/ t' = Evaluated(n),
         UNCHANGED <<windows, pass, want, skipped>>,
         client' \in [SurfaceIds -> [asked: Sizes, committed: Sizes]]
  PROVE  IInv' /\ Swap
  <1>1. /\ Good(t) /\ Bounded(t) /\ Timed(t) /\ Placed(t, want, Kept)
        /\ want \in [SurfaceIds -> Rects] /\ windows \subseteq SurfaceIds
        /\ Kept \in SUBSET windows
    BY IInvFacts
  <1>2. Good(n) /\ Bounded(n) /\ Timed(n) /\ Held(n) = Held(t)
    BY <1>1, SameHolds
  <1>3. Placed(n, want, Kept)
    BY <1>1 DEF Placed
  <1>4. /\ Good(t') /\ Bounded(t') /\ Timed(t') /\ Placed(t', want, Kept)
        /\ t' = n \/ Held(t') = {}
    <2> DEFINE v == Evaluated(n)
    <2>1. /\ Good(v) /\ Bounded(v) /\ Timed(v) /\ Placed(v, want, Kept)
          /\ v = n \/ Held(v) = {}
      BY <1>1, <1>2, <1>3, EvaluatedGood
    <2> QED BY <1>2, <1>3, <2>1
  <1>5. IInv'
    BY <1>1, <1>4, IInvFacts DEF IInv, Kept
  <1> QED BY <1>2, <1>4, <1>5 DEF Swap

(* A rebuild of the stack. *)
LEMMA RebuildStackIInv ==
  ASSUME IInv, RebuildStack
  PROVE  IInv' /\ Swap
  <1> DEFINE d == Held(t) # {}
             n == [t EXCEPT !.deferred = d]
  <1>1. t' = n /\ UNCHANGED <<windows, pass, want, skipped>> /\ client' = client
    BY DEF RebuildStack, Rebuilt
  <1>2. d \in BOOLEAN
    OBVIOUS
  <1> HIDE DEF d
  <1>3. /\ n \in Transactions /\ n.holds = t.holds /\ n.gates = t.gates
        /\ n.timer = t.timer /\ n.frozen \subseteq t.frozen /\ n.rect = t.rect
        /\ n.pend = t.pend
    BY <1>2, IInvFacts DEF Transactions
  <1> HIDE DEF n
  <1> QED BY <1>1, <1>3, IInvFacts, LooksIInv

(* A window that moves between outputs. *)
LEMMA WindowMovedIInv ==
  ASSUME IInv, NEW s \in SurfaceIds, WindowMoved(s)
  PROVE  IInv' /\ Swap
  <1>1. /\ t \in Transactions /\ Good(t) /\ InTime(t) /\ Placed(t, want, Kept)
        /\ windows \subseteq SurfaceIds /\ "cross-output" \in Tags
        /\ Kept \in SUBSET windows
        /\ want \in [SurfaceIds -> Rects]
        /\ client \in [SurfaceIds -> [asked: Sizes, committed: Sizes]]
    BY IInvFacts DEF Timed, Tags
  <1>2. /\ Len(t.gates) < MaxGates /\ t' = Begun(t, s, "cross-output")
        /\ UNCHANGED <<windows, client, pass, want, skipped>>
    BY DEF WindowMoved
  <1>3. Good(Joined(t, s, "cross-output"))
    BY <1>1, MoveJoinedGood
  <1>4. /\ Good(t') /\ Bounded(t') /\ Timed(t') /\ Placed(t', want, Kept)
        /\ Held(t') = {} \/ Held(t') = Held(t) \cup {s}
    BY <1>1, <1>2, <1>3, BegunGood
  <1>5. IInv'
    BY <1>1, <1>2, <1>4, IInvFacts DEF IInv, Kept
  <1> QED BY <1>4, <1>5 DEF Swap

(* A window that is unmapped. *)
LEMMA UnmapWindowIInv ==
  ASSUME IInv, NEW s \in SurfaceIds, UnmapWindow(s)
  PROVE  IInv' /\ Swap
  <1> DEFINE u == Cancelled(t, {s})
             v == [u EXCEPT !.frozen = @ \ {s}]
             d == Held(v) # {}
             n == [v EXCEPT !.deferred = d]
  <1>1. /\ t' = n /\ windows' = windows \ {s}
        /\ UNCHANGED <<client, pass, want, skipped>>
    BY DEF UnmapWindow, Rebuilt
  <1>2. /\ Good(t) /\ Bounded(t) /\ Timed(t) /\ Placed(t, want, Kept)
        /\ want \in [SurfaceIds -> Rects] /\ windows \subseteq SurfaceIds
        /\ client \in [SurfaceIds -> [asked: Sizes, committed: Sizes]]
    BY IInvFacts
  <1>3. /\ Good(u) /\ Bounded(u) /\ Timed(u)
        /\ u.gates = t.gates /\ u.rect = t.rect
        /\ \A c \in SurfaceIds : u.pend[c] = t.pend[c] \/ (c \in {s} /\ u.pend[c] = NoPend)
    BY <1>2, CancelledGood
  <1>4. u \in Transactions
    BY <1>3 DEF Good
  <1>5. d \in BOOLEAN
    OBVIOUS
  <1> HIDE DEF u, d
  <1>6. /\ n \in Transactions /\ n.holds = u.holds /\ n.gates = u.gates
        /\ n.timer = u.timer /\ n.frozen \subseteq u.frozen /\ n.rect = u.rect
        /\ n.pend = u.pend
    BY <1>4, <1>5 DEF Transactions
  <1> HIDE DEF n
  <1>7. Good(n) /\ Bounded(n) /\ Timed(n)
    BY <1>3, <1>6, SameHolds
  <1>8. Placed(n, want, Kept \ {s})
    <2>1. \A c \in Kept \ {s} : n.pend[c] = t.pend[c] /\ n.rect[c] = t.rect[c]
      BY <1>2, <1>3, <1>6, IInvFacts
    <2> QED BY <1>2, <2>1 DEF Placed
  <1>9. IInv'
    <2>1. Kept' = Kept \ {s}
      BY <1>1 DEF Kept
    <2> QED BY <1>1, <1>2, <1>7, <1>8, <2>1, IInvFacts DEF IInv
  <1> QED BY <1>1, <1>3, <1>6, <1>9 DEF Swap

(* A client's commit. *)
LEMMA ClientCommitsIInv ==
  ASSUME IInv, NEW s \in SurfaceIds, NEW size \in Sizes, ClientCommits(s, size)
  PROVE  IInv' /\ Swap
  <1>1. /\ t \in Transactions
        /\ t.pend \in [SurfaceIds -> PendingResize \cup {NoPend}]
        /\ client \in [SurfaceIds -> [asked: Sizes, committed: Sizes]]
    BY IInvFacts
  <1>2. /\ client' = [client EXCEPT ![s].committed = size]
        /\ UNCHANGED <<windows, pass, want, skipped>>
    BY DEF ClientCommits
  <1>3. client' \in [SurfaceIds -> [asked: Sizes, committed: Sizes]]
    BY <1>1, <1>2
  <1>4. CASE t.pend[s] # NoPend /\ t' = Evaluated([t EXCEPT !.pend[s].acked = TRUE])
    <2> DEFINE q == [t.pend[s] EXCEPT !.acked = TRUE]
               n == [t EXCEPT !.pend = [t.pend EXCEPT ![s] = q]]
    <2>1. q \in PendingResize /\ q.rect = t.pend[s].rect
      <3>1. t.pend[s] \in PendingResize
        BY <1>1, <1>4
      <3> QED BY <3>1 DEF PendingResize
    <2>2. t' = Evaluated(n)
      <3>1. [t EXCEPT !.pend[s].acked = TRUE] = n
        BY <1>1 DEF Transactions
      <3> QED BY <1>4, <3>1
    <2> HIDE DEF q
    <2>3. [t.pend EXCEPT ![s] = q] \in [SurfaceIds -> PendingResize \cup {NoPend}]
      BY <1>1, <2>1
    <2>4. /\ n \in Transactions /\ n.holds = t.holds /\ n.gates = t.gates
          /\ n.timer = t.timer /\ n.frozen \subseteq t.frozen /\ n.rect = t.rect
          /\ n.pend = [t.pend EXCEPT ![s] = q]
      BY <1>1, <2>3 DEF Transactions
    <2> HIDE DEF n
    <2>5. \A c \in SurfaceIds : /\ n.pend[c] = NoPend <=> t.pend[c] = NoPend
                               /\ n.pend[c].rect = t.pend[c].rect
      BY <1>1, <1>4, <2>1, <2>4, NoPendAssumption
    <2> QED BY <1>2, <1>3, <2>2, <2>4, <2>5, LooksIInv
  <1>5. CASE t' = t
    BY <1>1, <1>2, <1>3, <1>5, LooksIInv
  <1> QED BY <1>4, <1>5 DEF ClientCommits

(* A committed buffer becomes drawable. *)
LEMMA BufferDrawableIInv ==
  ASSUME IInv, NEW s \in SurfaceIds, BufferDrawable(s)
  PROVE  IInv' /\ Swap
  <1> DEFINE d == [t.drawable EXCEPT ![s] = client[s].committed]
             n == [t EXCEPT !.drawable = d]
  <1>1. d \in [SurfaceIds -> Sizes] /\ t \in Transactions
    BY IInvFacts
  <1>2. [t EXCEPT !.drawable[s] = client[s].committed] = n
    BY <1>1 DEF Transactions
  <1>3. (t' = n \/ t' = Evaluated(n)) /\ UNCHANGED <<windows, pass, want, skipped>> /\ client' = client
    BY <1>2 DEF BufferDrawable
  <1> HIDE DEF d
  <1>4. /\ n \in Transactions /\ n.holds = t.holds /\ n.gates = t.gates
        /\ n.timer = t.timer /\ n.frozen \subseteq t.frozen /\ n.rect = t.rect
        /\ n.pend = t.pend
    BY <1>1 DEF Transactions
  <1> HIDE DEF n
  <1> QED BY <1>3, <1>4, IInvFacts, LooksIInv

(* Time passes: the deadlines and the timer come closer together. *)
LEMMA ClockTicksIInv ==
  ASSUME IInv, ClockTicks
  PROVE  IInv' /\ Swap
  <1> DEFINE x == t.timer - 1
             h(s) == [t.holds[s] EXCEPT !.left = IF @ > 0 THEN @ - 1 ELSE 0]
             holds == [s \in SurfaceIds |-> h(s)]
  <1>1. /\ t \in Transactions /\ Good(t) /\ Bounded(t) /\ Timed(t)
        /\ t.holds \in [SurfaceIds -> [tags: SUBSET Tags, left: 0..Timeout]]
        /\ t.timer \in 0..Timeout /\ t.timer > 0
        /\ UNCHANGED <<windows, client, pass, want, skipped>>
    BY IInvFacts DEF ClockTicks, Transactions
  <1>2. t' = [t EXCEPT !.timer = x, !.holds = holds]
    BY <1>1 DEF ClockTicks, Transactions
  <1>3. ASSUME NEW s \in SurfaceIds
        PROVE  /\ h(s) \in [tags: SUBSET Tags, left: 0..Timeout]
               /\ h(s).tags = t.holds[s].tags
               /\ h(s).left = IF t.holds[s].left > 0 THEN t.holds[s].left - 1 ELSE 0
    <2>1. t.holds[s] \in [tags: SUBSET Tags, left: 0..Timeout]
      BY <1>1
    <2>2. (IF t.holds[s].left > 0 THEN t.holds[s].left - 1 ELSE 0) \in 0..Timeout
      BY <2>1, TimeoutAssumption
    <2> QED BY <2>1, <2>2
  <1> HIDE DEF h
  <1>4. /\ holds \in [SurfaceIds -> [tags: SUBSET Tags, left: 0..Timeout]]
        /\ \A s \in SurfaceIds : holds[s] = h(s)
    BY <1>3
  <1> HIDE DEF holds
  <1>5. x \in 0..Timeout
    BY <1>1, TimeoutAssumption
  <1>6. /\ t' \in Transactions /\ t'.timer = x /\ t'.holds = holds
        /\ t'.gates = t.gates /\ t'.pend = t.pend /\ t'.rect = t.rect /\ t'.frozen = t.frozen
    BY <1>1, <1>2, <1>4, <1>5 DEF Transactions
  <1>7. Held(t') = Held(t)
    BY <1>3, <1>4, <1>6 DEF Held
  <1>8. \A s \in SurfaceIds, k \in 0..Len(t.gates) : TagsAt(t', s, k) = TagsAt(t, s, k)
    BY <1>3, <1>4, <1>6 DEF TagsAt
  <1>9. Owned(t')
    BY <1>1, <1>6, <1>8 DEF Good, Owned
  <1>10. Thawing(t')
    <2>1. t.frozen \subseteq SurfaceIds
      BY <1>1 DEF Transactions
    <2> QED BY <1>1, <1>6, <1>8, <2>1 DEF Good, Thawing
  <1>11. Good(t') /\ Bounded(t')
    BY <1>1, <1>6, <1>7, <1>9, <1>10 DEF Good, Bounded
  <1>12. Timed(t')
    <2>1. t.timer # NoTimer /\ x # NoTimer
      BY <1>1, <1>5, NoTimerAssumption
    <2>2. ASSUME NEW s \in Held(t') PROVE x <= Max({1, t'.holds[s].left})
      <3> DEFINE a == t.holds[s].left
                 b == t'.holds[s].left
      <3>1. s \in SurfaceIds /\ s \in Held(t)
        BY <1>7, <2>2 DEF Held
      <3>2. a \in Nat /\ b = IF a > 0 THEN a - 1 ELSE 0
        BY <1>1, <1>3, <1>4, <1>6, <3>1
      <3>3. t.timer <= Max({1, a})
        BY <1>1, <2>1, <3>1 DEF Timed, InTime
      <3> HIDE DEF a, b
      <3>4. b \in Nat
        BY <3>2
      <3>5. /\ Max({1, a}) = IF a >= 1 THEN a ELSE 1
            /\ Max({1, b}) = IF b >= 1 THEN b ELSE 1
        <4>1. ~(a >= 1) => a < 1
          BY <3>2
        <4>2. ~(b >= 1) => b < 1
          BY <3>4
        <4> QED BY <3>2, <3>4, <4>1, <4>2, MaxOne
      <3>6. x <= Max({1, b})
        BY <1>1, <3>2, <3>3, <3>4, <3>5
      <3> QED BY <3>6 DEF b
    <2>3. Held(t) # {}
      BY <1>1, <2>1 DEF Timed, InTime
    <2> QED BY <1>6, <1>7, <2>1, <2>2, <2>3 DEF Timed, InTime
  <1>13. Placed(t', want, Kept)
    BY <1>6, IInvFacts DEF Placed
  <1>14. IInv'
    BY <1>1, <1>11, <1>12, <1>13, IInvFacts DEF IInv, Kept
  <1> QED BY <1>7, <1>14 DEF Swap

(* The timer fires: every hold applies, or the timer is armed again. *)
LEMMA TimerFiresIInv ==
  ASSUME IInv, TimerFires
  PROVE  IInv' /\ Swap
  <1> DEFINE u == [t EXCEPT !.timer = NoTimer]
  <1>1. /\ Good(t) /\ Bounded(t) /\ Timed(t) /\ Placed(t, want, Kept)
        /\ windows \subseteq SurfaceIds /\ want \in [SurfaceIds -> Rects]
        /\ Kept \in SUBSET windows
        /\ client \in [SurfaceIds -> [asked: Sizes, committed: Sizes]]
        /\ UNCHANGED <<windows, client, pass, want, skipped>>
    BY IInvFacts DEF TimerFires
  <1>2. t' = Armed(u) \/ t' = Armed(Applied(u))
    BY DEF TimerFires
  <1>3. NoTimer \in (0..Timeout) \cup {NoTimer}
    OBVIOUS
  <1>4. /\ Good(u) /\ u.timer = NoTimer /\ Held(u) = Held(t)
        /\ u.gates = t.gates /\ u.pend = t.pend /\ u.rect = t.rect
    BY <1>1, <1>3, RetimedGood
  <1> HIDE DEF u
  <1>5. InTime(u) /\ Bounded(u) /\ Placed(u, want, Kept)
    BY <1>1, <1>4 DEF InTime, Bounded, Placed
  <1>6. Len(u.gates) < MaxGates
    <2>1. t.timer # NoTimer
      BY NoTimerAssumption DEF TimerFires
    <2> QED BY <1>1, <1>4, <2>1 DEF Timed, InTime, Bounded
  <1>7. CASE t' = Armed(u)
    <2>1. /\ Good(t') /\ Timed(t') /\ Held(t') = Held(u)
          /\ t'.gates = u.gates /\ t'.pend = u.pend /\ t'.rect = u.rect
      BY <1>4, <1>5, <1>7, ArmedGood
    <2>2. Bounded(t') /\ Placed(t', want, Kept)
      BY <1>5, <2>1 DEF Bounded, Placed
    <2>3. IInv'
      BY <1>1, <2>1, <2>2, IInvFacts DEF IInv, Kept
    <2> QED BY <1>4, <2>1, <2>3 DEF Swap
  <1>8. CASE t' = Armed(Applied(u))
    <2> DEFINE v == Applied(u)
    <2>1. /\ Good(v) /\ Bounded(v) /\ Timed(v) /\ Placed(v, want, Kept) /\ Held(v) = {}
      BY <1>1, <1>4, <1>5, <1>6, AppliedGood
    <2> HIDE DEF v
    <2>2. t' = v
      BY <1>8, <2>1 DEF Armed, v
    <2>3. IInv'
      BY <1>1, <2>1, <2>2, IInvFacts DEF IInv, Kept
    <2> QED BY <2>1, <2>2, <2>3 DEF Swap
  <1> QED BY <1>2, <1>7, <1>8

(* A gated batch goes ahead. *)
LEMMA GateResolvesIInv ==
  ASSUME IInv, NEW k, GateResolves(k)
  PROVE  IInv' /\ Swap
  <1>1. /\ k \in 1..Len(t.gates) /\ t' = Resolved(t, k)
        /\ UNCHANGED <<windows, client, pass, want, skipped>>
    BY DEF GateResolves, Resolved
  <1>2. /\ Good(t) /\ Bounded(t) /\ Timed(t) /\ Placed(t, want, Kept)
        /\ windows \subseteq SurfaceIds /\ Len(t.gates) \in Nat
        /\ Kept \in SUBSET windows
        /\ want \in [SurfaceIds -> Rects]
        /\ client \in [SurfaceIds -> [asked: Sizes, committed: Sizes]]
    BY IInvFacts DEF Transactions
  <1>3. /\ Good(t') /\ Placed(t', want, Kept)
        /\ t'.holds = t.holds /\ t'.timer = t.timer
        /\ Len(t'.gates) = Len(t.gates) - 1
    BY <1>1, <1>2, ResolvedGood
  <1>4. Held(t') = Held(t)
    BY <1>3 DEF Held
  <1>5. Bounded(t') /\ Timed(t')
    BY <1>2, <1>3, <1>4, MaxGatesAssumption DEF Bounded, Timed, InTime
  <1>6. IInv'
    BY <1>1, <1>2, <1>3, <1>5, IInvFacts DEF IInv, Kept
  <1> QED BY <1>4, <1>6 DEF Swap

-----------------------------------------------------------------------------
(* The state createSurfaceTransactionBroker starts in. *)
LEMMA InitIInv == Init => IInv
  <1> SUFFICES ASSUME Init PROVE IInv
    OBVIOUS
  <1>1. PICK r \in [SurfaceIds -> Rects] :
          /\ t = [holds |-> [s \in SurfaceIds |-> NoHold], timer |-> NoTimer,
                  gates |-> <<>>, pend |-> [s \in SurfaceIds |-> NoPend],
                  rect |-> r, drawable |-> [s \in SurfaceIds |-> r[s].size],
                  frozen |-> {}, deferred |-> FALSE]
          /\ want = r
          /\ client = [s \in SurfaceIds |->
                         [asked |-> r[s].size, committed |-> r[s].size]]
    BY DEF Init
  <1>2. windows = SurfaceIds /\ skipped = {} /\ pass = NoPass
    BY DEF Init
  <1>3. \A s \in SurfaceIds : r[s].size \in Sizes
    BY DEF Sizes
  <1>4. NoHold \in [tags: SUBSET Tags, left: 0..Timeout] /\ NoHold.tags = {}
    BY TimeoutAssumption DEF NoHold
  <1>5. t \in Transactions
    BY <1>1, <1>3, <1>4 DEF Transactions
  <1>6. Held(t) = {} /\ t.timer = NoTimer /\ Len(t.gates) = 0
    BY <1>1, <1>4 DEF Held
  <1>7. \A s \in SurfaceIds, k \in 0..Len(t.gates) : TagsAt(t, s, k) = {}
    BY <1>1, <1>4, <1>6 DEF TagsAt
  <1>8. Owned(t) /\ Thawing(t)
    BY <1>1, <1>7 DEF Owned, Thawing
  <1>9. Bounded(t) /\ Timed(t)
    BY <1>6, MaxGatesAssumption DEF Bounded, Timed, InTime
  <1>10. Placed(t, want, Kept)
    BY <1>1, <1>2 DEF Placed, Kept
  <1>11. client \in [SurfaceIds -> [asked: Sizes, committed: Sizes]]
    BY <1>1, <1>3
  <1> QED BY <1>1, <1>2, <1>5, <1>8, <1>9, <1>10, <1>11 DEF IInv, Good

(* Every turn keeps the invariant and applies whole batches. *)
LEMMA NextIInv == IInv /\ [Next]_vars => IInv' /\ (Swap \/ UNCHANGED vars)
  <1> SUFFICES ASSUME IInv, [Next]_vars PROVE IInv' /\ (Swap \/ UNCHANGED vars)
    OBVIOUS
  <1>0. ASSUME NEW s \in SurfaceIds, Relayout(s)
        PROVE  IInv' /\ Swap
    BY <1>0, RelayoutIInv
  <1>1. ASSUME NEW r \in Rects, Retile(r)
        PROVE  IInv' /\ Swap
    BY <1>1, RetileIInv
  <1>2. ASSUME NEW members \in SUBSET SurfaceIds, EndPass(members)
        PROVE  IInv' /\ Swap
    BY <1>2, EndPassIInv
  <1>3. CASE RebuildStack
    BY <1>3, RebuildStackIInv
  <1>4. ASSUME NEW s \in SurfaceIds, WindowMoved(s) \/ UnmapWindow(s)
        PROVE  IInv' /\ Swap
    BY <1>4, WindowMovedIInv, UnmapWindowIInv
  <1>5. ASSUME NEW s \in SurfaceIds,
               (\E size \in Sizes : ClientCommits(s, size)) \/ BufferDrawable(s)
        PROVE  IInv' /\ Swap
    BY <1>5, ClientCommitsIInv, BufferDrawableIInv
  <1>6. CASE ClockTicks \/ TimerFires
    BY <1>6, ClockTicksIInv, TimerFiresIInv
  <1>7. ASSUME NEW k \in 1..MaxGates, GateResolves(k)
        PROVE  IInv' /\ Swap
    BY <1>7, GateResolvesIInv
  <1>8. CASE UNCHANGED vars
    BY <1>8 DEF vars, IInv, Kept
  <1> QED BY <1>0, <1>1, <1>2, <1>3, <1>4, <1>5, <1>6, <1>7, <1>8 DEF Next

(* The inductive invariant holds in every reachable state. *)
THEOREM Invariance == Spec => []IInv
  <1>1. IInv /\ [Next]_vars => IInv'
    BY NextIInv
  <1> QED BY <1>1, InitIInv, PTL DEF Spec

(* The broker's and the WM's records keep their types, and a batch never   *)
(* has to wait for room behind the gates: begin() takes it before.         *)
THEOREM TypeCorrect == Spec => []TypeOK
  <1>1. IInv => TypeOK
    BY DEF IInv, Good, Bounded, TypeOK
  <1> QED BY <1>1, Invariance, PTL

(* A hold always has a timer that fires by its deadline (armTimer, begin,  *)
(* doApply and clearTimerIfIdle).                                          *)
THEOREM HoldsAreTimed == Spec => []HoldsTimed
  <1>1. IInv => HoldsTimed
    BY DEF IInv, Timed, InTime, HoldsTimed
  <1> QED BY <1>1, Invariance, PTL

(* Each entry of pendingResizes is owned by exactly one requirement, and a *)
(* frozen surface by a hold or a gated batch that will thaw it (begin,     *)
(* doApply, cancel and the WM's onApply and onCancel).                     *)
THEOREM HoldsAreOwned == Spec => []HoldsOwned
  <1>1. ASSUME IInv PROVE HoldsOwned
    <2>1. Good(t) /\ Len(t.gates) \in Nat /\ t.frozen \subseteq SurfaceIds
      BY <1>1 DEF IInv, Good, Transactions
    <2>2. ASSUME NEW s \in SurfaceIds
          PROVE  Cardinality(Waits(s, "wm-tx")) = IF t.pend[s] = NoPend THEN 0 ELSE 1
      <3>1. /\ t.pend[s] # NoPend <=> Waits(s, "wm-tx") # {}
            /\ \A j, k \in Waits(s, "wm-tx") : j = k
        BY <2>1 DEF Good, Owned, Waits
      <3>2. CASE t.pend[s] = NoPend
        BY <3>1, <3>2, FS_EmptySet
      <3>3. CASE t.pend[s] # NoPend
        <4>1. PICK k : Waits(s, "wm-tx") = {k}
          BY <3>1, <3>3
        <4> QED BY <3>3, <4>1, FS_Singleton
      <3> QED BY <3>2, <3>3
    <2>3. ASSUME NEW s \in t.frozen PROVE \E tag \in Tags : Waits(s, tag) # {}
      <3>1. PICK k \in 0..Len(t.gates) : TagsAt(t, s, k) # {}
        BY <2>1, <2>3 DEF Good, Thawing
      <3>2. TagsAt(t, s, k) \subseteq Tags
        BY <2>1, <2>3, <3>1 DEF TagsAt, Good, Transactions
      <3>3. PICK tag \in Tags : tag \in TagsAt(t, s, k)
        BY <3>1, <3>2
      <3> QED BY <3>1, <3>3 DEF Waits
    <2> QED BY <2>2, <2>3 DEF HoldsOwned
  <1> QED BY <1>1, Invariance, PTL

(* What a window is drawn at, or will be once its hold lands, is what the  *)
(* last layout gave it (applyLayout's coalescing and retargeting against   *)
(* late gates), unless a pass left it alone because of the rect it had     *)
(* before the plugins answered.                                            *)
THEOREM LatestIsHeld == Spec => []LatestLayoutHeld
  <1>1. IInv => LatestLayoutHeld
    BY DEF IInv, Placed, Kept, LatestLayoutHeld, Heading
  <1> QED BY <1>1, Invariance, PTL

(* A batch leaves the books as a whole: evaluate and the deadline apply    *)
(* every hold on them or none.                                             *)
THEOREM BatchesAreAtomic == Spec => BatchAtomic
  <1> DEFINE Body == \A s \in Held(t) \ Held(t)', u \in Held(t) \cap Held(t)' :
                       s \in windows' => t'.rect[s] = t.rect[s] /\ t'.gates = t.gates
  <1>1. Swap => Body
    <2>1. Held(t)' = Held(t')
      BY DEF Held
    <2> QED BY <2>1 DEF Swap
  <1>2. IInv /\ [Next]_vars => [Body]_vars
    BY <1>1, NextIInv
  <1> QED BY <1>2, Invariance, PTL DEF Spec, BatchAtomic
=============================================================================
