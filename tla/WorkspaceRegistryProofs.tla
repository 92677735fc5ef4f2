---------------------- MODULE WorkspaceRegistryProofs ----------------------
(***************************************************************************)
(* Proofs of WorkspaceRegistry's safety properties, for any windows,       *)
(* monitors and bounds.  Lists are reasoned about by what is in them and   *)
(* whether anything is in them twice; a registry operator by what it does  *)
(* to a sound registry and by what it adds to the effects.                 *)
(***************************************************************************)
EXTENDS WorkspaceRegistry, FiniteSetTheorems, SequenceTheorems,
        WellFoundedInduction, TLAPS

-----------------------------------------------------------------------------
(* Sets of numbers, and lists. *)

(* A set of naturals has a minimum. *)
LEMMA MinIn ==
  ASSUME NEW S \in SUBSET Nat, S # {}
  PROVE  Min(S) \in S
  <1>1. PICK x \in S : \A y \in S : ~(<<y, x>> \in OpToRel(<, Nat))
    BY NatLessThanWellFounded, WFMin
  <1>2. \A y \in S : ~(y < x)
    BY <1>1 DEF OpToRel
  <1>3. \A y \in S : x <= y
    BY <1>2
  <1> QED BY <1>3 DEF Min

(* How many numbers of a set are below one of them. *)
LEMMA RankIn ==
  ASSUME NEW S \in SUBSET Int, IsFiniteSet(S), NEW n \in S
  PROVE  /\ IsFiniteSet({m \in S : m < n})
         /\ Cardinality({m \in S : m < n}) \in 0 .. Cardinality(S) - 1
  <1> DEFINE B == {m \in S : m < n}
  <1>1. B \in SUBSET (S \ {n})
    OBVIOUS
  <1>2. IsFiniteSet(S \ {n}) /\ Cardinality(S \ {n}) = Cardinality(S) - 1
    BY FS_RemoveElement
  <1>3. IsFiniteSet(B) /\ Cardinality(B) <= Cardinality(S \ {n})
    BY <1>1, <1>2, FS_Subset
  <1>4. Cardinality(B) \in Nat /\ Cardinality(S) \in Nat
    BY <1>3, FS_CardinalityType
  <1> QED BY <1>2, <1>3, <1>4

LEMMA RankGrows ==
  ASSUME NEW S \in SUBSET Int, IsFiniteSet(S), NEW a \in S, NEW b \in S, a < b
  PROVE  Cardinality({m \in S : m < a}) < Cardinality({m \in S : m < b})
  <1> DEFINE A == {m \in S : m < a}
             B == {m \in S : m < b}
  <1>0. a \in Int /\ b \in Int /\ \A m \in S : m \in Int
    OBVIOUS
  <1>1. A \in SUBSET B /\ a \in B /\ a \notin A
    <2>1. ASSUME NEW m \in A PROVE m \in B
      BY <1>0
    <2>2. a \in B /\ a \notin A
      BY <1>0
    <2> QED BY <2>1, <2>2
  <1>2. IsFiniteSet(A) /\ IsFiniteSet(B)
    BY RankIn
  <1>3. Cardinality(A) <= Cardinality(B) /\ (Cardinality(B) = Cardinality(A) => A = B)
    BY <1>1, <1>2, FS_Subset
  <1>4. Cardinality(A) \in Nat /\ Cardinality(B) \in Nat
    BY <1>2, FS_CardinalityType
  <1> HIDE DEF A, B
  <1>5. Cardinality(A) # Cardinality(B)
    BY <1>1, <1>3
  <1>6. Cardinality(A) < Cardinality(B)
    BY <1>3, <1>4, <1>5
  <1> QED BY <1>6 DEF A, B

LEMMA RankUnique ==
  ASSUME NEW S \in SUBSET Int, IsFiniteSet(S), NEW a \in S, NEW b \in S,
         Cardinality({m \in S : m < a}) = Cardinality({m \in S : m < b})
  PROVE  a = b
  <1>1. Cardinality({m \in S : m < a}) \in Int /\ Cardinality({m \in S : m < b}) \in Int
    BY RankIn
  <1>2. ~(a < b) /\ ~(b < a)
    <2>1. CASE a < b
      BY <1>1, <2>1, RankGrows
    <2>2. CASE b < a
      BY <1>1, <2>2, RankGrows
    <2> QED BY <2>1, <2>2
  <1> QED BY <1>2

(* The numbers in order: each of them, once. *)
LEMMA InOrderOf ==
  ASSUME NEW S \in SUBSET Int, IsFiniteSet(S)
  PROVE  /\ InOrder(S) \in Seq(S) /\ Len(InOrder(S)) = Cardinality(S)
         /\ ToSet(InOrder(S)) = S /\ IsInjective(InOrder(S))
  <1> DEFINE c == Cardinality(S)
             below(n) == Cardinality({m \in S : m < n})
             rank == [n \in S |-> below(n) + 1]
             q == InOrder(S)
  <1>0. c \in Nat
    BY FS_CardinalityType
  <1>1. \A n \in S : below(n) \in 0 .. c - 1
    BY RankIn
  <1>2. \A a, b \in S : below(a) = below(b) => a = b
    BY RankUnique
  <1>3. q = [i \in 1 .. c |-> CHOOSE n \in S : below(n) = i - 1]
    BY DEF InOrder
  <1> HIDE DEF c, below
  <1>a. rank \in [S -> 1 .. c]
    BY <1>0, <1>1
  <1>b. \A a, b \in S : rank[a] = rank[b] => a = b
    BY <1>0, <1>1, <1>2
  <1>c. DOMAIN rank = S
    BY <1>a
  <1>4. rank \in Injection(S, 1 .. c)
    BY <1>a, <1>b, <1>c DEF Injection, IsInjective
  <1>5. IsFiniteSet(1 .. c) /\ Cardinality(1 .. c) = c
    BY <1>0, FS_Interval
  <1>6. rank \in Surjection(S, 1 .. c)
    BY <1>4, <1>5, FS_Injection DEF c
  <1>7. \A i \in 1 .. c : \E n \in S : rank[n] = i
    BY <1>6 DEF Surjection
  <1>8. \A i \in 1 .. c : q[i] \in S /\ below(q[i]) = i - 1
    <2> SUFFICES ASSUME NEW i \in 1 .. c PROVE q[i] \in S /\ below(q[i]) = i - 1
      OBVIOUS
    <2>1. PICK n \in S : rank[n] = i
      BY <1>7
    <2>2. below(n) = i - 1
      BY <1>0, <1>1, <2>1
    <2>3. q[i] = CHOOSE k \in S : below(k) = i - 1
      BY <1>3
    <2> QED BY <2>2, <2>3
  <1>9. q \in [1 .. c -> S] /\ DOMAIN q = 1 .. c
    BY <1>3, <1>8
  <1> HIDE DEF q, rank
  <1>10. q \in Seq(S) /\ Len(q) = c
    BY <1>0, <1>9, IsASeq, LenProperties
  <1>11. \A i, j \in 1 .. c : q[i] = q[j] => i = j
    BY <1>0, <1>8
  <1>12. \A n \in S : \E i \in 1 .. c : q[i] = n
    <2> SUFFICES ASSUME NEW n \in S PROVE \E i \in 1 .. c : q[i] = n
      OBVIOUS
    <2>1. PICK i \in 1 .. c : below(n) = i - 1
      BY <1>0, <1>1
    <2>2. below(q[i]) = below(n) /\ q[i] \in S
      BY <1>8, <2>1
    <2> QED BY <1>2, <2>2
  <1>13. ToSet(q) = S
    <2>1. ToSet(q) = {q[i] : i \in 1 .. c}
      BY <1>9 DEF ToSet
    <2> QED BY <1>8, <1>12, <2>1
  <1>14. IsInjective(q)
    BY <1>9, <1>11 DEF IsInjective
  <1> QED BY <1>10, <1>13, <1>14 DEF q, c

(* What is in a list, and in it once. *)
LEMMA InList ==
  ASSUME NEW S, NEW q \in Seq(S)
  PROVE  /\ \A e : e \in ToSet(q) <=> \E k \in 1 .. Len(q) : q[k] = e
         /\ ToSet(q) \subseteq S
         /\ q = <<>> <=> ToSet(q) = {}
         /\ Len(q) \in Nat /\ DOMAIN q = 1 .. Len(q)
         /\ IsInjective(q) <=> \A j, k \in 1 .. Len(q) : q[j] = q[k] => j = k
  <1>1. DOMAIN q = 1 .. Len(q) /\ Len(q) \in Nat /\ q \in [1 .. Len(q) -> S]
    BY LenProperties
  <1>2. q = <<>> <=> Len(q) = 0
    BY EmptySeq
  <1>3. \A e : e \in ToSet(q) <=> \E k \in 1 .. Len(q) : q[k] = e
    BY <1>1 DEF ToSet
  <1>4. Len(q) # 0 => 1 \in 1 .. Len(q)
    BY <1>1
  <1>5. Len(q) = 0 => 1 .. Len(q) = {}
    BY <1>1
  <1>6. ToSet(q) \subseteq S
    BY <1>1, <1>3
  <1>7. q = <<>> <=> ToSet(q) = {}
    BY <1>2, <1>3, <1>4, <1>5
  <1>8. IsInjective(q) <=> \A j, k \in 1 .. Len(q) : q[j] = q[k] => j = k
    BY <1>1 DEF IsInjective
  <1> QED BY <1>1, <1>3, <1>6, <1>7, <1>8

LEMMA EmptyList == ToSet(<<>>) = {} /\ IsInjective(<<>>)
  <1>1. ToSet(<<>>) = {}
    BY DEF ToSet
  <1>2. IsInjective(<<>>)
    BY DEF IsInjective
  <1> QED BY <1>1, <1>2

LEMMA OneList ==
  ASSUME NEW S, NEW x \in S
  PROVE  /\ <<x>> \in Seq(S) /\ ToSet(<<x>>) = {x} /\ IsInjective(<<x>>)
         /\ <<x>> # <<>>
  <1> DEFINE p == <<x>>
  <1>1. p \in Seq(S) /\ Len(p) = 1 /\ p[1] = x
    OBVIOUS
  <1> HIDE DEF p
  <1>2. /\ \A e : e \in ToSet(p) <=> \E k \in 1 .. Len(p) : p[k] = e
        /\ p = <<>> <=> ToSet(p) = {}
        /\ IsInjective(p) <=> \A j, k \in 1 .. Len(p) : p[j] = p[k] => j = k
    BY <1>1, InList
  <1>3. \A k \in 1 .. 1 : k = 1
    OBVIOUS
  <1>4. IsInjective(p) /\ ToSet(p) = {x}
    BY <1>1, <1>2, <1>3
  <1> QED BY <1>1, <1>2, <1>4 DEF p

(* One list after another. *)
LEMMA ConcatList ==
  ASSUME NEW S, NEW p \in Seq(S), NEW q \in Seq(S)
  PROVE  /\ p \o q \in Seq(S) /\ ToSet(p \o q) = ToSet(p) \cup ToSet(q)
         /\ IsInjective(p) /\ IsInjective(q) /\ ToSet(p) \cap ToSet(q) = {}
              => IsInjective(p \o q)
  <1> DEFINE a == p \o q
             m == Len(p)
             n == Len(q)
  <1>1. a \in Seq(S) /\ Len(a) = m + n
        /\ \A k \in 1 .. m + n : a[k] = IF k <= m THEN p[k] ELSE q[k - m]
    BY ConcatProperties
  <1>2. /\ m \in Nat /\ \A e : e \in ToSet(p) <=> \E k \in 1 .. m : p[k] = e
        /\ IsInjective(p) <=> \A j, k \in 1 .. m : p[j] = p[k] => j = k
    BY InList
  <1>3. /\ n \in Nat /\ \A e : e \in ToSet(q) <=> \E k \in 1 .. n : q[k] = e
        /\ IsInjective(q) <=> \A j, k \in 1 .. n : q[j] = q[k] => j = k
    BY InList
  <1>4. /\ \A e : e \in ToSet(a) <=> \E k \in 1 .. Len(a) : a[k] = e
        /\ IsInjective(a) <=> \A j, k \in 1 .. Len(a) : a[j] = a[k] => j = k
    BY <1>1, InList
  <1> HIDE DEF a, m, n
  <1>5. ASSUME NEW k \in 1 .. m + n
        PROVE  \/ k \in 1 .. m /\ a[k] = p[k]
               \/ k - m \in 1 .. n /\ a[k] = q[k - m]
    <2>1. CASE k <= m
      BY <1>1, <1>2, <1>3, <2>1
    <2>2. CASE ~(k <= m)
      BY <1>1, <1>2, <1>3, <2>2
    <2> QED BY <2>1, <2>2
  <1>6. ASSUME NEW k \in 1 .. m PROVE k \in 1 .. m + n /\ a[k] = p[k]
    BY <1>1, <1>2, <1>3
  <1>7. ASSUME NEW k \in 1 .. n PROVE \E j \in 1 .. m + n : a[j] = q[k]
    <2>1. PICK j \in 1 .. m + n : j = k + m
      BY <1>2, <1>3
    <2>2. ~(j <= m) /\ j - m = k
      BY <1>2, <1>3, <2>1
    <2> QED BY <1>1, <2>1, <2>2
  <1>8. ASSUME NEW e PROVE e \in ToSet(a) <=> e \in ToSet(p) \cup ToSet(q)
    <2>1. e \in ToSet(a) => e \in ToSet(p) \cup ToSet(q)
      BY <1>1, <1>2, <1>3, <1>4, <1>5
    <2>2. e \in ToSet(p) => e \in ToSet(a)
      BY <1>1, <1>2, <1>4, <1>6
    <2>3. ASSUME e \in ToSet(q) PROVE e \in ToSet(a)
      <3>1. PICK k \in 1 .. n : q[k] = e
        BY <1>3, <2>3
      <3>2. PICK j \in 1 .. m + n : a[j] = q[k]
        BY <1>7
      <3> QED BY <1>1, <1>4, <3>1, <3>2
    <2> QED BY <2>1, <2>2, <2>3
  <1>9. ASSUME IsInjective(p), IsInjective(q), ToSet(p) \cap ToSet(q) = {}
        PROVE  IsInjective(a)
    <2>1. ASSUME NEW i \in 1 .. m + n, NEW j \in 1 .. m + n, a[i] = a[j] PROVE i = j
      <3>1. CASE i \in 1 .. m /\ a[i] = p[i] /\ j \in 1 .. m /\ a[j] = p[j]
        BY <1>2, <1>9, <2>1, <3>1
      <3>2. CASE i - m \in 1 .. n /\ a[i] = q[i - m] /\ j - m \in 1 .. n /\ a[j] = q[j - m]
        <4>1. i - m = j - m
          BY <1>3, <1>9, <2>1, <3>2
        <4> QED BY <1>2, <1>3, <4>1
      <3>3. CASE i \in 1 .. m /\ a[i] = p[i] /\ j - m \in 1 .. n /\ a[j] = q[j - m]
        <4>1. a[i] \in ToSet(p) /\ a[j] \in ToSet(q)
          BY <1>2, <1>3, <3>3
        <4> QED BY <1>9, <2>1, <4>1
      <3>4. CASE i - m \in 1 .. n /\ a[i] = q[i - m] /\ j \in 1 .. m /\ a[j] = p[j]
        <4>1. a[i] \in ToSet(q) /\ a[j] \in ToSet(p)
          BY <1>2, <1>3, <3>4
        <4> QED BY <1>9, <2>1, <4>1
      <3> QED BY <1>5, <3>1, <3>2, <3>3, <3>4
    <2> QED BY <1>1, <1>4, <2>1
  <1>10. ToSet(a) = ToSet(p) \cup ToSet(q)
    BY <1>8
  <1> QED BY <1>1, <1>9, <1>10 DEF a

LEMMA AppendList ==
  ASSUME NEW S, NEW q \in Seq(S), NEW x \in S
  PROVE  /\ Append(q, x) \in Seq(S) /\ ToSet(Append(q, x)) = ToSet(q) \cup {x}
         /\ Append(q, x) # <<>>
         /\ IsInjective(q) /\ x \notin ToSet(q) => IsInjective(Append(q, x))
  <1> DEFINE p == <<x>>
  <1>1. p \in Seq(S) /\ ToSet(p) = {x} /\ IsInjective(p)
    BY OneList
  <1>2. Append(q, x) = q \o p
    BY AppendIsConcat
  <1> HIDE DEF p
  <1>3. /\ q \o p \in Seq(S) /\ ToSet(q \o p) = ToSet(q) \cup ToSet(p)
        /\ IsInjective(q) /\ IsInjective(p) /\ ToSet(q) \cap ToSet(p) = {}
             => IsInjective(q \o p)
    BY <1>1, ConcatList
  <1>4. q \o p # <<>>
    BY <1>1, <1>3, EmptyList
  <1> QED BY <1>1, <1>2, <1>3, <1>4

(* Part of a list. *)
LEMMA KeptList ==
  ASSUME NEW S, NEW q \in Seq(S), NEW K
  PROVE  /\ Kept(q, K) \in Seq(S) /\ ToSet(Kept(q, K)) = ToSet(q) \cap K
         /\ IsInjective(q) => IsInjective(Kept(q, K))
         /\ Len(Kept(q, K)) = Cardinality({i \in DOMAIN q : q[i] \in K})
  <1> DEFINE I == {i \in DOMAIN q : q[i] \in K}
             p == InOrder(I)
             a == Kept(q, K)
             n == Len(p)
  <1>1. /\ Len(q) \in Nat /\ DOMAIN q = 1 .. Len(q)
        /\ \A e : e \in ToSet(q) <=> \E k \in 1 .. Len(q) : q[k] = e
        /\ IsInjective(q) <=> \A j, k \in 1 .. Len(q) : q[j] = q[k] => j = k
    BY InList
  <1>2. I \in SUBSET Int /\ IsFiniteSet(I)
    <2>1. IsFiniteSet(1 .. Len(q)) /\ I \in SUBSET (1 .. Len(q))
      BY <1>1, FS_Interval
    <2> QED BY <1>1, <2>1, FS_Subset
  <1> HIDE DEF I
  <1>3. p \in Seq(I) /\ ToSet(p) = I /\ IsInjective(p) /\ Len(p) = Cardinality(I)
    BY <1>2, InOrderOf
  <1>4. a = [j \in DOMAIN p |-> q[p[j]]]
    BY DEF Kept, I
  <1> HIDE DEF p
  <1>5. /\ n \in Nat /\ DOMAIN p = 1 .. n
        /\ \A e : e \in ToSet(p) <=> \E k \in 1 .. n : p[k] = e
        /\ \A j, k \in 1 .. n : p[j] = p[k] => j = k
    BY <1>3, InList
  <1>6. \A j \in 1 .. n : p[j] \in 1 .. Len(q) /\ q[p[j]] \in K
    BY <1>1, <1>3, <1>5 DEF I
  <1>7. \A k \in 1 .. Len(q) : q[k] \in S
    BY <1>1, ElementOfSeq
  <1> HIDE DEF a, n
  <1>8. a \in [1 .. n -> S] /\ DOMAIN a = 1 .. n /\ \A j \in 1 .. n : a[j] = q[p[j]]
    BY <1>4, <1>5, <1>6, <1>7
  <1>9. a \in Seq(S) /\ Len(a) = n
    BY <1>5, <1>8, IsASeq, LenProperties
  <1>10. ASSUME NEW e PROVE e \in ToSet(a) <=> e \in ToSet(q) \cap K
    <2>1. e \in ToSet(a) <=> \E j \in 1 .. n : a[j] = e
      BY <1>8 DEF ToSet
    <2>2. ASSUME NEW j \in 1 .. n, a[j] = e PROVE e \in ToSet(q) \cap K
      BY <1>1, <1>6, <1>8, <2>2
    <2>3. ASSUME e \in ToSet(q), e \in K PROVE \E j \in 1 .. n : a[j] = e
      <3>1. PICK k \in 1 .. Len(q) : q[k] = e
        BY <1>1, <2>3
      <3>2. k \in I
        BY <1>1, <2>3, <3>1 DEF I
      <3>3. PICK j \in 1 .. n : p[j] = k
        BY <1>3, <1>5, <3>2
      <3> QED BY <1>8, <3>1, <3>3
    <2> QED BY <2>1, <2>2, <2>3
  <1>11. ToSet(a) = ToSet(q) \cap K
    BY <1>10
  <1>12. ASSUME IsInjective(q) PROVE IsInjective(a)
    <2>1. \A i, j \in 1 .. n : a[i] = a[j] => i = j
      BY <1>1, <1>5, <1>6, <1>8, <1>12
    <2> QED BY <1>8, <2>1 DEF IsInjective
  <1> QED BY <1>3, <1>9, <1>11, <1>12 DEF a, n, I

LEMMA WithoutList ==
  ASSUME NEW S, NEW q \in Seq(S), NEW x
  PROVE  /\ Without(q, x) \in Seq(S) /\ ToSet(Without(q, x)) = ToSet(q) \ {x}
         /\ IsInjective(q) => IsInjective(Without(q, x))
  <1> DEFINE K == ToSet(q) \ {x}
  <1>1. Without(q, x) = Kept(q, K)
    BY DEF Without
  <1>2. ToSet(q) \cap K = K
    OBVIOUS
  <1> HIDE DEF K
  <1>3. /\ Kept(q, K) \in Seq(S) /\ ToSet(Kept(q, K)) = ToSet(q) \cap K
        /\ IsInjective(q) => IsInjective(Kept(q, K))
    BY KeptList
  <1> QED BY <1>1, <1>2, <1>3 DEF K

(* Where something is in a list. *)
LEMMA Occurrences ==
  ASSUME NEW S, NEW q \in Seq(S), IsInjective(q), NEW x
  PROVE  Cardinality({i \in DOMAIN q : q[i] = x}) = IF x \in ToSet(q) THEN 1 ELSE 0
  <1>1. /\ \A e : e \in ToSet(q) <=> \E k \in 1 .. Len(q) : q[k] = e
        /\ DOMAIN q = 1 .. Len(q)
        /\ \A j, k \in 1 .. Len(q) : q[j] = q[k] => j = k
    BY InList
  <1>2. CASE x \in ToSet(q)
    <2>1. PICK k \in 1 .. Len(q) : q[k] = x
      BY <1>1, <1>2
    <2>2. {i \in DOMAIN q : q[i] = x} = {k}
      BY <1>1, <2>1
    <2>3. Cardinality({k}) = 1
      BY FS_Singleton
    <2> QED BY <1>2, <2>2, <2>3
  <1>3. CASE x \notin ToSet(q)
    <2>1. {i \in DOMAIN q : q[i] = x} = {}
      BY <1>1, <1>3
    <2> QED BY <1>3, <2>1, FS_EmptySet
  <1> QED BY <1>2, <1>3

LEMMA WithoutLen ==
  ASSUME NEW S, NEW q \in Seq(S), IsInjective(q), NEW x \in ToSet(q)
  PROVE  Len(Without(q, x)) = Len(q) - 1
  <1> DEFINE K == ToSet(q) \ {x}
             n == Len(q)
  <1>1. /\ \A e : e \in ToSet(q) <=> \E k \in 1 .. n : q[k] = e
        /\ DOMAIN q = 1 .. n /\ n \in Nat
        /\ \A j, k \in 1 .. n : q[j] = q[k] => j = k
    BY InList
  <1>2. Len(Without(q, x)) = Cardinality({i \in DOMAIN q : q[i] \in K})
    BY KeptList DEF Without
  <1>3. PICK k \in 1 .. n : q[k] = x
    BY <1>1
  <1>4. {i \in DOMAIN q : q[i] \in K} = (1 .. n) \ {k}
    BY <1>1, <1>3
  <1> HIDE DEF n
  <1>5. IsFiniteSet(1 .. n) /\ Cardinality(1 .. n) = n
    <2>1. IsFiniteSet(1 .. n) /\ Cardinality(1 .. n) = IF 1 > n THEN 0 ELSE n - 1 + 1
      BY <1>1, FS_Interval
    <2> QED BY <1>1, <2>1
  <1>6. Cardinality((1 .. n) \ {k}) = n - 1
    BY <1>5, FS_RemoveElement
  <1> QED BY <1>2, <1>4, <1>6 DEF n

(* A list cut in two. *)
LEMMA CutList ==
  ASSUME NEW S, NEW q \in Seq(S), NEW n \in 0 .. Len(q)
  PROVE  LET a == SubSeq(q, 1, n)
             b == SubSeq(q, n + 1, Len(q))
         IN  /\ a \in Seq(S) /\ b \in Seq(S)
             /\ ToSet(q) = ToSet(a) \cup ToSet(b)
             /\ IsInjective(q) => /\ IsInjective(a) /\ IsInjective(b)
                                  /\ ToSet(a) \cap ToSet(b) = {}
  <1> DEFINE a == SubSeq(q, 1, n)
             b == SubSeq(q, n + 1, Len(q))
             m == Len(q)
  <1>0. m \in Nat /\ n \in Nat /\ n <= m
    BY LenProperties
  <1>a. \A k \in 1 .. n : k \in 1 .. m
    BY <1>0
  <1>b. \A k \in n + 1 .. m : k \in 1 .. m
    BY <1>0
  <1>1. a \in Seq(S) /\ Len(a) = n /\ \A k \in 1 .. n : a[k] = q[k]
    <2>1. \A k \in 1 .. n : q[k] \in S
      BY <1>a, ElementOfSeq
    <2>2. a \in Seq(S) /\ Len(a) = (IF 1 <= n THEN n - 1 + 1 ELSE 0)
          /\ \A k \in 1 .. n - 1 + 1 : a[k] = q[1 + k - 1]
      BY <1>0, <2>1, SubSeqProperties
    <2> HIDE DEF a
    <2>3. n - 1 + 1 = n /\ (IF 1 <= n THEN n - 1 + 1 ELSE 0) = n
          /\ \A k \in 1 .. n : 1 + k - 1 = k
      BY <1>0
    <2> QED BY <2>2, <2>3
  <1>2. b \in Seq(S) /\ Len(b) = m - n /\ \A k \in 1 .. m - n : b[k] = q[n + k]
    <2>1. \A k \in n + 1 .. m : q[k] \in S
      BY <1>b, ElementOfSeq
    <2>2. b \in Seq(S) /\ Len(b) = (IF n + 1 <= m THEN m - (n + 1) + 1 ELSE 0)
          /\ \A k \in 1 .. m - (n + 1) + 1 : b[k] = q[n + 1 + k - 1]
      BY <1>0, <2>1, SubSeqProperties
    <2> HIDE DEF b
    <2>3. /\ m - (n + 1) + 1 = m - n
          /\ (IF n + 1 <= m THEN m - (n + 1) + 1 ELSE 0) = m - n
          /\ \A k \in 1 .. m - n : n + 1 + k - 1 = n + k
      BY <1>0
    <2> QED BY <2>2, <2>3
  <1>3. /\ \A e : e \in ToSet(q) <=> \E k \in 1 .. m : q[k] = e
        /\ IsInjective(q) <=> \A j, k \in 1 .. m : q[j] = q[k] => j = k
    BY InList
  <1> HIDE DEF a, b, m
  <1>4. /\ \A e : e \in ToSet(a) <=> \E k \in 1 .. n : a[k] = e
        /\ IsInjective(a) <=> \A j, k \in 1 .. n : a[j] = a[k] => j = k
    BY <1>1, InList
  <1>5. /\ \A e : e \in ToSet(b) <=> \E k \in 1 .. Len(b) : b[k] = e
        /\ IsInjective(b) <=> \A j, k \in 1 .. Len(b) : b[j] = b[k] => j = k
    BY <1>2, InList
  <1>6. ASSUME NEW k \in 1 .. m
        PROVE  \/ k \in 1 .. n /\ q[k] = a[k]
               \/ k - n \in 1 .. m - n /\ q[k] = b[k - n]
    <2>1. CASE k <= n
      BY <1>0, <1>1, <2>1
    <2>2. CASE ~(k <= n)
      <3>1. k - n \in 1 .. m - n /\ n + (k - n) = k
        BY <1>0, <2>2
      <3> QED BY <1>2, <3>1
    <2> QED BY <2>1, <2>2
  <1>7. \A k \in 1 .. n : k \in 1 .. m /\ a[k] = q[k]
    BY <1>a, <1>1
  <1>8. \A k \in 1 .. m - n : n + k \in 1 .. m /\ b[k] = q[n + k]
    BY <1>0, <1>2
  <1>9. ASSUME NEW e PROVE e \in ToSet(q) <=> e \in ToSet(a) \cup ToSet(b)
    <2>1. e \in ToSet(q) => e \in ToSet(a) \cup ToSet(b)
      BY <1>2, <1>3, <1>4, <1>5, <1>6
    <2>2. e \in ToSet(a) => e \in ToSet(q)
      BY <1>3, <1>4, <1>7
    <2>3. e \in ToSet(b) => e \in ToSet(q)
      BY <1>2, <1>3, <1>5, <1>8
    <2> QED BY <2>1, <2>2, <2>3
  <1>10. ASSUME IsInjective(q)
         PROVE  IsInjective(a) /\ IsInjective(b) /\ ToSet(a) \cap ToSet(b) = {}
    <2>1. IsInjective(a)
      BY <1>3, <1>4, <1>7, <1>10
    <2>2. ASSUME NEW i \in 1 .. m - n, NEW j \in 1 .. m - n, b[i] = b[j] PROVE i = j
      <3>1. n + i = n + j
        BY <1>3, <1>8, <1>10, <2>2
      <3> QED BY <1>0, <3>1
    <2>3. IsInjective(b)
      BY <1>2, <1>5, <2>2
    <2>4. ASSUME NEW e \in ToSet(a), e \in ToSet(b) PROVE FALSE
      <3>1. PICK i \in 1 .. n : a[i] = e
        BY <1>4, <2>4
      <3>2. PICK j \in 1 .. m - n : b[j] = e
        BY <1>2, <1>5, <2>4
      <3>3. i = n + j
        BY <1>3, <1>7, <1>8, <1>10, <3>1, <3>2
      <3> QED BY <1>0, <3>3
    <2> QED BY <2>1, <2>3, <2>4
  <1>11. ToSet(q) = ToSet(a) \cup ToSet(b)
    BY <1>9
  <1> QED BY <1>1, <1>2, <1>10, <1>11 DEF a, b, m

(* A list with something put in. *)
LEMMA InsertList ==
  ASSUME NEW S, NEW q \in Seq(S), NEW n \in 1 .. Len(q) + 1, NEW x \in S,
         IsInjective(q), x \notin ToSet(q)
  PROVE  LET a == SubSeq(q, 1, n - 1) \o <<x>> \o SubSeq(q, n, Len(q))
         IN  a \in Seq(S) /\ ToSet(a) = ToSet(q) \cup {x} /\ IsInjective(a)
  <1> DEFINE a == SubSeq(q, 1, n - 1)
             b == SubSeq(q, n, Len(q))
             p == <<x>>
             m == n - 1
  <1>1. m \in 0 .. Len(q) /\ m + 1 = n
    BY LenProperties
  <1> HIDE DEF m
  <1>2. a = SubSeq(q, 1, m) /\ b = SubSeq(q, m + 1, Len(q))
    BY <1>1 DEF m
  <1>3. /\ a \in Seq(S) /\ b \in Seq(S) /\ ToSet(q) = ToSet(a) \cup ToSet(b)
        /\ IsInjective(a) /\ IsInjective(b) /\ ToSet(a) \cap ToSet(b) = {}
    BY <1>1, <1>2, CutList
  <1>4. p \in Seq(S) /\ ToSet(p) = {x} /\ IsInjective(p)
    BY OneList
  <1> HIDE DEF a, b, p
  <1>5. a \o p \in Seq(S) /\ ToSet(a \o p) = ToSet(a) \cup {x} /\ IsInjective(a \o p)
    <2>1. ToSet(a) \cap ToSet(p) = {}
      BY <1>3, <1>4
    <2> QED BY <1>3, <1>4, <2>1, ConcatList
  <1> DEFINE c == a \o p
  <1>6. c \in Seq(S) /\ ToSet(c) = ToSet(a) \cup {x} /\ IsInjective(c)
    BY <1>5
  <1> HIDE DEF c
  <1>7. c \o b \in Seq(S) /\ ToSet(c \o b) = ToSet(c) \cup ToSet(b) /\ IsInjective(c \o b)
    <2>1. ToSet(c) \cap ToSet(b) = {}
      BY <1>3, <1>6
    <2> QED BY <1>3, <1>6, <2>1, ConcatList
  <1>8. ToSet(c \o b) = ToSet(q) \cup {x}
    BY <1>3, <1>6, <1>7
  <1> QED BY <1>7, <1>8 DEF a, b, p, c

-----------------------------------------------------------------------------
(* The registry. *)

Workspaces ==
  [output : OutIds, prefs : Seq(Names), members : Seq(Surfaces), persistent : BOOLEAN]

Maps == UNION {[D -> Workspaces] : D \in SUBSET Nat}

Registries ==
  [ws : Maps, pos : [OutIds -> Seq(Nat)], shown : [OutIds -> Nat],
   owner : [Surfaces -> Nat], next : Nat \ {0}, last : [Names -> Nat],
   push : SUBSET OutIds, bags : SUBSET Surfaces]

LEMMA MapsIn ==
  /\ \A w \in Maps : DOMAIN w \subseteq Nat /\ \A h \in DOMAIN w : w[h] \in Workspaces
  /\ \A D \in SUBSET Nat : [D -> Workspaces] \subseteq Maps
  <1>1. ASSUME NEW w \in Maps
        PROVE  DOMAIN w \subseteq Nat /\ \A h \in DOMAIN w : w[h] \in Workspaces
    <2>1. PICK D \in SUBSET Nat : w \in [D -> Workspaces]
      BY DEF Maps
    <2> QED BY <2>1
  <1>2. \A D \in SUBSET Nat : [D -> Workspaces] \subseteq Maps
    BY DEF Maps
  <1> QED BY <1>1, <1>2

(* A map with one record more. *)
IsPut(w, n, v, d) ==
  /\ d \in Maps /\ DOMAIN d = DOMAIN w \cup {n} /\ d[n] = v
  /\ \A h \in DOMAIN w : d[h] = w[h]

LEMMA MapAdd ==
  ASSUME NEW w \in Maps, NEW n \in Nat, n \notin DOMAIN w, NEW v \in Workspaces
  PROVE  IsPut(w, n, v, Put(w, n, v))
  <1> DEFINE D == DOMAIN w \cup {n}
             d == Put(w, n, v)
  <1>1. d = [h \in D |-> IF h = n THEN v ELSE w[h]]
    BY DEF Put
  <1>2. D \in SUBSET Nat /\ \A h \in DOMAIN w : w[h] \in Workspaces /\ h # n
    BY MapsIn
  <1> HIDE DEF d
  <1>3. d \in [D -> Workspaces]
    BY <1>1, <1>2
  <1>4. DOMAIN d = D /\ d[n] = v /\ \A h \in DOMAIN w : d[h] = w[h]
    BY <1>1, <1>2
  <1>5. d \in Maps
    BY <1>2, <1>3, MapsIn
  <1> QED BY <1>4, <1>5 DEF d, IsPut

(* A map with one record less. *)
LEMMA MapDrop ==
  ASSUME NEW w \in Maps, NEW h
  PROVE  [k \in DOMAIN w \ {h} |-> w[k]] \in Maps
  <1> DEFINE D == DOMAIN w \ {h}
  <1>1. D \in SUBSET Nat /\ \A k \in D : w[k] \in Workspaces
    BY MapsIn
  <1> HIDE DEF D
  <1>2. [k \in D |-> w[k]] \in [D -> Workspaces]
    BY <1>1
  <1>3. [k \in D |-> w[k]] \in Maps
    BY <1>1, <1>2, MapsIn
  <1> QED BY <1>3 DEF D

(* A map with the members of a workspace changed. *)
LEMMA MapMembers ==
  ASSUME NEW w \in Maps, NEW h \in DOMAIN w, NEW m \in Seq(Surfaces)
  PROVE  LET d == [w EXCEPT ![h].members = m]
         IN  /\ d \in Maps /\ DOMAIN d = DOMAIN w /\ d[h].members = m
             /\ d[h].output = w[h].output /\ d[h].prefs = w[h].prefs
             /\ d[h].persistent = w[h].persistent
             /\ \A k \in DOMAIN w \ {h} : d[k] = w[k]
  <1> DEFINE D == DOMAIN w
             v == [w[h] EXCEPT !.members = m]
             d == [w EXCEPT ![h].members = m]
  <1>1. D \in SUBSET Nat /\ \A k \in D : w[k] \in Workspaces
    BY MapsIn
  <1>2. /\ v \in Workspaces /\ v.members = m /\ v.output = w[h].output
        /\ v.prefs = w[h].prefs /\ v.persistent = w[h].persistent
    BY <1>1 DEF Workspaces
  <1>3. d = [k \in D |-> IF k = h THEN v ELSE w[k]]
    <2>1. w = [k \in D |-> w[k]]
      BY DEF Maps
    <2>2. d = [w EXCEPT ![h] = v]
      OBVIOUS
    <2> QED BY <2>1, <2>2
  <1> HIDE DEF d, v
  <1>4. d \in [D -> Workspaces]
    BY <1>1, <1>2, <1>3
  <1>5. DOMAIN d = D /\ d[h] = v /\ \A k \in D \ {h} : d[k] = w[k]
    BY <1>3
  <1>6. d \in Maps
    BY <1>1, <1>4, MapsIn
  <1> QED BY <1>2, <1>5, <1>6 DEF d

LEMMA RegistryFields ==
  ASSUME NEW r \in Registries
  PROVE  /\ r.ws \in Maps /\ r.pos \in [OutIds -> Seq(Nat)] /\ r.shown \in [OutIds -> Nat]
         /\ r.owner \in [Surfaces -> Nat] /\ r.next \in Nat \ {0}
         /\ r.last \in [Names -> Nat] /\ r.push \in SUBSET OutIds
         /\ r.bags \in SUBSET Surfaces
  BY DEF Registries

(* Handles in use, and those remembered, are below the next one. *)
Numbered(w, n, l) ==
  /\ \A h \in DOMAIN w : h \in 1 .. n - 1
  /\ \A x \in Names : l[x] \in 0 .. n - 1

Preferring(w) == \A h \in DOMAIN w : IsInjective(w[h].prefs)

(* The owner map and the member lists agree. *)
Owned(w, own) ==
  /\ \A h \in DOMAIN w :
       /\ IsInjective(w[h].members)
       /\ \A s \in Surfaces : s \in ToSet(w[h].members) <=> own[s] = h
  /\ \A s \in Surfaces : own[s] \in DOMAIN w \cup {NoHandle}

(* The lists of places are those of the outputs. *)
Placed(w, p) ==
  \A o \in OutIds :
    /\ IsInjective(p[o])
    /\ \A h : h \in ToSet(p[o]) <=> h \in DOMAIN w /\ w[h].output = o

(* An output shows one of its workspaces, or nothing. *)
Showing(p, sh) == \A o \in OutIds : sh[o] \in ToSet(p[o]) \cup {NoHandle}

Sound(r) ==
  /\ r \in Registries
  /\ Numbered(r.ws, r.next, r.last) /\ Preferring(r.ws)
  /\ Owned(r.ws, r.owner) /\ Placed(r.ws, r.pos) /\ Showing(r.pos, r.shown)

(* An output with workspaces shows one. *)
Settled(r) == \A o \in OutIds : r.pos[o] # <<>> => r.shown[o] # NoHandle

Good(r) == Sound(r) /\ Settled(r)

(* What changed of the stacks and the owners from r to d is among d's      *)
(* effects, and r's effects are.                                           *)
Told(r, d) ==
  /\ r.push \subseteq d.push /\ r.bags \subseteq d.bags
  /\ \A o \in OutIds : StackFor(d, o) = StackFor(r, o) \/ o \in d.push
  /\ \A s \in Surfaces : d.owner[s] = r.owner[s] \/ s \in d.bags

(* No output loses its last workspace. *)
Stays(r, d) == \A o \in OutIds : r.pos[o] # <<>> => d.pos[o] # <<>>

Goes(r, d) == Good(d) /\ Told(r, d) /\ Stays(r, d)

LEMMA ToldOn ==
  ASSUME NEW r, NEW d, NEW e, Told(r, d), Told(d, e)
  PROVE  Told(r, e)
  <1>1. r.push \subseteq e.push /\ r.bags \subseteq e.bags
    BY DEF Told
  <1>2. ASSUME NEW o \in OutIds PROVE StackFor(e, o) = StackFor(r, o) \/ o \in e.push
    <2>1. StackFor(d, o) = StackFor(r, o) \/ o \in d.push
      BY DEF Told
    <2>2. StackFor(e, o) = StackFor(d, o) \/ o \in e.push
      BY DEF Told
    <2>3. d.push \subseteq e.push
      BY DEF Told
    <2> QED BY <2>1, <2>2, <2>3
  <1>3. ASSUME NEW s \in Surfaces PROVE e.owner[s] = r.owner[s] \/ s \in e.bags
    <2>1. d.owner[s] = r.owner[s] \/ s \in d.bags
      BY DEF Told
    <2>2. e.owner[s] = d.owner[s] \/ s \in e.bags
      BY DEF Told
    <2>3. d.bags \subseteq e.bags
      BY DEF Told
    <2> QED BY <2>1, <2>2, <2>3
  <1> QED BY <1>1, <1>2, <1>3 DEF Told

LEMMA GoesOn ==
  ASSUME NEW r, NEW d, NEW e, Told(r, d), Told(d, e), Stays(r, d), Stays(d, e)
  PROVE  Told(r, e) /\ Stays(r, e)
  <1>1. Told(r, e)
    BY ToldOn
  <1>2. Stays(r, e)
    BY DEF Stays
  <1> QED BY <1>1, <1>2

(* What an output shows is a workspace, on that output. *)
LEMMA ShownIsHere ==
  ASSUME NEW r, Sound(r), NEW o \in OutIds
  PROVE  \/ r.shown[o] = NoHandle
         \/ r.shown[o] \in DOMAIN r.ws /\ r.ws[r.shown[o]].output = o
  BY DEF Sound, Showing, Placed

(* 0 is no handle. *)
LEMMA NoHandleFree ==
  ASSUME NEW r, Sound(r)
  PROVE  NoHandle \notin DOMAIN r.ws /\ r.next \notin DOMAIN r.ws /\ r.next \in Nat \ {0}
         /\ DOMAIN r.ws \subseteq Nat
  <1>1. r.next \in Nat \ {0}
    BY RegistryFields DEF Sound
  <1>2. \A h \in DOMAIN r.ws : h \in 1 .. r.next - 1
    BY DEF Sound, Numbered
  <1> QED BY <1>1, <1>2 DEF NoHandle

(* What is in a workspace. *)
LEMMA WorkspaceIs ==
  ASSUME NEW r, Sound(r), NEW h \in DOMAIN r.ws
  PROVE  /\ r.ws[h].output \in OutIds /\ r.ws[h].prefs \in Seq(Names)
         /\ r.ws[h].members \in Seq(Surfaces) /\ r.ws[h].persistent \in BOOLEAN
         /\ IsInjective(r.ws[h].members) /\ IsInjective(r.ws[h].prefs)
         /\ h \in ToSet(r.pos[r.ws[h].output])
  <1>1. r.ws[h] \in Workspaces
    BY RegistryFields, MapsIn DEF Sound
  <1>2. /\ r.ws[h].output \in OutIds /\ r.ws[h].prefs \in Seq(Names)
        /\ r.ws[h].members \in Seq(Surfaces) /\ r.ws[h].persistent \in BOOLEAN
    BY <1>1 DEF Workspaces
  <1>3. IsInjective(r.ws[h].members) /\ IsInjective(r.ws[h].prefs)
    BY DEF Sound, Owned, Preferring
  <1>4. h \in ToSet(r.pos[r.ws[h].output])
    BY <1>2 DEF Sound, Placed
  <1> QED BY <1>2, <1>3, <1>4

(* d is r with a workspace v more, at the end of the list of output o. *)
IsAdded(r, d, o, v) ==
  /\ Sound(d) /\ Told(r, d) /\ Stays(r, d)
  /\ DOMAIN d.ws = DOMAIN r.ws \cup {r.next} /\ d.ws[r.next] = v
  /\ \A h \in DOMAIN r.ws : d.ws[h] = r.ws[h]
  /\ d.pos = [r.pos EXCEPT ![o] = Append(@, r.next)] /\ d.pos[o] # <<>>
  /\ d.next = r.next + 1 /\ d.shown = r.shown /\ d.owner = r.owner
  /\ d.last = r.last /\ d.push = r.push /\ d.bags = r.bags

LEMMA AddedSound ==
  ASSUME NEW r, Sound(r), NEW o \in OutIds, NEW q \in Seq(Names), IsInjective(q),
         NEW b \in BOOLEAN
  PROVE  IsAdded(r, Added(r, o, q, b), o, NewWorkspace(o, q, b))
  <1> DEFINE n == r.next
             v == NewWorkspace(o, q, b)
             w == Put(r.ws, n, v)
             p == [r.pos EXCEPT ![o] = Append(@, n)]
             d == Added(r, o, q, b)
  <1>0. /\ r \in Registries
        /\ r.ws \in Maps /\ r.pos \in [OutIds -> Seq(Nat)] /\ r.shown \in [OutIds -> Nat]
        /\ r.owner \in [Surfaces -> Nat] /\ n \in Nat \ {0}
        /\ r.last \in [Names -> Nat] /\ r.push \in SUBSET OutIds
        /\ r.bags \in SUBSET Surfaces
    BY RegistryFields DEF Sound
  <1>1. NoHandle \notin DOMAIN r.ws /\ n \notin DOMAIN r.ws /\ DOMAIN r.ws \subseteq Nat
    BY NoHandleFree
  <1>2. /\ v \in Workspaces /\ v.output = o /\ v.prefs = q /\ v.members = <<>>
    BY DEF NewWorkspace, Workspaces
  <1>3. d = [r EXCEPT !.ws = w, !.pos = p, !.next = n + 1]
    BY <1>0 DEF Added, Registries
  <1>3a. n + 1 \in Nat \ {0}
    BY <1>0
  <1> HIDE DEF v, n, d, p
  <1>4. /\ w \in Maps /\ DOMAIN w = DOMAIN r.ws \cup {n} /\ w[n] = v
        /\ \A h \in DOMAIN r.ws : w[h] = r.ws[h]
    <2> DEFINE u == r.ws
    <2>1. u \in Maps /\ n \in Nat /\ n \notin DOMAIN u /\ v \in Workspaces
      BY <1>0, <1>1, <1>2
    <2> HIDE DEF u, w
    <2>2. IsPut(u, n, v, Put(u, n, v))
      BY <2>1, MapAdd
    <2>3. w = Put(u, n, v)
      BY DEF u, w
    <2>4. u = r.ws
      BY DEF u
    <2> QED BY <2>2, <2>3, <2>4 DEF IsPut
  <1>5. /\ p \in [OutIds -> Seq(Nat)] /\ p[o] = Append(r.pos[o], n)
        /\ \A x \in OutIds \ {o} : p[x] = r.pos[x]
    <2>1. Append(r.pos[o], n) \in Seq(Nat)
      BY <1>0
    <2> QED BY <1>0, <2>1 DEF p
  <1>6. ToSet(p[o]) = ToSet(r.pos[o]) \cup {n} /\ p[o] # <<>>
        /\ (IsInjective(r.pos[o]) /\ n \notin ToSet(r.pos[o]) => IsInjective(p[o]))
    <2> DEFINE a == r.pos[o]
    <2>1. a \in Seq(Nat) /\ n \in Nat
      BY <1>0
    <2> HIDE DEF a
    <2>2. /\ ToSet(Append(a, n)) = ToSet(a) \cup {n} /\ Append(a, n) # <<>>
          /\ IsInjective(a) /\ n \notin ToSet(a) => IsInjective(Append(a, n))
      BY <2>1, AppendList
    <2> QED BY <1>5, <2>2 DEF a
  <1> HIDE DEF w
  <1>7. /\ d \in Registries /\ d.ws = w /\ d.pos = p /\ d.next = n + 1
        /\ d.shown = r.shown /\ d.owner = r.owner /\ d.last = r.last
        /\ d.push = r.push /\ d.bags = r.bags
    BY <1>0, <1>3, <1>3a, <1>4, <1>5 DEF Registries
  <1>8. Numbered(w, n + 1, r.last)
    <2>1. Numbered(r.ws, n, r.last)
      BY DEF Sound, n
    <2> DEFINE k == n + 1
    <2>2. k \in Nat /\ n \in 1 .. k - 1 /\ \A i \in 0 .. n - 1 : i \in 0 .. k - 1
      BY <1>0
    <2>3. \A i \in 1 .. n - 1 : i \in 1 .. k - 1
      BY <1>0
    <2> HIDE DEF k
    <2>4. Numbered(w, k, r.last)
      BY <1>4, <2>1, <2>2, <2>3 DEF Numbered
    <2> QED BY <2>4 DEF k
  <1>9. Preferring(w)
    BY <1>2, <1>4 DEF Sound, Preferring
  <1>10. Owned(w, r.owner)
    <2>1. Owned(r.ws, r.owner)
      BY DEF Sound
    <2>2. ToSet(v.members) = {} /\ IsInjective(v.members)
      BY <1>2, EmptyList
    <2>3. \A s \in Surfaces : r.owner[s] # n
      BY <1>0, <1>1, <2>1 DEF Owned, NoHandle
    <2>4. ASSUME NEW h \in DOMAIN w
          PROVE  /\ IsInjective(w[h].members)
                 /\ \A s \in Surfaces : s \in ToSet(w[h].members) <=> r.owner[s] = h
      BY <1>4, <2>1, <2>2, <2>3, <2>4 DEF Owned
    <2> QED BY <1>4, <2>1, <2>4 DEF Owned
  <1>11. Placed(w, p)
    <2>1. Placed(r.ws, r.pos)
      BY DEF Sound
    <2>2. ASSUME NEW x \in OutIds
          PROVE  /\ IsInjective(p[x])
                 /\ \A h : h \in ToSet(p[x]) <=> h \in DOMAIN w /\ w[h].output = x
      <3>1. CASE x = o
        BY <1>1, <1>2, <1>4, <1>6, <2>1, <3>1 DEF Placed
      <3>2. CASE x # o
        BY <1>1, <1>2, <1>4, <1>5, <2>1, <3>2 DEF Placed
      <3> QED BY <3>1, <3>2
    <2> QED BY <2>2 DEF Placed
  <1>12. Showing(p, r.shown)
    BY <1>5, <1>6 DEF Sound, Showing
  <1>13. Sound(d)
    BY <1>7, <1>8, <1>9, <1>10, <1>11, <1>12 DEF Sound
  <1>14. Told(r, d)
    <2>1. ASSUME NEW x \in OutIds PROVE StackFor(d, x) = StackFor(r, x)
      <3>1. r.shown[x] = NoHandle \/ r.shown[x] \in DOMAIN r.ws
        BY ShownIsHere
      <3> QED BY <1>4, <1>7, <3>1 DEF StackFor
    <2> QED BY <1>7, <2>1 DEF Told
  <1>15. Stays(r, d)
    BY <1>5, <1>6, <1>7 DEF Stays
  <1> QED BY <1>4, <1>6, <1>7, <1>13, <1>14, <1>15 DEF IsAdded, d, v, p, n

(* An output made sure of. *)
LEMMA EnsureGood ==
  ASSUME NEW r, Good(r), NEW o \in OutIds, NEW name \in Names
  PROVE  LET d == EnsureOutput(r, o, name)
         IN  /\ Goes(r, d) /\ d.pos[o] # <<>> /\ d.owner = r.owner /\ d.bags = r.bags
             /\ d.next <= r.next + 1
  <1> DEFINE d == EnsureOutput(r, o, name)
             q == <<name>>
             n == r.next
             b == FALSE
             e == Added(r, o, q, b)
             sh == [r.shown EXCEPT ![o] = n]
  <1>0. Sound(r) /\ Settled(r)
    BY DEF Good
  <1>1. CASE r.pos[o] # <<>>
    <2>1. d = r
      BY <1>1 DEF EnsureOutput
    <2>2. Told(r, r) /\ Stays(r, r)
      BY DEF Told, Stays
    <2>3. r.next <= r.next + 1
      BY <1>0, NoHandleFree
    <2> HIDE DEF d
    <2> QED BY <1>1, <2>1, <2>2, <2>3 DEF Goes, d
  <1>2. CASE r.pos[o] = <<>>
    <2>1. Sound(r) /\ o \in OutIds /\ q \in Seq(Names) /\ IsInjective(q) /\ b \in BOOLEAN
      BY <1>0, OneList
    <2> HIDE DEF q, b, d
    <2>2. /\ Sound(e) /\ Told(r, e) /\ Stays(r, e)
          /\ DOMAIN e.ws = DOMAIN r.ws \cup {n} /\ e.ws[n] = NewWorkspace(o, q, b)
          /\ e.pos = [r.pos EXCEPT ![o] = Append(@, n)] /\ e.pos[o] # <<>>
          /\ e.next = n + 1 /\ e.shown = r.shown /\ e.owner = r.owner
          /\ e.last = r.last /\ e.push = r.push /\ e.bags = r.bags
      <3>1. IsAdded(r, e, o, NewWorkspace(o, q, b))
        BY <2>1, AddedSound
      <3> HIDE DEF e
      <3> QED BY <3>1 DEF IsAdded
    <2>3. d = [e EXCEPT !.shown[o] = n]
      BY <1>2 DEF EnsureOutput, q, b, d
    <2>4. /\ e \in Registries /\ r.shown \in [OutIds -> Nat] /\ n \in Nat \ {0}
      BY <1>0, <2>2, RegistryFields DEF Sound
    <2> HIDE DEF e, n
    <2>5. /\ d \in Registries /\ d.ws = e.ws /\ d.pos = e.pos /\ d.shown = sh
          /\ d.next = e.next /\ d.owner = e.owner /\ d.last = e.last
          /\ d.push = e.push /\ d.bags = e.bags
      BY <2>2, <2>3, <2>4 DEF Registries
    <2>6. n \in ToSet(e.pos[o])
      <3>1. n \in DOMAIN e.ws /\ e.ws[n].output = o
        BY <2>2 DEF NewWorkspace
      <3> QED BY <2>2, <3>1 DEF Sound, Placed
    <2>7. \A x \in OutIds : sh[x] = IF x = o THEN n ELSE r.shown[x]
      BY <2>4
    <2> HIDE DEF sh
    <2>8. Showing(d.pos, d.shown)
      <3>1. Showing(e.pos, r.shown)
        BY <2>2 DEF Sound
      <3> QED BY <2>5, <2>6, <2>7, <3>1 DEF Showing
    <2>9. Sound(d)
      BY <2>2, <2>5, <2>8 DEF Sound
    <2>10. Settled(d)
      <3>1. ASSUME NEW x \in OutIds, d.pos[x] # <<>> PROVE d.shown[x] # NoHandle
        <4>1. CASE x = o
          BY <2>4, <2>5, <2>7, <4>1 DEF NoHandle
        <4>2. CASE x # o
          <5>1. d.pos[x] = r.pos[x]
            BY <2>2, <2>5, <4>2, <1>0, RegistryFields DEF Sound
          <5> QED BY <1>0, <2>5, <2>7, <3>1, <4>2, <5>1 DEF Settled
        <4> QED BY <4>1, <4>2
      <3> QED BY <3>1 DEF Settled
    <2>11. Told(r, d)
      <3>1. ASSUME NEW x \in OutIds PROVE StackFor(d, x) = StackFor(r, x) \/ x \in d.push
        <4>1. CASE x = o
          <5>1. r.shown[o] = NoHandle
            BY <1>0, <1>2, EmptyList DEF Sound, Showing
          <5>2. StackFor(r, x) = <<>>
            BY <4>1, <5>1 DEF StackFor
          <5>3. d.shown[x] = n /\ n # NoHandle
            BY <2>4, <2>5, <2>7, <4>1 DEF NoHandle
          <5>4. d.ws[n].members = <<>>
            BY <2>2, <2>5 DEF NewWorkspace
          <5>5. StackFor(d, x) = <<>>
            BY <5>3, <5>4 DEF StackFor
          <5> QED BY <5>2, <5>5
        <4>2. CASE x # o
          <5>1. StackFor(d, x) = StackFor(e, x)
            BY <2>2, <2>5, <2>7, <4>2 DEF StackFor
          <5> QED BY <2>2, <2>5, <5>1 DEF Told
        <4> QED BY <4>1, <4>2
      <3> QED BY <2>2, <2>5, <3>1 DEF Told
    <2>12. Stays(r, d)
      BY <2>2, <2>5 DEF Stays
    <2>13. d.next <= n + 1
      BY <2>2, <2>4, <2>5
    <2> QED BY <2>2, <2>5, <2>9, <2>10, <2>11, <2>12, <2>13 DEF Goes, Good, d, n
  <1> QED BY <1>1, <1>2

(* A registry whose workspaces stay, with other members, owners, effects   *)
(* and shown workspaces.                                                   *)
LEMMA Reworked ==
  ASSUME NEW r, Sound(r), NEW d, d \in Registries,
         DOMAIN d.ws = DOMAIN r.ws, \A h \in DOMAIN r.ws : d.ws[h].output = r.ws[h].output,
         Preferring(d.ws), Owned(d.ws, d.owner), d.pos = r.pos, d.next = r.next,
         Showing(r.pos, d.shown), \A x \in Names : d.last[x] \in 0 .. r.next - 1
  PROVE  Sound(d) /\ Stays(r, d)
  <1>1. Numbered(d.ws, d.next, d.last)
    BY DEF Sound, Numbered
  <1>2. Placed(d.ws, d.pos)
    BY DEF Sound, Placed
  <1>3. Stays(r, d)
    BY DEF Stays
  <1> QED BY <1>1, <1>2, <1>3 DEF Sound

(* Owners, when the members of one workspace change. *)
LEMMA OwnedMembers ==
  ASSUME NEW w \in Maps, NEW own, Owned(w, own), NEW h \in DOMAIN w,
         NEW m \in Seq(Surfaces), IsInjective(m), NEW own2,
         \A s \in Surfaces : s \in ToSet(m) <=> own2[s] = h,
         \A s \in Surfaces, k \in DOMAIN w \ {h} : own2[s] = k <=> own[s] = k,
         \A s \in Surfaces : own2[s] \in DOMAIN w \cup {NoHandle}
  PROVE  Owned([w EXCEPT ![h].members = m], own2)
  <1> DEFINE d == [w EXCEPT ![h].members = m]
  <1>1. /\ DOMAIN d = DOMAIN w /\ d[h].members = m
        /\ \A k \in DOMAIN w \ {h} : d[k] = w[k]
    <2>1. w \in Maps /\ h \in DOMAIN w /\ m \in Seq(Surfaces)
      OBVIOUS
    <2> QED BY ONLY <2>1, MapMembers
  <1> HIDE DEF d
  <1>2. ASSUME NEW k \in DOMAIN d
        PROVE  /\ IsInjective(d[k].members)
               /\ \A s \in Surfaces : s \in ToSet(d[k].members) <=> own2[s] = k
    <2>1. CASE k = h
      BY <1>1, <2>1
    <2>2. CASE k # h
      BY <1>1, <1>2, <2>2 DEF Owned
    <2> QED BY <2>1, <2>2
  <1>3. Owned(d, own2)
    BY <1>1, <1>2 DEF Owned
  <1> QED BY <1>3 DEF d

(* The registry without a workspace, its windows in none and its output     *)
(* showing nothing in its place.                                           *)
Emptied(r, h) ==
  [r EXCEPT !.ws = [k \in DOMAIN @ \ {h} |-> @[k]],
            !.pos[r.ws[h].output] = Without(@, h),
            !.owner = [s \in Surfaces |-> IF @[s] = h THEN NoHandle ELSE @[s]],
            !.shown = [x \in OutIds |-> IF @[x] = h THEN NoHandle ELSE @[x]]]

IsEmptied(r, h, e) ==
  /\ Sound(e)
  /\ DOMAIN e.ws = DOMAIN r.ws \ {h} /\ \A k \in DOMAIN e.ws : e.ws[k] = r.ws[k]
  /\ e.pos[r.ws[h].output] = Without(r.pos[r.ws[h].output], h)
  /\ \A x \in OutIds \ {r.ws[h].output} : e.pos[x] = r.pos[x]
  /\ \A s \in Surfaces : e.owner[s] = IF r.owner[s] = h THEN NoHandle ELSE r.owner[s]
  /\ \A x \in OutIds : e.shown[x] = IF r.shown[x] = h THEN NoHandle ELSE r.shown[x]
  /\ e.next = r.next /\ e.last = r.last /\ e.push = r.push /\ e.bags = r.bags

LEMMA EmptiedSound ==
  ASSUME NEW r, Sound(r), NEW h \in DOMAIN r.ws
  PROVE  IsEmptied(r, h, Emptied(r, h))
  <1> DEFINE o == r.ws[h].output
             w == [k \in DOMAIN r.ws \ {h} |-> r.ws[k]]
             l == Without(r.pos[o], h)
             p == [r.pos EXCEPT ![o] = l]
             own == [s \in Surfaces |-> IF r.owner[s] = h THEN NoHandle ELSE r.owner[s]]
             sh == [x \in OutIds |-> IF r.shown[x] = h THEN NoHandle ELSE r.shown[x]]
             d == Emptied(r, h)
  <1>0. /\ r \in Registries
        /\ r.ws \in Maps /\ r.pos \in [OutIds -> Seq(Nat)] /\ r.shown \in [OutIds -> Nat]
        /\ r.owner \in [Surfaces -> Nat] /\ r.next \in Nat \ {0}
        /\ r.last \in [Names -> Nat] /\ r.push \in SUBSET OutIds
        /\ r.bags \in SUBSET Surfaces
    BY RegistryFields DEF Sound
  <1>1. o \in OutIds
    BY WorkspaceIs
  <1>2. NoHandle \notin DOMAIN r.ws
    BY NoHandleFree
  <1>3. /\ Numbered(r.ws, r.next, r.last) /\ Preferring(r.ws)
        /\ Owned(r.ws, r.owner) /\ Placed(r.ws, r.pos) /\ Showing(r.pos, r.shown)
    BY DEF Sound
  <1>4. d = [r EXCEPT !.ws = w, !.pos = p, !.owner = own, !.shown = sh]
    BY <1>0 DEF Emptied, Registries
  <1>5. w \in Maps /\ DOMAIN w = DOMAIN r.ws \ {h} /\ \A k \in DOMAIN w : w[k] = r.ws[k]
    <2> DEFINE u == r.ws
    <2>1. u \in Maps
      BY <1>0
    <2>2. [k \in DOMAIN u \ {h} |-> u[k]] \in Maps
      BY <2>1, MapDrop
    <2> QED BY <2>2
  <1>6. l \in Seq(Nat) /\ ToSet(l) = ToSet(r.pos[o]) \ {h} /\ IsInjective(l)
    <2> DEFINE a == r.pos[o]
    <2>1. a \in Seq(Nat) /\ IsInjective(a)
      BY <1>0, <1>1, <1>3 DEF Placed
    <2> HIDE DEF a
    <2>2. /\ Without(a, h) \in Seq(Nat) /\ ToSet(Without(a, h)) = ToSet(a) \ {h}
          /\ IsInjective(Without(a, h))
      BY <2>1, WithoutList
    <2> QED BY <2>2 DEF a
  <1> HIDE DEF d, w, l, o
  <1>7. /\ p \in [OutIds -> Seq(Nat)] /\ p[o] = l
        /\ \A x \in OutIds \ {o} : p[x] = r.pos[x]
    BY <1>0, <1>1, <1>6
  <1>8. /\ own \in [Surfaces -> Nat]
        /\ \A s \in Surfaces : own[s] = IF r.owner[s] = h THEN NoHandle ELSE r.owner[s]
    BY <1>0 DEF NoHandle
  <1>9. /\ sh \in [OutIds -> Nat]
        /\ \A x \in OutIds : sh[x] = IF r.shown[x] = h THEN NoHandle ELSE r.shown[x]
    BY <1>0 DEF NoHandle
  <1> HIDE DEF p, own, sh
  <1>10. /\ d \in Registries /\ d.ws = w /\ d.pos = p /\ d.next = r.next
         /\ d.shown = sh /\ d.owner = own /\ d.last = r.last
         /\ d.push = r.push /\ d.bags = r.bags
    BY <1>0, <1>4, <1>5, <1>7, <1>8, <1>9 DEF Registries
  <1>11. Numbered(w, r.next, r.last) /\ Preferring(w)
    BY <1>3, <1>5 DEF Numbered, Preferring
  <1>12. Owned(w, own)
    <2>1. ASSUME NEW k \in DOMAIN w
          PROVE  /\ IsInjective(w[k].members)
                 /\ \A s \in Surfaces : s \in ToSet(w[k].members) <=> own[s] = k
      BY <1>2, <1>3, <1>5, <1>8 DEF Owned
    <2>2. \A s \in Surfaces : own[s] \in DOMAIN w \cup {NoHandle}
      BY <1>3, <1>5, <1>8 DEF Owned
    <2> QED BY <2>1, <2>2 DEF Owned
  <1>13. Placed(w, p)
    <2>1. ASSUME NEW x \in OutIds
          PROVE  /\ IsInjective(p[x])
                 /\ \A k : k \in ToSet(p[x]) <=> k \in DOMAIN w /\ w[k].output = x
      <3>1. CASE x = o
        <4>1. \A k : k \in ToSet(r.pos[o]) <=> k \in DOMAIN r.ws /\ r.ws[k].output = o
          BY <1>1, <1>3 DEF Placed
        <4> QED BY <1>5, <1>6, <1>7, <3>1, <4>1
      <3>2. CASE x # o
        <4>1. /\ IsInjective(r.pos[x])
              /\ \A k : k \in ToSet(r.pos[x]) <=> k \in DOMAIN r.ws /\ r.ws[k].output = x
          BY <1>3 DEF Placed
        <4> QED BY <1>5, <1>7, <3>2, <4>1 DEF o
      <3> QED BY <3>1, <3>2
    <2> QED BY <2>1 DEF Placed
  <1>14. Showing(p, sh)
    <2>1. ASSUME NEW x \in OutIds PROVE sh[x] \in ToSet(p[x]) \cup {NoHandle}
      <3>1. r.shown[x] \in ToSet(r.pos[x]) \cup {NoHandle}
        BY <1>3 DEF Showing
      <3> QED BY <1>6, <1>7, <1>9, <3>1
    <2> QED BY <2>1 DEF Showing
  <1>15. Sound(d)
    BY <1>10, <1>11, <1>12, <1>13, <1>14 DEF Sound
  <1> QED BY <1>5, <1>7, <1>8, <1>9, <1>10, <1>15 DEF IsEmptied, d, o, l

(* A workspace is the only one of its output. *)
Alone(r, h) == \A k \in DOMAIN r.ws \ {h} : r.ws[k].output # r.ws[h].output

(* What destroying workspace h does to a registry. *)
IsDestroyed(r, h, d) ==
  /\ Goes(r, d) /\ (Alone(r, h) \/ d.next = r.next)
  /\ d.push \subseteq r.push \cup {r.ws[h].output}
  /\ r.ws[h].members = <<>> => d.owner = r.owner /\ d.bags = r.bags

(* The registry a workspace is gone from, with one in its place if there   *)
(* was no other.                                                           *)
Replaced(r, h, name) ==
  LET e == Emptied(r, h)
      o == r.ws[h].output
  IN  IF e.pos[o] = <<>> THEN Added(e, o, <<name>>, FALSE) ELSE e

IsReplaced(r, h, e) ==
  /\ Alone(r, h) \/ e.next = r.next
  /\ Sound(e) /\ h \notin DOMAIN e.ws
  /\ \A k \in DOMAIN r.ws \ {h} : k \in DOMAIN e.ws /\ e.ws[k] = r.ws[k]
  /\ e.pos[r.ws[h].output] # <<>>
  /\ \A x \in OutIds \ {r.ws[h].output} : e.pos[x] = r.pos[x]
  /\ \A s \in Surfaces : e.owner[s] = IF r.owner[s] = h THEN NoHandle ELSE r.owner[s]
  /\ \A x \in OutIds : e.shown[x] = IF r.shown[x] = h THEN NoHandle ELSE r.shown[x]
  /\ e.last = r.last /\ e.push = r.push /\ e.bags = r.bags

LEMMA ReplacedSound ==
  ASSUME NEW r, Sound(r), NEW h \in DOMAIN r.ws, NEW name \in Names
  PROVE  IsReplaced(r, h, Replaced(r, h, name))
  <1> DEFINE e == Emptied(r, h)
             o == r.ws[h].output
             q == <<name>>
             b == FALSE
             v == NewWorkspace(o, q, b)
             f == Added(e, o, q, b)
             d == Replaced(r, h, name)
  <1>1. IsEmptied(r, h, e)
    BY EmptiedSound
  <1>2. o \in OutIds
    BY WorkspaceIs
  <1>3. d = IF e.pos[o] = <<>> THEN f ELSE e
    BY DEF Replaced
  <1>4. h # r.next
    BY NoHandleFree
  <1> HIDE DEF d, e, o
  <1>5. CASE e.pos[o] # <<>>
    BY <1>1, <1>3, <1>5 DEF IsEmptied, IsReplaced, d, o
  <1>6. CASE e.pos[o] = <<>>
    <2>0. Alone(r, h)
      <3>1. SUFFICES ASSUME NEW k \in DOMAIN r.ws \ {h}, r.ws[k].output = o PROVE FALSE
        BY DEF Alone, o
      <3>2. k \in DOMAIN e.ws /\ e.ws[k].output = o /\ Sound(e)
        BY <1>1, <3>1 DEF IsEmptied
      <3>3. k \in ToSet(e.pos[o])
        BY <1>2, <3>2 DEF Sound, Placed
      <3> QED BY <1>6, <3>3, EmptyList
    <2>1. Sound(e) /\ o \in OutIds /\ q \in Seq(Names) /\ IsInjective(q) /\ b \in BOOLEAN
      BY <1>1, <1>2, OneList DEF IsEmptied
    <2> HIDE DEF q, b
    <2>2. IsAdded(e, f, o, v)
      BY <2>1, AddedSound
    <2>3. d = f
      BY <1>3, <1>6
    <2> HIDE DEF f, v
    <2>4. /\ Sound(d) /\ DOMAIN d.ws = DOMAIN e.ws \cup {e.next}
          /\ \A k \in DOMAIN e.ws : d.ws[k] = e.ws[k]
          /\ d.pos = [e.pos EXCEPT ![o] = Append(@, e.next)] /\ d.pos[o] # <<>>
          /\ d.shown = e.shown /\ d.owner = e.owner
          /\ d.last = e.last /\ d.push = e.push /\ d.bags = e.bags
      BY <2>2, <2>3 DEF IsAdded
    <2>5. \A x \in OutIds \ {o} : d.pos[x] = e.pos[x]
      <3>1. e.pos \in [OutIds -> Seq(Nat)]
        BY <2>1, RegistryFields DEF Sound
      <3> QED BY <2>4, <3>1
    <2>6. /\ DOMAIN e.ws = DOMAIN r.ws \ {h} /\ \A k \in DOMAIN e.ws : e.ws[k] = r.ws[k]
          /\ \A x \in OutIds \ {o} : e.pos[x] = r.pos[x]
          /\ e.next = r.next /\ e.last = r.last /\ e.push = r.push /\ e.bags = r.bags
      BY <1>1 DEF IsEmptied, o
    <2>7. /\ \A s \in Surfaces : d.owner[s] = IF r.owner[s] = h THEN NoHandle ELSE r.owner[s]
          /\ \A x \in OutIds : d.shown[x] = IF r.shown[x] = h THEN NoHandle ELSE r.shown[x]
      BY <1>1, <2>4 DEF IsEmptied
    <2>8. /\ h \notin DOMAIN d.ws
          /\ \A k \in DOMAIN r.ws \ {h} : k \in DOMAIN d.ws /\ d.ws[k] = r.ws[k]
      BY <1>4, <2>4, <2>6
    <2>9. \A x \in OutIds \ {o} : d.pos[x] = r.pos[x]
      BY <2>5, <2>6
    <2> QED BY <2>0, <2>4, <2>6, <2>7, <2>8, <2>9 DEF IsReplaced, o, d
  <1> QED BY <1>5, <1>6

(* a is r with the workspaces, places and next handle of e.                *)
WithPlaces(r, a, e) == a = [r EXCEPT !.ws = e.ws, !.pos = e.pos, !.next = e.next]

(* Adding a workspace does not depend on the owners and what is shown.     *)
LEMMA AddedAfter ==
  ASSUME NEW r \in Registries, NEW w, NEW p, NEW own, NEW sh, NEW x, NEW y,
         x = [r EXCEPT !.ws = w, !.pos = p],
         y = [r EXCEPT !.ws = w, !.pos = p, !.owner = own, !.shown = sh],
         NEW o, NEW q, NEW b
  PROVE  WithPlaces(r, Added(x, o, q, b), Added(y, o, q, b))
  <1> DEFINE n == r.next
             u == Put(w, n, NewWorkspace(o, q, b))
             l == [p EXCEPT ![o] = Append(@, n)]
             a == Added(x, o, q, b)
             c == Added(y, o, q, b)
  <1>1. x.ws = w /\ x.pos = p /\ x.next = n /\ y.ws = w /\ y.pos = p /\ y.next = n
    BY DEF Registries
  <1>2. a = [x EXCEPT !.ws = u, !.pos = l, !.next = n + 1]
    BY <1>1 DEF Added
  <1>3. c = [y EXCEPT !.ws = u, !.pos = l, !.next = n + 1]
    BY <1>1 DEF Added
  <1> HIDE DEF a, c, u, l
  <1>4. c.ws = u /\ c.pos = l /\ c.next = n + 1
    BY <1>3 DEF Registries
  <1>5. a = [r EXCEPT !.ws = u, !.pos = l, !.next = n + 1]
    BY <1>2 DEF Registries
  <1>6. a = [r EXCEPT !.ws = c.ws, !.pos = c.pos, !.next = c.next]
    BY <1>4, <1>5
  <1> QED BY <1>6 DEF WithPlaces, a, c

(* What Destroy has when the workspace is gone: the workspaces and places  *)
(* of the registry it is replaced in.                                      *)
Remaining(r, h, name) ==
  LET o    == r.ws[h].output
      rest == Without(r.pos[o], h)
      gone == [r EXCEPT !.ws = [k \in DOMAIN @ \ {h} |-> @[k]], !.pos[o] = rest]
  IN  IF rest = <<>> THEN Added(gone, o, <<name>>, FALSE) ELSE gone

LEMMA RemainingIs ==
  ASSUME NEW r, Sound(r), NEW h \in DOMAIN r.ws, NEW name
  PROVE  WithPlaces(r, Remaining(r, h, name), Replaced(r, h, name))
  <1> DEFINE o == r.ws[h].output
             rest == Without(r.pos[o], h)
             gone == [r EXCEPT !.ws = [k \in DOMAIN @ \ {h} |-> @[k]], !.pos[o] = rest]
             q == <<name>>
             b == FALSE
             r1 == Remaining(r, h, name)
             e == Replaced(r, h, name)
             g == Emptied(r, h)
             w == [k \in DOMAIN r.ws \ {h} |-> r.ws[k]]
             p == [r.pos EXCEPT ![o] = rest]
             own == [s \in Surfaces |-> IF r.owner[s] = h THEN NoHandle ELSE r.owner[s]]
             sh == [x \in OutIds |-> IF r.shown[x] = h THEN NoHandle ELSE r.shown[x]]
  <1>0. r \in Registries /\ r.pos \in [OutIds -> Seq(Nat)]
    BY RegistryFields DEF Sound
  <1>1. o \in OutIds
    BY WorkspaceIs
  <1>2. gone = [r EXCEPT !.ws = w, !.pos = p]
    BY <1>0 DEF Registries
  <1>3. g = [r EXCEPT !.ws = w, !.pos = p, !.owner = own, !.shown = sh]
    BY <1>0 DEF Emptied, Registries
  <1>4. p[o] = rest
    BY <1>0, <1>1
  <1>5. e = IF g.pos[o] = <<>> THEN Added(g, o, q, b) ELSE g
    BY DEF Replaced
  <1>5a. r1 = IF rest = <<>> THEN Added(gone, o, q, b) ELSE gone
    BY DEF Remaining
  <1> HIDE DEF gone, g, w, p, own, sh, rest, e, o, q, b, r1
  <1>6. g.ws = w /\ g.pos = p /\ g.next = r.next
    BY <1>0, <1>3 DEF Registries
  <1>7. CASE rest # <<>>
    <2>1. e = g /\ r1 = gone
      BY <1>4, <1>5, <1>5a, <1>6, <1>7
    <2>2. r1 = [r EXCEPT !.ws = e.ws, !.pos = e.pos, !.next = e.next]
      BY <1>0, <1>2, <1>6, <2>1 DEF Registries
    <2> QED BY <2>2 DEF r1, e, WithPlaces
  <1>8. CASE rest = <<>>
    <2>1. e = Added(g, o, q, b) /\ r1 = Added(gone, o, q, b)
      BY <1>4, <1>5, <1>5a, <1>6, <1>8
    <2>2. WithPlaces(r, Added(gone, o, q, b), Added(g, o, q, b))
      BY <1>0, <1>2, <1>3, AddedAfter
    <2>3. WithPlaces(r, r1, e)
      BY <2>1, <2>2
    <2> QED BY <2>3 DEF r1, e
  <1> QED BY <1>7, <1>8

(* Destroying a workspace hands its windows to a workspace of the same     *)
(* output and tells of every stack and owner that changed by it.           *)
LEMMA DestroyGood ==
  ASSUME NEW r, Good(r), NEW h \in DOMAIN r.ws, NEW name \in Names
  PROVE  IsDestroyed(r, h, Destroy(r, h, name))
  <1> DEFINE o == r.ws[h].output
             m == r.ws[h].members
             r1 == Remaining(r, h, name)
             e == Replaced(r, h, name)
             i == CHOOSE k \in DOMAIN r.pos[o] : r.pos[o][k] = h
             j == IF i <= Len(e.pos[o]) THEN i ELSE Len(e.pos[o])
             t == e.pos[o][j]
             inside == ToSet(m)
             M == e.ws[t].members
             M2 == M \o Kept(m, inside \ ToSet(M))
             w == [e.ws EXCEPT ![t].members = M2]
             own == [s \in Surfaces |-> IF s \in inside THEN t ELSE r.owner[s]]
             sh == [r.shown EXCEPT ![o] = IF r.shown[o] = h THEN t ELSE @]
             bs == r.bags \cup inside
             ps == IF r.shown[o] = h \/ (inside # {} /\ r.shown[o] = t)
                   THEN r.push \cup {o} ELSE r.push
             d == Destroy(r, h, name)
  <1>0. /\ r \in Registries /\ Sound(r) /\ Settled(r)
        /\ r.ws \in Maps /\ r.pos \in [OutIds -> Seq(Nat)] /\ r.shown \in [OutIds -> Nat]
        /\ r.owner \in [Surfaces -> Nat] /\ r.next \in Nat \ {0}
        /\ r.last \in [Names -> Nat] /\ r.push \in SUBSET OutIds
        /\ r.bags \in SUBSET Surfaces
    BY RegistryFields DEF Sound, Good
  <1>1. /\ o \in OutIds /\ m \in Seq(Surfaces) /\ IsInjective(m) /\ h \in ToSet(r.pos[o])
    BY <1>0, WorkspaceIs
  <1>2. /\ Sound(e) /\ h \notin DOMAIN e.ws
        /\ \A k \in DOMAIN r.ws \ {h} : k \in DOMAIN e.ws /\ e.ws[k] = r.ws[k]
        /\ e.pos[o] # <<>> /\ \A x \in OutIds \ {o} : e.pos[x] = r.pos[x]
        /\ \A s \in Surfaces : e.owner[s] = IF r.owner[s] = h THEN NoHandle ELSE r.owner[s]
        /\ \A x \in OutIds : e.shown[x] = IF r.shown[x] = h THEN NoHandle ELSE r.shown[x]
        /\ e.last = r.last /\ (Alone(r, h) \/ e.next = r.next)
    <2>1. IsReplaced(r, h, e)
      BY <1>0, ReplacedSound
    <2> HIDE DEF e
    <2> QED BY <2>1 DEF IsReplaced
  <1>3. r1 = [r EXCEPT !.ws = e.ws, !.pos = e.pos, !.next = e.next]
    BY <1>0, RemainingIs DEF WithPlaces
  <1>4. d = [r EXCEPT !.ws = w, !.pos = e.pos, !.next = e.next, !.owner = own,
                      !.shown = sh, !.bags = bs, !.push = ps]
    <2> DEFINE j1 == IF i <= Len(r1.pos[o]) THEN i ELSE Len(r1.pos[o])
               t1 == r1.pos[o][j1]
               own1 == [s \in Surfaces |-> IF s \in inside THEN t1 ELSE r1.owner[s]]
               M1 == r1.ws[t1].members
               w1 == [r1.ws EXCEPT ![t1].members = M1 \o Kept(m, inside \ ToSet(M1))]
               sh1 == [r1.shown EXCEPT ![o] = IF r.shown[o] = h THEN t1 ELSE @]
               ps1 == IF r.shown[o] = h \/ (inside # {} /\ r.shown[o] = t1)
                      THEN r1.push \cup {o} ELSE r1.push
    <2>1. d = [r1 EXCEPT
                !.ws[t1].members = @ \o Kept(m, inside \ ToSet(@)),
                !.owner = [s \in Surfaces |-> IF s \in inside THEN t1 ELSE @[s]],
                !.shown[o] = IF r.shown[o] = h THEN t1 ELSE @,
                !.bags = @ \cup inside,
                !.push = IF r.shown[o] = h \/ (inside # {} /\ r.shown[o] = t1)
                         THEN @ \cup {o} ELSE @]
      BY Zenon DEF Destroy, Remaining
    <2> HIDE DEF d, r1, e, i, o, m, inside
    <2>2. /\ r1.ws = e.ws /\ r1.pos = e.pos /\ r1.owner = r.owner /\ r1.shown = r.shown
          /\ r1.push = r.push /\ r1.bags = r.bags
      BY <1>0, <1>3 DEF Registries
    <2>3. t1 = t
      BY <2>2
    <2> HIDE DEF t1
    <2>4. d = [r1 EXCEPT !.ws = w1, !.owner = own1, !.shown = sh1,
                         !.bags = r1.bags \cup inside, !.push = ps1]
      BY <2>1
    <2>5. w1 = w /\ own1 = own /\ sh1 = sh /\ ps1 = ps /\ r1.bags \cup inside = bs
      BY <2>2, <2>3
    <2> HIDE DEF w1, own1, sh1, ps1, w, own, sh, ps, bs, t
    <2>6. d = [r1 EXCEPT !.ws = w, !.owner = own, !.shown = sh, !.bags = bs, !.push = ps]
      BY <2>4, <2>5
    <2> QED BY <1>0, <1>3, <2>6 DEF Registries
  <1>5. t \in ToSet(e.pos[o])
    <2> DEFINE p == r.pos[o]
               p2 == e.pos[o]
    <2>1. p \in Seq(Nat) /\ h \in ToSet(p)
      BY <1>0, <1>1
    <2>2. p2 \in Seq(Nat) /\ p2 # <<>>
      BY <1>1, <1>2, RegistryFields DEF Sound
    <2> HIDE DEF p, p2
    <2>3. /\ DOMAIN p = 1 .. Len(p) /\ \E k \in 1 .. Len(p) : p[k] = h
      BY <2>1, InList
    <2>4. (CHOOSE k \in DOMAIN p : p[k] = h) \in 1 .. Len(p)
      BY <2>3
    <2>5. i \in 1 .. Len(p)
      BY <2>4 DEF p
    <2> HIDE DEF i
    <2>6. Len(p) \in Nat /\ Len(p2) \in Nat \ {0}
      BY <2>1, <2>2, LenProperties, EmptySeq
    <2>7. j = IF i <= Len(p2) THEN i ELSE Len(p2)
      BY DEF p2
    <2> HIDE DEF j
    <2>8. j \in 1 .. Len(p2)
      BY <2>5, <2>6, <2>7
    <2>9. p2[j] \in ToSet(p2)
      BY <2>2, <2>8, InList
    <2> QED BY <2>9 DEF p2
  <1> HIDE DEF t, e, d, r1, o, m
  <1>6. t \in DOMAIN e.ws /\ e.ws[t].output = o /\ t # h /\ t # NoHandle /\ t \in Nat
    <2>1. t \in DOMAIN e.ws /\ e.ws[t].output = o
      BY <1>1, <1>2, <1>5 DEF Sound, Placed
    <2>2. NoHandle \notin DOMAIN e.ws /\ DOMAIN e.ws \subseteq Nat
      BY <1>2, NoHandleFree
    <2> QED BY <1>2, <2>1, <2>2
  <1>7. /\ e.ws \in Maps /\ e.pos \in [OutIds -> Seq(Nat)] /\ e.next \in Nat \ {0}
        /\ Numbered(e.ws, e.next, e.last) /\ Preferring(e.ws) /\ Owned(e.ws, e.owner)
        /\ Showing(e.pos, e.shown)
    BY <1>2, RegistryFields DEF Sound
  <1>8. M2 \in Seq(Surfaces) /\ ToSet(M2) = ToSet(M) \cup inside /\ IsInjective(M2)
    <2> DEFINE K == inside \ ToSet(M)
               k == Kept(m, K)
    <2>1. M \in Seq(Surfaces) /\ IsInjective(M)
      BY <1>2, <1>6, WorkspaceIs
    <2> HIDE DEF M, K, inside
    <2>2. k \in Seq(Surfaces) /\ ToSet(k) = ToSet(m) \cap K /\ IsInjective(k)
      BY <1>1, KeptList
    <2> HIDE DEF k
    <2>3. ToSet(k) = inside \ ToSet(M) /\ ToSet(M) \cap ToSet(k) = {}
      BY <2>2 DEF K, inside
    <2>4. M \o k \in Seq(Surfaces) /\ ToSet(M \o k) = ToSet(M) \cup ToSet(k) /\ IsInjective(M \o k)
      BY <2>1, <2>2, <2>3, ConcatList
    <2>5. ToSet(M) \cup ToSet(k) = ToSet(M) \cup inside
      BY <2>3
    <2>6. M2 = M \o k
      BY DEF k, K
    <2> HIDE DEF M2
    <2> QED BY <2>4, <2>5, <2>6
  <1> HIDE DEF M2
  <1>9. /\ w \in Maps /\ DOMAIN w = DOMAIN e.ws /\ w[t].members = M2
        /\ w[t].output = e.ws[t].output /\ w[t].prefs = e.ws[t].prefs
        /\ \A k \in DOMAIN e.ws \ {t} : w[k] = e.ws[k]
    <2> DEFINE u == e.ws
    <2>1. u \in Maps /\ t \in DOMAIN u /\ M2 \in Seq(Surfaces)
      BY <1>6, <1>7, <1>8
    <2> HIDE DEF u, w
    <2>2. LET f == [u EXCEPT ![t].members = M2]
          IN  /\ f \in Maps /\ DOMAIN f = DOMAIN u /\ f[t].members = M2
              /\ f[t].output = u[t].output /\ f[t].prefs = u[t].prefs
              /\ \A k \in DOMAIN u \ {t} : f[k] = u[k]
      BY <2>1, MapMembers
    <2> QED BY <2>2 DEF u, w
  <1>10. \A s \in Surfaces : s \in inside <=> r.owner[s] = h
    BY <1>0 DEF Sound, Owned, inside, m
  <1> HIDE DEF inside
  <1>11. /\ own \in [Surfaces -> Nat]
         /\ \A s \in Surfaces : own[s] = IF s \in inside THEN t ELSE r.owner[s]
    BY <1>0, <1>6
  <1> HIDE DEF own
  <1>12. Owned(w, own)
    <2>1. \A s \in Surfaces : s \in ToSet(M) <=> e.owner[s] = t
      BY <1>6, <1>7 DEF Owned
    <2>2. NoHandle \notin DOMAIN e.ws
      BY <1>2, NoHandleFree
    <2> HIDE DEF M
    <2>3. \A s \in Surfaces : s \in ToSet(M2) <=> own[s] = t
      BY <1>2, <1>8, <1>10, <1>11, <2>1
    <2>4. \A s \in Surfaces, k \in DOMAIN e.ws \ {t} : own[s] = k <=> e.owner[s] = k
      BY <1>2, <1>10, <1>11, <2>2
    <2>5. \A s \in Surfaces : own[s] \in DOMAIN e.ws \cup {NoHandle}
      <3>1. \A s \in Surfaces : e.owner[s] \in DOMAIN e.ws \cup {NoHandle}
        BY <1>7 DEF Owned
      <3> QED BY <1>2, <1>6, <1>10, <1>11, <3>1
    <2> DEFINE u == e.ws
               eo == e.owner
    <2>6. /\ u \in Maps /\ Owned(u, eo) /\ t \in DOMAIN u /\ M2 \in Seq(Surfaces)
          /\ IsInjective(M2) /\ \A s \in Surfaces : s \in ToSet(M2) <=> own[s] = t
          /\ \A s \in Surfaces, k \in DOMAIN u \ {t} : own[s] = k <=> eo[s] = k
          /\ \A s \in Surfaces : own[s] \in DOMAIN u \cup {NoHandle}
      BY <1>6, <1>7, <1>8, <2>3, <2>4, <2>5
    <2> HIDE DEF u, eo, w
    <2>7. Owned([u EXCEPT ![t].members = M2], own)
      BY <2>6, OwnedMembers
    <2> QED BY <2>7 DEF u, w
  <1> HIDE DEF w
  <1>13. /\ sh \in [OutIds -> Nat] /\ sh[o] = IF r.shown[o] = h THEN t ELSE r.shown[o]
         /\ \A x \in OutIds \ {o} : sh[x] = r.shown[x]
    BY <1>0, <1>1, <1>6
  <1>14. bs \in SUBSET Surfaces /\ ps \in SUBSET OutIds
    <2>1. inside \in SUBSET Surfaces
      BY <1>1, InList DEF inside
    <2> QED BY <1>0, <1>1, <2>1
  <1> HIDE DEF sh, bs, ps
  <1>15. /\ d \in Registries /\ d.ws = w /\ d.pos = e.pos /\ d.next = e.next
         /\ d.owner = own /\ d.shown = sh /\ d.last = r.last /\ d.bags = bs /\ d.push = ps
    BY <1>0, <1>4, <1>7, <1>9, <1>11, <1>13, <1>14 DEF Registries
  <1>16. \A x \in OutIds \ {o} : r.shown[x] # h
    <2>1. ASSUME NEW x \in OutIds, r.shown[x] = h PROVE x = o
      <3>1. h # NoHandle
        BY <1>0, NoHandleFree
      <3>2. r.ws[r.shown[x]].output = x
        BY <1>0, <2>1, <3>1, ShownIsHere
      <3> QED BY <2>1, <3>2 DEF o
    <2> QED BY <2>1
  <1>17. Sound(d)
    <2>1. Preferring(d.ws)
      BY <1>7, <1>9, <1>15 DEF Preferring
    <2>2. Showing(e.pos, d.shown)
      <3>1. ASSUME NEW x \in OutIds PROVE sh[x] \in ToSet(e.pos[x]) \cup {NoHandle}
        <4>1. e.shown[x] \in ToSet(e.pos[x]) \cup {NoHandle}
          BY <1>7 DEF Showing
        <4>2. e.shown[x] = IF r.shown[x] = h THEN NoHandle ELSE r.shown[x]
          BY <1>2
        <4> QED BY <1>5, <1>13, <1>16, <4>1, <4>2
      <3> QED BY <1>15, <3>1 DEF Showing
    <2>3. \A x \in Names : d.last[x] \in 0 .. e.next - 1
      BY <1>2, <1>7, <1>15 DEF Numbered
    <2>4. \A k \in DOMAIN e.ws : d.ws[k].output = e.ws[k].output
      BY <1>9, <1>15
    <2>5. /\ Sound(e) /\ d \in Registries /\ DOMAIN d.ws = DOMAIN e.ws
          /\ Owned(d.ws, d.owner) /\ d.pos = e.pos /\ d.next = e.next
      BY <1>2, <1>9, <1>12, <1>15
    <2> QED BY <2>1, <2>2, <2>3, <2>4, <2>5, Reworked
  <1>18. Settled(d)
    <2>1. ASSUME NEW x \in OutIds, d.pos[x] # <<>> PROVE d.shown[x] # NoHandle
      <3>1. CASE x = o
        <4>1. r.pos[o] # <<>>
          BY <1>1, EmptyList
        <4>2. r.shown[o] # NoHandle
          BY <1>0, <1>1, <4>1 DEF Settled
        <4> QED BY <1>6, <1>13, <1>15, <3>1, <4>2
      <3>2. CASE x # o
        BY <1>0, <1>2, <1>13, <1>15, <2>1, <3>2 DEF Settled
      <3> QED BY <3>1, <3>2
    <2> QED BY <2>1 DEF Settled
  <1>19. Stays(r, d)
    BY <1>2, <1>15 DEF Stays
  <1>20. Told(r, d)
    <2>1. r.push \subseteq ps /\ r.bags \subseteq bs
      BY DEF ps, bs
    <2>2. ASSUME NEW x \in OutIds, x \notin ps PROVE StackFor(d, x) = StackFor(r, x)
      <3>1. CASE r.shown[x] = NoHandle
        <4>1. d.shown[x] = NoHandle
          <5>1. CASE x = o
            <6>1. h # NoHandle
              BY <1>0, NoHandleFree
            <6> QED BY <1>13, <1>15, <3>1, <5>1, <6>1
          <5>2. CASE x # o
            BY <1>13, <1>15, <3>1, <5>2
          <5> QED BY <5>1, <5>2
        <4> QED BY <3>1, <4>1 DEF StackFor
      <3>2. CASE r.shown[x] # NoHandle
        <4>1. r.shown[x] # h
          <5>1. CASE x = o
            BY <2>2, <5>1 DEF ps
          <5>2. CASE x # o
            BY <1>16, <5>2
          <5> QED BY <5>1, <5>2
        <4>2. d.shown[x] = r.shown[x]
          BY <1>13, <1>15, <4>1
        <4>3. r.shown[x] \in DOMAIN r.ws /\ r.ws[r.shown[x]].output = x
          BY <1>0, <3>2, ShownIsHere
        <4>4. r.shown[x] \in DOMAIN e.ws /\ e.ws[r.shown[x]] = r.ws[r.shown[x]]
          BY <1>2, <4>1, <4>3
        <4>5. CASE r.shown[x] # t
          <5>1. d.ws[r.shown[x]] = r.ws[r.shown[x]]
            BY <1>9, <1>15, <4>4, <4>5
          <5> QED BY <3>2, <4>2, <5>1 DEF StackFor
        <4>6. CASE r.shown[x] = t
          <5>1. x = o
            BY <1>6, <4>3, <4>4, <4>6
          <5>2. inside = {}
            BY <2>2, <4>6, <5>1 DEF ps
          <5>3. m = <<>>
            BY <1>1, <5>2, InList DEF inside
          <5>4. M2 = M
            <6> DEFINE k == Kept(m, inside \ ToSet(M))
            <6>1. k \in Seq(Surfaces) /\ ToSet(k) = ToSet(m) \cap (inside \ ToSet(M))
              BY <1>1, KeptList
            <6>2. M \in Seq(Surfaces)
              BY <1>2, <1>6, WorkspaceIs
            <6> HIDE DEF k, M
            <6>3. ToSet(k) = {}
              BY <5>2, <6>1
            <6>4. k = <<>>
              BY <6>1, <6>3, InList
            <6>5. M \o k = M
              BY <6>2, <6>4, ConcatEmptySeq
            <6> QED BY <6>5 DEF M2, k, M
          <5>5. d.ws[t].members = r.ws[t].members
            BY <1>9, <1>15, <4>4, <4>6, <5>4
          <5> QED BY <3>2, <4>2, <4>6, <5>5 DEF StackFor
        <4> QED BY <4>5, <4>6
      <3> QED BY <3>1, <3>2
    <2>3. ASSUME NEW s \in Surfaces PROVE own[s] = r.owner[s] \/ s \in bs
      BY <1>11 DEF bs
    <2> QED BY <1>15, <2>1, <2>2, <2>3 DEF Told
  <1>21. d.push \subseteq r.push \cup {o}
    BY <1>15 DEF ps
  <1>22. ASSUME m = <<>> PROVE d.owner = r.owner /\ d.bags = r.bags
    <2>1. inside = {}
      BY <1>22, EmptyList DEF inside
    <2>2. own = [s \in Surfaces |-> r.owner[s]]
      BY <2>1 DEF own
    <2> QED BY <1>0, <1>15, <2>1, <2>2 DEF bs
  <1>23. Goes(r, d)
    BY <1>17, <1>18, <1>19, <1>20 DEF Goes, Good
  <1>24. Alone(r, h) \/ d.next = r.next
    BY <1>2, <1>15
  <1> QED BY <1>21, <1>22, <1>23, <1>24 DEF IsDestroyed, d, o, m

(* A workspace destroyed if it is empty and has nothing to stay for.       *)
IsReaped(r, o, d) ==
  Goes(r, d) /\ d.push \subseteq r.push \cup {o} /\ d.owner = r.owner /\ d.bags = r.bags

LEMMA ReapGood ==
  ASSUME NEW r, Good(r), NEW h \in DOMAIN r.ws
  PROVE  /\ IsReaped(r, r.ws[h].output, ReapIfEmpty(r, h))
         /\ Alone(r, h) \/ ReapIfEmpty(r, h).next = r.next
  <1> DEFINE o == r.ws[h].output
             d == ReapIfEmpty(r, h)
  <1>1. CASE r.ws[h].persistent \/ r.ws[h].members # <<>> \/ r.shown[o] = h
    <2>1. d = r
      BY <1>1 DEF ReapIfEmpty
    <2>2. Goes(r, r)
      BY DEF Goes, Told, Stays
    <2> HIDE DEF d
    <2> QED BY <2>1, <2>2 DEF IsReaped, d
  <1>2. CASE ~(r.ws[h].persistent \/ r.ws[h].members # <<>> \/ r.shown[o] = h)
    <2>1. d = Destroy(r, h, Boot)
      BY <1>2 DEF ReapIfEmpty
    <2>2. Boot \in Names
      BY ConstantsAssumption
    <2>3. IsDestroyed(r, h, Destroy(r, h, Boot))
      BY <2>2, DestroyGood
    <2>4. IsDestroyed(r, h, d) /\ r.ws[h].members = <<>>
      BY <1>2, <2>1, <2>3
    <2> HIDE DEF d
    <2> QED BY <2>4 DEF IsDestroyed, IsReaped, d
  <1> QED BY <1>1, <1>2

(* Shown, a workspace pushes its output's stack; nothing else changes but  *)
(* that the one shown before may go.                                       *)
LEMMA ShowGood ==
  ASSUME NEW r, Good(r), NEW h \in DOMAIN r.ws, NEW name \in Names
  PROVE  IsReaped(r, r.ws[h].output, Show(r, h, name)) /\ Show(r, h, name).next = r.next
  <1> DEFINE o == r.ws[h].output
             prev == r.shown[o]
             sh == [r.shown EXCEPT ![o] = h]
             l == [r.last EXCEPT ![name] = h]
             r1 == [r EXCEPT !.shown[o] = h, !.last[name] = h]
             ps == IF prev = h THEN r.push ELSE r.push \cup {o}
             r2 == [r EXCEPT !.shown = sh, !.last = l, !.push = ps]
             d == Show(r, h, name)
  <1>0. /\ r \in Registries /\ Sound(r) /\ Settled(r)
        /\ r.ws \in Maps /\ r.pos \in [OutIds -> Seq(Nat)] /\ r.shown \in [OutIds -> Nat]
        /\ r.owner \in [Surfaces -> Nat] /\ r.next \in Nat \ {0}
        /\ r.last \in [Names -> Nat] /\ r.push \in SUBSET OutIds
        /\ r.bags \in SUBSET Surfaces
    BY RegistryFields DEF Sound, Good
  <1>1. o \in OutIds /\ h \in ToSet(r.pos[o])
    BY <1>0, WorkspaceIs
  <1>2. h \in Nat /\ h # NoHandle /\ h \in 0 .. r.next - 1
    <2>1. h \in 1 .. r.next - 1
      BY <1>0 DEF Sound, Numbered
    <2> QED BY <1>0, <2>1 DEF NoHandle
  <1>3. prev \in DOMAIN r.ws /\ r.ws[prev].output = o
    <2>1. r.pos[o] # <<>>
      BY <1>1, EmptyList
    <2> QED BY <1>0, <1>1, <2>1, ShownIsHere DEF Settled
  <1>4. d = IF prev = h THEN r2 ELSE ReapIfEmpty(r2, prev)
    <2>1. CASE prev = h
      <3>1. d = r1
        BY <2>1 DEF Show
      <3>2. r1 = r2
        BY <1>0, <2>1 DEF Registries
      <3> QED BY <2>1, <3>1, <3>2
    <2>2. CASE prev # h
      <3>1. d = ReapIfEmpty([r1 EXCEPT !.push = @ \cup {o}], prev)
        BY <2>2 DEF Show
      <3>2. [r1 EXCEPT !.push = @ \cup {o}] = r2
        BY <1>0, <2>2 DEF Registries
      <3> QED BY <2>2, <3>1, <3>2
    <2> QED BY <2>1, <2>2
  <1> HIDE DEF d, r1, o
  <1>5. /\ sh \in [OutIds -> Nat] /\ sh[o] = h /\ \A x \in OutIds \ {o} : sh[x] = r.shown[x]
        /\ l \in [Names -> Nat] /\ \A x \in Names : l[x] = h \/ l[x] = r.last[x]
    BY <1>0, <1>1, <1>2
  <1>6. ps \in SUBSET OutIds
    BY <1>0, <1>1
  <1> HIDE DEF sh, l, ps
  <1>7. /\ r2 \in Registries /\ r2.ws = r.ws /\ r2.pos = r.pos /\ r2.next = r.next
        /\ r2.owner = r.owner /\ r2.shown = sh /\ r2.last = l
        /\ r2.bags = r.bags /\ r2.push = ps
    BY <1>0, <1>5, <1>6 DEF Registries
  <1> HIDE DEF r2
  <1>8. Sound(r2) /\ Stays(r, r2)
    <2>1. Preferring(r2.ws) /\ Owned(r2.ws, r2.owner)
      BY <1>0, <1>7 DEF Sound
    <2>2. Showing(r.pos, r2.shown)
      BY <1>0, <1>1, <1>5, <1>7 DEF Sound, Showing
    <2>3. \A x \in Names : r2.last[x] \in 0 .. r.next - 1
      BY <1>0, <1>2, <1>5, <1>7 DEF Sound, Numbered
    <2> QED BY <1>0, <1>7, <2>1, <2>2, <2>3, Reworked
  <1>9. Settled(r2)
    BY <1>0, <1>2, <1>5, <1>7 DEF Settled
  <1>10. Told(r, r2)
    <2>1. ASSUME NEW x \in OutIds PROVE StackFor(r2, x) = StackFor(r, x) \/ x \in ps
      <3>1. CASE x = o
        BY <1>5, <1>7, <3>1 DEF StackFor, ps
      <3>2. CASE x # o
        BY <1>5, <1>7, <3>2 DEF StackFor
      <3> QED BY <3>1, <3>2
    <2> QED BY <1>7, <2>1 DEF Told, ps
  <1>11. Good(r2) /\ ps \subseteq r.push \cup {o}
    BY <1>8, <1>9 DEF Good, ps
  <1>12. CASE prev = h
    <2>1. d = r2
      BY <1>4, <1>12
    <2> QED BY <1>7, <1>8, <1>10, <1>11, <2>1 DEF IsReaped, Goes, d, o
  <1>13. CASE prev # h
    <2>1. prev \in DOMAIN r2.ws /\ r2.ws[prev].output = o
      BY <1>3, <1>7
    <2>2. IsReaped(r2, o, d) /\ (Alone(r2, prev) \/ d.next = r2.next)
      BY <1>4, <1>11, <1>13, <2>1, ReapGood
    <2>2a. ~Alone(r2, prev)
      <3>1. h \in DOMAIN r2.ws \ {prev} /\ r2.ws[h].output = o
        BY <1>7, <1>13 DEF o
      <3> QED BY <2>1, <3>1 DEF Alone
    <2>3. Told(r2, d) /\ Stays(r2, d) /\ Good(d)
      BY <2>2 DEF IsReaped, Goes
    <2>4. Told(r, d) /\ Stays(r, d)
      BY <1>8, <1>10, <2>3, GoesOn
    <2>5. Goes(r, d)
      BY <2>3, <2>4 DEF Goes
    <2> QED BY <1>7, <1>11, <2>2, <2>2a, <2>5 DEF IsReaped, d, o
  <1> QED BY <1>12, <1>13

(* What one workspace may change to, with the owners, bags and pushes that *)
(* come of it.                                                             *)
Change(r, h, v, own, bs, ps) ==
  /\ v \in Workspaces /\ v.output = r.ws[h].output
  /\ IsInjective(v.prefs) /\ IsInjective(v.members)
  /\ own \in [Surfaces -> Nat]
  /\ \A s \in Surfaces : s \in ToSet(v.members) <=> own[s] = h
  /\ \A s \in Surfaces, k \in DOMAIN r.ws \ {h} : own[s] = k <=> r.owner[s] = k
  /\ \A s \in Surfaces : own[s] \in DOMAIN r.ws \cup {NoHandle}
  /\ bs \in SUBSET Surfaces /\ r.bags \subseteq bs
  /\ \A s \in Surfaces : own[s] = r.owner[s] \/ s \in bs
  /\ ps \in SUBSET OutIds /\ r.push \subseteq ps
  /\ v.members = r.ws[h].members \/ r.shown[v.output] # h \/ v.output \in ps

Changed(r, h, v, own, bs, ps) ==
  [r EXCEPT !.ws = [@ EXCEPT ![h] = v], !.owner = own, !.bags = bs, !.push = ps]

IsChanged(r, h, v, own, bs, ps, d) ==
  /\ Goes(r, d) /\ DOMAIN d.ws = DOMAIN r.ws /\ d.ws[h] = v
  /\ \A k \in DOMAIN r.ws \ {h} : d.ws[k] = r.ws[k]
  /\ d.pos = r.pos /\ d.shown = r.shown /\ d.owner = own
  /\ d.bags = bs /\ d.push = ps

LEMMA ChangedGood ==
  ASSUME NEW r, Good(r), NEW h \in DOMAIN r.ws, NEW v, NEW own, NEW bs, NEW ps,
         Change(r, h, v, own, bs, ps)
  PROVE  IsChanged(r, h, v, own, bs, ps, Changed(r, h, v, own, bs, ps))
  <1> DEFINE d == Changed(r, h, v, own, bs, ps)
             w == [r.ws EXCEPT ![h] = v]
             D == DOMAIN r.ws
  <1>0. /\ r \in Registries /\ Sound(r) /\ Settled(r) /\ r.ws \in Maps
        /\ Preferring(r.ws) /\ Owned(r.ws, r.owner) /\ Showing(r.pos, r.shown)
        /\ Numbered(r.ws, r.next, r.last)
    BY RegistryFields DEF Sound, Good
  <1>1. /\ v \in Workspaces /\ v.output = r.ws[h].output
        /\ IsInjective(v.prefs) /\ IsInjective(v.members)
        /\ own \in [Surfaces -> Nat]
        /\ bs \in SUBSET Surfaces /\ r.bags \subseteq bs
        /\ ps \in SUBSET OutIds /\ r.push \subseteq ps
    BY DEF Change
  <1>2. D \in SUBSET Nat /\ \A k \in D : r.ws[k] \in Workspaces
    BY <1>0, MapsIn
  <1>3. w = [k \in D |-> IF k = h THEN v ELSE r.ws[k]]
    <2>1. r.ws = [k \in D |-> r.ws[k]]
      BY <1>0 DEF Maps
    <2> QED BY <2>1
  <1>4. d = [r EXCEPT !.ws = w, !.owner = own, !.bags = bs, !.push = ps]
    BY DEF Changed
  <1> HIDE DEF w, d, D
  <1>5. DOMAIN w = D /\ w[h] = v /\ \A k \in D \ {h} : w[k] = r.ws[k]
    BY <1>3 DEF D
  <1>6. w \in Maps
    <2>1. w \in [D -> Workspaces]
      BY <1>1, <1>2, <1>3
    <2> QED BY <1>2, <2>1, MapsIn
  <1>7. /\ d \in Registries /\ d.ws = w /\ d.pos = r.pos /\ d.next = r.next
        /\ d.owner = own /\ d.shown = r.shown /\ d.last = r.last
        /\ d.bags = bs /\ d.push = ps
    BY <1>0, <1>1, <1>4, <1>6 DEF Registries
  <1>8. Preferring(w)
    BY <1>0, <1>1, <1>5 DEF Preferring, D
  <1>9. Owned(w, own)
    <2>1. /\ \A s \in Surfaces : s \in ToSet(v.members) <=> own[s] = h
          /\ \A s \in Surfaces, k \in D \ {h} : own[s] = k <=> r.owner[s] = k
          /\ \A s \in Surfaces : own[s] \in D \cup {NoHandle}
      BY DEF Change, D
    <2>2. ASSUME NEW k \in DOMAIN w
          PROVE  /\ IsInjective(w[k].members)
                 /\ \A s \in Surfaces : s \in ToSet(w[k].members) <=> own[s] = k
      <3>1. CASE k = h
        BY <1>1, <1>5, <2>1, <3>1
      <3>2. CASE k # h
        <4>1. k \in D \ {h} /\ w[k] = r.ws[k]
          BY <1>5, <2>2, <3>2
        <4>2. /\ IsInjective(r.ws[k].members)
              /\ \A s \in Surfaces : s \in ToSet(r.ws[k].members) <=> r.owner[s] = k
          BY <1>0, <4>1 DEF Owned, D
        <4> QED BY <2>1, <4>1, <4>2
      <3> QED BY <3>1, <3>2
    <2> QED BY <1>5, <2>1, <2>2 DEF Owned
  <1>10. Sound(d) /\ Stays(r, d)
    <2>1. \A k \in DOMAIN r.ws : d.ws[k].output = r.ws[k].output
      BY <1>1, <1>5, <1>7 DEF D
    <2>2. \A x \in Names : d.last[x] \in 0 .. r.next - 1
      BY <1>0, <1>7 DEF Numbered
    <2>3. /\ d \in Registries /\ DOMAIN d.ws = DOMAIN r.ws /\ Preferring(d.ws)
          /\ Owned(d.ws, d.owner) /\ d.pos = r.pos /\ d.next = r.next
          /\ Showing(r.pos, d.shown)
      BY <1>0, <1>5, <1>7, <1>8, <1>9 DEF D
    <2> QED BY <1>0, <2>1, <2>2, <2>3, Reworked
  <1>11. Settled(d)
    BY <1>0, <1>7 DEF Settled
  <1>12. Told(r, d)
    <2>1. ASSUME NEW x \in OutIds PROVE StackFor(d, x) = StackFor(r, x) \/ x \in d.push
      <3>1. CASE r.shown[x] = NoHandle
        BY <1>7, <3>1 DEF StackFor
      <3>2. CASE r.shown[x] # NoHandle /\ r.shown[x] # h
        <4>1. r.shown[x] \in D
          BY <1>0, <3>2, ShownIsHere DEF D
        <4> QED BY <1>5, <1>7, <3>2, <4>1 DEF StackFor
      <3>3. CASE r.shown[x] # NoHandle /\ r.shown[x] = h
        <4>1. v.output = x
          BY <1>0, <1>1, <3>3, ShownIsHere
        <4>2. v.members = r.ws[h].members \/ r.shown[v.output] # h \/ v.output \in ps
          BY DEF Change
        <4>3. v.members = r.ws[h].members \/ x \in d.push
          BY <1>7, <3>3, <4>1, <4>2
        <4> QED BY <1>5, <1>7, <3>3, <4>3 DEF StackFor
      <3> QED BY <3>1, <3>2, <3>3
    <2>2. \A s \in Surfaces : own[s] = r.owner[s] \/ s \in bs
      BY DEF Change
    <2> QED BY <1>1, <1>7, <2>1, <2>2 DEF Told
  <1>13. Goes(r, d)
    BY <1>10, <1>11, <1>12 DEF Goes, Good
  <1> QED BY <1>5, <1>7, <1>13 DEF IsChanged, d, D

(* A window leaves its workspace.                                          *)
Left(r, s) == [r.ws[r.owner[s]] EXCEPT !.members = Without(@, s)]

LEMMA Leaving ==
  ASSUME NEW r, Good(r), NEW s \in Surfaces, r.owner[s] # NoHandle,
         NEW ps \in SUBSET OutIds, r.push \subseteq ps,
         LET h == r.owner[s] IN r.shown[r.ws[h].output] # h \/ r.ws[h].output \in ps
  PROVE  /\ r.owner[s] \in DOMAIN r.ws
         /\ Left(r, s) \in Workspaces /\ Left(r, s).output = r.ws[r.owner[s]].output
         /\ Change(r, r.owner[s], Left(r, s), [r.owner EXCEPT ![s] = NoHandle],
                   r.bags \cup {s}, ps)
  <1> DEFINE h == r.owner[s]
             m == r.ws[h].members
             m2 == Without(m, s)
             v == Left(r, s)
             own == [r.owner EXCEPT ![s] = NoHandle]
  <1>0. /\ Sound(r) /\ r.ws \in Maps /\ r.owner \in [Surfaces -> Nat]
        /\ r.bags \in SUBSET Surfaces /\ Owned(r.ws, r.owner)
    BY RegistryFields DEF Sound, Good
  <1>1. h \in DOMAIN r.ws /\ NoHandle \notin DOMAIN r.ws
    BY <1>0, NoHandleFree DEF Owned
  <1>2. r.ws[h] \in Workspaces /\ IsInjective(r.ws[h].prefs)
    BY <1>0, <1>1, MapsIn, WorkspaceIs
  <1>3. m \in Seq(Surfaces) /\ IsInjective(m)
    BY <1>0, <1>1, WorkspaceIs
  <1> HIDE DEF m
  <1>4. m2 \in Seq(Surfaces) /\ ToSet(m2) = ToSet(m) \ {s} /\ IsInjective(m2)
    BY <1>3, WithoutList
  <1>5. v = [r.ws[h] EXCEPT !.members = m2]
    BY DEF Left, m
  <1> HIDE DEF v, m2
  <1>6. /\ v \in Workspaces /\ v.members = m2 /\ v.output = r.ws[h].output
        /\ v.prefs = r.ws[h].prefs
    BY <1>2, <1>4, <1>5 DEF Workspaces
  <1>7. /\ own \in [Surfaces -> Nat] /\ own[s] = NoHandle
        /\ \A x \in Surfaces \ {s} : own[x] = r.owner[x]
    BY <1>0 DEF NoHandle
  <1>8. \A x \in Surfaces : x \in ToSet(m) <=> r.owner[x] = h
    BY <1>0, <1>1 DEF Owned, m
  <1> HIDE DEF own
  <1>9. \A x \in Surfaces : x \in ToSet(v.members) <=> own[x] = h
    <2> HIDE DEF h
    <2> QED BY <1>1, <1>4, <1>6, <1>7, <1>8
  <1>10. \A x \in Surfaces, k \in DOMAIN r.ws \ {h} : own[x] = k <=> r.owner[x] = k
    BY <1>1, <1>7
  <1>11. \A x \in Surfaces : own[x] \in DOMAIN r.ws \cup {NoHandle}
    BY <1>0, <1>7 DEF Owned
  <1>12. /\ r.bags \cup {s} \in SUBSET Surfaces
         /\ \A x \in Surfaces : own[x] = r.owner[x] \/ x \in r.bags \cup {s}
    BY <1>0, <1>7
  <1>13. Change(r, h, v, own, r.bags \cup {s}, ps)
    BY <1>2, <1>4, <1>6, <1>7, <1>9, <1>10, <1>11, <1>12 DEF Change
  <1> QED BY <1>1, <1>6, <1>13 DEF v, own

(* A window that is in no workspace joins one, somewhere in its list.      *)
LEMMA Joining ==
  ASSUME NEW r, Good(r), NEW s \in Surfaces, r.owner[s] = NoHandle,
         NEW h \in DOMAIN r.ws, NEW v \in Workspaces, v.output = r.ws[h].output,
         IsInjective(v.prefs), IsInjective(v.members),
         ToSet(v.members) = ToSet(r.ws[h].members) \cup {s},
         NEW bs \in SUBSET Surfaces, r.bags \cup {s} \subseteq bs,
         NEW ps \in SUBSET OutIds, r.push \subseteq ps,
         r.shown[v.output] # h \/ v.output \in ps
  PROVE  Change(r, h, v, [r.owner EXCEPT ![s] = h], bs, ps)
  <1> DEFINE own == [r.owner EXCEPT ![s] = h]
  <1>0. /\ Sound(r) /\ r.owner \in [Surfaces -> Nat] /\ Owned(r.ws, r.owner)
    BY RegistryFields DEF Sound, Good
  <1>1. h \in Nat /\ NoHandle \notin DOMAIN r.ws
    BY <1>0, NoHandleFree
  <1>2. /\ own \in [Surfaces -> Nat] /\ own[s] = h
        /\ \A x \in Surfaces \ {s} : own[x] = r.owner[x]
    BY <1>0, <1>1
  <1>3. \A x \in Surfaces : x \in ToSet(r.ws[h].members) <=> r.owner[x] = h
    BY <1>0 DEF Owned
  <1> HIDE DEF own
  <1>4. \A x \in Surfaces : x \in ToSet(v.members) <=> own[x] = h
    BY <1>2, <1>3
  <1>5. \A x \in Surfaces, k \in DOMAIN r.ws \ {h} : own[x] = k <=> r.owner[x] = k
    BY <1>1, <1>2
  <1>6. \A x \in Surfaces : own[x] \in DOMAIN r.ws \cup {NoHandle}
    BY <1>0, <1>2 DEF Owned
  <1>7. r.bags \subseteq bs /\ \A x \in Surfaces : own[x] = r.owner[x] \/ x \in bs
    BY <1>2
  <1>8. Change(r, h, v, own, bs, ps)
    BY <1>2, <1>4, <1>5, <1>6, <1>7 DEF Change
  <1> QED BY <1>8 DEF own

(* A window unmapped. *)
LEMMA ApplyUnmapGood ==
  ASSUME NEW r, Good(r), NEW s \in Surfaces, r.owner[s] # NoHandle
  PROVE  Goes(r, ApplyUnmap(r, s)) /\ s \in ApplyUnmap(r, s).bags
  <1> DEFINE h == r.owner[s]
             o == r.ws[h].output
             v == Left(r, s)
             own == [r.owner EXCEPT ![s] = NoHandle]
             bs == r.bags \cup {s}
             r1 == [r EXCEPT !.ws[h].members = Without(@, s), !.owner[s] = NoHandle,
                             !.bags = @ \cup {s}]
             ps == IF r.shown[o] = h THEN r.push \cup {o} ELSE r.push
             c == Changed(r, h, v, own, bs, ps)
             d == ApplyUnmap(r, s)
  <1>0. /\ r \in Registries /\ Sound(r) /\ r.push \in SUBSET OutIds /\ r.ws \in Maps
        /\ Owned(r.ws, r.owner)
    BY RegistryFields DEF Sound, Good
  <1>1. h \in DOMAIN r.ws /\ o \in OutIds
    <2>1. h \in DOMAIN r.ws
      BY <1>0 DEF Owned
    <2> QED BY <1>0, <2>1, WorkspaceIs
  <1>2. d = IF r.shown[o] = h THEN [r1 EXCEPT !.push = @ \cup {o}] ELSE ReapIfEmpty(r1, h)
    BY DEF ApplyUnmap
  <1>3. r1 = [r EXCEPT !.ws = [@ EXCEPT ![h] = v], !.owner = own, !.bags = bs]
    <2>1. [r.ws EXCEPT ![h].members = Without(@, s)] = [r.ws EXCEPT ![h] = v]
      BY DEF Left
    <2> HIDE DEF v
    <2> QED BY <1>0, <2>1 DEF Registries
  <1>4. ps \in SUBSET OutIds /\ r.push \subseteq ps /\ (r.shown[o] # h \/ o \in ps)
    BY <1>0, <1>1
  <1>a. s \in bs
    OBVIOUS
  <1> HIDE DEF ps
  <1>5. Change(r, h, v, own, bs, ps) /\ v.output = o
    BY <1>4, Leaving
  <1> HIDE DEF v, own, bs
  <1>6. IsChanged(r, h, v, own, bs, ps, c)
    BY <1>1, <1>5, ChangedGood
  <1>7. c = [r1 EXCEPT !.push = ps]
    BY <1>0, <1>3 DEF Changed, Registries
  <1>8. r1.push = r.push
    BY <1>0, <1>3 DEF Registries
  <1> HIDE DEF r1, c, d
  <1>9. CASE r.shown[o] = h
    <2>1. d = c
      BY <1>2, <1>7, <1>8, <1>9 DEF ps
    <2> QED BY <1>6, <1>a, <2>1 DEF IsChanged, d
  <1>10. CASE r.shown[o] # h
    <2>1. c = r1
      <3>1. ps = r1.push
        BY <1>8, <1>10 DEF ps
      <3> QED BY <1>0, <1>3, <1>7, <3>1 DEF Registries
    <2>2. d = ReapIfEmpty(c, h)
      BY <1>2, <1>10, <2>1
    <2>3. Goes(r, c) /\ h \in DOMAIN c.ws
      BY <1>1, <1>6 DEF IsChanged
    <2>4. IsReaped(c, c.ws[h].output, d)
      BY <2>2, <2>3, ReapGood DEF Goes
    <2>5. Goes(c, d)
      BY <2>4 DEF IsReaped
    <2>6. Goes(r, d)
      BY <2>3, <2>5, GoesOn DEF Goes
    <2>7. d.bags = c.bags /\ c.bags = bs
      BY <1>6, <2>4 DEF IsReaped, IsChanged
    <2> QED BY <1>a, <2>6, <2>7 DEF d
  <1> QED BY <1>9, <1>10

(* A window mapped. *)
LEMMA ApplyMapGood ==
  ASSUME NEW r, Good(r), NEW s \in Surfaces, r.owner[s] = NoHandle,
         NEW o \in OutIds, NEW name \in Names
  PROVE  Goes(r, ApplyMap(r, s, o, name))
  <1> DEFINE r1 == EnsureOutput(r, o, name)
             h == r1.shown[o]
             m == <<s>> \o r1.ws[h].members
             v == [r1.ws[h] EXCEPT !.members = m]
             own == [r1.owner EXCEPT ![s] = h]
             bs == r1.bags \cup {s}
             ps == r1.push \cup {o}
             d == ApplyMap(r, s, o, name)
  <1>1. Goes(r, r1) /\ r1.pos[o] # <<>> /\ r1.owner = r.owner
    BY EnsureGood
  <1>2. d = [r1 EXCEPT !.ws[h].members = <<s>> \o @, !.owner[s] = h,
                       !.bags = @ \cup {s}, !.push = @ \cup {o}]
    BY Zenon DEF ApplyMap
  <1> HIDE DEF r1, d
  <1>3. /\ Good(r1) /\ Sound(r1) /\ r1 \in Registries /\ r1.push \in SUBSET OutIds
        /\ r1.bags \in SUBSET Surfaces /\ r1.ws \in Maps /\ Owned(r1.ws, r1.owner)
    BY <1>1, RegistryFields DEF Goes, Good, Sound
  <1>4. h \in DOMAIN r1.ws /\ r1.ws[h].output = o
    BY <1>1, <1>3, ShownIsHere DEF Good, Settled
  <1> HIDE DEF h
  <1>5. d = Changed(r1, h, v, own, bs, ps)
    <2>1. [r1.ws EXCEPT ![h].members = <<s>> \o @] = [r1.ws EXCEPT ![h] = v]
      OBVIOUS
    <2>2. d = [r1 EXCEPT !.ws = [r1.ws EXCEPT ![h].members = <<s>> \o @],
                         !.owner = own, !.bags = bs, !.push = ps]
      BY <1>2
    <2> HIDE DEF v
    <2> QED BY <2>1, <2>2 DEF Changed
  <1>6. r1.ws[h] \in Workspaces /\ IsInjective(r1.ws[h].prefs)
    BY <1>3, <1>4, MapsIn, WorkspaceIs
  <1>7. /\ m \in Seq(Surfaces) /\ ToSet(m) = ToSet(r1.ws[h].members) \cup {s}
        /\ IsInjective(m)
    <2> DEFINE p == <<s>>
               q == r1.ws[h].members
    <2>1. p \in Seq(Surfaces) /\ ToSet(p) = {s} /\ IsInjective(p)
      BY OneList
    <2>2. q \in Seq(Surfaces) /\ IsInjective(q)
      BY <1>3, <1>4, WorkspaceIs
    <2>3. s \notin ToSet(q)
      <3>1. NoHandle \notin DOMAIN r1.ws
        BY <1>3, NoHandleFree
      <3> QED BY <1>1, <1>3, <1>4, <3>1 DEF Owned
    <2> HIDE DEF p, q
    <2>4. /\ p \o q \in Seq(Surfaces) /\ ToSet(p \o q) = ToSet(p) \cup ToSet(q)
          /\ IsInjective(p \o q)
      BY <2>1, <2>2, <2>3, ConcatList
    <2>5. ToSet(p) \cup ToSet(q) = ToSet(q) \cup {s}
      BY <2>1
    <2> QED BY <2>4, <2>5 DEF p, q
  <1> HIDE DEF m
  <1>8. /\ v \in Workspaces /\ v.output = r1.ws[h].output /\ v.prefs = r1.ws[h].prefs
        /\ v.members = m
    BY <1>6, <1>7 DEF Workspaces
  <1> HIDE DEF v
  <1>9. Change(r1, h, v, own, bs, ps)
    <2>1. bs \in SUBSET Surfaces /\ ps \in SUBSET OutIds /\ r1.bags \cup {s} \subseteq bs
          /\ r1.push \subseteq ps /\ v.output \in ps
      BY <1>3, <1>4, <1>8
    <2> HIDE DEF bs, ps
    <2> QED BY <1>1, <1>3, <1>4, <1>6, <1>7, <1>8, <2>1, Joining
  <1> HIDE DEF own, bs, ps
  <1>10. IsChanged(r1, h, v, own, bs, ps, d)
    BY <1>3, <1>4, <1>5, <1>9, ChangedGood
  <1>11. Goes(r1, d)
    BY <1>10 DEF IsChanged
  <1>12. Goes(r, d)
    BY <1>1, <1>11, GoesOn DEF Goes
  <1> QED BY <1>12 DEF d

(* A preference put first. *)
LEMMA PromotedList ==
  ASSUME NEW q \in Seq(Names), IsInjective(q), NEW name \in Names
  PROVE  Promoted(q, name) \in Seq(Names) /\ IsInjective(Promoted(q, name))
  <1> DEFINE p == <<name>>
             w == Without(q, name)
  <1>1. p \in Seq(Names) /\ ToSet(p) = {name} /\ IsInjective(p)
    BY OneList
  <1>2. w \in Seq(Names) /\ ToSet(w) = ToSet(q) \ {name} /\ IsInjective(w)
    BY WithoutList
  <1>3. Promoted(q, name) = p \o w
    BY DEF Promoted
  <1> HIDE DEF p, w
  <1>4. ToSet(p) \cap ToSet(w) = {}
    BY <1>1, <1>2
  <1>5. p \o w \in Seq(Names) /\ IsInjective(p \o w)
    BY <1>1, <1>2, <1>4, ConcatList
  <1> QED BY <1>3, <1>5

(* A window moved to another workspace: it leaves one and joins the other. *)
LEMMA MoveGood ==
  ASSUME NEW r, Good(r), NEW s \in Surfaces, r.owner[s] # NoHandle,
         NEW h \in DOMAIN r.ws, NEW name \in Names
  PROVE  Goes(r, MoveWindow(r, s, h, name))
  <1> DEFINE from == r.owner[s]
             fo == r.ws[from].output
             to == r.ws[h].output
             r1 == [r EXCEPT
                     !.ws[from].members = Without(@, s),
                     !.ws[h].members = Append(@, s),
                     !.ws[h].prefs = IF to # fo THEN Promoted(@, name) ELSE @,
                     !.owner[s] = h, !.bags = @ \cup {s},
                     !.push = @ \cup (IF r.shown[fo] = from THEN {fo} ELSE {})
                                \cup (IF r.shown[to] = h THEN {to} ELSE {})]
             v == Left(r, s)
             own == [r.owner EXCEPT ![s] = NoHandle]
             bs == r.bags \cup {s}
             ps == r.push \cup (IF r.shown[fo] = from THEN {fo} ELSE {})
                          \cup (IF r.shown[to] = h THEN {to} ELSE {})
             c == Changed(r, from, v, own, bs, ps)
             m == Append(r.ws[h].members, s)
             q == IF to # fo THEN Promoted(r.ws[h].prefs, name) ELSE r.ws[h].prefs
             u == [r.ws[h] EXCEPT !.members = m, !.prefs = q]
             own2 == [c.owner EXCEPT ![s] = h]
             e == Changed(c, h, u, own2, bs, ps)
             d == MoveWindow(r, s, h, name)
  <1>0. /\ r \in Registries /\ Sound(r) /\ r.push \in SUBSET OutIds /\ r.ws \in Maps
        /\ Owned(r.ws, r.owner) /\ r.bags \in SUBSET Surfaces
    BY RegistryFields DEF Sound, Good
  <1>1. from \in DOMAIN r.ws /\ fo \in OutIds /\ to \in OutIds
    <2>1. from \in DOMAIN r.ws
      BY <1>0 DEF Owned
    <2> QED BY <1>0, <2>1, WorkspaceIs
  <1>2. d = IF from = h THEN r ELSE ReapIfEmpty(r1, from)
    BY Zenon DEF MoveWindow
  <1>3. CASE from = h
    <2>1. d = r
      BY <1>2, <1>3
    <2>2. Goes(r, r)
      BY DEF Goes, Told, Stays
    <2> QED BY <2>1, <2>2
  <1>4. CASE from # h
    <2>1. d = ReapIfEmpty(r1, from)
      BY <1>2, <1>4
    <2>2. r1 = [r EXCEPT !.ws = [[@ EXCEPT ![from] = v] EXCEPT ![h] = u],
                         !.owner = [@ EXCEPT ![s] = h], !.bags = bs, !.push = ps]
      <3> DEFINE w == r.ws
                 a == Without(w[from].members, s)
                 b == [w[h] EXCEPT !.members = m]
                 w1 == [w EXCEPT ![from].members = a]
                 w2 == [w1 EXCEPT ![h].members = m]
                 w3 == [w2 EXCEPT ![h].prefs = q]
      <3>1. r1 = [r EXCEPT !.ws[from].members = a, !.ws[h].members = m,
                           !.ws[h].prefs = q, !.owner[s] = h, !.bags = bs, !.push = ps]
        OBVIOUS
      <3>2. from \in DOMAIN r.ws /\ h \in DOMAIN r.ws /\ from # h
        BY <1>1, <1>4
      <3> HIDE DEF a, m, q, bs, ps, r1, from
      <3>3. r1 = [r EXCEPT !.ws = w3, !.owner = [@ EXCEPT ![s] = h],
                           !.bags = bs, !.push = ps]
        <4> DEFINE own3 == [r.owner EXCEPT ![s] = h]
        <4>1. r1 = [r EXCEPT !.ws[from].members = a, !.ws[h].members = m,
                             !.ws[h].prefs = q, !.owner = own3, !.bags = bs, !.push = ps]
          BY ONLY <3>1, <1>0, r \in Registries DEF Registries
        <4> HIDE DEF own3
        <4>2. r1 = [r EXCEPT !.ws = w3, !.owner = own3, !.bags = bs, !.push = ps]
          BY ONLY <4>1, <3>2, <1>0 DEF Registries
        <4> QED BY <4>2 DEF own3
      <3>4. w1 = [w EXCEPT ![from] = v]
        BY DEF Left, a, from
      <3>5. h \in DOMAIN w1 /\ w1[h] = w[h] /\ DOMAIN w1 = DOMAIN w
        BY <3>2
      <3>6. w[h] \in Workspaces
        BY <1>0, MapsIn
      <3> HIDE DEF w1, v
      <3>7. w2 = [w1 EXCEPT ![h] = b]
        BY <3>5
      <3>8. w2[h] = b
        BY <3>5, <3>7
      <3>9. [b EXCEPT !.prefs = q] = u
        BY <3>6 DEF Workspaces
      <3> HIDE DEF w2, u, b
      <3>10. w3 = [w2 EXCEPT ![h] = u]
        <4>1. w3 = [w2 EXCEPT ![h] = [b EXCEPT !.prefs = q]]
          BY <3>8
        <4> QED BY <3>9, <4>1
      <3> HIDE DEF w3
      <3>11. w3 = [w1 EXCEPT ![h] = u]
        BY <3>7, <3>10
      <3>12. w3 = [[w EXCEPT ![from] = v] EXCEPT ![h] = u]
        BY <3>4, <3>11
      <3> QED BY <3>3, <3>12
    <2>3. bs \in SUBSET Surfaces /\ ps \in SUBSET OutIds /\ r.push \subseteq ps
          /\ (r.shown[fo] # from \/ fo \in ps) /\ (r.shown[to] # h \/ to \in ps)
      BY <1>0, <1>1
    <2> HIDE DEF ps, r1, d
    <2>4. Change(r, from, v, own, bs, ps)
      BY <2>3, Leaving
    <2> HIDE DEF v, own, bs
    <2>5. IsChanged(r, from, v, own, bs, ps, c)
      BY <1>1, <2>4, ChangedGood
    <2>6. c = [r EXCEPT !.ws = [@ EXCEPT ![from] = v], !.owner = own,
                        !.bags = bs, !.push = ps]
      BY DEF Changed
    <2> HIDE DEF c
    <2>7. /\ Goes(r, c) /\ Good(c) /\ DOMAIN c.ws = DOMAIN r.ws /\ c.ws[h] = r.ws[h]
          /\ c.shown = r.shown /\ c.owner = own /\ c.bags = bs /\ c.push = ps
      BY <1>4, <2>5 DEF IsChanged, Goes
    <2>8. own[s] = NoHandle
      BY <1>0, RegistryFields DEF own
    <2>9. /\ r.ws[h] \in Workspaces /\ r.ws[h].members \in Seq(Surfaces)
          /\ IsInjective(r.ws[h].members) /\ r.ws[h].prefs \in Seq(Names)
          /\ IsInjective(r.ws[h].prefs) /\ s \notin ToSet(r.ws[h].members)
      <3>1. s \notin ToSet(r.ws[h].members)
        BY <1>0, <1>4 DEF Owned
      <3> QED BY <1>0, <3>1, MapsIn, WorkspaceIs
    <2>10. /\ m \in Seq(Surfaces) /\ IsInjective(m)
           /\ ToSet(m) = ToSet(r.ws[h].members) \cup {s}
      <3> DEFINE b == r.ws[h].members
      <3>1. b \in Seq(Surfaces) /\ IsInjective(b) /\ s \notin ToSet(b)
        BY <2>9
      <3> HIDE DEF b
      <3>2. /\ Append(b, s) \in Seq(Surfaces) /\ IsInjective(Append(b, s))
            /\ ToSet(Append(b, s)) = ToSet(b) \cup {s}
        BY <3>1, AppendList
      <3> QED BY <3>2 DEF b
    <2>11. q \in Seq(Names) /\ IsInjective(q)
      BY <2>9, PromotedList
    <2> HIDE DEF m, q
    <2>12. /\ u \in Workspaces /\ u.output = to /\ u.prefs = q /\ u.members = m
      BY <2>9, <2>10, <2>11 DEF Workspaces
    <2> HIDE DEF u
    <2>13. Change(c, h, u, own2, bs, ps)
      <3>1. /\ Good(c) /\ c.owner[s] = NoHandle /\ h \in DOMAIN c.ws
            /\ u.output = c.ws[h].output /\ IsInjective(u.prefs) /\ IsInjective(u.members)
            /\ ToSet(u.members) = ToSet(c.ws[h].members) \cup {s}
            /\ c.bags \cup {s} \subseteq bs /\ c.push \subseteq ps
            /\ (c.shown[u.output] # h \/ u.output \in ps)
        BY <2>3, <2>7, <2>8, <2>10, <2>11, <2>12 DEF bs
      <3> QED BY <2>3, <2>12, <3>1, Joining
    <2>14. e = r1
      <3>1. own2 = [r.owner EXCEPT ![s] = h]
        BY <1>0, <2>7, RegistryFields DEF own
      <3> DEFINE o3 == [r.owner EXCEPT ![s] = h]
                 w3 == [[r.ws EXCEPT ![from] = v] EXCEPT ![h] = u]
      <3>2. e = [c EXCEPT !.ws = [@ EXCEPT ![h] = u], !.owner = o3, !.bags = bs, !.push = ps]
        BY <3>1 DEF Changed
      <3>3. c.ws = [r.ws EXCEPT ![from] = v]
        BY <1>0, <2>6 DEF Registries
      <3>4. e = [c EXCEPT !.ws = w3, !.owner = o3, !.bags = bs, !.push = ps]
        BY <3>2, <3>3
      <3>5. r1 = [r EXCEPT !.ws = w3, !.owner = o3, !.bags = bs, !.push = ps]
        BY <2>2
      <3> HIDE DEF w3, o3, e
      <3> QED BY <1>0, <2>6, <3>4, <3>5 DEF Registries
    <2> HIDE DEF own2, e
    <2>15. IsChanged(c, h, u, own2, bs, ps, e)
      BY <2>7, <2>13, ChangedGood DEF e
    <2>16. Goes(c, e) /\ Good(e) /\ from \in DOMAIN e.ws
      BY <1>1, <2>7, <2>15 DEF IsChanged, Goes
    <2>17. IsReaped(e, e.ws[from].output, d)
      BY <2>1, <2>14, <2>16, ReapGood
    <2>18. Goes(e, d)
      BY <2>17 DEF IsReaped
    <2>19. Told(r, e) /\ Stays(r, e)
      BY <2>7, <2>16, GoesOn DEF Goes
    <2>20. Told(r, d) /\ Stays(r, d)
      BY <2>18, <2>19, GoesOn DEF Goes
    <2>21. Goes(r, d)
      BY <2>18, <2>20 DEF Goes
    <2> QED BY <2>21 DEF d
  <1> QED BY <1>3, <1>4

(* A window put elsewhere in its list. *)
LEMMA ReorderGood ==
  ASSUME NEW r, Good(r), NEW s \in Surfaces, r.owner[s] # NoHandle,
         NEW n \in 1 .. Len(r.ws[r.owner[s]].members)
  PROVE  Goes(r, Reorder(r, s, n))
  <1> DEFINE h == r.owner[s]
             o == r.ws[h].output
             m == r.ws[h].members
             rest == Without(m, s)
             new == SubSeq(rest, 1, n - 1) \o <<s>> \o SubSeq(rest, n, Len(rest))
             v == [r.ws[h] EXCEPT !.members = new]
             ps == IF r.shown[o] = h THEN r.push \cup {o} ELSE r.push
             d == Reorder(r, s, n)
  <1>0. /\ r \in Registries /\ Sound(r) /\ r.push \in SUBSET OutIds /\ r.ws \in Maps
        /\ Owned(r.ws, r.owner) /\ r.bags \in SUBSET Surfaces
        /\ r.owner \in [Surfaces -> Nat]
    BY RegistryFields DEF Sound, Good
  <1>1. h \in DOMAIN r.ws
    BY <1>0 DEF Owned
  <1>2. /\ o \in OutIds /\ m \in Seq(Surfaces) /\ IsInjective(m) /\ r.ws[h] \in Workspaces
        /\ IsInjective(r.ws[h].prefs)
    BY <1>0, <1>1, WorkspaceIs, MapsIn
  <1>3. s \in ToSet(m)
    BY <1>0, <1>1 DEF Owned
  <1>4. d = IF new = m THEN r ELSE [r EXCEPT !.ws[h].members = new,
                     !.push = IF r.shown[o] = h THEN @ \cup {o} ELSE @]
    BY Zenon DEF Reorder
  <1>5. n \in 1 .. Len(m)
    OBVIOUS
  <1> HIDE DEF m, d
  <1>6. /\ rest \in Seq(Surfaces) /\ ToSet(rest) = ToSet(m) \ {s} /\ IsInjective(rest)
        /\ Len(rest) = Len(m) - 1
    BY <1>2, <1>3, WithoutList, WithoutLen
  <1> HIDE DEF rest
  <1>7. n \in 1 .. Len(rest) + 1
    <2>1. Len(m) \in Nat
      BY <1>2, LenProperties
    <2> HIDE DEF rest, h
    <2> QED BY <1>5, <1>6, <2>1
  <1>8. new \in Seq(Surfaces) /\ ToSet(new) = ToSet(m) /\ IsInjective(new)
    <2>1. rest \in Seq(Surfaces) /\ IsInjective(rest) /\ s \notin ToSet(rest)
      BY <1>6
    <2>2. new \in Seq(Surfaces) /\ ToSet(new) = ToSet(rest) \cup {s} /\ IsInjective(new)
      BY <1>7, <2>1, InsertList
    <2> HIDE DEF new
    <2> QED BY <1>3, <1>6, <2>2
  <1> HIDE DEF new
  <1>9. CASE new = m
    <2>1. Goes(r, r)
      BY DEF Goes, Told, Stays
    <2>2. d = r
      BY <1>4, <1>9
    <2> QED BY <2>1, <2>2 DEF d
  <1>10. CASE new # m
    <2> DEFINE own == r.owner
               bs == r.bags
    <2>1. d = Changed(r, h, v, own, bs, ps)
      <3>1. [r.ws EXCEPT ![h].members = new] = [r.ws EXCEPT ![h] = v]
        OBVIOUS
      <3>2. d = [r EXCEPT !.ws = [r.ws EXCEPT ![h].members = new], !.push = ps]
        BY <1>4, <1>10
      <3> HIDE DEF v, ps
      <3>3. d = [r EXCEPT !.ws = [r.ws EXCEPT ![h] = v], !.push = ps]
        BY <3>1, <3>2
      <3> QED BY <1>0, <3>3 DEF Changed, Registries
    <2>2. /\ v \in Workspaces /\ v.output = o /\ v.prefs = r.ws[h].prefs /\ v.members = new
      BY <1>2, <1>8 DEF Workspaces
    <2>3. ps \in SUBSET OutIds /\ r.push \subseteq ps /\ (r.shown[o] # h \/ o \in ps)
      BY <1>0, <1>2
    <2> HIDE DEF v, ps
    <2>4. \A x \in Surfaces : x \in ToSet(v.members) <=> own[x] = h
      BY <1>0, <1>1, <1>8, <2>2 DEF Owned, m
    <2>5. \A x \in Surfaces : own[x] \in DOMAIN r.ws \cup {NoHandle}
      BY <1>0 DEF Owned
    <2>6. Change(r, h, v, own, bs, ps)
      BY <1>0, <1>2, <1>8, <2>2, <2>3, <2>4, <2>5 DEF Change
    <2> HIDE DEF own, bs
    <2>7. IsChanged(r, h, v, own, bs, ps, d)
      BY <1>1, <2>1, <2>6, ChangedGood
    <2> QED BY <2>7 DEF IsChanged, d
  <1> QED BY <1>9, <1>10

-----------------------------------------------------------------------------
(* An output came or went.  The workspaces that are there stay, with their *)
(* members; where they are and what is shown may change.                   *)

Monitors(lv) == DOMAIN lv \subseteq 0 .. MaxOut /\ \A o \in DOMAIN lv : lv[o] \in Names

IsMoved(r, d) ==
  /\ Sound(d) /\ d.owner = r.owner /\ d.bags = r.bags /\ d.push = r.push
  /\ \A h \in DOMAIN r.ws : h \in DOMAIN d.ws /\ d.ws[h].members = r.ws[h].members

LEMMA MonitorsAre ==
  ASSUME NEW lv, Monitors(lv)
  PROVE  /\ DOMAIN lv \subseteq OutIds /\ DOMAIN lv \subseteq Nat
         /\ DOMAIN lv \subseteq Int /\ IsFiniteSet(DOMAIN lv) /\ Fallback \in OutIds
  <1>1. MaxOut \in Nat
    BY ConstantsAssumption
  <1>2. DOMAIN lv \subseteq 0 .. MaxOut
    BY DEF Monitors
  <1>3. 0 .. MaxOut \subseteq -1 .. MaxOut /\ 0 .. MaxOut \subseteq Nat
    BY <1>1
  <1>4. IsFiniteSet(0 .. MaxOut)
    BY <1>1, FS_Interval
  <1>5. IsFiniteSet(DOMAIN lv)
    BY <1>2, <1>4, FS_Subset
  <1>6. OutIds = -1 .. MaxOut /\ Fallback = -1 /\ -1 \in -1 .. MaxOut
    BY <1>1 DEF OutIds, Fallback
  <1>7. DOMAIN lv \subseteq Nat /\ DOMAIN lv \subseteq OutIds
    BY <1>2, <1>3, <1>6
  <1> QED BY <1>5, <1>6, <1>7

(* The preferences that name a monitor. *)
LEMMA LivePrefsIn ==
  ASSUME NEW q \in Seq(Names), NEW lv
  PROVE  /\ LivePrefs(q, lv) \in SUBSET Nat
         /\ \A i \in LivePrefs(q, lv) : \E o \in DOMAIN lv : lv[o] = q[i]
  <1>1. DOMAIN q \subseteq Nat
    BY LenProperties
  <1> QED BY <1>1 DEF LivePrefs

LEMMA HomeOutputIn ==
  ASSUME NEW lv, Monitors(lv), NEW q \in Seq(Names)
  PROVE  HomeOutput(q, lv) \in OutIds
  <1> DEFINE k == LivePrefs(q, lv)
             D == DOMAIN lv
  <1>1. k \in SUBSET Nat /\ \A i \in k : \E o \in D : lv[o] = q[i]
    BY LivePrefsIn
  <1>2. D \subseteq OutIds /\ D \in SUBSET Nat /\ Fallback \in OutIds
    BY MonitorsAre
  <1>3. HomeOutput(q, lv) = CASE k # {} -> CHOOSE o \in D : lv[o] = q[Min(k)]
                              [] k = {} /\ D # {} -> Min(D)
                              [] OTHER -> Fallback
    BY DEF HomeOutput
  <1> HIDE DEF k, D
  <1>4. CASE k # {}
    <2>1. Min(k) \in k
      BY <1>1, <1>4, MinIn
    <2>2. (CHOOSE o \in D : lv[o] = q[Min(k)]) \in D
      BY <1>1, <2>1
    <2> QED BY <1>2, <1>3, <1>4, <2>2
  <1>5. CASE k = {} /\ D # {}
    <2>1. Min(D) \in D
      BY <1>2, <1>5, MinIn
    <2> QED BY <1>2, <1>3, <1>5, <2>1
  <1>6. CASE k = {} /\ D = {}
    BY <1>2, <1>3, <1>6
  <1> QED BY <1>4, <1>5, <1>6

LEMMA HomePrefsIn ==
  ASSUME NEW lv, Monitors(lv), NEW q \in Seq(Names), IsInjective(q)
  PROVE  HomePrefs(q, lv) \in Seq(Names) /\ IsInjective(HomePrefs(q, lv))
  <1> DEFINE D == DOMAIN lv
             x == lv[Min(D)]
  <1>1. HomePrefs(q, lv) = IF LivePrefs(q, lv) = {} /\ D # {} THEN Append(q, x) ELSE q
    BY DEF HomePrefs
  <1>2. CASE LivePrefs(q, lv) = {} /\ D # {}
    <2>1. D \in SUBSET Nat /\ \A o \in D : lv[o] \in Names
      BY MonitorsAre DEF Monitors
    <2>2. Min(D) \in D
      BY <1>2, <2>1, MinIn
    <2>3. x \notin ToSet(q)
      <3>1. SUFFICES ASSUME x \in ToSet(q) PROVE FALSE
        OBVIOUS
      <3>2. PICK i \in 1 .. Len(q) : q[i] = x
        BY <3>1, InList
      <3>3. i \in DOMAIN q
        BY InList
      <3>4. i \in LivePrefs(q, lv)
        BY <2>2, <3>2, <3>3 DEF LivePrefs
      <3> QED BY <1>2, <3>4
    <2>4. x \in Names
      BY <2>1, <2>2
    <2> HIDE DEF x
    <2>5. Append(q, x) \in Seq(Names) /\ IsInjective(Append(q, x))
      BY <2>3, <2>4, AppendList
    <2> QED BY <1>1, <1>2, <2>5
  <1>3. CASE ~(LivePrefs(q, lv) = {} /\ D # {})
    BY <1>1, <1>3
  <1> QED BY <1>2, <1>3

(* The numbers of a set of naturals in order, as a list of naturals. *)
LEMMA InOrderNat ==
  ASSUME NEW S \in SUBSET Nat, IsFiniteSet(S)
  PROVE  /\ InOrder(S) \in Seq(Nat) /\ ToSet(InOrder(S)) = S /\ IsInjective(InOrder(S))
  <1> DEFINE q == InOrder(S)
  <1>1. q \in Seq(S) /\ ToSet(q) = S /\ IsInjective(q)
    <2>1. S \in SUBSET Int
      OBVIOUS
    <2> QED BY <2>1, InOrderOf
  <1> HIDE DEF q
  <1>2. Len(q) \in Nat /\ q \in [1 .. Len(q) -> S]
    BY <1>1, LenProperties
  <1>3. q \in [1 .. Len(q) -> Nat]
    BY <1>2
  <1>4. q \in Seq(Nat)
    BY <1>2, <1>3, SeqDef
  <1> QED BY <1>1, <1>4 DEF q

LEMMA MigratedSound ==
  ASSUME NEW r, Sound(r), NEW lv, Monitors(lv)
  PROVE  IsMoved(r, Migrated(r, lv)) /\ Migrated(r, lv).next = r.next
  <1> DEFINE D == DOMAIN r.ws
             to(h) == HomeOutput(r.ws[h].prefs, lv)
             moved == {h \in D : to(h) # r.ws[h].output}
             arriving(o) == {h \in moved : to(h) = o}
             v(h) == [r.ws[h] EXCEPT !.output = to(h), !.prefs = HomePrefs(@, lv)]
             w == [h \in D |-> v(h)]
             p == [o \in OutIds |->
                     Kept(r.pos[o], ToSet(r.pos[o]) \ moved) \o InOrder(arriving(o))]
             sh == [o \in OutIds |-> IF r.shown[o] \in moved THEN NoHandle ELSE r.shown[o]]
             d == Migrated(r, lv)
  <1>0. /\ r \in Registries
        /\ r.ws \in Maps /\ r.pos \in [OutIds -> Seq(Nat)] /\ r.shown \in [OutIds -> Nat]
        /\ r.owner \in [Surfaces -> Nat] /\ r.next \in Nat \ {0}
        /\ Numbered(r.ws, r.next, r.last) /\ Preferring(r.ws)
        /\ Owned(r.ws, r.owner) /\ Placed(r.ws, r.pos) /\ Showing(r.pos, r.shown)
    BY RegistryFields DEF Sound
  <1>1. d = [r EXCEPT !.ws = w, !.pos = p, !.shown = sh]
    BY <1>0 DEF Migrated, Registries
  <1>2. IsFiniteSet(D) /\ D \in SUBSET Nat
    <2>1. D \in SUBSET (1 .. r.next - 1)
      BY <1>0 DEF Numbered
    <2>2. IsFiniteSet(1 .. r.next - 1)
      BY <1>0, FS_Interval
    <2>3. 1 .. r.next - 1 \subseteq Nat
      BY <1>0
    <2> HIDE DEF D
    <2> QED BY <2>1, <2>2, <2>3, FS_Subset
  <1>3. ASSUME NEW h \in D
        PROVE  /\ v(h) \in Workspaces /\ v(h).members = r.ws[h].members
               /\ v(h).output = to(h) /\ to(h) \in OutIds /\ IsInjective(v(h).prefs)
    <2> DEFINE x == r.ws[h]
               q == x.prefs
               n == HomePrefs(q, lv)
               y == HomeOutput(q, lv)
    <2>1. x \in Workspaces /\ q \in Seq(Names) /\ IsInjective(q)
      BY <1>0, WorkspaceIs, MapsIn
    <2> HIDE DEF q
    <2>2. y \in OutIds /\ n \in Seq(Names) /\ IsInjective(n)
      BY <2>1, HomeOutputIn, HomePrefsIn
    <2>3. v(h) = [x EXCEPT !.output = y, !.prefs = n] /\ to(h) = y
      BY DEF q
    <2> HIDE DEF x, y, n, v, to
    <2>4. /\ v(h) \in Workspaces /\ v(h).members = x.members /\ v(h).output = y
          /\ v(h).prefs = n
      BY <2>1, <2>2, <2>3 DEF Workspaces
    <2> QED BY <2>2, <2>3, <2>4 DEF x
  <1> HIDE DEF d, to, v, moved
  <1>4. w \in Maps /\ DOMAIN w = D /\ \A h \in D : w[h] = v(h)
    <2>1. w \in [D -> Workspaces]
      BY <1>3
    <2> QED BY <1>2, <2>1, MapsIn
  <1>5. ASSUME NEW o \in OutIds
        PROVE  /\ p[o] \in Seq(Nat) /\ IsInjective(p[o])
               /\ ToSet(p[o]) = (ToSet(r.pos[o]) \ moved) \cup arriving(o)
    <2> DEFINE a == r.pos[o]
               K == ToSet(a) \ moved
               k == Kept(a, K)
               A == arriving(o)
               n == InOrder(A)
    <2>1. a \in Seq(Nat) /\ IsInjective(a)
      BY <1>0 DEF Placed
    <2>2. A \in SUBSET Nat /\ IsFiniteSet(A)
      <3>1. A \in SUBSET D
        BY DEF moved
      <3> QED BY <1>2, <3>1, FS_Subset
    <2>3. p[o] = k \o n
      OBVIOUS
    <2>4. K \cap A = {}
      OBVIOUS
    <2>5. ToSet(a) \cap K = K
      OBVIOUS
    <2> HIDE DEF a, K, A
    <2>6. k \in Seq(Nat) /\ ToSet(k) = ToSet(a) \cap K /\ IsInjective(k)
      BY <2>1, KeptList
    <2>7. n \in Seq(Nat) /\ ToSet(n) = A /\ IsInjective(n)
      BY <2>2, InOrderNat
    <2> HIDE DEF k, n, p
    <2>8. ToSet(k) \cap ToSet(n) = {} /\ ToSet(k) = K
      BY <2>4, <2>5, <2>6, <2>7
    <2>9. k \o n \in Seq(Nat) /\ ToSet(k \o n) = ToSet(k) \cup ToSet(n) /\ IsInjective(k \o n)
      BY <2>6, <2>7, <2>8, ConcatList
    <2> QED BY <2>3, <2>7, <2>8, <2>9 DEF a, K, A
  <1>6. /\ p \in [OutIds -> Seq(Nat)] /\ sh \in [OutIds -> Nat]
        /\ \A o \in OutIds : sh[o] = IF r.shown[o] \in moved THEN NoHandle ELSE r.shown[o]
    <2>1. sh \in [OutIds -> Nat]
      BY <1>0 DEF NoHandle
    <2>2. \A o \in OutIds : p[o] \in Seq(Nat)
      BY <1>5
    <2>3. p \in [OutIds -> Seq(Nat)]
      BY <2>2
    <2> QED BY <2>1, <2>3
  <1> HIDE DEF w, p, sh
  <1>7. /\ d \in Registries /\ d.ws = w /\ d.pos = p /\ d.shown = sh
        /\ d.next = r.next /\ d.owner = r.owner /\ d.last = r.last
        /\ d.push = r.push /\ d.bags = r.bags
    BY <1>0, <1>1, <1>4, <1>6 DEF Registries
  <1>8. Numbered(w, r.next, r.last) /\ Preferring(w)
    BY <1>0, <1>3, <1>4 DEF Numbered, Preferring, D
  <1>9. Owned(w, r.owner)
    BY <1>0, <1>3, <1>4 DEF Owned, D
  <1>10. Placed(w, p)
    <2>1. ASSUME NEW o \in OutIds, NEW h
          PROVE  h \in ToSet(p[o]) <=> h \in DOMAIN w /\ w[h].output = o
      <3>1. h \in ToSet(r.pos[o]) <=> h \in D /\ r.ws[h].output = o
        BY <1>0 DEF Placed, D
      <3>2. h \in DOMAIN w => w[h].output = to(h)
        BY <1>3, <1>4
      <3>3. h \in ToSet(p[o]) <=> (h \in ToSet(r.pos[o]) /\ h \notin moved) \/ h \in arriving(o)
        BY <1>5
      <3> QED BY <1>4, <3>1, <3>2, <3>3 DEF moved
    <2> QED BY <1>5, <2>1 DEF Placed
  <1>11. Showing(p, sh)
    <2>1. ASSUME NEW o \in OutIds PROVE sh[o] \in ToSet(p[o]) \cup {NoHandle}
      <3>1. r.shown[o] \in ToSet(r.pos[o]) \cup {NoHandle}
        BY <1>0 DEF Showing
      <3> QED BY <1>5, <1>6, <3>1
    <2> QED BY <2>1 DEF Showing
  <1>12. Sound(d)
    BY <1>7, <1>8, <1>9, <1>10, <1>11 DEF Sound
  <1> QED BY <1>3, <1>4, <1>7, <1>12 DEF IsMoved, D, d

(* The monitors that have nothing get a workspace each. *)
LEMMA ReplenishedSound ==
  ASSUME NEW r, Sound(r), NEW lv, Monitors(lv)
  PROVE  LET d == Replenished(r, lv)
         IN  /\ IsMoved(r, d) /\ \A o \in DOMAIN lv : d.pos[o] # <<>>
             /\ d.next <= r.next + Cardinality(DOMAIN lv)
  <1> DEFINE D == DOMAIN r.ws
             bare == {o \in DOMAIN lv : r.pos[o] = <<>>}
             c == Cardinality(bare)
             below(o) == Cardinality({x \in bare : x < o})
             fresh(o) == r.next + below(o)
             place(h) == CHOOSE o \in bare : fresh(o) = h
             v(o) == NewWorkspace(o, <<lv[o]>>, FALSE)
             new == {fresh(o) : o \in bare}
             w == [h \in D \cup new |-> IF h \in D THEN r.ws[h] ELSE v(place(h))]
             p == [o \in OutIds |-> IF o \in bare THEN <<fresh(o)>> ELSE r.pos[o]]
             n == r.next + c
             d == Replenished(r, lv)
  <1>0. /\ r \in Registries
        /\ r.ws \in Maps /\ r.pos \in [OutIds -> Seq(Nat)] /\ r.shown \in [OutIds -> Nat]
        /\ r.owner \in [Surfaces -> Nat] /\ r.next \in Nat \ {0} /\ r.last \in [Names -> Nat]
        /\ Numbered(r.ws, r.next, r.last) /\ Preferring(r.ws)
        /\ Owned(r.ws, r.owner) /\ Placed(r.ws, r.pos) /\ Showing(r.pos, r.shown)
    BY RegistryFields DEF Sound
  <1>1. d = [r EXCEPT !.ws = w, !.pos = p, !.next = n]
    BY <1>0 DEF Replenished, Registries
  <1>2. /\ bare \in SUBSET DOMAIN lv /\ IsFiniteSet(bare) /\ bare \in SUBSET Int
        /\ bare \in SUBSET OutIds /\ \A o \in bare : lv[o] \in Names
    <2>1. bare \in SUBSET DOMAIN lv
      OBVIOUS
    <2>2. /\ DOMAIN lv \subseteq OutIds /\ DOMAIN lv \subseteq Int /\ IsFiniteSet(DOMAIN lv)
          /\ \A o \in DOMAIN lv : lv[o] \in Names
      BY MonitorsAre DEF Monitors
    <2> HIDE DEF bare
    <2> QED BY <2>1, <2>2, FS_Subset
  <1>3. c \in Nat
    <2> HIDE DEF bare
    <2> QED BY <1>2, FS_CardinalityType
  <1>4. \A o \in bare : below(o) \in 0 .. c - 1
    <2> HIDE DEF bare
    <2> QED BY <1>2, RankIn
  <1>5. \A a, b \in bare : below(a) = below(b) => a = b
    <2> HIDE DEF bare
    <2> QED BY <1>2, RankUnique
  <1>6. \A o \in bare : r.pos[o] = <<>>
    OBVIOUS
  <1>6a. \A o \in DOMAIN lv : o \in bare \/ r.pos[o] # <<>>
    OBVIOUS
  <1> HIDE DEF d, bare, c, below
  <1>7. /\ n \in Nat \ {0} /\ r.next <= n
        /\ \A o \in bare : fresh(o) \in r.next .. n - 1 /\ fresh(o) \in Nat \ {0}
        /\ \A a, b \in bare : fresh(a) = fresh(b) => a = b
    <2>1. n \in Nat \ {0} /\ r.next <= n
      BY <1>0, <1>3
    <2>2. ASSUME NEW o \in bare
          PROVE  fresh(o) \in r.next .. n - 1 /\ fresh(o) \in Nat \ {0}
      BY <1>0, <1>3, <1>4
    <2>3. ASSUME NEW a \in bare, NEW b \in bare, fresh(a) = fresh(b) PROVE a = b
      <3>1. below(a) = below(b)
        <4>1. below(a) \in Int /\ below(b) \in Int
          BY <1>4
        <4> QED BY <1>0, <2>3, <4>1
      <3> QED BY <1>5, <3>1
    <2> QED BY <2>1, <2>2, <2>3
  <1> HIDE DEF n, fresh
  <1>8. \A o \in bare : place(fresh(o)) = o
    BY <1>7
  <1> HIDE DEF place
  <1>9. D \in SUBSET Nat /\ (\A h \in D : h \in 1 .. r.next - 1) /\ (\A h \in D : r.ws[h] \in Workspaces)
    BY <1>0, MapsIn DEF Numbered
  <1>10. \A o \in bare : fresh(o) \notin D
    BY <1>0, <1>7, <1>9
  <1>11. ASSUME NEW o \in bare
         PROVE  /\ v(o) \in Workspaces /\ v(o).output = o /\ v(o).members = <<>>
                /\ IsInjective(v(o).prefs)
    <2> DEFINE a == lv[o]
               q == <<a>>
               b == FALSE
    <2>1. a \in Names
      BY <1>2
    <2> HIDE DEF a
    <2>2. q \in Seq(Names) /\ IsInjective(q) /\ o \in OutIds /\ b \in BOOLEAN
      BY <1>2, <2>1, OneList
    <2>3. v(o) = NewWorkspace(o, q, b)
      BY DEF a
    <2> HIDE DEF q, b, v
    <2> QED BY <2>2, <2>3 DEF NewWorkspace, Workspaces
  <1> HIDE DEF v, D
  <1>12. /\ DOMAIN w = D \cup new /\ \A h \in D : w[h] = r.ws[h]
         /\ \A o \in bare : w[fresh(o)] = v(o)
    BY <1>8, <1>10
  <1>12a. w = [h \in D \cup new |-> w[h]]
    OBVIOUS
  <1> HIDE DEF w
  <1>13. w \in Maps
    <2>1. D \cup new \in SUBSET Nat
      BY <1>7, <1>9
    <2>2. ASSUME NEW h \in D \cup new PROVE w[h] \in Workspaces
      <3>1. CASE h \in D
        BY <1>9, <1>12, <3>1
      <3>2. CASE h \in new
        BY <1>11, <1>12, <3>2
      <3> QED BY <2>2, <3>1, <3>2
    <2>3. w \in [D \cup new -> Workspaces]
      BY <1>12a, <2>2
    <2> HIDE DEF new
    <2> QED BY <2>1, <2>3, MapsIn
  <1>14. /\ p \in [OutIds -> Seq(Nat)] /\ \A o \in bare : p[o] = <<fresh(o)>>
         /\ \A o \in OutIds \ bare : p[o] = r.pos[o]
    <2>1. ASSUME NEW o \in OutIds PROVE p[o] \in Seq(Nat)
      <3>1. CASE o \in bare
        <4> DEFINE f == fresh(o)
        <4>1. f \in Nat
          BY <1>7, <3>1
        <4> HIDE DEF f
        <4>2. <<f>> \in Seq(Nat)
          BY <4>1
        <4> QED BY <3>1, <4>2 DEF f
      <3>2. CASE o \notin bare
        BY <1>0, <3>2
      <3> QED BY <3>1, <3>2
    <2> QED BY <1>2, <2>1
  <1> HIDE DEF p
  <1>15. /\ d \in Registries /\ d.ws = w /\ d.pos = p /\ d.next = n
         /\ d.shown = r.shown /\ d.owner = r.owner /\ d.last = r.last
         /\ d.push = r.push /\ d.bags = r.bags
    BY <1>0, <1>1, <1>7, <1>13, <1>14 DEF Registries
  <1>16. Numbered(w, n, r.last)
    <2>1. ASSUME NEW h \in DOMAIN w PROVE h \in 1 .. n - 1
      <3>1. CASE h \in D
        <4>1. h \in 1 .. r.next - 1
          BY <1>9, <3>1
        <4>2. r.next \in Nat /\ n \in Nat /\ r.next <= n
          BY <1>0, <1>7
        <4> QED BY <4>1, <4>2
      <3>2. CASE h \in new
        BY <1>0, <1>7, <3>2
      <3> QED BY <1>12, <2>1, <3>1, <3>2
    <2>2. ASSUME NEW x \in Names PROVE r.last[x] \in 0 .. n - 1
      <3>1. r.last[x] \in 0 .. r.next - 1
        BY <1>0 DEF Numbered
      <3> QED BY <1>0, <1>7, <3>1
    <2> QED BY <2>1, <2>2 DEF Numbered
  <1>17. Preferring(w)
    <2>1. ASSUME NEW h \in DOMAIN w PROVE IsInjective(w[h].prefs)
      <3>1. CASE h \in D
        BY <1>0, <1>12, <3>1 DEF Preferring, D
      <3>2. CASE h \in new
        BY <1>11, <1>12, <3>2
      <3> QED BY <1>12, <2>1, <3>1, <3>2
    <2> QED BY <2>1 DEF Preferring
  <1>18. Owned(w, r.owner)
    <2>1. \A s \in Surfaces : r.owner[s] \in D \cup {NoHandle}
      BY <1>0 DEF Owned, D
    <2>2. ASSUME NEW h \in DOMAIN w
          PROVE  /\ IsInjective(w[h].members)
                 /\ \A s \in Surfaces : s \in ToSet(w[h].members) <=> r.owner[s] = h
      <3>1. CASE h \in D
        BY <1>0, <1>12, <3>1 DEF Owned, D
      <3>2. CASE h \in new
        <4>1. w[h].members = <<>> /\ h \notin D /\ h # NoHandle
          BY <1>7, <1>10, <1>11, <1>12, <3>2 DEF NoHandle
        <4> QED BY <2>1, <4>1, EmptyList
      <3> QED BY <1>12, <2>2, <3>1, <3>2
    <2> QED BY <1>12, <2>1, <2>2 DEF Owned
  <1>19. Placed(w, p)
    <2>1. ASSUME NEW o \in OutIds
          PROVE  /\ IsInjective(p[o])
                 /\ \A h : h \in ToSet(p[o]) <=> h \in DOMAIN w /\ w[h].output = o
      <3>1. /\ IsInjective(r.pos[o])
            /\ \A h : h \in ToSet(r.pos[o]) <=> h \in D /\ r.ws[h].output = o
        BY <1>0 DEF Placed, D
      <3>2. CASE o \in bare
        <4> DEFINE f == fresh(o)
        <4>1. f \in Nat
          BY <1>7, <3>2
        <4> HIDE DEF f
        <4>2. ToSet(<<f>>) = {f} /\ IsInjective(<<f>>)
          BY <4>1, OneList
        <4>3. p[o] = <<f>>
          BY <1>14, <3>2 DEF f
        <4>4. \A h \in D : r.ws[h].output # o
          <5>1. ToSet(r.pos[o]) = {}
            BY <1>6, <3>2, EmptyList
          <5> QED BY <3>1, <5>1
        <4>5. ASSUME NEW h PROVE h = f <=> h \in DOMAIN w /\ w[h].output = o
          BY <1>11, <1>12, <3>2, <4>4 DEF f
        <4> QED BY <4>2, <4>3, <4>5
      <3>3. CASE o \notin bare
        <4>1. p[o] = r.pos[o]
          BY <1>14, <3>3
        <4>2. ASSUME NEW h
              PROVE  h \in D /\ r.ws[h].output = o <=> h \in DOMAIN w /\ w[h].output = o
          BY <1>11, <1>12, <3>3
        <4> QED BY <3>1, <4>1, <4>2
      <3> QED BY <3>2, <3>3
    <2> QED BY <2>1 DEF Placed
  <1>20. Showing(p, r.shown)
    <2>1. ASSUME NEW o \in OutIds PROVE r.shown[o] \in ToSet(p[o]) \cup {NoHandle}
      <3>1. r.shown[o] \in ToSet(r.pos[o]) \cup {NoHandle}
        BY <1>0 DEF Showing
      <3>2. CASE o \in bare
        BY <1>6, <3>1, <3>2, EmptyList
      <3>3. CASE o \notin bare
        BY <1>14, <3>1, <3>3
      <3> QED BY <3>2, <3>3
    <2> QED BY <2>1 DEF Showing
  <1>21. Sound(d)
    BY <1>15, <1>16, <1>17, <1>18, <1>19, <1>20 DEF Sound
  <1>22. IsMoved(r, d)
    BY <1>12, <1>15, <1>21 DEF IsMoved, D
  <1>23. ASSUME NEW o \in DOMAIN lv PROVE d.pos[o] # <<>>
    <2>1. CASE o \in bare
      <3> DEFINE f == fresh(o)
      <3>1. f \in Nat
        BY <1>7, <2>1
      <3> HIDE DEF f
      <3>2. <<f>> # <<>>
        BY <3>1, OneList
      <3> QED BY <1>14, <1>15, <2>1, <3>2 DEF f
    <2>2. CASE o \notin bare
      <3>1. o \in OutIds
        BY MonitorsAre
      <3> QED BY <1>6a, <1>14, <1>15, <2>2, <3>1
    <2> QED BY <2>1, <2>2
  <1>24. d.next <= r.next + Cardinality(DOMAIN lv)
    <2>1. IsFiniteSet(DOMAIN lv)
      BY MonitorsAre
    <2>2. c <= Cardinality(DOMAIN lv) /\ Cardinality(DOMAIN lv) \in Nat
      BY <1>2, <2>1, FS_Subset, FS_CardinalityType DEF c
    <2>3. d.next = r.next + c
      BY <1>15 DEF n
    <2> QED BY <1>0, <1>3, <2>2, <2>3
  <1> QED BY <1>22, <1>23, <1>24 DEF d

(* An output that shows nothing shows one of its workspaces. *)
LEMMA ReshownGood ==
  ASSUME NEW r, Sound(r), NEW lv
  PROVE  LET d == Reshown(r, lv)
         IN  IsMoved(r, d) /\ Settled(d) /\ d.pos = r.pos /\ d.next = r.next
  <1> DEFINE remembered(o) == IF o \in DOMAIN lv THEN r.last[lv[o]] ELSE NoHandle
             pick(o) == IF remembered(o) \in ToSet(r.pos[o]) THEN remembered(o)
                                                             ELSE r.pos[o][1]
             sh == [o \in OutIds |-> IF r.shown[o] = NoHandle /\ r.pos[o] # <<>>
                                     THEN pick(o) ELSE r.shown[o]]
             d == Reshown(r, lv)
  <1>0. /\ r \in Registries
        /\ r.ws \in Maps /\ r.pos \in [OutIds -> Seq(Nat)] /\ r.shown \in [OutIds -> Nat]
        /\ Numbered(r.ws, r.next, r.last) /\ Preferring(r.ws)
        /\ Owned(r.ws, r.owner) /\ Placed(r.ws, r.pos) /\ Showing(r.pos, r.shown)
    BY RegistryFields DEF Sound
  <1>1. d = [r EXCEPT !.shown = sh]
    BY DEF Reshown
  <1>2. ASSUME NEW o \in OutIds, r.pos[o] # <<>>
        PROVE  pick(o) \in ToSet(r.pos[o]) /\ pick(o) \in Nat \ {NoHandle}
    <2> DEFINE q == r.pos[o]
    <2>1. q \in Seq(Nat) /\ q # <<>>
      BY <1>0, <1>2
    <2>2. (pick(o) = remembered(o) /\ pick(o) \in ToSet(q)) \/ pick(o) = q[1]
      OBVIOUS
    <2> HIDE DEF q, pick, remembered
    <2>3. Len(q) \in Nat \ {0}
      BY <2>1, LenProperties, EmptySeq
    <2>4. 1 \in 1 .. Len(q)
      BY <2>3
    <2>5. q[1] \in ToSet(q)
      BY <2>1, <2>4, InList
    <2>6. pick(o) \in ToSet(q)
      BY <2>2, <2>5
    <2>7. \A h \in ToSet(q) : h \in DOMAIN r.ws
      BY <1>0 DEF Placed, q
    <2>8. NoHandle \notin DOMAIN r.ws /\ DOMAIN r.ws \subseteq Nat
      BY NoHandleFree
    <2> QED BY <2>6, <2>7, <2>8 DEF q
  <1> HIDE DEF pick, d
  <1>3. sh \in [OutIds -> Nat]
    BY <1>0, <1>2
  <1>4. \A o \in OutIds : sh[o] = IF r.shown[o] = NoHandle /\ r.pos[o] # <<>>
                                  THEN pick(o) ELSE r.shown[o]
    OBVIOUS
  <1> HIDE DEF sh
  <1>5. /\ d \in Registries /\ d.ws = r.ws /\ d.pos = r.pos /\ d.shown = sh
        /\ d.next = r.next /\ d.owner = r.owner /\ d.last = r.last
        /\ d.push = r.push /\ d.bags = r.bags
    BY <1>0, <1>1, <1>3 DEF Registries
  <1>6. Showing(r.pos, d.shown)
    BY <1>0, <1>2, <1>4, <1>5 DEF Showing
  <1>7. Sound(d)
    BY <1>0, <1>5, <1>6 DEF Sound
  <1>8. Settled(d)
    BY <1>2, <1>4, <1>5 DEF Settled
  <1>9. IsMoved(r, d)
    BY <1>5, <1>7 DEF IsMoved
  <1> QED BY <1>5, <1>8, <1>9 DEF d

(* Recomputed, a registry is good again, its monitors have workspaces, and *)
(* the outputs that show something else are pushed.                        *)
IsRecomputed(r, lv, d) ==
  /\ Good(d) /\ Told(r, d) /\ \A o \in DOMAIN lv : d.pos[o] # <<>>
  /\ d.owner = r.owner /\ d.bags = r.bags
  /\ d.next <= r.next + Cardinality(DOMAIN lv)

LEMMA RecomputedGood ==
  ASSUME NEW r, Good(r), NEW lv, Monitors(lv)
  PROVE  IsRecomputed(r, lv, Recompute(r, lv))
  <1> DEFINE r2 == Migrated(r, lv)
             r3 == Replenished(r2, lv)
             r4 == Reshown(r3, lv)
             ps == r4.push \cup {o \in OutIds : r4.shown[o] # r.shown[o]}
             d == Recompute(r, lv)
  <1>1. d = [r4 EXCEPT !.push = ps]
    BY DEF Recompute
  <1>2. Sound(r)
    BY DEF Good
  <1>3. IsMoved(r, r2) /\ r2.next = r.next
    BY <1>2, MigratedSound
  <1> HIDE DEF r2
  <1>4. /\ IsMoved(r2, r3) /\ \A o \in DOMAIN lv : r3.pos[o] # <<>>
        /\ r3.next <= r2.next + Cardinality(DOMAIN lv)
    <2>1. Sound(r2)
      BY <1>3 DEF IsMoved
    <2> QED BY <2>1, ReplenishedSound
  <1> HIDE DEF r3
  <1>5. IsMoved(r3, r4) /\ Settled(r4) /\ r4.pos = r3.pos /\ r4.next = r3.next
    <2>1. Sound(r3)
      BY <1>4 DEF IsMoved
    <2> QED BY <2>1, ReshownGood
  <1> HIDE DEF r4, d
  <1>6. /\ Sound(r4) /\ r4.owner = r.owner /\ r4.bags = r.bags /\ r4.push = r.push
        /\ \A h \in DOMAIN r.ws : h \in DOMAIN r4.ws /\ r4.ws[h].members = r.ws[h].members
    BY <1>3, <1>4, <1>5 DEF IsMoved
  <1>7. r4 \in Registries /\ ps \in SUBSET OutIds
    BY <1>6, RegistryFields DEF Sound
  <1> HIDE DEF ps
  <1>8. /\ d \in Registries /\ d.ws = r4.ws /\ d.pos = r4.pos /\ d.shown = r4.shown
        /\ d.next = r4.next /\ d.owner = r4.owner /\ d.last = r4.last
        /\ d.push = ps /\ d.bags = r4.bags
    BY <1>1, <1>7 DEF Registries
  <1>9. Good(d)
    <2>1. Sound(d)
      BY <1>6, <1>8 DEF Sound
    <2>2. Settled(d)
      BY <1>5, <1>8 DEF Settled
    <2> QED BY <2>1, <2>2 DEF Good
  <1>10. Told(r, d)
    <2>1. ASSUME NEW o \in OutIds PROVE StackFor(d, o) = StackFor(r, o) \/ o \in d.push
      <3>1. CASE r4.shown[o] # r.shown[o]
        BY <1>8, <3>1 DEF ps
      <3>2. CASE r4.shown[o] = r.shown[o]
        <4>1. r.shown[o] = NoHandle \/ r.shown[o] \in DOMAIN r.ws
          BY <1>2, ShownIsHere
        <4> QED BY <1>6, <1>8, <3>2, <4>1 DEF StackFor
      <3> QED BY <3>1, <3>2
    <2>2. r.push \subseteq d.push
      BY <1>6, <1>8 DEF ps
    <2> QED BY <1>6, <1>8, <2>1, <2>2 DEF Told
  <1>11. d.next <= r.next + Cardinality(DOMAIN lv)
    BY <1>3, <1>4, <1>5, <1>8
  <1> QED BY <1>4, <1>5, <1>6, <1>8, <1>9, <1>10, <1>11 DEF IsRecomputed, d

-----------------------------------------------------------------------------
(* The inductive invariant.                                                *)

(* The registry is good and its effects are handed over. *)
Core ==
  /\ Good(reg) /\ reg.next <= MaxHandle + 1 /\ reg.push = {} /\ reg.bags = {}

(* The writes of stacks, or of bag entries, have what registry g has, or   *)
(* are known to be old.                                                    *)
RightStacks(g, f) ==
  \A o \in DOMAIN f :
    /\ o \in OutIds /\ f[o].to \in Seq(Surfaces)
    /\ f[o].old \/ f[o].to = StackFor(g, o)

RightBags(g, f) ==
  \A s \in DOMAIN f :
    /\ s \in Surfaces /\ f[s].to \in Handles \cup {NoHandle}
    /\ f[s].old \/ f[s].to = g.owner[s]

(* What the handlers q and the transitions t have under way for g. *)
Flying(g, q, t) ==
  /\ q \in Seq(ToSet(q)) /\ RightStacks(g, t)
  /\ \A b \in ToSet(q) : RightStacks(g, b.stacks) /\ RightBags(g, b.bags)

(* A write that is not old is under way for an output, or a window. *)
NewStack(q, t, o) ==
  \/ \E b \in ToSet(q) : o \in DOMAIN b.stacks /\ ~b.stacks[o].old
  \/ o \in DOMAIN t /\ ~t[o].old

NewBag(q, s) == \E b \in ToSet(q) : s \in DOMAIN b.bags /\ ~b.bags[s].old

(* Where none is under way, the core has what g has, unless the last write *)
(* to arrive was an old one.                                               *)
Arrived(g, q, t) ==
  /\ stack \in [OutIds -> Seq(Surfaces)] /\ bag \in [Surfaces -> Handles \cup {NoHandle}]
  /\ oldStacks \subseteq OutIds /\ oldBags \subseteq Surfaces
  /\ \A o \in OutIds \ oldStacks : NewStack(q, t, o) \/ stack[o] = StackFor(g, o)
  /\ \A s \in Surfaces \ oldBags :
       NewBag(q, s) \/ g.owner[s] = NoHandle \/ bag[s] = g.owner[s]

Mirrored == Flying(reg, flight, trans) /\ Arrived(reg, flight, trans)

(* A monitor has workspaces, and an id that was given out. *)
Screens ==
  /\ Monitors(live) /\ nextOut \in 1 .. MaxOut + 1
  /\ \A o \in DOMAIN live : o < nextOut /\ reg.pos[o] # <<>>

IInv == Core /\ Mirrored /\ Screens /\ commands \in 0 .. MaxCommands

(* The stack of an output is a list of windows. *)
LEMMA StackIn ==
  ASSUME NEW r, Sound(r), NEW o \in OutIds
  PROVE  StackFor(r, o) \in Seq(Surfaces)
  <1>1. CASE r.shown[o] = NoHandle
    BY <1>1 DEF StackFor
  <1>2. CASE r.shown[o] # NoHandle
    <2>1. r.shown[o] \in DOMAIN r.ws
      BY <1>2, ShownIsHere
    <2>2. r.ws[r.shown[o]].members \in Seq(Surfaces)
      BY <2>1, WorkspaceIs
    <2> QED BY <1>2, <2>2 DEF StackFor
  <1> QED BY <1>1, <1>2

(* A registry with its effects spent. *)
Spent(r) == [r EXCEPT !.push = {}, !.bags = {}]

LEMMA SpentGood ==
  ASSUME NEW r, Good(r)
  PROVE  /\ Good(Spent(r)) /\ Spent(r).push = {} /\ Spent(r).bags = {}
         /\ Spent(r).next = r.next /\ Spent(r).pos = r.pos /\ Spent(r).owner = r.owner
         /\ \A o \in OutIds : StackFor(Spent(r), o) = StackFor(r, o)
  <1> DEFINE d == Spent(r)
  <1>1. Sound(r) /\ r \in Registries /\ Settled(r)
    BY DEF Good, Sound
  <1>2. d = [r EXCEPT !.push = {}, !.bags = {}]
    BY DEF Spent
  <1> HIDE DEF d
  <1>3. /\ d \in Registries /\ d.ws = r.ws /\ d.pos = r.pos /\ d.shown = r.shown
        /\ d.next = r.next /\ d.owner = r.owner /\ d.last = r.last
        /\ d.push = {} /\ d.bags = {}
    BY <1>1, <1>2 DEF Registries
  <1>4. Sound(d) /\ Settled(d)
    BY <1>1, <1>3 DEF Sound, Settled
  <1>5. \A o \in OutIds : StackFor(d, o) = StackFor(r, o)
    BY <1>3 DEF StackFor
  <1> QED BY <1>3, <1>4, <1>5 DEF Good, d

(* A list is a list of what is in it. *)
LEMMA OwnList ==
  ASSUME NEW S, NEW q \in Seq(S)
  PROVE  q \in Seq(ToSet(q))
  <1>1. /\ DOMAIN q = 1 .. Len(q) /\ Len(q) \in Nat /\ q \in [1 .. Len(q) -> S]
        /\ \A e : e \in ToSet(q) <=> \E k \in 1 .. Len(q) : q[k] = e
    BY InList, LenProperties
  <1>2. q \in [1 .. Len(q) -> ToSet(q)]
    BY <1>1
  <1> QED BY <1>1, <1>2, IsASeq

(* Only handlers with nothing left to send are taken off the list. *)
LEMMA PendingList ==
  ASSUME NEW q, q \in Seq(ToSet(q)), NEW p, p = Pending(q)
  PROVE  /\ p \in Seq(ToSet(p)) /\ ToSet(p) \subseteq ToSet(q)
         /\ \A b \in ToSet(q) :
              DOMAIN b.stacks # {} \/ DOMAIN b.bags # {} => b \in ToSet(p)
  <1> DEFINE K == {b \in ToSet(q) : DOMAIN b.stacks \cup DOMAIN b.bags # {}}
  <1>1. p = Kept(q, K)
    BY DEF Pending
  <1>2. \A b \in ToSet(q) : DOMAIN b.stacks # {} \/ DOMAIN b.bags # {} => b \in K
    OBVIOUS
  <1> HIDE DEF K
  <1>3. p \in Seq(ToSet(q)) /\ ToSet(p) = ToSet(q) \cap K
    <2> DEFINE S == ToSet(q)
    <2>1. q \in Seq(S)
      OBVIOUS
    <2> HIDE DEF S
    <2>2. Kept(q, K) \in Seq(S) /\ ToSet(Kept(q, K)) = ToSet(q) \cap K
      BY <2>1, KeptList
    <2> QED BY <1>1, <2>2 DEF S
  <1>4. p \in Seq(ToSet(p))
    BY <1>3, OwnList
  <1> QED BY <1>2, <1>3, <1>4

(* So a new write stays under way. *)
LEMMA PendingNew ==
  ASSUME NEW q, q \in Seq(ToSet(q)), NEW p, p = Pending(q), NEW t
  PROVE  /\ \A o : NewStack(q, t, o) => NewStack(p, t, o)
         /\ \A s : NewBag(q, s) => NewBag(p, s)
  <1>1. \A b \in ToSet(q) : DOMAIN b.stacks # {} \/ DOMAIN b.bags # {} => b \in ToSet(p)
    BY PendingList
  <1>2. ASSUME NEW o, NewStack(q, t, o) PROVE NewStack(p, t, o)
    BY <1>1, <1>2 DEF NewStack
  <1>3. ASSUME NEW s, NewBag(q, s) PROVE NewBag(p, s)
    BY <1>1, <1>3 DEF NewBag
  <1> QED BY <1>2, <1>3

(* One handler of the list replaced. *)
LEMMA ReplaceInList ==
  ASSUME NEW q, q \in Seq(ToSet(q)), NEW i \in DOMAIN q, NEW e,
         NEW d, d = [q EXCEPT ![i] = e]
  PROVE  /\ d \in Seq(ToSet(d)) /\ e \in ToSet(d) /\ q[i] \in ToSet(q)
         /\ \A b \in ToSet(d) : b = e \/ b \in ToSet(q)
         /\ \A b \in ToSet(q) : b = q[i] \/ b \in ToSet(d)
  <1> DEFINE n == Len(q)
             S == ToSet(q) \cup {e}
  <1>1. /\ DOMAIN q = 1 .. n /\ n \in Nat /\ q \in [1 .. n -> ToSet(q)]
        /\ \A b : b \in ToSet(q) <=> \E k \in 1 .. n : q[k] = b
    BY InList, LenProperties
  <1> HIDE DEF n
  <1>2. d \in [1 .. n -> S] /\ d[i] = e /\ \A k \in 1 .. n : k # i => d[k] = q[k]
    BY <1>1
  <1>3. d \in Seq(S) /\ Len(d) = n
    BY <1>1, <1>2, IsASeq, LenProperties
  <1> HIDE DEF S
  <1>4. \A b : b \in ToSet(d) <=> \E k \in 1 .. n : d[k] = b
    BY <1>3, InList
  <1>5. d \in Seq(ToSet(d))
    BY <1>3, OwnList
  <1>6. e \in ToSet(d) /\ q[i] \in ToSet(q)
    BY <1>1, <1>2, <1>4
  <1>7. ASSUME NEW b \in ToSet(d) PROVE b = e \/ b \in ToSet(q)
    <2>1. PICK k \in 1 .. n : d[k] = b
      BY <1>4
    <2> QED BY <1>1, <1>2, <2>1
  <1>8. ASSUME NEW b \in ToSet(q) PROVE b = q[i] \/ b \in ToSet(d)
    <2>1. PICK k \in 1 .. n : q[k] = b
      BY <1>1
    <2> QED BY <1>2, <1>4, <2>1
  <1> QED BY <1>5, <1>6, <1>7, <1>8

(* A handler's effects once newer ones for K and L are queued. *)
Aged(b, K, L) == Effects(Dated(b.stacks, K), Dated(b.bags, L), b.run, b.sent)

LEMMA AgedList ==
  ASSUME NEW q, q \in Seq(ToSet(q)), NEW K, NEW L,
         NEW d, d = [i \in DOMAIN q |-> Aged(q[i], K, L)]
  PROVE  /\ d \in Seq(ToSet(d))
         /\ \A c \in ToSet(d) : \E b \in ToSet(q) : c = Aged(b, K, L)
         /\ \A b \in ToSet(q) : Aged(b, K, L) \in ToSet(d)
  <1> DEFINE n == Len(q)
             S == {Aged(b, K, L) : b \in ToSet(q)}
  <1>1. /\ DOMAIN q = 1 .. n /\ n \in Nat
        /\ \A b : b \in ToSet(q) <=> \E k \in 1 .. n : q[k] = b
    BY InList
  <1> HIDE DEF n
  <1>2. d \in [1 .. n -> S] /\ \A k \in 1 .. n : d[k] = Aged(q[k], K, L)
    BY <1>1
  <1>a. \A c \in S : \E b \in ToSet(q) : c = Aged(b, K, L)
    OBVIOUS
  <1> HIDE DEF S
  <1>3. d \in Seq(S) /\ Len(d) = n
    BY <1>1, <1>2, IsASeq, LenProperties
  <1>4. /\ \A c : c \in ToSet(d) <=> \E k \in 1 .. n : d[k] = c
        /\ ToSet(d) \subseteq S
    BY <1>3, InList
  <1>5. d \in Seq(ToSet(d))
    BY <1>3, OwnList
  <1>6. ASSUME NEW b \in ToSet(q) PROVE Aged(b, K, L) \in ToSet(d)
    <2>1. PICK k \in 1 .. n : q[k] = b
      BY <1>1
    <2> QED BY <1>2, <1>4, <2>1
  <1> QED BY <1>4, <1>5, <1>6, <1>a

(* An old write stays so; one that becomes old is no longer answered for.  *)
LEMMA DatedIs ==
  ASSUME NEW f, NEW K
  PROVE  /\ DOMAIN Dated(f, K) = DOMAIN f
         /\ \A k \in DOMAIN f :
              /\ Dated(f, K)[k].to = f[k].to
              /\ Dated(f, K)[k].old <=> f[k].old \/ k \in K
  BY DEF Dated, Write

LEMMA StacksAge ==
  ASSUME NEW r, NEW g, NEW f, RightStacks(r, f), NEW K,
         \A o \in OutIds : StackFor(g, o) = StackFor(r, o) \/ o \in K
  PROVE  RightStacks(g, Dated(f, K))
  <1> DEFINE d == Dated(f, K)
  <1>1. /\ DOMAIN d = DOMAIN f
        /\ \A o \in DOMAIN f : d[o].to = f[o].to /\ (d[o].old <=> f[o].old \/ o \in K)
    BY DatedIs
  <1> HIDE DEF d
  <1>2. ASSUME NEW o \in DOMAIN d
        PROVE  o \in OutIds /\ d[o].to \in Seq(Surfaces) /\ (d[o].old \/ d[o].to = StackFor(g, o))
    <2>1. o \in OutIds /\ f[o].to \in Seq(Surfaces) /\ (f[o].old \/ f[o].to = StackFor(r, o))
      BY <1>1 DEF RightStacks
    <2> QED BY <1>1, <2>1
  <1>3. RightStacks(g, d)
    BY <1>2 DEF RightStacks
  <1> QED BY <1>3 DEF d

LEMMA BagsAge ==
  ASSUME NEW r, NEW g, NEW f, RightBags(r, f), NEW L,
         \A s \in Surfaces : g.owner[s] = r.owner[s] \/ s \in L
  PROVE  RightBags(g, Dated(f, L))
  <1> DEFINE d == Dated(f, L)
  <1>1. /\ DOMAIN d = DOMAIN f
        /\ \A s \in DOMAIN f : d[s].to = f[s].to /\ (d[s].old <=> f[s].old \/ s \in L)
    BY DatedIs
  <1> HIDE DEF d
  <1>2. ASSUME NEW s \in DOMAIN d
        PROVE  /\ s \in Surfaces /\ d[s].to \in Handles \cup {NoHandle}
               /\ d[s].old \/ d[s].to = g.owner[s]
    <2>1. /\ s \in Surfaces /\ f[s].to \in Handles \cup {NoHandle}
          /\ f[s].old \/ f[s].to = r.owner[s]
      BY <1>1 DEF RightBags
    <2> QED BY <1>1, <2>1
  <1>3. RightBags(g, d)
    BY <1>2 DEF RightBags
  <1> QED BY <1>3 DEF d

(* A handler's effects are queued: they have what its registry g has, and  *)
(* cover what g changes, so what is under way, or in the core, is right.   *)
LEMMA QueueKeeps ==
  ASSUME Mirrored, NEW g, reg' = g, NEW b, Queue(b),
         RightStacks(g, b.stacks), RightBags(g, b.bags),
         \A s \in DOMAIN b.bags : ~b.bags[s].old,
         UNCHANGED <<stack, oldStacks, oldBags>>,
         bag' \in [Surfaces -> Handles \cup {NoHandle}],
         \A o \in OutIds : \/ StackFor(g, o) = StackFor(reg, o)
                           \/ o \in DOMAIN b.stacks /\ ~b.stacks[o].old,
         \A s \in Surfaces : \/ g.owner[s] = reg.owner[s] /\ bag'[s] = bag[s]
                             \/ s \in DOMAIN b.bags
  PROVE  Mirrored'
  <1> DEFINE K == {o \in DOMAIN b.stacks : ~b.stacks[o].old}
             L == DOMAIN b.bags
             d == [i \in DOMAIN flight |-> Aged(flight[i], K, L)]
             q == Append(d, b)
             S == ToSet(d) \cup {b}
             f == flight'
             t == Dated(trans, K)
  <1>1. f = Pending(q) /\ trans' = t
    BY DEF Queue, Aged
  <1>2. /\ flight \in Seq(ToSet(flight)) /\ RightStacks(reg, trans)
        /\ \A c \in ToSet(flight) : RightStacks(reg, c.stacks) /\ RightBags(reg, c.bags)
    BY DEF Mirrored, Flying
  <1>3. /\ \A o \in OutIds : StackFor(g, o) = StackFor(reg, o) \/ o \in K
        /\ \A s \in Surfaces : g.owner[s] = reg.owner[s] \/ s \in L
        /\ \A o \in K : o \in DOMAIN b.stacks /\ ~b.stacks[o].old
        /\ \A s \in L : s \in DOMAIN b.bags /\ ~b.bags[s].old
    OBVIOUS
  <1>a. \A s \in Surfaces : \/ g.owner[s] = reg.owner[s] /\ bag'[s] = bag[s]
                            \/ s \in L
    OBVIOUS
  <1> HIDE DEF K, L
  <1>4. /\ d \in Seq(ToSet(d))
        /\ \A c \in ToSet(d) : \E e \in ToSet(flight) : c = Aged(e, K, L)
        /\ \A e \in ToSet(flight) : Aged(e, K, L) \in ToSet(d)
    BY <1>2, AgedList
  <1> HIDE DEF d
  <1>5. q \in Seq(S) /\ ToSet(q) = S
    <2>1. d \in Seq(S)
      BY <1>4
    <2>2. b \in S
      OBVIOUS
    <2> HIDE DEF S
    <2>3. q \in Seq(S) /\ ToSet(q) = ToSet(d) \cup {b}
      BY <2>1, <2>2, AppendList
    <2> QED BY <2>3 DEF S
  <1>6. q \in Seq(ToSet(q)) /\ \A c : c \in ToSet(q) <=> c \in ToSet(d) \/ c = b
    BY <1>5
  <1> HIDE DEF S, q
  <1>7. ASSUME NEW c \in ToSet(q) PROVE RightStacks(g, c.stacks) /\ RightBags(g, c.bags)
    <2>1. CASE c = b
      BY <2>1
    <2>2. CASE c \in ToSet(d)
      <3>1. PICK e \in ToSet(flight) : c = Aged(e, K, L)
        BY <1>4, <2>2
      <3>2. c.stacks = Dated(e.stacks, K) /\ c.bags = Dated(e.bags, L)
        BY <3>1 DEF Aged, Effects
      <3>3. RightStacks(reg, e.stacks) /\ RightBags(reg, e.bags)
        BY <1>2
      <3>4. RightStacks(g, Dated(e.stacks, K))
        BY <1>3, <3>3, StacksAge
      <3>5. RightBags(g, Dated(e.bags, L))
        BY <1>3, <3>3, BagsAge
      <3> QED BY <3>2, <3>4, <3>5
    <2> QED BY <1>6, <2>1, <2>2
  <1>8. RightStacks(g, t)
    BY <1>2, <1>3, StacksAge
  <1>9. f \in Seq(ToSet(f)) /\ ToSet(f) \subseteq ToSet(q)
    BY <1>1, <1>6, PendingList
  <1>10. Flying(g, f, t)
    BY <1>7, <1>8, <1>9 DEF Flying
  <1>11. ASSUME NEW o \in OutIds, NewStack(flight, trans, o) \/ o \in K
         PROVE  NewStack(f, t, o)
    <2> SUFFICES NewStack(q, t, o)
      BY <1>1, <1>6, PendingNew
    <2>1. CASE o \in K
      BY <1>3, <1>6, <2>1 DEF NewStack
    <2>2. CASE o \notin K /\ \E e \in ToSet(flight) : o \in DOMAIN e.stacks /\ ~e.stacks[o].old
      <3>1. PICK e \in ToSet(flight) : o \in DOMAIN e.stacks /\ ~e.stacks[o].old
        BY <2>2
      <3> DEFINE c == Aged(e, K, L)
      <3>2. c.stacks = Dated(e.stacks, K) /\ c \in ToSet(q)
        BY <1>4, <1>6 DEF Aged, Effects
      <3>3. o \in DOMAIN Dated(e.stacks, K) /\ ~Dated(e.stacks, K)[o].old
        BY <2>2, <3>1, DatedIs
      <3> HIDE DEF c
      <3> QED BY <3>2, <3>3 DEF NewStack
    <2>3. CASE o \notin K /\ o \in DOMAIN trans /\ ~trans[o].old
      <3>1. o \in DOMAIN t /\ ~t[o].old
        BY <2>3, DatedIs
      <3> HIDE DEF t
      <3> QED BY <3>1 DEF NewStack
    <2> QED BY <1>11, <2>1, <2>2, <2>3 DEF NewStack
  <1>12. ASSUME NEW s \in Surfaces, NewBag(flight, s) \/ s \in L
         PROVE  NewBag(f, s)
    <2> SUFFICES NewBag(q, s)
      BY <1>1, <1>6, PendingNew
    <2>1. CASE s \in L
      BY <1>3, <1>6, <2>1 DEF NewBag
    <2>2. CASE s \notin L /\ NewBag(flight, s)
      <3>1. PICK e \in ToSet(flight) : s \in DOMAIN e.bags /\ ~e.bags[s].old
        BY <2>2 DEF NewBag
      <3> DEFINE c == Aged(e, K, L)
      <3>2. c.bags = Dated(e.bags, L) /\ c \in ToSet(q)
        BY <1>4, <1>6 DEF Aged, Effects
      <3>3. s \in DOMAIN Dated(e.bags, L) /\ ~Dated(e.bags, L)[s].old
        BY <2>2, <3>1, DatedIs
      <3> HIDE DEF c
      <3> QED BY <3>2, <3>3 DEF NewBag
    <2> QED BY <1>12, <2>1, <2>2
  <1>13. Arrived(reg, flight, trans)
    BY DEF Mirrored
  <1> HIDE DEF f, t
  <1>14. \A o \in OutIds \ oldStacks : NewStack(f, t, o) \/ stack[o] = StackFor(g, o)
    <2>1. \A o \in OutIds \ oldStacks :
            NewStack(flight, trans, o) \/ stack[o] = StackFor(reg, o)
      BY <1>13 DEF Arrived
    <2> QED BY <1>3, <1>11, <2>1
  <1>15. \A s \in Surfaces \ oldBags :
           NewBag(f, s) \/ g.owner[s] = NoHandle \/ bag'[s] = g.owner[s]
    <2>1. \A s \in Surfaces \ oldBags :
            NewBag(flight, s) \/ reg.owner[s] = NoHandle \/ bag[s] = reg.owner[s]
      BY <1>13 DEF Arrived
    <2> QED BY <1>a, <1>12, <2>1
  <1>16. Arrived(reg, flight, trans)'
    BY <1>1, <1>13, <1>14, <1>15 DEF Arrived, f, NewStack, NewBag, StackFor
  <1>17. Flying(reg, flight, trans)'
    BY <1>1, <1>10 DEF Flying, f, RightStacks, RightBags, StackFor
  <1> QED BY <1>16, <1>17 DEF Mirrored


(* The registry is replaced, and what changed of it is queued. *)
LEMMA CommitKeeps ==
  ASSUME Core, Mirrored, NEW r, Good(r), Told(reg, r), Commit(r),
         bag' \in [Surfaces -> Handles \cup {NoHandle}],
         \A s \in Surfaces : bag'[s] = bag[s] \/ s \in r.bags
  PROVE  Core' /\ Mirrored' /\ reg'.pos = r.pos
  <1> DEFINE st == [o \in r.push |-> Write(StackFor(r, o), FALSE)]
             bg == [s \in r.bags |-> Write(r.owner[s], FALSE)]
             b == Effects(st, bg, FALSE, 0)
             g == Spent(r)
  <1>1. /\ r.next <= MaxHandle + 1 /\ reg' = g /\ Queue(b)
        /\ UNCHANGED <<stack, oldStacks, oldBags>>
    BY DEF Commit, Spent
  <1>2. /\ Good(g) /\ g.push = {} /\ g.bags = {} /\ g.next = r.next
        /\ g.pos = r.pos /\ g.owner = r.owner
        /\ \A o \in OutIds : StackFor(g, o) = StackFor(r, o)
    BY SpentGood
  <1>3. /\ b.stacks = st /\ b.bags = bg /\ DOMAIN st = r.push /\ DOMAIN bg = r.bags
        /\ \A o \in r.push : st[o].to = StackFor(r, o) /\ ~st[o].old
        /\ \A s \in r.bags : bg[s].to = r.owner[s] /\ ~bg[s].old
    BY DEF Effects, Write
  <1> HIDE DEF st, bg, b, g
  <1>4. /\ Sound(r) /\ r.push \subseteq OutIds /\ r.bags \subseteq Surfaces
        /\ r.next \in Nat \ {0} /\ Numbered(r.ws, r.next, r.last) /\ Owned(r.ws, r.owner)
    BY RegistryFields DEF Good, Sound
  <1>5. RightStacks(g, b.stacks)
    BY <1>2, <1>3, <1>4, StackIn DEF RightStacks
  <1>6. RightBags(g, b.bags)
    <2>1. ASSUME NEW s \in Surfaces PROVE r.owner[s] \in Handles \cup {NoHandle}
      <3>1. r.owner[s] = NoHandle \/ r.owner[s] \in 1 .. r.next - 1
        BY <1>4 DEF Owned, Numbered
      <3>2. MaxHandle \in Nat
        BY ConstantsAssumption
      <3> QED BY <1>1, <1>4, <3>1, <3>2 DEF Handles
    <2> QED BY <1>2, <1>3, <1>4, <2>1 DEF RightBags
  <1>7. \A o \in OutIds : \/ StackFor(g, o) = StackFor(reg, o)
                          \/ o \in DOMAIN b.stacks /\ ~b.stacks[o].old
    BY <1>2, <1>3 DEF Told
  <1>8. \A s \in Surfaces : \/ g.owner[s] = reg.owner[s] /\ bag'[s] = bag[s]
                            \/ s \in DOMAIN b.bags
    BY <1>2, <1>3 DEF Told
  <1>9. \A s \in DOMAIN b.bags : ~b.bags[s].old
    BY <1>3
  <1>10. Mirrored'
    BY <1>1, <1>5, <1>6, <1>7, <1>8, <1>9, QueueKeeps
  <1>11. Core'
    BY <1>1, <1>2 DEF Core
  <1> QED BY <1>1, <1>2, <1>10, <1>11

(* The bags are as they were. *)
LEMMA StillKeeps ==
  ASSUME Core, Mirrored, NEW r, Good(r), Told(reg, r), Commit(r), UNCHANGED bag
  PROVE  Core' /\ Mirrored' /\ reg'.pos = r.pos
  <1>1. bag \in [Surfaces -> Handles \cup {NoHandle}]
    BY DEF Mirrored, Arrived
  <1> QED BY <1>1, CommitKeeps

(* A command is counted; no output loses its last workspace. *)
LEMMA TurnKeeps ==
  ASSUME IInv, NEW r, Stays(reg, r), Core', Mirrored', reg'.pos = r.pos,
         Commanded, UNCHANGED <<live, nextOut>>
  PROVE  IInv'
  <1>1. Screens'
    <2>1. \A o \in DOMAIN live : o \in OutIds
      BY MonitorsAre DEF IInv, Screens
    <2>2. \A o \in DOMAIN live : r.pos[o] # <<>>
      BY <2>1 DEF IInv, Screens, Stays
    <2> QED BY <2>2 DEF IInv, Screens
  <1>2. commands' \in 0 .. MaxCommands
    <2>1. commands < MaxCommands /\ commands' = commands + 1 /\ commands \in 0 .. MaxCommands
      BY DEF Commanded, IInv
    <2>2. MaxCommands \in Nat
      BY ConstantsAssumption
    <2> QED BY <2>1, <2>2
  <1> QED BY <1>1, <1>2 DEF IInv

LEMMA CommandKeeps ==
  ASSUME IInv, NEW r, Goes(reg, r), Command(r)
  PROVE  IInv'
  <1>1. Commanded /\ Commit(r) /\ UNCHANGED <<live, nextOut, bag>>
    BY DEF Command
  <1>2. Good(r) /\ Told(reg, r) /\ Stays(reg, r) /\ Core /\ Mirrored
    BY DEF Goes, IInv
  <1>3. Core' /\ Mirrored' /\ reg'.pos = r.pos
    BY <1>1, <1>2, StillKeeps
  <1> QED BY <1>1, <1>2, <1>3, TurnKeeps

(* What is good about the registry, in a few facts. *)
LEMMA IInvFacts ==
  ASSUME IInv
  PROVE  /\ Good(reg) /\ Sound(reg) /\ Owned(reg.ws, reg.owner)
         /\ \A o : Name(o) \in Names
         /\ DOMAIN live \subseteq OutIds /\ OUTPUT_DEFAULT \in OutIds
  <1>1. Good(reg) /\ Sound(reg) /\ Owned(reg.ws, reg.owner)
    BY DEF IInv, Core, Good, Sound
  <1>2. ASSUME NEW o PROVE Name(o) \in Names
    <2>1. \A x \in DOMAIN live : live[x] \in Names
      BY DEF IInv, Screens, Monitors
    <2>2. Boot \in Names
      BY ConstantsAssumption
    <2> QED BY <2>1, <2>2 DEF Name, OutputNameOf
  <1>3. DOMAIN live \subseteq OutIds
    BY MonitorsAre DEF IInv, Screens
  <1>4. OUTPUT_DEFAULT \in OutIds
    <2>1. MaxOut \in Nat
      BY ConstantsAssumption
    <2> QED BY <2>1 DEF OUTPUT_DEFAULT, OutIds, Fallback
  <1> QED BY <1>1, <1>2, <1>3, <1>4

LEMMA SeededIs ==
  ASSUME NEW q \in CallerPrefs, NEW n \in Names
  PROVE  Seeded(q, n) \in Seq(Names) /\ IsInjective(Seeded(q, n))
  <1>1. q \in Seq(Names) /\ IsInjective(q)
    BY ConstantsAssumption
  <1>2. CASE n \in ToSet(q)
    BY <1>1, <1>2 DEF Seeded
  <1>3. CASE n \notin ToSet(q)
    <2>1. Append(q, n) \in Seq(Names) /\ IsInjective(Append(q, n))
      BY <1>1, <1>3, AppendList
    <2> QED BY <1>3, <2>1 DEF Seeded
  <1> QED BY <1>2, <1>3

LEMMA CreateKeeps ==
  ASSUME IInv, NEW o \in OutIds, NEW p \in CallerPrefs, NEW b \in BOOLEAN,
         Create(o, p, b)
  PROVE  IInv'
  <1> DEFINE n == Name(o)
             q == Seeded(p, n)
             e == EnsureOutput(reg, o, n)
             r == Added(e, o, q, b)
             v == NewWorkspace(o, q, b)
  <1>1. Command(r)
    BY DEF Create
  <1>2. Good(reg) /\ n \in Names
    BY IInvFacts
  <1> HIDE DEF n
  <1>3. Goes(reg, e) /\ e.pos[o] # <<>>
    BY <1>2, EnsureGood
  <1> HIDE DEF e
  <1>4. Sound(e) /\ Settled(e) /\ q \in Seq(Names) /\ IsInjective(q)
    BY <1>2, <1>3, SeededIs DEF Goes, Good
  <1> HIDE DEF q
  <1>5. IsAdded(e, r, o, v)
    BY <1>4, AddedSound
  <1> HIDE DEF r, v
  <1>6. /\ Sound(r) /\ Told(e, r) /\ Stays(e, r) /\ r.shown = e.shown
        /\ r.pos = [e.pos EXCEPT ![o] = Append(@, e.next)]
    BY <1>5 DEF IsAdded
  <1>7. Settled(r)
    <2>1. ASSUME NEW x \in OutIds, r.pos[x] # <<>> PROVE r.shown[x] # NoHandle
      <3>1. e.pos[x] # <<>>
        <4>1. CASE x = o
          BY <1>3, <4>1
        <4>2. CASE x # o
          <5>1. e.pos \in [OutIds -> Seq(Nat)]
            BY <1>4, RegistryFields DEF Sound
          <5> QED BY <1>6, <2>1, <4>2, <5>1
        <4> QED BY <4>1, <4>2
      <3> QED BY <1>4, <1>6, <3>1 DEF Settled
    <2> QED BY <2>1 DEF Settled
  <1>8. Told(reg, r) /\ Stays(reg, r)
    BY <1>3, <1>6, GoesOn DEF Goes
  <1>9. Goes(reg, r)
    BY <1>6, <1>7, <1>8 DEF Goes, Good
  <1> QED BY <1>1, <1>9, CommandKeeps

LEMMA DestroyKeeps ==
  ASSUME IInv, NEW h \in DOMAIN reg.ws, DestroyAt(h)
  PROVE  IInv'
  <1> DEFINE n == Name(reg.ws[h].output)
             r == Destroy(reg, h, n)
  <1>1. Command(r)
    BY DEF DestroyAt
  <1>2. Good(reg) /\ n \in Names
    BY IInvFacts
  <1> HIDE DEF n
  <1>3. IsDestroyed(reg, h, r)
    BY <1>2, DestroyGood
  <1> HIDE DEF r
  <1>4. Goes(reg, r)
    BY <1>3 DEF IsDestroyed
  <1> QED BY <1>1, <1>4, CommandKeeps

LEMMA ShowKeeps ==
  ASSUME IInv, NEW h \in DOMAIN reg.ws, ShowAt(h)
  PROVE  IInv'
  <1> DEFINE n == Name(reg.ws[h].output)
             r == Show(reg, h, n)
  <1>1. Command(r)
    BY DEF ShowAt
  <1>2. Good(reg) /\ n \in Names
    BY IInvFacts
  <1> HIDE DEF n
  <1>3. IsReaped(reg, reg.ws[h].output, r)
    BY <1>2, ShowGood
  <1> HIDE DEF r
  <1>4. Goes(reg, r)
    BY <1>3 DEF IsReaped
  <1> QED BY <1>1, <1>4, CommandKeeps

LEMMA NoWrites == DOMAIN << >> = {}
  <1> DEFINE q == << >>
  <1>1. q \in Seq({}) /\ Len(q) = 0
    BY EmptySeq
  <1> HIDE DEF q
  <1>2. DOMAIN q = 1 .. Len(q)
    BY <1>1, LenProperties
  <1>3. DOMAIN q = {}
    BY <1>1, <1>2
  <1> QED BY <1>3 DEF q

(* The stack of an animated show is left to its transition; shown already, *)
(* the workspace's output changes nothing, and an old write is queued.     *)
LEMMA ShowAnimatedKeeps ==
  ASSUME IInv, NEW h \in DOMAIN reg.ws, ShowAnimated(h)
  PROVE  IInv'
  <1> DEFINE o == reg.ws[h].output
             n == Name(o)
             r == Show(reg, h, n)
             w == IF o \in r.push THEN Write(StackFor(r, o), FALSE) ELSE Write(<<>>, TRUE)
             st == [x \in {o} |-> w]
             bg == << >>
             b == Effects(st, bg, TRUE, 0)
             g == Spent(r)
  <1>1. /\ o \in DOMAIN live /\ Commanded /\ reg' = [r EXCEPT !.push = {}] /\ Queue(b)
        /\ UNCHANGED <<live, nextOut, stack, bag, oldStacks, oldBags>>
    BY DEF ShowAnimated
  <1>2. /\ b.stacks = st /\ b.bags = bg /\ DOMAIN bg = {} /\ DOMAIN st = {o} /\ st[o] = w
    BY NoWrites DEF Effects
  <1>3. Good(reg) /\ n \in Names /\ o \in OutIds
    BY <1>1, IInvFacts
  <1> HIDE DEF n, st, bg, b
  <1>4. IsReaped(reg, o, r) /\ r.next = reg.next
    BY <1>3, ShowGood
  <1> HIDE DEF r, o
  <1>5. w.to = (IF o \in r.push THEN StackFor(r, o) ELSE <<>>) /\ (w.old <=> o \notin r.push)
    BY DEF Write
  <1> HIDE DEF w
  <1>6. /\ Good(r) /\ Told(reg, r) /\ Stays(reg, r) /\ r.push \subseteq reg.push \cup {o}
        /\ r.owner = reg.owner /\ r.bags = reg.bags /\ r \in Registries /\ Sound(r)
    BY <1>4 DEF IsReaped, Goes, Good, Sound
  <1>7. reg.push = {} /\ reg.bags = {} /\ reg.next <= MaxHandle + 1 /\ Mirrored
    BY DEF IInv, Core
  <1>8. reg' = g
    BY <1>1, <1>6, <1>7 DEF Spent, Registries
  <1>9. /\ Good(g) /\ g.push = {} /\ g.bags = {} /\ g.next = r.next
        /\ g.pos = r.pos /\ g.owner = r.owner
        /\ \A x \in OutIds : StackFor(g, x) = StackFor(r, x)
    BY <1>6, SpentGood
  <1> HIDE DEF g
  <1>10. RightStacks(g, b.stacks)
    <2>1. StackFor(r, o) \in Seq(Surfaces) /\ <<>> \in Seq(Surfaces)
      BY <1>3, <1>6, StackIn
    <2> QED BY <1>2, <1>3, <1>5, <1>9, <2>1 DEF RightStacks
  <1>11. RightBags(g, b.bags) /\ \A s \in DOMAIN b.bags : ~b.bags[s].old
    BY <1>2 DEF RightBags
  <1>12. \A x \in OutIds : \/ StackFor(g, x) = StackFor(reg, x)
                           \/ x \in DOMAIN b.stacks /\ ~b.stacks[x].old
    <2>1. \A x \in OutIds : StackFor(r, x) = StackFor(reg, x) \/ x \in r.push
      BY <1>6 DEF Told
    <2>2. r.push \subseteq {o}
      BY <1>6, <1>7
    <2> QED BY <1>2, <1>5, <1>9, <2>1, <2>2
  <1>13. \A s \in Surfaces : \/ g.owner[s] = reg.owner[s] /\ bag'[s] = bag[s]
                             \/ s \in DOMAIN b.bags
    BY <1>1, <1>6, <1>9
  <1>14. bag' \in [Surfaces -> Handles \cup {NoHandle}]
    BY <1>1, <1>7 DEF Mirrored, Arrived
  <1>15. Mirrored'
    BY <1>1, <1>7, <1>8, <1>10, <1>11, <1>12, <1>13, <1>14, QueueKeeps
  <1>16. reg'.pos = r.pos /\ Core'
    BY <1>4, <1>7, <1>8, <1>9 DEF Core
  <1> QED BY <1>1, <1>6, <1>15, <1>16, TurnKeeps

(* A key dropped leaves the other writes as they were. *)
LEMMA DropIs ==
  ASSUME NEW f, NEW k
  PROVE  /\ DOMAIN Drop(f, k) = DOMAIN f \ {k}
         /\ \A x \in DOMAIN f \ {k} : Drop(f, k)[x] = f[x]
  BY DEF Drop

LEMMA DropRight ==
  ASSUME NEW g, NEW f, NEW k
  PROVE  /\ RightStacks(g, f) => RightStacks(g, Drop(f, k))
         /\ RightBags(g, f) => RightBags(g, Drop(f, k))
  <1> DEFINE d == Drop(f, k)
  <1>1. DOMAIN d = DOMAIN f \ {k} /\ \A x \in DOMAIN f \ {k} : d[x] = f[x]
    BY DropIs
  <1> HIDE DEF d
  <1>2. RightStacks(g, f) => RightStacks(g, d)
    BY <1>1 DEF RightStacks
  <1>3. RightBags(g, f) => RightBags(g, d)
    BY <1>1 DEF RightBags
  <1> QED BY <1>2, <1>3 DEF d

(* A handler sent one of its effects: e is what it has left. *)
LEMMA SentKeeps ==
  ASSUME Mirrored, NEW i \in DOMAIN flight, NEW e,
         RightStacks(reg, e.stacks), RightBags(reg, e.bags),
         flight' = Pending([flight EXCEPT ![i] = e])
  PROVE  /\ flight' \in Seq(ToSet(flight'))
         /\ \A b \in ToSet(flight') : RightStacks(reg, b.stacks) /\ RightBags(reg, b.bags)
         /\ \A b \in ToSet(flight) :
              DOMAIN b.stacks # {} \/ DOMAIN b.bags # {}
                => b = flight[i] \/ b \in ToSet(flight')
         /\ DOMAIN e.stacks # {} \/ DOMAIN e.bags # {} => e \in ToSet(flight')
  <1> DEFINE q == flight
             d == [q EXCEPT ![i] = e]
             p == flight'
  <1>1. /\ q \in Seq(ToSet(q))
        /\ \A b \in ToSet(q) : RightStacks(reg, b.stacks) /\ RightBags(reg, b.bags)
    BY DEF Mirrored, Flying
  <1>2. p = Pending(d) /\ i \in DOMAIN q
    OBVIOUS
  <1> HIDE DEF q, p
  <1>3. /\ d \in Seq(ToSet(d)) /\ e \in ToSet(d)
        /\ \A b \in ToSet(d) : b = e \/ b \in ToSet(q)
        /\ \A b \in ToSet(q) : b = q[i] \/ b \in ToSet(d)
    BY <1>1, <1>2, ReplaceInList
  <1> HIDE DEF d
  <1>4. /\ p \in Seq(ToSet(p)) /\ ToSet(p) \subseteq ToSet(d)
        /\ \A b \in ToSet(d) : DOMAIN b.stacks # {} \/ DOMAIN b.bags # {} => b \in ToSet(p)
    BY <1>2, <1>3, PendingList
  <1>5. \A b \in ToSet(p) : RightStacks(reg, b.stacks) /\ RightBags(reg, b.bags)
    BY <1>1, <1>3, <1>4
  <1>6. \A b \in ToSet(q) :
          DOMAIN b.stacks # {} \/ DOMAIN b.bags # {} => b = q[i] \/ b \in ToSet(p)
    BY <1>3, <1>4
  <1>7. DOMAIN e.stacks # {} \/ DOMAIN e.bags # {} => e \in ToSet(p)
    BY <1>3, <1>4
  <1> QED BY <1>4, <1>5, <1>6, <1>7 DEF q, p

(* What is new and under way for others stays so. *)
LEMMA OthersNew ==
  ASSUME Mirrored, NEW i \in DOMAIN flight, NEW e,
         RightStacks(reg, e.stacks), RightBags(reg, e.bags),
         flight' = Pending([flight EXCEPT ![i] = e])
  PROVE  /\ \A x : (\E b \in ToSet(flight) : x \in DOMAIN b.stacks /\ ~b.stacks[x].old)
              => \/ \E b \in ToSet(flight') : x \in DOMAIN b.stacks /\ ~b.stacks[x].old
                 \/ /\ x \in DOMAIN flight[i].stacks /\ ~flight[i].stacks[x].old
                    /\ x \in DOMAIN e.stacks => e.stacks[x].old
         /\ \A x : NewBag(flight, x)
              => \/ NewBag(flight', x)
                 \/ /\ x \in DOMAIN flight[i].bags /\ ~flight[i].bags[x].old
                    /\ x \in DOMAIN e.bags => e.bags[x].old
  <1> DEFINE Q == ToSet(flight)
             P == ToSet(flight')
  <1>1. /\ \A b \in Q : DOMAIN b.stacks # {} \/ DOMAIN b.bags # {} => b = flight[i] \/ b \in P
        /\ DOMAIN e.stacks # {} \/ DOMAIN e.bags # {} => e \in P
    BY SentKeeps
  <1> HIDE DEF Q, P
  <1>2. ASSUME NEW x, NEW b \in Q, x \in DOMAIN b.stacks, ~b.stacks[x].old
        PROVE  \/ \E c \in P : x \in DOMAIN c.stacks /\ ~c.stacks[x].old
               \/ /\ x \in DOMAIN flight[i].stacks /\ ~flight[i].stacks[x].old
                  /\ x \in DOMAIN e.stacks => e.stacks[x].old
    <2>1. CASE b \in P
      BY <1>2, <2>1
    <2>2. CASE b = flight[i]
      BY <1>1, <1>2, <2>2
    <2> QED BY <1>1, <1>2, <2>1, <2>2
  <1>3. ASSUME NEW x, NEW b \in Q, x \in DOMAIN b.bags, ~b.bags[x].old
        PROVE  \/ \E c \in P : x \in DOMAIN c.bags /\ ~c.bags[x].old
               \/ /\ x \in DOMAIN flight[i].bags /\ ~flight[i].bags[x].old
                  /\ x \in DOMAIN e.bags => e.bags[x].old
    <2>1. CASE b \in P
      BY <1>3, <2>1
    <2>2. CASE b = flight[i]
      BY <1>1, <1>3, <2>2
    <2> QED BY <1>1, <1>3, <2>1, <2>2
  <1> QED BY <1>2, <1>3 DEF Q, P, NewBag

(* The registry and the monitors are as they were. *)
LEMMA ArrivalKeeps ==
  ASSUME IInv, UNCHANGED <<reg, live, nextOut, commands>>, Mirrored'
  PROVE  IInv'
  <1>1. Core' /\ Screens'
    BY DEF IInv, Core, Screens
  <1> QED BY <1>1 DEF IInv

(* A bag entry reaches the core. *)
LEMMA BagArrivesKeeps ==
  ASSUME IInv, NEW i \in DOMAIN flight, NEW s \in Surfaces, BagArrives(i, s)
  PROVE  IInv'
  <1> DEFINE c == flight[i]
             w == c.bags[s]
             e == Effects(c.stacks, Drop(c.bags, s), FALSE, c.sent + 1)
             f == flight'
  <1>1. /\ s \in DOMAIN c.bags
        /\ bag' = [bag EXCEPT ![s] = IF reg.owner[s] = NoHandle THEN @ ELSE w.to]
        /\ oldBags' = Marked(oldBags, s, w.old)
        /\ f = Pending([flight EXCEPT ![i] = e])
        /\ UNCHANGED <<reg, live, nextOut, stack, trans, oldStacks, commands>>
    BY DEF BagArrives
  <1>2. e.stacks = c.stacks /\ e.bags = Drop(c.bags, s)
    BY DEF Effects
  <1>3. /\ Mirrored /\ Flying(reg, flight, trans) /\ Arrived(reg, flight, trans)
        /\ flight \in Seq(ToSet(flight))
        /\ \A b \in ToSet(flight) : RightStacks(reg, b.stacks) /\ RightBags(reg, b.bags)
    BY DEF IInv, Mirrored, Flying
  <1>4. c \in ToSet(flight)
    BY <1>3, InList
  <1>5. RightStacks(reg, c.stacks) /\ RightBags(reg, c.bags)
    BY <1>3, <1>4
  <1>6. w.to \in Handles \cup {NoHandle} /\ (w.old \/ w.to = reg.owner[s])
    BY <1>1, <1>5 DEF RightBags
  <1> HIDE DEF c, w, e
  <1>7. RightStacks(reg, e.stacks) /\ RightBags(reg, e.bags)
    BY <1>2, <1>5, DropRight
  <1>8. /\ f \in Seq(ToSet(f))
        /\ \A b \in ToSet(f) : RightStacks(reg, b.stacks) /\ RightBags(reg, b.bags)
    BY <1>1, <1>3, <1>7, SentKeeps
  <1>9. /\ \A x : (\E b \in ToSet(flight) : x \in DOMAIN b.stacks /\ ~b.stacks[x].old)
             => \/ \E b \in ToSet(f) : x \in DOMAIN b.stacks /\ ~b.stacks[x].old
                \/ /\ x \in DOMAIN flight[i].stacks /\ ~flight[i].stacks[x].old
                   /\ x \in DOMAIN e.stacks => e.stacks[x].old
        /\ \A x : NewBag(flight, x)
             => \/ NewBag(f, x)
                \/ /\ x \in DOMAIN flight[i].bags /\ ~flight[i].bags[x].old
                   /\ x \in DOMAIN e.bags => e.bags[x].old
    BY <1>1, <1>3, <1>7, OthersNew
  <1> HIDE DEF f
  <1>10. \A o : NewStack(flight, trans, o) => NewStack(f, trans, o)
    BY <1>2, <1>9 DEF NewStack, c
  <1>11. \A x : x # s => (NewBag(flight, x) => NewBag(f, x))
    <2>1. \A x \in DOMAIN c.bags \ {s} : x \in DOMAIN e.bags /\ e.bags[x] = c.bags[x]
      BY <1>2 DEF Drop
    <2> QED BY <1>9, <2>1 DEF c
  <1>12. /\ bag' \in [Surfaces -> Handles \cup {NoHandle}]
         /\ bag'[s] = IF reg.owner[s] = NoHandle THEN bag[s] ELSE w.to
         /\ \A x \in Surfaces \ {s} : bag'[x] = bag[x]
    BY <1>1, <1>3, <1>6 DEF Arrived
  <1>13. ASSUME NEW x \in Surfaces \ oldBags'
         PROVE  NewBag(f, x) \/ reg.owner[x] = NoHandle \/ bag'[x] = reg.owner[x]
    <2>1. CASE x = s
      BY <1>1, <1>6, <1>12, <1>13, <2>1 DEF Marked
    <2>2. CASE x # s
      <3>1. x \notin oldBags
        BY <1>1, <1>13, <2>2 DEF Marked
      <3>2. NewBag(flight, x) \/ reg.owner[x] = NoHandle \/ bag[x] = reg.owner[x]
        BY <1>3, <3>1 DEF Arrived
      <3> QED BY <1>11, <1>12, <2>2, <3>2
    <2> QED BY <2>1, <2>2
  <1>14. \A o \in OutIds \ oldStacks : NewStack(f, trans, o) \/ stack[o] = StackFor(reg, o)
    BY <1>3, <1>10 DEF Arrived
  <1>15. oldBags' \subseteq Surfaces
    BY <1>1, <1>3 DEF Arrived, Marked
  <1>16. Arrived(reg, flight, trans)'
    BY <1>1, <1>3, <1>12, <1>13, <1>14, <1>15 DEF Arrived, f, NewStack, NewBag, StackFor
  <1>17. Flying(reg, flight, trans)'
    BY <1>1, <1>3, <1>8 DEF Flying, f, RightStacks, RightBags, StackFor
  <1> QED BY <1>1, <1>16, <1>17, ArrivalKeeps DEF Mirrored

(* A stack reaches the core. *)
LEMMA StackArrivesKeeps ==
  ASSUME IInv, NEW i \in DOMAIN flight, NEW o \in OutIds, StackArrives(i, o)
  PROVE  IInv'
  <1> DEFINE c == flight[i]
             w == c.stacks[o]
             e == Effects(Drop(c.stacks, o), c.bags, FALSE, c.sent + 1)
             f == flight'
  <1>1. /\ o \in DOMAIN c.stacks
        /\ stack' = [stack EXCEPT ![o] = w.to]
        /\ oldStacks' = Marked(oldStacks, o, w.old)
        /\ f = Pending([flight EXCEPT ![i] = e])
        /\ UNCHANGED <<reg, live, nextOut, bag, trans, oldBags, commands>>
    BY DEF StackArrives
  <1>2. e.stacks = Drop(c.stacks, o) /\ e.bags = c.bags
    BY DEF Effects
  <1>3. /\ Mirrored /\ Flying(reg, flight, trans) /\ Arrived(reg, flight, trans)
        /\ flight \in Seq(ToSet(flight))
        /\ \A b \in ToSet(flight) : RightStacks(reg, b.stacks) /\ RightBags(reg, b.bags)
    BY DEF IInv, Mirrored, Flying
  <1>4. c \in ToSet(flight)
    BY <1>3, InList
  <1>5. RightStacks(reg, c.stacks) /\ RightBags(reg, c.bags)
    BY <1>3, <1>4
  <1>6. w.to \in Seq(Surfaces) /\ (w.old \/ w.to = StackFor(reg, o))
    BY <1>1, <1>5 DEF RightStacks
  <1> HIDE DEF c, w, e
  <1>7. RightStacks(reg, e.stacks) /\ RightBags(reg, e.bags)
    BY <1>2, <1>5, DropRight
  <1>8. /\ f \in Seq(ToSet(f))
        /\ \A b \in ToSet(f) : RightStacks(reg, b.stacks) /\ RightBags(reg, b.bags)
    BY <1>1, <1>3, <1>7, SentKeeps
  <1>9. /\ \A x : (\E b \in ToSet(flight) : x \in DOMAIN b.stacks /\ ~b.stacks[x].old)
             => \/ \E b \in ToSet(f) : x \in DOMAIN b.stacks /\ ~b.stacks[x].old
                \/ /\ x \in DOMAIN flight[i].stacks /\ ~flight[i].stacks[x].old
                   /\ x \in DOMAIN e.stacks => e.stacks[x].old
        /\ \A x : NewBag(flight, x)
             => \/ NewBag(f, x)
                \/ /\ x \in DOMAIN flight[i].bags /\ ~flight[i].bags[x].old
                   /\ x \in DOMAIN e.bags => e.bags[x].old
    BY <1>1, <1>3, <1>7, OthersNew
  <1> HIDE DEF f
  <1>10. \A x : x # o => (NewStack(flight, trans, x) => NewStack(f, trans, x))
    <2>1. \A x \in DOMAIN c.stacks \ {o} : x \in DOMAIN e.stacks /\ e.stacks[x] = c.stacks[x]
      BY <1>2 DEF Drop
    <2> QED BY <1>9, <2>1 DEF NewStack, c
  <1>11. \A s : NewBag(flight, s) => NewBag(f, s)
    BY <1>2, <1>9 DEF c
  <1>12. /\ stack' \in [OutIds -> Seq(Surfaces)] /\ stack'[o] = w.to
         /\ \A x \in OutIds \ {o} : stack'[x] = stack[x]
    BY <1>1, <1>3, <1>6 DEF Arrived
  <1>13. ASSUME NEW x \in OutIds \ oldStacks'
         PROVE  NewStack(f, trans, x) \/ stack'[x] = StackFor(reg, x)
    <2>1. CASE x = o
      BY <1>1, <1>6, <1>12, <1>13, <2>1 DEF Marked
    <2>2. CASE x # o
      <3>1. x \notin oldStacks
        BY <1>1, <1>13, <2>2 DEF Marked
      <3>2. NewStack(flight, trans, x) \/ stack[x] = StackFor(reg, x)
        BY <1>3, <3>1 DEF Arrived
      <3> QED BY <1>10, <1>12, <2>2, <3>2
    <2> QED BY <2>1, <2>2
  <1>14. \A s \in Surfaces \ oldBags :
           NewBag(f, s) \/ reg.owner[s] = NoHandle \/ bag[s] = reg.owner[s]
    BY <1>3, <1>11 DEF Arrived
  <1>15. oldStacks' \subseteq OutIds
    BY <1>1, <1>3 DEF Arrived, Marked
  <1>16. Arrived(reg, flight, trans)'
    BY <1>1, <1>3, <1>12, <1>13, <1>14, <1>15 DEF Arrived, f, NewStack, NewBag, StackFor
  <1>17. Flying(reg, flight, trans)'
    BY <1>1, <1>3, <1>8 DEF Flying, f, RightStacks, RightBags, StackFor
  <1> QED BY <1>1, <1>16, <1>17, ArrivalKeeps DEF Mirrored

(* A transition takes its stack, or refuses it for good. *)
LEMMA TransitionStartKeeps ==
  ASSUME IInv, NEW i \in DOMAIN flight, NEW o \in OutIds, TransitionStart(i, o)
  PROVE  IInv'
  <1> DEFINE c == flight[i]
             w == c.stacks[o]
             e == Effects(Drop(c.stacks, o), c.bags, TRUE, 0)
             f == flight'
             t == trans'
  <1>1. /\ o \in DOMAIN c.stacks
        /\ \/ o \notin DOMAIN trans /\ t = Put(trans, o, w) /\ oldStacks' = oldStacks
           \/ /\ oldStacks' = (IF w.old THEN oldStacks ELSE oldStacks \cup {o})
              /\ t = trans
        /\ f = Pending([flight EXCEPT ![i] = e])
        /\ UNCHANGED <<reg, live, nextOut, stack, bag, oldBags, commands>>
    BY DEF TransitionStart
  <1>2. e.stacks = Drop(c.stacks, o) /\ e.bags = c.bags
    BY DEF Effects
  <1>3. /\ Mirrored /\ Flying(reg, flight, trans) /\ Arrived(reg, flight, trans)
        /\ flight \in Seq(ToSet(flight)) /\ RightStacks(reg, trans)
        /\ \A b \in ToSet(flight) : RightStacks(reg, b.stacks) /\ RightBags(reg, b.bags)
    BY DEF IInv, Mirrored, Flying
  <1>4. c \in ToSet(flight)
    BY <1>3, InList
  <1>5. RightStacks(reg, c.stacks) /\ RightBags(reg, c.bags)
    BY <1>3, <1>4
  <1>6. w.to \in Seq(Surfaces) /\ (w.old \/ w.to = StackFor(reg, o))
    BY <1>1, <1>5 DEF RightStacks
  <1> HIDE DEF c, w, e
  <1>7. RightStacks(reg, e.stacks) /\ RightBags(reg, e.bags)
    BY <1>2, <1>5, DropRight
  <1>8. /\ f \in Seq(ToSet(f))
        /\ \A b \in ToSet(f) : RightStacks(reg, b.stacks) /\ RightBags(reg, b.bags)
    BY <1>1, <1>3, <1>7, SentKeeps
  <1>9. /\ \A x : (\E b \in ToSet(flight) : x \in DOMAIN b.stacks /\ ~b.stacks[x].old)
             => \/ \E b \in ToSet(f) : x \in DOMAIN b.stacks /\ ~b.stacks[x].old
                \/ /\ x \in DOMAIN flight[i].stacks /\ ~flight[i].stacks[x].old
                   /\ x \in DOMAIN e.stacks => e.stacks[x].old
        /\ \A x : NewBag(flight, x)
             => \/ NewBag(f, x)
                \/ /\ x \in DOMAIN flight[i].bags /\ ~flight[i].bags[x].old
                   /\ x \in DOMAIN e.bags => e.bags[x].old
    BY <1>1, <1>3, <1>7, OthersNew
  <1> HIDE DEF f, t
  <1>10. /\ DOMAIN t \subseteq DOMAIN trans \cup {o}
         /\ \A x \in DOMAIN trans : x \in DOMAIN t /\ t[x] = trans[x]
         /\ \A x \in DOMAIN t \ DOMAIN trans : x = o /\ t[x] = w
         /\ o \in DOMAIN t \/ w.old \/ o \in oldStacks'
         /\ o \in DOMAIN trans => w.old \/ o \in oldStacks'
         /\ oldStacks \subseteq oldStacks' /\ oldStacks' \subseteq oldStacks \cup {o}
    BY <1>1 DEF Put
  <1>11. RightStacks(reg, t)
    BY <1>3, <1>6, <1>10 DEF RightStacks
  <1>12. ASSUME NEW x, NewStack(flight, trans, x)
         PROVE  NewStack(f, t, x) \/ x \in oldStacks'
    <2>1. CASE x \in DOMAIN trans /\ ~trans[x].old
      BY <1>10, <2>1 DEF NewStack
    <2>2. CASE \E b \in ToSet(f) : x \in DOMAIN b.stacks /\ ~b.stacks[x].old
      BY <2>2 DEF NewStack
    <2>3. CASE /\ x \in DOMAIN c.stacks /\ ~c.stacks[x].old
               /\ x \in DOMAIN e.stacks => e.stacks[x].old
      <3>1. x = o
        <4>1. \A y \in DOMAIN c.stacks \ {o} : y \in DOMAIN e.stacks /\ e.stacks[y] = c.stacks[y]
          BY <1>2 DEF Drop
        <4> QED BY <2>3, <4>1
      <3>2. ~w.old
        BY <2>3, <3>1 DEF w
      <3> QED BY <1>10, <3>1, <3>2 DEF NewStack
    <2> QED BY <1>9, <1>12, <2>1, <2>2, <2>3 DEF NewStack, c
  <1>13. \A s : NewBag(flight, s) => NewBag(f, s)
    BY <1>2, <1>9 DEF c
  <1>14. \A x \in OutIds \ oldStacks' : NewStack(f, t, x) \/ stack[x] = StackFor(reg, x)
    BY <1>3, <1>10, <1>12 DEF Arrived
  <1>15. \A s \in Surfaces \ oldBags :
           NewBag(f, s) \/ reg.owner[s] = NoHandle \/ bag[s] = reg.owner[s]
    BY <1>3, <1>13 DEF Arrived
  <1>16. oldStacks' \subseteq OutIds
    BY <1>3, <1>10 DEF Arrived
  <1>17. Arrived(reg, flight, trans)'
    BY <1>1, <1>3, <1>14, <1>15, <1>16 DEF Arrived, f, t, NewStack, NewBag, StackFor
  <1>18. Flying(reg, flight, trans)'
    BY <1>1, <1>8, <1>11 DEF Flying, f, t, RightStacks, RightBags, StackFor
  <1> QED BY <1>1, <1>17, <1>18, ArrivalKeeps DEF Mirrored

(* A transition ends with its stack. *)
LEMMA TransitionEndKeeps ==
  ASSUME IInv, NEW o \in OutIds, TransitionEnd(o)
  PROVE  IInv'
  <1> DEFINE w == trans[o]
             t == trans'
  <1>1. /\ o \in DOMAIN trans /\ stack' = [stack EXCEPT ![o] = w.to]
        /\ oldStacks' = Marked(oldStacks, o, w.old) /\ t = Drop(trans, o)
        /\ UNCHANGED <<reg, live, nextOut, bag, flight, oldBags, commands>>
    BY DEF TransitionEnd
  <1>2. /\ Flying(reg, flight, trans) /\ Arrived(reg, flight, trans)
        /\ RightStacks(reg, trans)
    BY DEF IInv, Mirrored, Flying
  <1>3. w.to \in Seq(Surfaces) /\ (w.old \/ w.to = StackFor(reg, o))
    BY <1>1, <1>2 DEF RightStacks
  <1>4. /\ DOMAIN t = DOMAIN trans \ {o} /\ \A x \in DOMAIN trans \ {o} : t[x] = trans[x]
        /\ RightStacks(reg, t)
    BY <1>1, <1>2, DropIs, DropRight
  <1> HIDE DEF w, t
  <1>5. \A x : x # o => (NewStack(flight, trans, x) => NewStack(flight, t, x))
    BY <1>4 DEF NewStack
  <1>6. /\ stack' \in [OutIds -> Seq(Surfaces)] /\ stack'[o] = w.to
        /\ \A x \in OutIds \ {o} : stack'[x] = stack[x]
    BY <1>1, <1>2, <1>3 DEF Arrived
  <1>7. ASSUME NEW x \in OutIds \ oldStacks'
        PROVE  NewStack(flight, t, x) \/ stack'[x] = StackFor(reg, x)
    <2>1. CASE x = o
      BY <1>1, <1>3, <1>6, <1>7, <2>1 DEF Marked
    <2>2. CASE x # o
      <3>1. x \notin oldStacks
        BY <1>1, <1>7, <2>2 DEF Marked
      <3>2. NewStack(flight, trans, x) \/ stack[x] = StackFor(reg, x)
        BY <1>2, <3>1 DEF Arrived
      <3> QED BY <1>5, <1>6, <2>2, <3>2
    <2> QED BY <2>1, <2>2
  <1>8. oldStacks' \subseteq OutIds
    BY <1>1, <1>2 DEF Arrived, Marked
  <1>9. Arrived(reg, flight, trans)'
    BY <1>1, <1>2, <1>6, <1>7, <1>8 DEF Arrived, t, NewStack, NewBag, StackFor
  <1>10. Flying(reg, flight, trans)'
    BY <1>1, <1>2, <1>4 DEF Flying, t, RightStacks, RightBags, StackFor
  <1> QED BY <1>1, <1>9, <1>10, ArrivalKeeps DEF Mirrored

LEMMA MoveKeeps ==
  ASSUME IInv, NEW s \in Surfaces, reg.owner[s] # NoHandle, NEW h \in DOMAIN reg.ws,
         NEW n \in Names, Command(MoveWindow(reg, s, h, n))
  PROVE  IInv'
  <1> DEFINE r == MoveWindow(reg, s, h, n)
  <1>1. Goes(reg, r)
    BY IInvFacts, MoveGood
  <1> HIDE DEF r
  <1>2. Command(r)
    BY DEF r
  <1> QED BY <1>1, <1>2, CommandKeeps

LEMMA MoveToKeeps ==
  ASSUME IInv, NEW s \in Surfaces, NEW h \in DOMAIN reg.ws, MoveTo(s, h)
  PROVE  IInv'
  <1> DEFINE n == Name(reg.ws[h].output)
  <1>1. /\ reg.owner[s] # NoHandle /\ Command(MoveWindow(reg, s, h, n))
       
    BY DEF MoveTo
  <1>2. n \in Names
    BY IInvFacts
  <1> HIDE DEF n
  <1> QED BY <1>1, <1>2, MoveKeeps

LEMMA FullscreenKeeps ==
  ASSUME IInv, NEW s \in Surfaces, NEW o \in DOMAIN live, FullscreenRequest(s, o)
  PROVE  IInv'
  <1> DEFINE n == Name(o)
             q == reg.pos[o]
  <1>1. PICK i \in DOMAIN q : i > 1 /\ Command(MoveWindow(reg, s, q[i - 1], n))
    BY DEF FullscreenRequest
  <1>2. reg.owner[s] # NoHandle
    BY DEF FullscreenRequest
  <1>3. n \in Names /\ o \in OutIds /\ Sound(reg)
    BY IInvFacts
  <1>4. q \in Seq(Nat) /\ \A h \in ToSet(q) : h \in DOMAIN reg.ws
    BY <1>3, RegistryFields DEF Sound, Placed
  <1> HIDE DEF n, q
  <1> DEFINE h == q[i - 1]
  <1>5. h \in DOMAIN reg.ws
    <2>1. DOMAIN q = 1 .. Len(q) /\ Len(q) \in Nat
      BY <1>4, InList
    <2>2. i - 1 \in 1 .. Len(q)
      BY <1>1, <2>1
    <2>3. q[i - 1] \in ToSet(q)
      BY <1>4, <2>2, InList
    <2> QED BY <1>4, <2>3
  <1>6. Command(MoveWindow(reg, s, h, n))
    BY <1>1
  <1> HIDE DEF h
  <1> QED BY <1>2, <1>3, <1>5, <1>6, MoveKeeps

LEMMA ReorderKeeps ==
  ASSUME IInv, NEW s \in Surfaces, NEW n, ReorderTo(s, n)
  PROVE  IInv'
  <1> DEFINE r == Reorder(reg, s, n)
  <1>1. /\ reg.owner[s] # NoHandle /\ n \in 1 .. Len(reg.ws[reg.owner[s]].members)
        /\ Command(r)
    BY DEF ReorderTo
  <1>2. Goes(reg, r)
    BY <1>1, IInvFacts, ReorderGood
  <1> HIDE DEF r
  <1> QED BY <1>1, <1>2, CommandKeeps

LEMMA MapKeeps ==
  ASSUME IInv, NEW s \in Surfaces, NEW o \in OutIds, Map(s, o)
  PROVE  IInv'
  <1> DEFINE n == Name(o)
             r == ApplyMap(reg, s, o, n)
  <1>1. reg.owner[s] = NoHandle /\ Command(r)
    BY DEF Map
  <1>2. n \in Names /\ Good(reg)
    BY IInvFacts
  <1> HIDE DEF n
  <1>3. Goes(reg, r)
    BY <1>1, <1>2, ApplyMapGood
  <1> HIDE DEF r
  <1> QED BY <1>1, <1>3, CommandKeeps

LEMMA UnmapKeeps ==
  ASSUME IInv, NEW s \in Surfaces, Unmap(s)
  PROVE  IInv'
  <1> DEFINE r == ApplyUnmap(reg, s)
  <1>1. /\ reg.owner[s] # NoHandle /\ Commanded /\ Commit(r)
        /\ bag' = [bag EXCEPT ![s] = NoHandle] /\ UNCHANGED <<live, nextOut>>
    BY DEF Unmap
  <1>2. Goes(reg, r) /\ s \in r.bags
    BY <1>1, IInvFacts, ApplyUnmapGood
  <1> HIDE DEF r
  <1>3. Good(r) /\ Told(reg, r) /\ Stays(reg, r) /\ Core /\ Mirrored
    BY <1>2 DEF Goes, IInv
  <1>4. bag \in [Surfaces -> Handles \cup {NoHandle}]
    BY <1>3 DEF Mirrored, Arrived
  <1>5. /\ bag' \in [Surfaces -> Handles \cup {NoHandle}]
        /\ \A x \in Surfaces : bag'[x] = bag[x] \/ x \in r.bags
    BY <1>1, <1>2, <1>4
  <1>6. Core' /\ Mirrored' /\ reg'.pos = r.pos
    BY <1>1, <1>3, <1>5, CommitKeeps
  <1> QED BY <1>1, <1>3, <1>6, TurnKeeps

LEMMA OutputAddedKeeps ==
  ASSUME IInv, NEW n \in Names, OutputAdded(n)
  PROVE  IInv'
  <1> DEFINE lv == Put(live, nextOut, n)
             r == Recompute(reg, lv)
  <1>1. /\ nextOut <= MaxOut /\ live' = lv /\ nextOut' = nextOut + 1 /\ Commit(r)
        /\ UNCHANGED <<bag, commands>>
    BY DEF OutputAdded
  <1>2. MaxOut \in Nat /\ nextOut \in 1 .. MaxOut + 1 /\ Monitors(live)
        /\ \A o \in DOMAIN live : o < nextOut
    BY ConstantsAssumption DEF IInv, Screens
  <1>3. DOMAIN lv = DOMAIN live \cup {nextOut} /\ \A o \in DOMAIN lv : lv[o] \in Names
    BY <1>2 DEF Put, Monitors
  <1> HIDE DEF lv
  <1>4. nextOut \in 0 .. MaxOut
    BY <1>1, <1>2
  <1>5. Monitors(lv)
    BY <1>2, <1>3, <1>4 DEF Monitors
  <1>6. IsRecomputed(reg, lv, r)
    BY <1>5, IInvFacts, RecomputedGood
  <1> HIDE DEF r
  <1>7. Good(r) /\ Told(reg, r) /\ \A o \in DOMAIN lv : r.pos[o] # <<>>
    BY <1>6 DEF IsRecomputed
  <1>8. Core' /\ Mirrored' /\ reg'.pos = r.pos
    BY <1>1, <1>7, StillKeeps DEF IInv
  <1>9. nextOut' \in 1 .. MaxOut + 1
    BY <1>1, <1>2
  <1>10. \A o \in DOMAIN lv : o < nextOut + 1
    <2>1. \A o \in DOMAIN live : o \in Nat
      BY <1>2, MonitorsAre
    <2> QED BY <1>2, <1>3, <2>1
  <1>11. Screens'
    BY <1>1, <1>5, <1>7, <1>8, <1>9, <1>10 DEF Screens
  <1> QED BY <1>1, <1>8, <1>11 DEF IInv

LEMMA OutputRemovedKeeps ==
  ASSUME IInv, NEW o \in DOMAIN live, OutputRemoved(o)
  PROVE  IInv'
  <1> DEFINE lv == [x \in DOMAIN live \ {o} |-> live[x]]
             n == live[o]
             l == [reg.last EXCEPT ![n] = reg.shown[o]]
             u == [reg EXCEPT !.last[n] = reg.shown[o]]
             r == Recompute(u, lv)
  <1>1. live' = lv /\ Commit(r) /\ UNCHANGED <<nextOut, bag, commands>>
    BY DEF OutputRemoved
  <1>2. /\ nextOut \in 1 .. MaxOut + 1 /\ Monitors(live) /\ n \in Names
        /\ \A x \in DOMAIN live : x < nextOut
    BY DEF IInv, Screens, Monitors
  <1>3. DOMAIN lv = DOMAIN live \ {o} /\ \A x \in DOMAIN lv : lv[x] = live[x]
    OBVIOUS
  <1> HIDE DEF lv, n
  <1>4. Monitors(lv)
    BY <1>2, <1>3 DEF Monitors
  <1>5. /\ Sound(reg) /\ Settled(reg) /\ reg \in Registries /\ o \in OutIds
        /\ reg.shown \in [OutIds -> Nat] /\ reg.last \in [Names -> Nat]
        /\ reg.next \in Nat \ {0} /\ Numbered(reg.ws, reg.next, reg.last)
    BY IInvFacts, RegistryFields DEF Good, Sound
  <1>6. reg.shown[o] \in 0 .. reg.next - 1
    <2>1. reg.shown[o] = 0 \/ reg.shown[o] \in DOMAIN reg.ws
      BY <1>5, ShownIsHere DEF NoHandle
    <2>2. reg.shown[o] = 0 \/ reg.shown[o] \in 1 .. reg.next - 1
      BY <1>5, <2>1 DEF Numbered
    <2> QED BY <1>5, <2>2
  <1>7. u = [reg EXCEPT !.last = l]
    BY <1>5 DEF Registries
  <1>8. l \in [Names -> Nat] /\ \A x \in Names : l[x] \in 0 .. reg.next - 1
    <2>1. \A x \in Names : reg.last[x] \in 0 .. reg.next - 1
      BY <1>5 DEF Numbered
    <2>2. l \in [Names -> Nat]
      BY <1>2, <1>5
    <2>3. \A x \in Names : l[x] = reg.last[x] \/ l[x] = reg.shown[o]
      BY <1>5
    <2> HIDE DEF l
    <2> QED BY <1>6, <2>1, <2>2, <2>3
  <1> HIDE DEF u, l
  <1>9. /\ u \in Registries /\ u.ws = reg.ws /\ u.pos = reg.pos /\ u.shown = reg.shown
        /\ u.next = reg.next /\ u.owner = reg.owner /\ u.last = l
        /\ u.push = reg.push /\ u.bags = reg.bags
    BY <1>5, <1>7, <1>8 DEF Registries
  <1>10. Numbered(u.ws, u.next, u.last)
    BY <1>5, <1>8, <1>9 DEF Numbered
  <1>11. Good(u)
    BY <1>5, <1>9, <1>10 DEF Good, Sound, Settled
  <1>12. Told(reg, u) /\ Stays(reg, u)
    BY <1>9 DEF Told, Stays, StackFor
  <1>13. IsRecomputed(u, lv, r)
    BY <1>4, <1>11, RecomputedGood
  <1> HIDE DEF r
  <1>14. Good(r) /\ Told(u, r) /\ \A x \in DOMAIN lv : r.pos[x] # <<>>
    BY <1>13 DEF IsRecomputed
  <1>15. Told(reg, r)
    BY <1>12, <1>14, ToldOn
  <1>16. Core' /\ Mirrored' /\ reg'.pos = r.pos
    BY <1>1, <1>14, <1>15, StillKeeps DEF IInv
  <1>17. Screens'
    BY <1>1, <1>2, <1>3, <1>4, <1>14, <1>16 DEF Screens
  <1> QED BY <1>1, <1>16, <1>17 DEF IInv

LEMMA NextKeeps ==
  ASSUME IInv, [Next]_vars
  PROVE  IInv'
  <1>1. CASE \E o \in OutIds, q \in CallerPrefs, p \in BOOLEAN : Create(o, q, p)
    BY <1>1, CreateKeeps
  <1>2. CASE \E h \in DOMAIN reg.ws : DestroyAt(h) \/ ShowAt(h) \/ ShowAnimated(h)
    BY <1>2, DestroyKeeps, ShowKeeps, ShowAnimatedKeeps
  <1>3. CASE \E s \in Surfaces, h \in DOMAIN reg.ws : MoveTo(s, h)
    BY <1>3, MoveToKeeps
  <1>4. CASE \E s \in Surfaces, o \in DOMAIN live : FullscreenRequest(s, o)
    BY <1>4, FullscreenKeeps
  <1>5. CASE \E s \in Surfaces, n \in 1 .. Cardinality(Surfaces) : ReorderTo(s, n)
    BY <1>5, ReorderKeeps
  <1>6. CASE \E s \in Surfaces, o \in OutIds : Map(s, o)
    BY <1>6, MapKeeps
  <1>7. CASE \E s \in Surfaces : Unmap(s)
    BY <1>7, UnmapKeeps
  <1>8. CASE \E n \in Names : OutputAdded(n)
    BY <1>8, OutputAddedKeeps
  <1>9. CASE \E o \in DOMAIN live : OutputRemoved(o)
    BY <1>9, OutputRemovedKeeps
  <1>10. CASE \E i \in DOMAIN flight, s \in Surfaces : BagArrives(i, s)
    BY <1>10, BagArrivesKeeps
  <1>11. CASE \E i \in DOMAIN flight, o \in OutIds :
                StackArrives(i, o) \/ TransitionStart(i, o)
    BY <1>11, StackArrivesKeeps, TransitionStartKeeps
  <1>12. CASE \E o \in OutIds : TransitionEnd(o)
    BY <1>12, TransitionEndKeeps
  <1>13. CASE UNCHANGED vars
    BY <1>13 DEF vars, core, IInv, Core, Mirrored, Flying, Arrived, NewStack, NewBag,
                 RightStacks, RightBags, Screens, StackFor
  <1> QED BY <1>1, <1>2, <1>3, <1>4, <1>5, <1>6, <1>7, <1>8, <1>9, <1>10, <1>11, <1>12,
             <1>13 DEF Next

-----------------------------------------------------------------------------
(* The initial state. *)

(* A set of numbers below a bound has a maximum. *)
LEMMA MaxIn ==
  ASSUME NEW n \in Nat, NEW S \in SUBSET (0 .. n), S # {}
  PROVE  Max(S) \in S /\ \A y \in S : y <= Max(S)
  <1> DEFINE T == {n - x : x \in S}
  <1>0. \A x \in S : x \in Int /\ n - x \in Nat
    <2>1. \A x \in S : x \in 0 .. n
      OBVIOUS
    <2> QED BY <2>1
  <1>1. T \in SUBSET Nat /\ T # {}
    BY <1>0
  <1>2. PICK t \in T : \A y \in T : ~(<<y, t>> \in OpToRel(<, Nat))
    <2> HIDE DEF T
    <2> QED BY <1>1, NatLessThanWellFounded, WFMin
  <1>3. PICK x \in S : t = n - x
    OBVIOUS
  <1>4. \A y \in T : ~(y < t)
    BY <1>1, <1>2 DEF OpToRel
  <1>5. ASSUME NEW y \in S PROVE y <= x
    <2>1. n - y \in T
      OBVIOUS
    <2>2. ~(n - y < n - x)
      BY <1>3, <1>4, <2>1
    <2>3. x \in Int /\ y \in Int /\ n \in Int
      BY <1>0
    <2> QED BY <2>2, <2>3
  <1>6. \A y \in S : x >= y
    BY <1>5
  <1>7. \E z \in S : \A y \in S : z >= y
    BY <1>6
  <1>8. Max(S) \in S /\ \A y \in S : Max(S) >= y
    BY <1>7 DEF Max
  <1> QED BY <1>8

LEMMA EmptyGood ==
  /\ Good(Empty) /\ Empty.next = 1 /\ Empty.bags = {}
  /\ \A s \in Surfaces : Empty.owner[s] = NoHandle
  <1> DEFINE w == Empty.ws
  <1>1. w = << >>
    BY DEF Empty
  <1>2. DOMAIN w = {} /\ w \in Maps
    <2>1. w \in Seq(Workspaces) /\ Len(w) = 0 /\ DOMAIN w = 1 .. Len(w)
      BY <1>1, EmptySeq, LenProperties
    <2>2. DOMAIN w = {} /\ w \in [1 .. Len(w) -> Workspaces]
      BY <2>1, LenProperties
    <2> HIDE DEF w
    <2>3. w \in [{} -> Workspaces]
      BY <2>1, <2>2
    <2> QED BY <2>2, <2>3, MapsIn
  <1>3. <<>> \in Seq(Nat)
    OBVIOUS
  <1> HIDE DEF w
  <1>4. Empty = [ws |-> w, pos |-> [o \in OutIds |-> <<>>],
                 shown |-> [o \in OutIds |-> NoHandle],
                 owner |-> [s \in Surfaces |-> NoHandle], next |-> 1,
                 last |-> [n \in Names |-> NoHandle], push |-> {}, bags |-> {}]
    BY <1>1 DEF Empty
  <1> DEFINE e == Empty
  <1> HIDE DEF e
  <1>5. /\ e.ws = w /\ e.next = 1 /\ e.bags = {}
        /\ \A o \in OutIds : e.pos[o] = <<>> /\ e.shown[o] = NoHandle
        /\ \A s \in Surfaces : e.owner[s] = NoHandle
        /\ \A n \in Names : e.last[n] = NoHandle
    BY <1>4 DEF e
  <1>6. e \in Registries
    <2> DEFINE p == [o \in OutIds |-> <<>>]
               sh == [o \in OutIds |-> NoHandle]
               own == [s \in Surfaces |-> NoHandle]
               l == [n \in Names |-> NoHandle]
    <2>1. /\ p \in [OutIds -> Seq(Nat)] /\ sh \in [OutIds -> Nat]
          /\ own \in [Surfaces -> Nat] /\ l \in [Names -> Nat]
      BY <1>3 DEF NoHandle
    <2>2. e = [ws |-> w, pos |-> p, shown |-> sh, owner |-> own, next |-> 1,
               last |-> l, push |-> {}, bags |-> {}]
      BY <1>4 DEF e
    <2> HIDE DEF p, sh, own, l
    <2> QED BY <1>2, <2>1, <2>2 DEF Registries
  <1>7. Numbered(e.ws, e.next, e.last) /\ Preferring(e.ws) /\ Owned(e.ws, e.owner)
    BY <1>2, <1>5 DEF Numbered, Preferring, Owned, NoHandle
  <1>8. Placed(e.ws, e.pos) /\ Showing(e.pos, e.shown)
    BY <1>2, <1>5, EmptyList DEF Placed, Showing
  <1>9. Good(e)
    BY <1>5, <1>6, <1>7, <1>8 DEF Good, Sound, Settled
  <1> QED BY <1>5, <1>9 DEF e

(* The registry the plugin boots with. *)
LEMMA BootGood ==
  /\ Good(BootRegistry) /\ BootRegistry.bags = {}
  /\ \A s \in Surfaces : BootRegistry.owner[s] = NoHandle
  /\ BootRegistry.next <= MaxHandle + 1
  /\ Monitors(BootOutputs) /\ \A o \in DOMAIN BootOutputs : BootRegistry.pos[o] # <<>>
  <1> DEFINE e == EnsureOutput(Empty, OUTPUT_DEFAULT, Boot)
             l == [e.last EXCEPT ![Boot] = 1]
             r == [e EXCEPT !.last[Boot] = 1]
             d == Recompute(r, BootOutputs)
             c == Cardinality(DOMAIN BootOutputs)
  <1>1. /\ Boot \in Names /\ MaxOut \in Nat /\ MaxHandle \in Nat /\ OUTPUT_DEFAULT \in OutIds
        /\ Monitors(BootOutputs) /\ c < MaxHandle
    BY ConstantsAssumption DEF Monitors, OUTPUT_DEFAULT, OutIds, Fallback
  <1>2. /\ Good(e) /\ e.pos[OUTPUT_DEFAULT] # <<>> /\ e.owner = Empty.owner
        /\ e.bags = {} /\ e.next <= 2
    <2>1. /\ Goes(Empty, e) /\ e.pos[OUTPUT_DEFAULT] # <<>> /\ e.owner = Empty.owner
          /\ e.bags = Empty.bags /\ e.next <= Empty.next + 1
      BY <1>1, EmptyGood, EnsureGood
    <2> HIDE DEF e
    <2> QED BY <2>1, EmptyGood DEF Goes
  <1> HIDE DEF e
  <1>3. /\ e \in Registries /\ e.last \in [Names -> Nat] /\ e.next \in Nat \ {0}
        /\ Sound(e) /\ Settled(e) /\ Numbered(e.ws, e.next, e.last)
    BY <1>2, RegistryFields DEF Good, Sound
  <1>4. 1 \in 0 .. e.next - 1
    <2>1. e.shown[OUTPUT_DEFAULT] \in DOMAIN e.ws
      BY <1>1, <1>2, <1>3, ShownIsHere DEF Settled
    <2>2. e.shown[OUTPUT_DEFAULT] \in 1 .. e.next - 1
      BY <1>3, <2>1 DEF Numbered
    <2> QED BY <1>3, <2>2
  <1>5. r = [e EXCEPT !.last = l]
    BY <1>3 DEF Registries
  <1>6. l \in [Names -> Nat] /\ \A x \in Names : l[x] \in 0 .. e.next - 1
    <2>1. \A x \in Names : e.last[x] \in 0 .. e.next - 1
      BY <1>3 DEF Numbered
    <2>2. l \in [Names -> Nat] /\ \A x \in Names : l[x] = e.last[x] \/ l[x] = 1
      BY <1>1, <1>3
    <2> HIDE DEF l
    <2> QED BY <1>4, <2>1, <2>2
  <1> HIDE DEF r, l
  <1>7. /\ r \in Registries /\ r.ws = e.ws /\ r.pos = e.pos /\ r.shown = e.shown
        /\ r.next = e.next /\ r.owner = e.owner /\ r.last = l
        /\ r.push = e.push /\ r.bags = e.bags
    BY <1>3, <1>5, <1>6 DEF Registries
  <1>8. Numbered(r.ws, r.next, r.last)
    BY <1>3, <1>6, <1>7 DEF Numbered
  <1>9. Good(r)
    BY <1>3, <1>7, <1>8 DEF Good, Sound, Settled
  <1>10. IsRecomputed(r, BootOutputs, d)
    BY <1>1, <1>9, RecomputedGood
  <1>11. BootRegistry = d
    BY DEF BootRegistry, d, r, e
  <1> HIDE DEF d
  <1>12. /\ Good(d) /\ d.owner = Empty.owner /\ d.bags = {} /\ d.next <= e.next + c
         /\ \A o \in DOMAIN BootOutputs : d.pos[o] # <<>>
    BY <1>2, <1>7, <1>10 DEF IsRecomputed
  <1>13. d.next <= MaxHandle + 1
    <2>1. c \in Nat
      BY <1>1, MonitorsAre, FS_CardinalityType
    <2>2. d.next \in Nat
      BY <1>12, NoHandleFree DEF Good
    <2> HIDE DEF c
    <2> QED BY <1>1, <1>2, <1>3, <1>12, <2>1, <2>2
  <1> QED BY <1>1, <1>11, <1>12, <1>13, EmptyGood

LEMMA InitGood == Init => IInv
  <1> SUFFICES ASSUME Init PROVE IInv
    OBVIOUS
  <1> DEFINE r == BootRegistry
  <1>1. /\ reg = [r EXCEPT !.push = {}] /\ live = BootOutputs
        /\ nextOut = Max(DOMAIN BootOutputs) + 1
        /\ stack = [o \in OutIds |-> <<>>] /\ bag = [s \in Surfaces |-> NoHandle]
        /\ flight = <<>> /\ trans = << >> /\ oldStacks = {} /\ oldBags = {} /\ commands = 0
    BY DEF Init
  <1> HIDE DEF r
  <1>2. /\ Good(r) /\ r.bags = {} /\ \A s \in Surfaces : r.owner[s] = NoHandle
        /\ r.next <= MaxHandle + 1
        /\ Monitors(BootOutputs) /\ \A o \in DOMAIN BootOutputs : r.pos[o] # <<>>
    BY BootGood DEF r
  <1>3. Sound(r) /\ r \in Registries /\ r.owner \in [Surfaces -> Nat] /\ Owned(r.ws, r.owner)
    BY <1>2, RegistryFields DEF Good, Sound
  <1>4. reg = Spent(r)
    BY <1>1, <1>2, <1>3 DEF Spent, Registries
  <1>5. /\ Good(reg) /\ reg.push = {} /\ reg.bags = {} /\ reg.next = r.next
        /\ reg.pos = r.pos /\ reg.owner = r.owner
        /\ \A o \in OutIds : StackFor(reg, o) = StackFor(r, o)
    BY <1>2, <1>4, SpentGood
  <1>6. ASSUME NEW o \in OutIds PROVE StackFor(r, o) = <<>>
    <2>1. CASE r.shown[o] = NoHandle
      BY <2>1 DEF StackFor
    <2>2. CASE r.shown[o] # NoHandle
      <3> DEFINE h == r.shown[o]
                 m == r.ws[h].members
      <3>1. h \in DOMAIN r.ws
        BY <1>3, <2>2, ShownIsHere
      <3>2. m \in Seq(Surfaces) /\ \A s \in Surfaces : s \in ToSet(m) <=> r.owner[s] = h
        BY <1>3, <3>1, WorkspaceIs DEF Owned
      <3>3. StackFor(r, o) = m
        BY <2>2 DEF StackFor
      <3>4. ToSet(m) = {}
        <4> HIDE DEF m
        <4>1. ToSet(m) \subseteq Surfaces
          BY <3>2, InList
        <4> QED BY <1>2, <2>2, <3>2, <4>1
      <3> HIDE DEF m
      <3> QED BY <3>2, <3>3, <3>4, InList
    <2> QED BY <2>1, <2>2
  <1>7. Core
    BY <1>1, <1>2, <1>5 DEF Core
  <1>b. Mirrored
    <2>1. DOMAIN trans = {} /\ flight \in Seq(ToSet(flight)) /\ ToSet(flight) = {}
      BY <1>1, EmptyList, NoWrites
    <2>2. stack \in [OutIds -> Seq(Surfaces)] /\ \A o \in OutIds : stack[o] = <<>>
      <3>1. <<>> \in Seq(Surfaces)
        OBVIOUS
      <3> QED BY <1>1, <3>1
    <2>3. Flying(reg, flight, trans)
      BY <2>1 DEF Flying, RightStacks
    <2>4. Arrived(reg, flight, trans)
      BY <1>1, <1>2, <1>5, <1>6, <2>2 DEF Arrived
    <2> QED BY <2>3, <2>4 DEF Mirrored
  <1>8. Screens
    <2> DEFINE D == DOMAIN BootOutputs
    <2>1. MaxOut \in Nat /\ D \in SUBSET (0 .. MaxOut) /\ OUTPUT_DEFAULT \in D
      BY <1>2, ConstantsAssumption DEF Monitors
    <2> HIDE DEF D
    <2>2. Max(D) \in D /\ \A o \in D : o <= Max(D)
      BY <2>1, MaxIn
    <2> DEFINE m == Max(D)
    <2>3. /\ m \in 0 .. MaxOut /\ \A o \in D : o <= m
          /\ \A o \in D : o \in 0 .. MaxOut
      BY <2>1, <2>2
    <2> HIDE DEF m
    <2>4. m + 1 \in 1 .. MaxOut + 1 /\ \A o \in D : o < m + 1
      BY <2>1, <2>3
    <2> QED BY <1>1, <1>2, <1>5, <2>4 DEF Screens, D, m
  <1>9. commands \in 0 .. MaxCommands
    BY <1>1, ConstantsAssumption
  <1> QED BY <1>7, <1>b, <1>8, <1>9 DEF IInv

THEOREM Invariance == Spec => []IInv
  BY InitGood, NextKeeps, PTL DEF Spec

-----------------------------------------------------------------------------
(* The properties. *)

(* The state has its types: handles are those given out, preferences name  *)
(* no monitor twice, ids of outputs are those given out.                   *)
LEMMA TypeFollows == IInv => TypeOK
  <1> SUFFICES ASSUME IInv PROVE TypeOK
    OBVIOUS
  <1>1. /\ reg \in Registries /\ Sound(reg) /\ reg.next \in Nat \ {0}
        /\ reg.last \in [Names -> Nat] /\ reg.owner \in [Surfaces -> Nat]
        /\ Numbered(reg.ws, reg.next, reg.last) /\ Owned(reg.ws, reg.owner)
        /\ reg.next <= MaxHandle + 1 /\ MaxHandle \in Nat /\ MaxOut \in Nat
    BY IInvFacts, RegistryFields, ConstantsAssumption DEF Sound, IInv, Core
  <1>2. \A k \in 0 .. reg.next - 1 : k \in Handles \cup {NoHandle}
    BY <1>1 DEF Handles, NoHandle
  <1>3. \A k \in 1 .. reg.next - 1 : k \in Handles /\ k < reg.next /\ k \in 0 .. reg.next - 1
    BY <1>1 DEF Handles
  <1>4. reg.next \in 1 .. MaxHandle + 1
    BY <1>1
  <1>5. \A h \in DOMAIN reg.ws : h \in 1 .. reg.next - 1
    BY <1>1 DEF Numbered
  <1>6. DOMAIN reg.ws \subseteq Handles
    BY <1>3, <1>5
  <1>7. ASSUME NEW h \in DOMAIN reg.ws
        PROVE  /\ h < reg.next /\ reg.ws[h].output \in OutIds
               /\ reg.ws[h].prefs \in Seq(Names) /\ IsInjective(reg.ws[h].prefs)
               /\ reg.ws[h].members \in Seq(Surfaces)
               /\ reg.ws[h].persistent \in BOOLEAN
    BY <1>1, <1>3, <1>5, WorkspaceIs
  <1>8. reg.last \in [Names -> Handles \cup {NoHandle}]
    <2>1. \A n \in Names : reg.last[n] \in 0 .. reg.next - 1
      BY <1>1 DEF Numbered
    <2>2. \A n \in Names : reg.last[n] \in Handles \cup {NoHandle}
      BY <1>2, <2>1
    <2> QED BY <1>1, <2>2
  <1>9. bag \in [Surfaces -> Handles \cup {NoHandle}] /\ oldBags \subseteq Surfaces
    BY DEF IInv, Mirrored, Arrived
  <1>10. /\ \A o \in OutIds : stack[o] \in Seq(Surfaces)
         /\ DOMAIN trans \cup oldStacks \subseteq OutIds
    BY DEF IInv, Mirrored, Arrived, Flying, RightStacks
  <1>11. DOMAIN live \subseteq 0 .. nextOut - 1 /\ nextOut \in 1 .. MaxOut + 1
    <2>1. nextOut \in 1 .. MaxOut + 1 /\ \A o \in DOMAIN live : o \in Nat /\ o < nextOut
      BY MonitorsAre DEF IInv, Screens
    <2>2. \A o \in DOMAIN live : o \in 0 .. nextOut - 1
      BY <1>1, <2>1
    <2> QED BY <2>1, <2>2
  <1> QED BY <1>4, <1>6, <1>7, <1>8, <1>9, <1>10, <1>11 DEF TypeOK, IInv

(* Always, the state has its types. *)
THEOREM TypeCorrect == Spec => []TypeOK
  BY Invariance, TypeFollows, PTL

(* An injective list has each of its elements once: the owner map and the  *)
(* lists of places and members agree to the count.                         *)
LEMMA PartitionFollows == IInv => Partitioned
  <1> SUFFICES ASSUME IInv PROVE Partitioned
    OBVIOUS
  <1>1. /\ Sound(reg) /\ Settled(reg) /\ Owned(reg.ws, reg.owner) /\ Placed(reg.ws, reg.pos)
        /\ Showing(reg.pos, reg.shown) /\ reg.pos \in [OutIds -> Seq(Nat)]
    BY IInvFacts, RegistryFields DEF Good, Sound
  <1>2. ASSUME NEW s \in Surfaces, NEW h \in DOMAIN reg.ws
        PROVE  Cardinality({i \in DOMAIN reg.ws[h].members : reg.ws[h].members[i] = s})
                 = IF reg.owner[s] = h THEN 1 ELSE 0
    <2> DEFINE m == reg.ws[h].members
    <2>1. m \in Seq(Surfaces) /\ IsInjective(m) /\ (s \in ToSet(m) <=> reg.owner[s] = h)
      BY <1>1, WorkspaceIs DEF Owned
    <2> HIDE DEF m
    <2>2. Cardinality({i \in DOMAIN m : m[i] = s}) = IF s \in ToSet(m) THEN 1 ELSE 0
      BY <2>1, Occurrences
    <2> QED BY <2>1, <2>2 DEF m
  <1>3. \A s \in Surfaces : reg.owner[s] \in DOMAIN reg.ws \cup {NoHandle}
    BY <1>1 DEF Owned
  <1>4. ASSUME NEW h \in DOMAIN reg.ws, NEW o \in OutIds
        PROVE  Cardinality({i \in DOMAIN reg.pos[o] : reg.pos[o][i] = h})
                 = IF reg.ws[h].output = o THEN 1 ELSE 0
    <2> DEFINE p == reg.pos[o]
    <2>1. p \in Seq(Nat) /\ IsInjective(p) /\ (h \in ToSet(p) <=> reg.ws[h].output = o)
      BY <1>1 DEF Placed
    <2> HIDE DEF p
    <2>2. Cardinality({i \in DOMAIN p : p[i] = h}) = IF h \in ToSet(p) THEN 1 ELSE 0
      BY <2>1, Occurrences
    <2> QED BY <2>1, <2>2 DEF p
  <1>5. ASSUME NEW o \in OutIds
        PROVE  /\ ToSet(reg.pos[o]) \subseteq DOMAIN reg.ws
               /\ IF reg.pos[o] = <<>> THEN reg.shown[o] = NoHandle
                                       ELSE reg.shown[o] \in ToSet(reg.pos[o])
    <2>1. ToSet(reg.pos[o]) \subseteq DOMAIN reg.ws
      BY <1>1 DEF Placed
    <2>2. reg.shown[o] \in ToSet(reg.pos[o]) \cup {NoHandle}
      BY <1>1 DEF Showing
    <2>3. CASE reg.pos[o] = <<>>
      BY <2>1, <2>2, <2>3, EmptyList
    <2>4. CASE reg.pos[o] # <<>>
      BY <1>1, <2>1, <2>2, <2>4 DEF Settled
    <2> QED BY <2>3, <2>4
  <1>6. \A o \in DOMAIN live : reg.pos[o] # <<>>
    BY DEF IInv, Screens
  <1> QED BY <1>2, <1>3, <1>4, <1>5, <1>6 DEF Partitioned

(* Always, a window is in the one workspace that owns it, once, through    *)
(* moves, destroys, reaps and migrations; a workspace is in the list of    *)
(* its own output, once; an output with workspaces shows one of its own,   *)
(* and a monitor has one to show.                                          *)
THEOREM PartitionKept == Spec => []Partitioned
  <1>1. IInv => Partitioned
    BY PartitionFollows
  <1> QED BY Invariance, <1>1, PTL

LEMMA MirrorsFollow == IInv => MirrorsComplete
  <1> SUFFICES ASSUME IInv PROVE MirrorsComplete
    OBVIOUS
  <1>1. Arrived(reg, flight, trans)
    BY DEF IInv, Mirrored
  <1>2. ASSUME NEW o \in OutIds \ oldStacks, \A w \in StackWrites(o) : w.old
        PROVE  stack[o] = StackFor(reg, o)
    <2>1. ~NewStack(flight, trans, o)
      BY <1>2 DEF StackWrites, NewStack
    <2> QED BY <1>1, <2>1 DEF Arrived
  <1>3. ASSUME NEW s \in Surfaces \ oldBags, \A w \in BagWrites(s) : w.old,
               reg.owner[s] # NoHandle
        PROVE  bag[s] = reg.owner[s]
    <2>1. ~NewBag(flight, s)
      BY <1>3 DEF BagWrites, NewBag
    <2> QED BY <1>1, <1>3, <2>1 DEF Arrived
  <1> QED BY <1>2, <1>3 DEF MirrorsComplete

(* Always, an output's stack in the core, and a window's bag, are what the *)
(* registry says once the newest write for them arrived, unless an older   *)
(* one arrived last: no handler that moves, destroys, reaps or migrates    *)
(* forgets to send.                                                        *)
THEOREM MirrorsKept == Spec => []MirrorsComplete
  <1>1. IInv => MirrorsComplete
    BY MirrorsFollow
  <1> QED BY Invariance, <1>1, PTL

=============================================================================
