------------------------ MODULE PluginRuntimeProofs ------------------------
(***************************************************************************)
(* Proofs of PluginRuntime's safety properties, for any plugins, claims'   *)
(* priorities, restart budget and calls.  What is true of one plugin is    *)
(* stated of the values the state holds for it, so that a step of another  *)
(* plugin cannot disturb it: o its messages under way, r its realm, h its  *)
(* host and d its unanswered requests.                                     *)
(***************************************************************************)
EXTENDS PluginRuntime, FiniteSetTheorems, SequenceTheorems,
        WellFoundedInduction, TLAPS

Acts == {"actOk", "actFail"}
Inits == {"initOk", "initFail"}
Effective == {"active", "partial"}

(* What the messages under way say of the realm that posted them.  There   *)
(* is at most one answer to an activation and one end of init; what comes  *)
(* behind an answer or a claim tells how the API has changed since.        *)
Wire(o, r) ==
  /\ \A j, k \in 1 .. Len(o) : o[j] \in Acts /\ o[k] \in Acts => j = k
  /\ \A j, k \in 1 .. Len(o) : o[j] \in Inits /\ o[k] \in Inits => j = k
  /\ r.phase = "loading" => \A k \in 1 .. Len(o) : o[k] \notin Inits
  /\ \A k \in 1 .. Len(o) : o[k] = "actOk" =>
       /\ r.api # "partial"
       /\ r.api = "active" \/ \E j \in 1 .. Len(o) : k < j /\ o[j] = "unregister"
       /\ \A j \in 1 .. Len(o) :
            k < j /\ o[j] = "unregister" => r.api \notin Effective
  /\ \A k \in 1 .. Len(o) : o[k] = "register" =>
       r.api # "none" \/ \E j \in 1 .. Len(o) : k < j /\ o[j] = "unregister"

(* The core has heard that the plugin's init is over. *)
Inited(o, r) == r.phase # "loading" /\ \A k \in 1 .. Len(o) : o[k] \notin Inits

(* What the host of a plugin is like. *)
Hosted(p, h, o, r, d) ==
  /\ h.state = "unspawned" => h = UnspawnedHost /\ o = <<>> /\ r = FreshRealm
  /\ h.ep # "open" => d = {}
  /\ h.state = "failed" \/ h.stopping = "done" => h.ep = "null"
  /\ h.ep = "null" => h.stopping \in {"no", "done"}
  /\ h.state = "live" \/ r.api \in Effective \/ "activate" \in d => Inited(o, r)
  /\ p \in InThread =>
       /\ h.thread \in {"none", "main"} /\ h.ep # "closed"
       /\ h.pingTimer = FALSE /\ h.stopping # "killing"
       /\ h.ep = "null" /\ r.api \in Effective => h.state = "failed"
  /\ p \in Workers =>
       /\ h.thread # "main"
       /\ h.thread = "none" <=> h.ep = "null"
       /\ h.ep = "null" => h.state \in {"unspawned", "failed"} /\ o = <<>>
       /\ h.state = "failed" => h.settled
       /\ h.stopping = "done" => h.state = "failed"
       /\ h.stopping = "killing" \/ h.ep = "closed" => h.thread = "exiting"

(* The plugin's API is there, or the core is about to hear that it is not. *)
Backed(p, o, r) ==
  \/ r.api = "active"
  \/ "unregister" \in Range(o)
  \/ p \in InThread /\ r.api = "pending"

(* An API that is to go away has gone. *)
Leaving(o, r) == "unregister" \in Range(o) => r.api \notin Effective

InEffect(h, r) ==
  /\ r.api \in Effective
  /\ h.thread \in {"main", "running", "stuck"}
  /\ h.state # "failed"

(* The activation pass, if there is one. *)
Passing ==
  /\ pass.pc # "idle" => /\ pass.target \in Plugins /\ activatedBy = None
                         /\ host[pass.target].state # "unspawned"
  /\ \A p \in Plugins :
       "activate" \in pend[p] <=> pass.pc = "await" /\ pass.target = p
  /\ pass.pc = "ok" =>
       /\ realm[pass.target].api # "partial"
       /\ Leaving(out[pass.target], realm[pass.target])
       /\ Claimed(pass.target) =>
            Backed(pass.target, out[pass.target], realm[pass.target])

(* The winner, if there is one. *)
Winning ==
  activatedBy # None =>
    /\ Claimed(activatedBy) /\ pass.pc = "idle"
    /\ Backed(activatedBy, out[activatedBy], realm[activatedBy])
    /\ Leaving(out[activatedBy], realm[activatedBy])

(* An init has taken effect only in the winner, or in the plugin the pass  *)
(* is about.                                                               *)
Exclusive ==
  \A p \in Plugins :
    InEffect(host[p], realm[p]) =>
      p = activatedBy \/ (pass.pc # "idle" /\ pass.target = p)

(* The claims are in the order of their priorities, and no worker that is  *)
(* gone has one.                                                           *)
Ranked(cs) == \A j, k \in 1 .. Len(cs) : j < k => Prio[cs[k]] <= Prio[cs[j]]

Claiming ==
  /\ Ranked(claims)
  /\ \A p \in Workers : host[p].ep = "null" => ~Claimed(p)

(* A call that was sent is on some plugin's books. *)
Calling == \A c \in Calls : calls[c] = "sent" => \E p \in Plugins : c \in pend[p]

(* The inductive invariant. *)
IInv ==
  /\ TypeOK
  /\ \A p \in Plugins : /\ Wire(out[p], realm[p])
                        /\ Hosted(p, host[p], out[p], realm[p], pend[p])
  /\ Passing /\ Winning /\ Exclusive /\ Claiming /\ Calling /\ FailoverPending

-----------------------------------------------------------------------------
(* The registry's list. *)

Listed(cs) == cs \in Seq(Plugins) /\ IsInjective(cs) /\ Ranked(cs)

(* A set of naturals has a minimum. *)
LEMMA MinExists ==
  ASSUME NEW S \in SUBSET Nat, S # {}
  PROVE  Min(S) \in S /\ \A y \in S : Min(S) <= y
  <1>1. \E x \in S : \A y \in S : ~(<<y, x>> \in OpToRel(<, Nat))
    BY NatLessThanWellFounded, WFMin
  <1>2. \E x \in S : \A y \in S : x <= y
    <2>1. PICK x \in S : \A y \in S : ~(<<y, x>> \in OpToRel(<, Nat))
      BY <1>1
    <2>2. \A y \in S : ~(y < x)
      BY <2>1 DEF OpToRel
    <2> QED BY <2>2
  <1> QED BY <1>2 DEF Min

(* What is in a sequence. *)
LEMMA InRange ==
  ASSUME NEW S, NEW o \in Seq(S), NEW e
  PROVE  e \in Range(o) <=> \E k \in 1 .. Len(o) : o[k] = e
  <1> QED BY RangeEquality

(* A sequence with nothing in it. *)
LEMMA EmptyRange ==
  ASSUME NEW S, NEW o \in Seq(S)
  PROVE  o = <<>> <=> Range(o) = {}
  <1>1. Len(o) \in Nat /\ (o = <<>> <=> Len(o) = 0)
    BY LenProperties, EmptySeq
  <1>2. \A e : e \in Range(o) <=> \E k \in 1 .. Len(o) : o[k] = e
    BY InRange
  <1>3. Len(o) # 0 => 1 \in 1 .. Len(o)
    BY <1>1
  <1>4. Len(o) = 0 => 1 .. Len(o) = {}
    BY <1>1
  <1> QED BY <1>1, <1>2, <1>3, <1>4

(* splice(idx, 1): the entry goes, the others keep their order. *)
LEMMA RemoveAtListed ==
  ASSUME NEW cs, Listed(cs), NEW i \in 1 .. Len(cs)
  PROVE  Listed(RemoveAt(cs, i)) /\ Range(RemoveAt(cs, i)) = Range(cs) \ {cs[i]}
  <1> DEFINE a == SubSeq(cs, 1, i - 1)
             b == SubSeq(cs, i + 1, Len(cs))
             n == Len(cs)
             u == RemoveAt(cs, i)
             at(k) == IF k < i THEN k ELSE k + 1
  <1>1. cs \in Seq(Plugins) /\ n \in Nat /\ i \in Nat /\ i >= 1 /\ i <= n
        /\ DOMAIN cs = 1 .. n /\ \A k \in 1 .. n : cs[k] \in Plugins
    BY LenProperties DEF Listed
  <1>2. a \in Seq(Plugins) /\ Len(a) = i - 1 /\ \A k \in 1 .. i - 1 : a[k] = cs[k]
    <2>1. \A k \in 1 .. i - 1 : cs[k] \in Plugins
      BY <1>1
    <2> QED BY <1>1, <2>1, SubSeqProperties
  <1>3. b \in Seq(Plugins) /\ Len(b) = n - i /\ \A k \in 1 .. n - i : b[k] = cs[i + k]
    <2>1. \A k \in i + 1 .. n : cs[k] \in Plugins
      BY <1>1
    <2>2. /\ b \in Seq(Plugins) /\ Len(b) = IF i + 1 <= n THEN n - (i + 1) + 1 ELSE 0
          /\ \A k \in 1 .. n - (i + 1) + 1 : b[k] = cs[(i + 1) + k - 1]
      BY <1>1, <2>1, SubSeqProperties
    <2> HIDE DEF b
    <2>3. ASSUME NEW k \in 1 .. n - i PROVE b[k] = cs[i + k]
      <3>1. k \in 1 .. n - (i + 1) + 1 /\ (i + 1) + k - 1 = i + k
        BY <1>1
      <3>2. b[k] = cs[(i + 1) + k - 1]
        BY <2>2, <3>1
      <3> QED BY <3>1, <3>2
    <2>4. Len(b) = n - i
      <3>1. Len(b) = IF i + 1 <= n THEN n - (i + 1) + 1 ELSE 0
        BY <2>2
      <3>2. n \in Nat /\ i \in Nat /\ i <= n
        BY <1>1
      <3> HIDE DEF n
      <3>3. (IF i + 1 <= n THEN n - (i + 1) + 1 ELSE 0) = n - i
        BY <3>2
      <3> QED BY <3>1, <3>3
    <2> QED BY <2>2, <2>3, <2>4
  <1> HIDE DEF a, b
  <1>4. /\ u \in Seq(Plugins) /\ Len(u) = n - 1
        /\ \A k \in 1 .. n - 1 : u[k] = cs[at(k)] /\ at(k) \in 1 .. n
    <2>1. u = a \o b
      BY DEF RemoveAt, a, b
    <2>2. /\ a \o b \in Seq(Plugins) /\ Len(a \o b) = Len(a) + Len(b)
          /\ \A k \in 1 .. Len(a) + Len(b) :
               (a \o b)[k] = IF k <= Len(a) THEN a[k] ELSE b[k - Len(a)]
      BY <1>2, <1>3, ConcatProperties
    <2> HIDE DEF u
    <2> QED BY <1>1, <1>2, <1>3, <2>1, <2>2
  <1> HIDE DEF u
  <1>5. DOMAIN u = 1 .. n - 1
    BY <1>4, LenProperties
  <1>6. IsInjective(u)
    <2> SUFFICES ASSUME NEW j \in 1 .. n - 1, NEW k \in 1 .. n - 1, u[j] = u[k]
                 PROVE  j = k
      BY <1>5 DEF IsInjective
    <2>1. at(j) = at(k)
      BY <1>1, <1>4 DEF IsInjective, Listed
    <2> QED BY <1>1, <2>1
  <1>7. Ranked(u)
    <2> SUFFICES ASSUME NEW j \in 1 .. n - 1, NEW k \in 1 .. n - 1, j < k
                 PROVE  Prio[u[k]] <= Prio[u[j]]
      BY <1>4 DEF Ranked
    <2>1. at(j) < at(k) /\ at(j) \in 1 .. n /\ at(k) \in 1 .. n
      BY <1>1
    <2>2. u[j] = cs[at(j)] /\ u[k] = cs[at(k)]
      BY <1>4
    <2> HIDE DEF at
    <2> QED BY <2>1, <2>2 DEF Ranked, Listed
  <1>8. Range(u) = Range(cs) \ {cs[i]}
    <2>1. ASSUME NEW e \in Range(u) PROVE e \in Range(cs) \ {cs[i]}
      <3>1. PICK j \in 1 .. n - 1 : e = u[j]
        BY <1>4, <2>1, InRange
      <3>2. e = cs[at(j)] /\ at(j) \in 1 .. n /\ at(j) # i
        BY <1>1, <1>4, <3>1
      <3> HIDE DEF at
      <3>3. e \in Range(cs)
        BY <1>1, <3>2, InRange
      <3>4. cs[at(j)] # cs[i]
        BY <1>1, <3>2 DEF IsInjective, Listed
      <3> QED BY <3>2, <3>3, <3>4
    <2>2. ASSUME NEW e \in Range(cs) \ {cs[i]} PROVE e \in Range(u)
      <3>1. PICK k \in 1 .. n : cs[k] = e /\ k # i
        BY <1>1, InRange
      <3>2. (k < i /\ k \in 1 .. n - 1 /\ at(k) = k)
            \/ (k > i /\ k - 1 \in 1 .. n - 1 /\ at(k - 1) = k)
        BY <1>1, <3>1
      <3>3. \E l \in 1 .. n - 1 : u[l] = e
        BY <1>4, <3>1, <3>2
      <3> QED BY <1>4, <3>3, InRange
    <2> QED BY <2>1, <2>2
  <1> QED BY <1>4, <1>6, <1>7, <1>8 DEF Listed, u

(* unregister takes p's claim off the list, wherever it is. *)
LEMMA WithoutListed ==
  ASSUME NEW p, Listed(claims)
  PROVE  Listed(WithoutClaim(p)) /\ Range(WithoutClaim(p)) = Range(claims) \ {p}
  <1> DEFINE I == {i \in 1 .. Len(claims) : claims[i] = p}
  <1>1. claims \in Seq(Plugins) /\ Len(claims) \in Nat
    BY LenProperties DEF Listed
  <1>2. CASE I = {}
    <2>1. WithoutClaim(p) = claims
      BY <1>2 DEF WithoutClaim, RemoveFirst
    <2>2. p \notin Range(claims)
      BY <1>1, <1>2, InRange
    <2> QED BY <2>1, <2>2
  <1>3. CASE I # {}
    <2>1. Min(I) \in I
      <3>1. I \in SUBSET Nat
        BY <1>1
      <3> HIDE DEF I
      <3> QED BY <1>3, <3>1, MinExists
    <2>2. WithoutClaim(p) = RemoveAt(claims, Min(I))
      BY <1>3 DEF WithoutClaim, RemoveFirst, SelectInSeq
    <2> QED BY <2>1, <2>2, RemoveAtListed
  <1> QED BY <1>2, <1>3

(* register puts p behind the claims it does not outrank and before the    *)
(* others.                                                                 *)
LEMMA InsertListed ==
  ASSUME NEW p \in Plugins, Listed(claims), ~Claimed(p)
  PROVE  Listed(InsertClaim(p)) /\ Range(InsertClaim(p)) = Range(claims) \cup {p}
  <1> DEFINE n == Len(claims)
             L == {j \in DOMAIN claims : Prio[claims[j]] < Prio[p]} \cup {n + 1}
             i == Min(L)
             a == SubSeq(claims, 1, i - 1)
             b == SubSeq(claims, i, n)
             one == <<p>>
             u == InsertClaim(p)
  <1>1. /\ claims \in Seq(Plugins) /\ n \in Nat /\ DOMAIN claims = 1 .. n
        /\ \A k \in 1 .. n : claims[k] \in Plugins /\ Prio[claims[k]] \in Nat
        /\ Prio[p] \in Nat
    BY LenProperties, PluginsAssumption DEF Listed
  <1>2. i \in L /\ \A y \in L : i <= y
    <2>1. L \in SUBSET Nat /\ L # {}
      BY <1>1
    <2> QED BY <2>1, MinExists
  <1>3. /\ i \in 1 .. n + 1
        /\ \A k \in 1 .. i - 1 : Prio[p] <= Prio[claims[k]]
        /\ i <= n => Prio[claims[i]] < Prio[p]
    <2>1. i \in Nat /\ i >= 1 /\ i <= n + 1
      <3>1. \A y \in L : y \in Nat /\ y >= 1
        BY <1>1
      <3>2. n + 1 \in L
        OBVIOUS
      <3> HIDE DEF i, L
      <3> QED BY <1>1, <1>2, <3>1, <3>2
    <2>2. i \in 1 .. n => i \in L /\ i # n + 1
      BY <1>1, <1>2
    <2> HIDE DEF i
    <2>3. i <= n => Prio[claims[i]] < Prio[p]
      BY <1>1, <2>1, <2>2
    <2>4. ASSUME NEW k \in 1 .. i - 1 PROVE Prio[p] <= Prio[claims[k]]
      <3>1. k \in 1 .. n /\ ~(i <= k)
        BY <1>1, <2>1
      <3>2. k \notin L
        BY <1>2, <3>1
      <3> QED BY <1>1, <3>1, <3>2
    <2> QED BY <1>1, <2>1, <2>3, <2>4
  <1>4. u = (a \o one) \o b
    BY DEF InsertClaim, InsertAt
  <1> HIDE DEF i
  <1>5. a \in Seq(Plugins) /\ Len(a) = i - 1 /\ \A k \in 1 .. i - 1 : a[k] = claims[k]
    <2>1. \A k \in 1 .. i - 1 : claims[k] \in Plugins
      BY <1>1, <1>3
    <2>2. i - 1 \in Int /\ i - 1 >= 0
      BY <1>1, <1>3
    <2>3. /\ a \in Seq(Plugins) /\ Len(a) = IF 1 <= i - 1 THEN (i - 1) - 1 + 1 ELSE 0
          /\ \A k \in 1 .. (i - 1) - 1 + 1 : a[k] = claims[1 + k - 1]
      BY <2>1, <2>2, SubSeqProperties
    <2> QED BY <2>2, <2>3
  <1>6. /\ b \in Seq(Plugins) /\ Len(b) = n + 1 - i
        /\ \A k \in 1 .. n + 1 - i : b[k] = claims[i + k - 1]
    <2>1. \A k \in i .. n : claims[k] \in Plugins
      BY <1>1, <1>3
    <2>2. /\ b \in Seq(Plugins) /\ Len(b) = IF i <= n THEN n - i + 1 ELSE 0
          /\ \A k \in 1 .. n - i + 1 : b[k] = claims[i + k - 1]
      BY <1>1, <1>3, <2>1, SubSeqProperties
    <2> QED BY <1>1, <1>3, <2>2
  <1>7. one \in Seq(Plugins) /\ Len(one) = 1 /\ one[1] = p
    OBVIOUS
  <1> HIDE DEF a, b, one, u
  <1>8. /\ u \in Seq(Plugins) /\ Len(u) = n + 1
        /\ \A k \in 1 .. n + 1 :
             u[k] = IF k < i THEN claims[k] ELSE IF k = i THEN p ELSE claims[k - 1]
    <2>1. /\ a \o one \in Seq(Plugins) /\ Len(a \o one) = i
          /\ \A k \in 1 .. i : (a \o one)[k] = IF k < i THEN claims[k] ELSE p
      <3>1. /\ a \o one \in Seq(Plugins) /\ Len(a \o one) = Len(a) + Len(one)
            /\ \A k \in 1 .. Len(a) + Len(one) :
                 (a \o one)[k] = IF k <= Len(a) THEN a[k] ELSE one[k - Len(a)]
        BY <1>5, <1>7, ConcatProperties
      <3> QED BY <1>1, <1>3, <1>5, <1>7, <3>1
    <2> DEFINE c == a \o one
    <2> HIDE DEF c
    <2>2. /\ c \o b \in Seq(Plugins) /\ Len(c \o b) = Len(c) + Len(b)
          /\ \A k \in 1 .. Len(c) + Len(b) :
               (c \o b)[k] = IF k <= Len(c) THEN c[k] ELSE b[k - Len(c)]
      BY <1>6, <2>1, ConcatProperties DEF c
    <2>3. Len(c) = i /\ \A k \in 1 .. i : c[k] = IF k < i THEN claims[k] ELSE p
      BY <2>1 DEF c
    <2>4. u = c \o b
      BY <1>4 DEF c
    <2>5. ASSUME NEW k \in 1 .. n + 1
          PROVE  u[k] = IF k < i THEN claims[k] ELSE IF k = i THEN p ELSE claims[k - 1]
      <3>1. CASE k <= i
        BY <1>1, <1>3, <1>6, <2>2, <2>3, <2>4, <3>1
      <3>2. CASE k > i
        <4>1. u[k] = b[k - i] /\ k - i \in 1 .. n + 1 - i /\ i + (k - i) - 1 = k - 1
          BY <1>1, <1>3, <1>6, <2>2, <2>3, <2>4, <3>2
        <4>2. u[k] = claims[i + (k - i) - 1]
          BY <1>6, <4>1
        <4> QED BY <1>1, <1>3, <3>2, <4>1, <4>2
      <3> QED BY <1>1, <1>3, <3>1, <3>2
    <2>6. u \in Seq(Plugins) /\ Len(u) = n + 1
      BY <1>1, <1>3, <1>6, <2>2, <2>3, <2>4
    <2> QED BY <2>5, <2>6
  <1>9. DOMAIN u = 1 .. n + 1
    BY <1>8, LenProperties
  <1>10. \A k \in 1 .. n : claims[k] # p
    BY <1>1, InRange DEF Claimed
  <1> DEFINE at(k) == IF k < i THEN k ELSE k - 1
  <1>a. ASSUME NEW k \in 1 .. n + 1, k # i
        PROVE  at(k) \in 1 .. n /\ u[k] = claims[at(k)]
    <2>1. at(k) \in 1 .. n
      BY <1>1, <1>3, <1>a
    <2>2. u[k] = IF k < i THEN claims[k] ELSE IF k = i THEN p ELSE claims[k - 1]
      BY <1>8
    <2> QED BY <1>a, <2>1, <2>2
  <1>b. u[i] = p
    BY <1>1, <1>3, <1>8
  <1>11. IsInjective(u)
    <2> SUFFICES ASSUME NEW j \in 1 .. n + 1, NEW k \in 1 .. n + 1, u[j] = u[k]
                 PROVE  j = k
      BY <1>9 DEF IsInjective
    <2>1. CASE j = i \/ k = i
      <3>1. \A l \in 1 .. n + 1 : l # i => u[l] # p
        BY <1>a, <1>10
      <3> QED BY <1>b, <2>1, <3>1
    <2>2. CASE j # i /\ k # i
      <3>1. at(j) \in 1 .. n /\ at(k) \in 1 .. n /\ claims[at(j)] = claims[at(k)]
        BY <1>a, <2>2
      <3>2. at(j) = at(k)
        BY <1>1, <3>1 DEF IsInjective, Listed
      <3> QED BY <1>1, <1>3, <2>2, <3>2
    <2> QED BY <2>1, <2>2
  <1>12. Ranked(u)
    <2>1. ASSUME NEW k \in 1 .. n, k >= i PROVE Prio[claims[k]] <= Prio[p]
      BY <1>1, <1>3, <2>1 DEF Listed, Ranked
    <2> SUFFICES ASSUME NEW j \in 1 .. n + 1, NEW k \in 1 .. n + 1, j < k
                 PROVE  Prio[u[k]] <= Prio[u[j]]
      BY <1>8 DEF Ranked
    <2>2. CASE j = i
      <3>1. at(k) \in 1 .. n /\ at(k) >= i /\ u[k] = claims[at(k)]
        BY <1>1, <1>3, <1>a, <2>2
      <3> QED BY <1>b, <2>1, <2>2, <3>1
    <2>3. CASE k = i
      <3>1. j \in 1 .. i - 1 /\ u[j] = claims[j]
        BY <1>1, <1>3, <1>8, <2>3
      <3> QED BY <1>b, <1>3, <2>3, <3>1
    <2>4. CASE j # i /\ k # i
      <3>1. at(j) < at(k)
        BY <1>1, <1>3, <2>4
      <3>2. /\ at(j) \in 1 .. n /\ u[j] = claims[at(j)]
            /\ at(k) \in 1 .. n /\ u[k] = claims[at(k)]
        BY <1>a, <2>4
      <3> HIDE DEF at
      <3> QED BY <3>1, <3>2 DEF Listed, Ranked
    <2> QED BY <2>2, <2>3, <2>4
  <1>13. Range(u) = Range(claims) \cup {p}
    <2>1. ASSUME NEW e \in Range(u) PROVE e \in Range(claims) \cup {p}
      BY <1>1, <1>3, <1>8, <2>1, InRange
    <2>2. ASSUME NEW e \in Range(claims) \cup {p} PROVE e \in Range(u)
      <3>1. CASE e = p
        <4>1. u[i] = e
          BY <1>1, <1>3, <1>8, <3>1
        <4> QED BY <1>3, <1>8, <4>1, InRange
      <3>2. CASE e \in Range(claims)
        <4>1. PICK k \in 1 .. n : claims[k] = e
          BY <1>1, <3>2, InRange
        <4>2. \E l \in 1 .. n + 1 : u[l] = e
          <5>1. CASE k < i
            BY <1>1, <1>3, <1>8, <4>1, <5>1
          <5>2. CASE k >= i
            <6>1. k + 1 \in 1 .. n + 1 /\ ~(k + 1 < i) /\ k + 1 # i /\ (k + 1) - 1 = k
              BY <1>1, <1>3, <5>2
            <6> QED BY <1>8, <4>1, <6>1
          <5> QED BY <1>1, <1>3, <5>1, <5>2
        <4> QED BY <1>8, <4>2, InRange
      <3> QED BY <3>1, <3>2
    <2> QED BY <2>1, <2>2
  <1> QED BY <1>8, <1>11, <1>12, <1>13 DEF Listed, u

(* The claims from the i-th on are still in order. *)
LEMMA SuffixListed ==
  ASSUME NEW cs, Listed(cs), NEW i \in 1 .. Len(cs)
  PROVE  Listed(SubSeq(cs, i, Len(cs))) /\ Range(SubSeq(cs, i, Len(cs))) \subseteq Range(cs)
  <1> DEFINE n == Len(cs)
             u == SubSeq(cs, i, n)
             at(k) == i + k - 1
  <1>1. cs \in Seq(Plugins) /\ n \in Nat /\ i \in Nat /\ i >= 1 /\ i <= n
        /\ DOMAIN cs = 1 .. n /\ \A k \in 1 .. n : cs[k] \in Plugins
    BY LenProperties DEF Listed
  <1>2. /\ u \in Seq(Plugins) /\ Len(u) = n - i + 1
        /\ \A k \in 1 .. n - i + 1 : u[k] = cs[at(k)]
    <2>1. \A k \in i .. n : cs[k] \in Plugins
      BY <1>1
    <2> QED BY <1>1, <2>1, SubSeqProperties
  <1> HIDE DEF u
  <1>3. \A k \in 1 .. n - i + 1 : at(k) \in 1 .. n
    BY <1>1
  <1>4. \A j, k \in 1 .. n - i + 1 : (at(j) = at(k) <=> j = k) /\ (at(j) < at(k) <=> j < k)
    BY <1>1
  <1> HIDE DEF at
  <1>5. DOMAIN u = 1 .. n - i + 1
    BY <1>2, LenProperties
  <1>6. IsInjective(u)
    <2> SUFFICES ASSUME NEW j \in 1 .. n - i + 1, NEW k \in 1 .. n - i + 1, u[j] = u[k]
                 PROVE  j = k
      BY <1>5 DEF IsInjective
    <2> QED BY <1>1, <1>2, <1>3, <1>4 DEF IsInjective, Listed
  <1>7. Ranked(u)
    <2> SUFFICES ASSUME NEW j \in 1 .. n - i + 1, NEW k \in 1 .. n - i + 1, j < k
                 PROVE  Prio[u[k]] <= Prio[u[j]]
      BY <1>2 DEF Ranked
    <2> QED BY <1>2, <1>3, <1>4 DEF Listed, Ranked
  <1>8. ASSUME NEW e \in Range(u) PROVE e \in Range(cs)
    BY <1>1, <1>2, <1>3, InRange
  <1> QED BY <1>2, <1>6, <1>7, <1>8 DEF Listed, u

-----------------------------------------------------------------------------
(* The messages under way. *)

(* What a plugin may post, and what that does to its realm. *)
Posts(o, m, r, r2) ==
  \/ m = "register" /\ r.api = "none" /\ r2.api = "pending" /\ r2.phase = r.phase
  \/ m = "unregister" /\ r2.api = "none" /\ r2.phase = r.phase
  \/ m \in Inits /\ r.phase = "loading" /\ r2.phase # "loading" /\ r2.api = r.api
  \/ /\ m \in Acts /\ r2.phase = r.phase
     /\ \A k \in 1 .. Len(o) : o[k] \notin Acts
     /\ IF m = "actOk" THEN r2.api = "active" ELSE r2.api \in {"partial", r.api}
  \/ m \in {"ack"} \cup Calls /\ r2 = r

(* No call is named like a message. *)
LEMMA CallNames ==
  \A c \in Calls : c \notin Acts \cup Inits \cup {"register", "unregister", "activate",
                                                  "shutdown"}
  BY PluginsAssumption DEF Acts, Inits

(* A message that is posted in step with the realm keeps the wire. *)
LEMMA WirePost ==
  ASSUME NEW o \in Seq(Messages), NEW m \in Messages, NEW r \in Realms,
         NEW r2 \in Realms, Wire(o, r), Posts(o, m, r, r2)
  PROVE  /\ Append(o, m) \in Seq(Messages) /\ Append(o, m) # <<>>
         /\ Range(Append(o, m)) = Range(o) \cup {m}
         /\ Wire(Append(o, m), r2)
         /\ Inited(o, r) => Inited(Append(o, m), r2)
  <1> DEFINE u == Append(o, m)
             n == Len(o)
  <1>1. /\ u \in Seq(Messages) /\ u # <<>> /\ Len(u) = n + 1 /\ n \in Nat
        /\ \A k \in 1 .. n : u[k] = o[k]
        /\ u[n + 1] = m
    BY AppendProperties, LenProperties
  <1> HIDE DEF u
  <1>2. Range(u) = Range(o) \cup {m}
    <2>1. \A e : e \in Range(u) <=> \E k \in 1 .. n + 1 : u[k] = e
      BY <1>1, InRange
    <2>2. \A e : e \in Range(o) <=> \E k \in 1 .. n : o[k] = e
      BY InRange
    <2>3. \A k : k \in 1 .. n + 1 <=> k \in 1 .. n \/ k = n + 1
      BY <1>1
    <2>4. ASSUME NEW e PROVE e \in Range(u) <=> e \in Range(o) \/ e = m
      BY <1>1, <2>1, <2>2, <2>3
    <2> QED BY <2>4
  <1>3. \A k : k \in 1 .. Len(u) <=> k \in 1 .. n \/ k = n + 1
    BY <1>1
  <1>4. \A k \in 1 .. n : k < n + 1 /\ k # n + 1 /\ k \in Nat
    BY <1>1
  <1>5. m \in {"ack"} \cup Calls => m \notin Acts \cup Inits \cup {"register", "unregister"}
    BY CallNames DEF Acts, Inits
  <1>6. \A j, k \in 1 .. Len(u) : u[j] \in Acts /\ u[k] \in Acts => j = k
    BY <1>1, <1>3, <1>5 DEF Wire, Posts, Acts, Inits
  <1>7. \A j, k \in 1 .. Len(u) : u[j] \in Inits /\ u[k] \in Inits => j = k
    BY <1>1, <1>3, <1>5 DEF Wire, Posts, Acts, Inits
  <1>8. r2.phase = "loading" => \A k \in 1 .. Len(u) : u[k] \notin Inits
    BY <1>1, <1>3, <1>5 DEF Wire, Posts, Acts, Inits
  <1>9. ASSUME NEW k \in 1 .. Len(u), u[k] = "actOk"
        PROVE  /\ r2.api # "partial"
               /\ r2.api = "active" \/ \E j \in 1 .. Len(u) : k < j /\ u[j] = "unregister"
               /\ \A j \in 1 .. Len(u) :
                    k < j /\ u[j] = "unregister" => r2.api \notin Effective
    <2>1. CASE k = n + 1
      BY <1>1, <1>5, <1>9, <2>1 DEF Posts, Acts, Inits
    <2>2. CASE k \in 1 .. n
      <3>1. /\ o[k] = "actOk" /\ r.api # "partial"
            /\ r.api = "active" \/ \E j \in 1 .. n : k < j /\ o[j] = "unregister"
            /\ \A j \in 1 .. n : k < j /\ o[j] = "unregister" => r.api \notin Effective
        BY <1>1, <1>9, <2>2 DEF Wire
      <3>2. m \notin Acts
        BY <1>5, <2>2, <3>1 DEF Posts, Acts, Inits
      <3>3. CASE m = "unregister"
        <4>1. r2.api = "none"
          BY <1>5, <3>3 DEF Posts, Acts, Inits
        <4>2. n + 1 \in 1 .. Len(u) /\ k < n + 1 /\ u[n + 1] = "unregister"
          BY <1>1, <1>3, <1>4, <2>2, <3>3
        <4> QED BY <4>1, <4>2 DEF Effective
      <3>4. CASE m # "unregister"
        <4>1. /\ r2.api = r.api \/ (r.api = "none" /\ r2.api = "pending")
          BY <3>2, <3>4, <1>5 DEF Posts, Inits
        <4>2. r2.api # "partial" /\ (r2.api \in Effective => r.api \in Effective)
          BY <3>1, <4>1 DEF Effective
        <4>3. r2.api = "active" \/ \E j \in 1 .. Len(u) : k < j /\ u[j] = "unregister"
          BY <1>1, <1>3, <3>1, <4>1
        <4>4. ASSUME NEW j \in 1 .. Len(u), k < j, u[j] = "unregister"
              PROVE  r2.api \notin Effective
          <5>1. j \in 1 .. n /\ o[j] = "unregister"
            BY <1>1, <1>3, <3>4, <4>4
          <5> QED BY <3>1, <4>2, <4>4, <5>1
        <4> QED BY <4>2, <4>3, <4>4
      <3> QED BY <3>3, <3>4
    <2> QED BY <1>3, <2>1, <2>2
  <1>10. ASSUME NEW k \in 1 .. Len(u), u[k] = "register"
         PROVE  r2.api # "none" \/ \E j \in 1 .. Len(u) : k < j /\ u[j] = "unregister"
    <2>1. CASE k = n + 1
      BY <1>1, <1>5, <1>10, <2>1 DEF Posts, Acts, Inits
    <2>2. CASE k \in 1 .. n
      <3>1. r.api # "none" \/ \E j \in 1 .. n : k < j /\ o[j] = "unregister"
        BY <1>1, <1>10, <2>2 DEF Wire
      <3>2. CASE m = "unregister"
        BY <1>1, <1>3, <1>4, <2>2, <3>2
      <3>3. CASE m # "unregister"
        <4>1. r.api # "none" => r2.api # "none"
          BY <3>3, <1>5 DEF Posts, Acts, Inits
        <4> QED BY <1>1, <1>3, <3>1, <4>1
      <3> QED BY <3>2, <3>3
    <2> QED BY <1>3, <2>1, <2>2
  <1>11. Inited(o, r) => Inited(u, r2)
    BY <1>1, <1>3, <1>5 DEF Inited, Posts, Acts, Inits
  <1> QED BY <1>1, <1>2, <1>6, <1>7, <1>8, <1>9, <1>10, <1>11 DEF Wire, u

(* A message that is delivered leaves the rest of the wire true, and tells *)
(* the core something about the realm.                                     *)
LEMMA WireTail ==
  ASSUME NEW o \in Seq(Messages), o # <<>>, NEW r \in Realms, Wire(o, r)
  PROVE  /\ Tail(o) \in Seq(Messages) /\ Wire(Tail(o), r)
         /\ Range(Tail(o)) \subseteq Range(o)
         /\ \A e \in Range(o) : e = Head(o) \/ e \in Range(Tail(o))
         /\ Inited(o, r) => Inited(Tail(o), r)
         /\ Head(o) \in Acts => Range(Tail(o)) \cap Acts = {}
         /\ Head(o) \in Inits => ~Inited(o, r) /\ Inited(Tail(o), r)
         /\ Head(o) = "actOk" => /\ r.api # "partial" /\ Leaving(Tail(o), r)
                                 /\ r.api = "active" \/ "unregister" \in Range(Tail(o))
         /\ Head(o) = "register" => r.api # "none" \/ "unregister" \in Range(Tail(o))
  <1> DEFINE u == Tail(o)
             n == Len(o)
  <1>1. /\ u \in Seq(Messages) /\ Len(u) = n - 1 /\ n \in Nat /\ n # 0
        /\ \A k \in 1 .. n - 1 : u[k] = o[k + 1]
        /\ Head(o) = o[1]
    <2>1. \A k \in 1 .. Len(u) : u[k] = o[k + 1]
      BY HeadTailProperties
    <2> QED BY <2>1, HeadTailProperties, LenProperties, EmptySeq
  <1> HIDE DEF u
  <1>2. \A k \in 1 .. n : k = 1 \/ (k - 1 \in 1 .. n - 1 /\ u[k - 1] = o[k])
    <2> TAKE k \in 1 .. n
    <2>1. k # 1 => k - 1 \in 1 .. n - 1 /\ (k - 1) + 1 = k
      BY <1>1
    <2> QED BY <1>1, <2>1
  <1>3. \A k \in 1 .. n - 1 : k + 1 \in 1 .. n /\ 1 < k + 1 /\ k + 1 # 1 /\ k \in Nat
    BY <1>1
  <1>4. 1 \in 1 .. n
    BY <1>1
  <1>5. \A e : e \in Range(u) <=> \E k \in 1 .. n - 1 : u[k] = e
    BY <1>1, InRange
  <1>6. \A e : e \in Range(o) <=> \E k \in 1 .. n : o[k] = e
    BY InRange
  <1>7. /\ Range(u) \subseteq Range(o)
        /\ \A e \in Range(o) : e = Head(o) \/ e \in Range(u)
    <2>1. ASSUME NEW e \in Range(u) PROVE e \in Range(o)
      BY <1>1, <1>3, <1>5, <1>6
    <2>2. ASSUME NEW e \in Range(o) PROVE e = Head(o) \/ e \in Range(u)
      BY <1>1, <1>2, <1>5, <1>6
    <2> QED BY <2>1, <2>2
  <1>8. Wire(u, r)
    <2>1. /\ \A j, k \in 1 .. n - 1 : u[j] \in Acts /\ u[k] \in Acts => j = k
          /\ \A j, k \in 1 .. n - 1 : u[j] \in Inits /\ u[k] \in Inits => j = k
      <3> SUFFICES ASSUME NEW j \in 1 .. n - 1, NEW k \in 1 .. n - 1,
                          \/ u[j] \in Acts /\ u[k] \in Acts
                          \/ u[j] \in Inits /\ u[k] \in Inits
                   PROVE  j = k
        OBVIOUS
      <3>1. j + 1 \in 1 .. n /\ k + 1 \in 1 .. n /\ u[j] = o[j + 1] /\ u[k] = o[k + 1]
        BY <1>1, <1>3
      <3>2. j + 1 = k + 1
        BY <3>1 DEF Wire
      <3> QED BY <1>3, <3>2
    <2>2. r.phase = "loading" => \A k \in 1 .. n - 1 : u[k] \notin Inits
      BY <1>1, <1>3 DEF Wire
    <2>3. \A j, k \in 1 .. n - 1 : k < j <=> k + 1 < j + 1
      BY <1>1
    <2>4. ASSUME NEW k \in 1 .. n - 1, NEW e,
                 \E j \in 1 .. n : k + 1 < j /\ o[j] = e
          PROVE  \E j \in 1 .. n - 1 : k < j /\ u[j] = e
      <3>1. PICK j \in 1 .. n : k + 1 < j /\ o[j] = e
        BY <2>4
      <3>2. j - 1 \in 1 .. n - 1 /\ k < j - 1 /\ u[j - 1] = e
        BY <1>1, <1>2, <3>1
      <3> QED BY <3>2
    <2>5. ASSUME NEW k \in 1 .. n - 1, u[k] = "actOk"
          PROVE  /\ r.api # "partial"
                 /\ r.api = "active" \/ \E j \in 1 .. n - 1 : k < j /\ u[j] = "unregister"
                 /\ \A j \in 1 .. n - 1 :
                      k < j /\ u[j] = "unregister" => r.api \notin Effective
      <3>1. k + 1 \in 1 .. n /\ o[k + 1] = "actOk"
        BY <1>1, <1>3, <2>5
      <3>2. r.api = "active" \/ \E j \in 1 .. n - 1 : k < j /\ u[j] = "unregister"
        BY <2>4, <3>1 DEF Wire
      <3>3. ASSUME NEW j \in 1 .. n - 1, k < j, u[j] = "unregister"
            PROVE  r.api \notin Effective
        <4>1. j + 1 \in 1 .. n /\ k + 1 < j + 1 /\ o[j + 1] = "unregister"
          BY <1>1, <1>3, <2>3, <3>3
        <4> QED BY <3>1, <4>1 DEF Wire
      <3> QED BY <3>1, <3>2, <3>3 DEF Wire
    <2>6. ASSUME NEW k \in 1 .. n - 1, u[k] = "register"
          PROVE  r.api # "none" \/ \E j \in 1 .. n - 1 : k < j /\ u[j] = "unregister"
      <3>1. k + 1 \in 1 .. n /\ o[k + 1] = "register"
        BY <1>1, <1>3, <2>6
      <3> QED BY <2>4, <3>1 DEF Wire
    <2> QED BY <1>1, <2>1, <2>2, <2>5, <2>6 DEF Wire
  <1>9. Inited(o, r) => Inited(u, r)
    BY <1>1, <1>3 DEF Inited
  <1>10. Head(o) \in Acts => Range(u) \cap Acts = {}
    <2>1. ASSUME o[1] \in Acts, NEW k \in 1 .. n - 1 PROVE u[k] \notin Acts
      BY <1>1, <1>3, <1>4, <2>1 DEF Wire
    <2> QED BY <1>1, <1>5, <2>1
  <1>11. Head(o) \in Inits => ~Inited(o, r) /\ Inited(u, r)
    <2>1. ASSUME o[1] \in Inits PROVE ~Inited(o, r) /\ Inited(u, r)
      BY <1>1, <1>3, <1>4, <2>1 DEF Wire, Inited
    <2> QED BY <1>1, <2>1
  <1>12. ASSUME NEW k \in 1 .. n, 1 < k PROVE o[k] \in Range(u)
    BY <1>1, <1>2, <1>5, <1>12
  <1>13. ASSUME Head(o) = "actOk"
         PROVE  /\ r.api # "partial" /\ Leaving(u, r)
                /\ r.api = "active" \/ "unregister" \in Range(u)
    <2>1. /\ r.api # "partial"
          /\ r.api = "active" \/ \E j \in 1 .. n : 1 < j /\ o[j] = "unregister"
          /\ \A j \in 1 .. n : 1 < j /\ o[j] = "unregister" => r.api \notin Effective
      BY <1>1, <1>4, <1>13 DEF Wire
    <2>2. ASSUME "unregister" \in Range(u) PROVE r.api \notin Effective
      BY <1>1, <1>3, <1>5, <2>1, <2>2
    <2> QED BY <1>12, <2>1, <2>2 DEF Leaving
  <1>14. ASSUME Head(o) = "register" PROVE r.api # "none" \/ "unregister" \in Range(u)
    BY <1>1, <1>4, <1>12, <1>14 DEF Wire
  <1> QED BY <1>1, <1>7, <1>8, <1>9, <1>10, <1>11, <1>13, <1>14 DEF u

-----------------------------------------------------------------------------
(* The steps, by what they change.  First the state as the proofs use it.  *)

LEMMA IInvFacts ==
  ASSUME IInv
  PROVE  /\ Listed(claims)
         /\ pass \in [pc : {"idle", "await", "ok", "err", "stopping"},
                      target : Plugins \cup {None}]
         /\ None \notin Plugins
         /\ \A p \in Plugins :
              /\ host[p] \in Hosts /\ realm[p] \in Realms
              /\ out[p] \in Seq(Messages) /\ pend[p] \in SUBSET Requests
              /\ Wire(out[p], realm[p])
              /\ Hosted(p, host[p], out[p], realm[p], pend[p])
  BY PluginsAssumption DEF IInv, TypeOK, Claiming, Listed

(* No step but a delivery takes a message off a wire. *)
Heard(p) ==
  \/ out' = out
  \/ out[p] # <<>> /\ out' = [out EXCEPT ![p] = Tail(@)]

(* What is true of the plugins stays true as a message is delivered. *)
LEMMA HeardFacts ==
  ASSUME IInv, NEW p \in Plugins, Heard(p)
  PROVE  /\ out' \in [Plugins -> Seq(Messages)]
         /\ \A q \in Plugins :
              /\ q # p => out'[q] = out[q]
              /\ Wire(out'[q], realm[q])
              /\ Range(out'[q]) \subseteq Range(out[q])
              /\ Inited(out[q], realm[q]) => Inited(out'[q], realm[q])
              /\ Hosted(q, host[q], out'[q], realm[q], pend[q])
              /\ out[q] = <<>> => out'[q] = <<>>
              /\ Leaving(out[q], realm[q]) => Leaving(out'[q], realm[q])
         /\ \A e \in Range(out[p]) : e \in Range(out'[p]) \/ e = Head(out[p])
  <1>1. CASE out' = out
    BY <1>1, IInvFacts DEF IInv, TypeOK
  <1>2. CASE out[p] # <<>> /\ out' = [out EXCEPT ![p] = Tail(@)]
    <2> DEFINE u == Tail(out[p])
    <2>1. /\ u \in Seq(Messages) /\ Wire(u, realm[p]) /\ Range(u) \subseteq Range(out[p])
          /\ \A e \in Range(out[p]) : e = Head(out[p]) \/ e \in Range(u)
          /\ Inited(out[p], realm[p]) => Inited(u, realm[p])
      BY <1>2, IInvFacts, WireTail
    <2>2. out'[p] = u /\ \A q \in Plugins : q # p => out'[q] = out[q]
      BY <1>2 DEF IInv, TypeOK
    <2>3. out' \in [Plugins -> Seq(Messages)]
      BY <1>2, <2>1 DEF IInv, TypeOK
    <2> HIDE DEF u
    <2>4. Hosted(p, host[p], u, realm[p], pend[p])
      BY <1>2, <2>1, IInvFacts DEF Hosted
    <2>5. Leaving(out[p], realm[p]) => Leaving(u, realm[p])
      BY <2>1 DEF Leaving
    <2> QED BY <1>2, <2>1, <2>2, <2>3, <2>4, <2>5, IInvFacts
  <1> QED BY <1>1, <1>2 DEF Heard

(* A plugin posts a message: only its realm and its wire change. *)
LEMMA PostIInv ==
  ASSUME IInv, NEW p \in Plugins, NEW m \in Messages, NEW r2 \in Realms,
         Runs(p), Posts(out[p], m, realm[p], r2),
         m \in Acts => "activate" \in pend[p],
         out' = [out EXCEPT ![p] = Append(@, m)], realm' = [realm EXCEPT ![p] = r2],
         events' \in 0 .. MaxEvents,
         UNCHANGED <<host, pend, claims, activatedBy, pass, queued, loading, calls>>
  PROVE  IInv'
  <1> DEFINE o == out[p]
             u == Append(o, m)
             r == realm[p]
  <1>1. /\ o \in Seq(Messages) /\ r \in Realms /\ host[p] \in Hosts
        /\ Wire(o, r) /\ Hosted(p, host[p], o, r, pend[p])
    BY IInvFacts
  <1>2. /\ u \in Seq(Messages) /\ Wire(u, r2) /\ Range(u) = Range(o) \cup {m}
        /\ Inited(o, r) => Inited(u, r2)
    BY <1>1, WirePost
  <1>3. /\ out'[p] = u /\ realm'[p] = r2 /\ host' = host /\ pend' = pend
        /\ \A q \in Plugins : q # p => out'[q] = out[q] /\ realm'[q] = realm[q]
    BY DEF IInv, TypeOK
  <1>4. TypeOK'
    BY <1>2 DEF IInv, TypeOK
  <1> HIDE DEF u
  <1>5. m \in Acts \/ (r2.api \in Effective => r.api \in Effective)
    BY CallNames DEF Posts, Inits, Acts, Effective
  <1>6. Hosted(p, host[p], u, r2, pend[p])
    <2>1. host[p].state # "unspawned" /\ (p \in Workers => host[p].ep # "null")
      BY <1>1 DEF Hosted, Runs, UnspawnedHost
    <2>2. m \in Acts => host[p].ep = "open"
      BY <1>1 DEF Hosted
    <2>3. host[p].state = "live" \/ r2.api \in Effective \/ "activate" \in pend[p]
          => Inited(u, r2)
      BY <1>1, <1>2, <1>5 DEF Hosted
    <2> QED BY <1>1, <1>5, <2>1, <2>2, <2>3 DEF Hosted
  <1>7. ASSUME m \notin Acts
        PROVE  /\ r.api # "partial" => r2.api # "partial"
               /\ Leaving(o, r) => Leaving(u, r2)
               /\ Backed(p, o, r) => Backed(p, u, r2)
    BY <1>2, <1>7, CallNames DEF Posts, Leaving, Backed, Effective, Inits
  <1>8. Passing'
    <2>1. pass.pc = "ok" /\ pass.target = p => m \notin Acts
      BY DEF IInv, Passing
    <2>2. ASSUME pass.pc = "ok"
          PROVE  /\ realm'[pass.target].api # "partial"
                 /\ Leaving(out'[pass.target], realm'[pass.target])
                 /\ Claimed(pass.target) =>
                      Backed(pass.target, out'[pass.target], realm'[pass.target])
      BY <1>3, <1>7, <2>1, <2>2 DEF IInv, Passing
    <2> QED BY <1>3, <2>2 DEF IInv, Passing, Claimed
  <1>9. Winning'
    <2>1. activatedBy = p => m \notin Acts
      BY PluginsAssumption DEF IInv, Passing, Winning
    <2>2. activatedBy \in Plugins \cup {None}
      BY DEF IInv, TypeOK
    <2> QED BY <1>3, <1>7, <2>1, <2>2 DEF IInv, Winning, Claimed
  <1>10. Exclusive'
    <2> SUFFICES ASSUME NEW q \in Plugins, InEffect(host[q], realm'[q])
                 PROVE  q = activatedBy \/ (pass.pc # "idle" /\ pass.target = q)
      BY <1>3 DEF Exclusive
    <2>1. CASE q = p /\ m \in Acts
      BY <2>1 DEF IInv, Passing
    <2>2. CASE q # p \/ m \notin Acts
      <3>1. InEffect(host[q], realm[q])
        BY <1>3, <1>5, <2>2 DEF InEffect
      <3> QED BY <3>1 DEF IInv, Exclusive
    <2> QED BY <2>1, <2>2
  <1>11. Claiming' /\ Calling' /\ FailoverPending'
    BY DEF IInv, Claiming, Calling, FailoverPending, Claimed
  <1>12. \A q \in Plugins : /\ Wire(out'[q], realm'[q])
                            /\ Hosted(q, host'[q], out'[q], realm'[q], pend'[q])
    BY <1>2, <1>3, <1>6, IInvFacts
  <1> QED BY <1>4, <1>8, <1>9, <1>10, <1>11, <1>12 DEF IInv

(* Only the record and the requests of one host change; its claim and the  *)
(* pass are left alone, except that the pass goes on to wait for its stop. *)
LEMMA HostIInv ==
  ASSUME IInv, NEW p \in Plugins, NEW h2 \in Hosts, NEW d2 \in SUBSET Requests,
         Heard(p), "unregister" \in Range(out[p]) => "unregister" \in Range(out'[p]),
         host' = [host EXCEPT ![p] = h2], pend' = [pend EXCEPT ![p] = d2],
         \/ pass' = pass
         \/ pass.pc = "err" /\ pass' = [pass EXCEPT !.pc = "stopping"],
         events' \in 0 .. MaxEvents,
         UNCHANGED <<realm, claims, activatedBy, queued, loading, calls>>,
         h2.state # "unspawned",
         Hosted(p, h2, out'[p], realm[p], d2),
         InEffect(h2, realm[p]) => InEffect(host[p], realm[p]),
         p \in Workers /\ h2.ep = "null" => host[p].ep = "null",
         "activate" \in d2 <=> "activate" \in pend[p],
         \A c \in Calls : c \in pend[p] => c \in d2
  PROVE  IInv'
  <1>1. /\ host'[p] = h2 /\ pend'[p] = d2 /\ realm' = realm
        /\ \A q \in Plugins : q # p => host'[q] = host[q] /\ pend'[q] = pend[q]
    BY DEF IInv, TypeOK
  <1>2. /\ out' \in [Plugins -> Seq(Messages)]
        /\ \A q \in Plugins :
             /\ q # p => out'[q] = out[q]
             /\ Wire(out'[q], realm[q])
             /\ Hosted(q, host[q], out'[q], realm[q], pend[q])
             /\ Leaving(out[q], realm[q]) => Leaving(out'[q], realm[q])
    BY HeardFacts
  <1>3. \A q \in Plugins : Backed(q, out[q], realm[q]) => Backed(q, out'[q], realm[q])
    BY <1>2 DEF Backed
  <1>4. /\ pass'.target = pass.target /\ (pass'.pc = "idle" <=> pass.pc = "idle")
        /\ (pass'.pc = "await" <=> pass.pc = "await") /\ (pass'.pc = "ok" <=> pass.pc = "ok")
        /\ pass' \in [pc : {"idle", "await", "ok", "err", "stopping"},
                      target : Plugins \cup {None}]
    BY IInvFacts
  <1>5. TypeOK'
    BY <1>2, <1>4 DEF IInv, TypeOK
  <1>6. Passing'
    <2>1. pass.pc # "idle" => /\ pass.target \in Plugins /\ activatedBy = None
                              /\ host'[pass.target].state # "unspawned"
      BY <1>1 DEF IInv, Passing
    <2>2. \A q \in Plugins :
            "activate" \in pend'[q] <=> pass.pc = "await" /\ pass.target = q
      BY <1>1 DEF IInv, Passing
    <2>3. pass.pc = "ok" =>
            /\ realm[pass.target].api # "partial"
            /\ Leaving(out'[pass.target], realm[pass.target])
            /\ Claimed(pass.target) =>
                 Backed(pass.target, out'[pass.target], realm[pass.target])
      BY <1>2, <1>3, <2>1 DEF IInv, Passing
    <2> QED BY <1>1, <1>4, <2>1, <2>2, <2>3 DEF Passing, Claimed
  <1>7. Winning'
    BY <1>1, <1>2, <1>3, <1>4 DEF IInv, TypeOK, Winning, Claimed
  <1>8. Exclusive'
    BY <1>1, <1>4 DEF IInv, Exclusive
  <1>9. Claiming'
    BY <1>1, PluginsAssumption DEF IInv, Claiming, Claimed, Workers
  <1>10. Calling' /\ FailoverPending'
    <2>1. Calling'
      BY <1>1 DEF IInv, Calling
    <2> QED BY <1>4, <2>1 DEF IInv, FailoverPending
  <1>11. \A q \in Plugins : /\ Wire(out'[q], realm'[q])
                            /\ Hosted(q, host'[q], out'[q], realm'[q], pend'[q])
    BY <1>1, <1>2
  <1> QED BY <1>5, <1>6, <1>7, <1>8, <1>9, <1>10, <1>11 DEF IInv

(* A host is torn down: its claim, its activation and its requests go, its *)
(* pending activation is rejected, and no init of it is in effect.         *)
LEMMA ReleaseIInv ==
  ASSUME IInv, NEW p \in Plugins, NEW h2 \in Hosts, NEW r2 \in Realms,
         Heard(p), Release(p),
         host' = [host EXCEPT ![p] = h2], realm' = [realm EXCEPT ![p] = r2],
         \/ pass' = RejectedPass(p)
         \/ pass.pc = "err" /\ pass' = [pass EXCEPT !.pc = "stopping"],
         events' \in 0 .. MaxEvents, loading' = loading,
         r2 = realm[p] \/ (r2 = FreshRealm /\ out[p] = <<>>),
         h2.state # "unspawned",
         Hosted(p, h2, out'[p], r2, {}),
         ~InEffect(h2, r2)
  PROVE  IInv'
  <1>1. /\ host'[p] = h2 /\ pend'[p] = {} /\ realm'[p] = r2
        /\ \A q \in Plugins : q # p => /\ host'[q] = host[q] /\ pend'[q] = pend[q]
                                       /\ realm'[q] = realm[q]
    BY DEF IInv, TypeOK, Release
  <1>2. /\ out' \in [Plugins -> Seq(Messages)]
        /\ \A q \in Plugins :
             /\ q # p => out'[q] = out[q]
             /\ Wire(out'[q], realm[q])
             /\ Hosted(q, host[q], out'[q], realm[q], pend[q])
             /\ Leaving(out[q], realm[q]) => Leaving(out'[q], realm[q])
             /\ out[q] = <<>> => out'[q] = <<>>
    BY HeardFacts
  <1>3. /\ Listed(claims') /\ Range(claims') = Range(claims) \ {p}
    BY IInvFacts, WithoutListed DEF Release, DropClaim
  <1>4. /\ activatedBy' \in Plugins \cup {None}
        /\ activatedBy' # None => activatedBy' = activatedBy /\ activatedBy # p
        /\ activatedBy # None /\ activatedBy # p => activatedBy' = activatedBy
    BY DEF IInv, TypeOK, Release, DropClaim
  <1>5. /\ pass'.target = pass.target /\ (pass'.pc = "idle" <=> pass.pc = "idle")
        /\ (pass'.pc = "await" <=> pass.pc = "await" /\ pass.target # p)
        /\ (pass'.pc = "ok" => pass.pc = "ok")
        /\ pass' \in [pc : {"idle", "await", "ok", "err", "stopping"},
                      target : Plugins \cup {None}]
    BY IInvFacts DEF IInv, Passing, RejectedPass
  <1>6. calls' \in [Calls -> {"idle", "waiting", "ready", "sent", "settled"}]
    BY DEF IInv, TypeOK, Release, RejectedCalls
  <1>7. TypeOK'
    <2>1. queued' \in BOOLEAN /\ pend' \in [Plugins -> SUBSET Requests]
      BY DEF IInv, TypeOK, Release, DropClaim
    <2>2. host' \in [Plugins -> Hosts] /\ realm' \in [Plugins -> Realms]
      BY DEF IInv, TypeOK
    <2>3. loading' \in {"idle", "loading", "activating"}
      BY DEF IInv, TypeOK
    <2> QED BY <1>2, <1>3, <1>4, <1>5, <1>6, <2>1, <2>2, <2>3 DEF TypeOK, Listed
  <1>9. /\ Wire(out'[p], r2)
        /\ Leaving(out[p], realm[p]) => Leaving(out'[p], r2)
        /\ realm[p].api # "partial" => r2.api # "partial"
    <2>1. CASE r2 = realm[p]
      BY <1>2, <2>1
    <2>2. CASE r2 = FreshRealm /\ out[p] = <<>>
      <3>1. out'[p] = <<>> /\ Len(out'[p]) = 0
        BY <1>2, <2>2
      <3>2. 1 .. 0 = {}
        OBVIOUS
      <3> QED BY <2>2, <3>1, <3>2 DEF FreshRealm, Wire, Leaving, Effective
    <2> QED BY <2>1, <2>2
  <1>10. Passing'
    <2>1. pass.pc # "idle" => /\ pass.target \in Plugins /\ activatedBy' = None
                              /\ host'[pass.target].state # "unspawned"
      BY <1>1, <1>4 DEF IInv, Passing
    <2>2. \A q \in Plugins :
            "activate" \in pend'[q] <=> pass'.pc = "await" /\ pass'.target = q
      BY <1>1, <1>5 DEF IInv, Passing
    <2>3. ASSUME pass'.pc = "ok"
          PROVE  /\ realm'[pass.target].api # "partial"
                 /\ Leaving(out'[pass.target], realm'[pass.target])
                 /\ pass.target \in Range(claims') =>
                      Backed(pass.target, out'[pass.target], realm'[pass.target])
      <3>1. /\ pass.pc = "ok" /\ pass.target \in Plugins
            /\ realm[pass.target].api # "partial"
            /\ Leaving(out[pass.target], realm[pass.target])
            /\ pass.target \in Range(claims) =>
                 Backed(pass.target, out[pass.target], realm[pass.target])
        BY <1>5, <2>3 DEF IInv, Passing, Claimed
      <3>2. CASE pass.target = p
        BY <1>1, <1>3, <1>9, <3>1, <3>2
      <3>3. CASE pass.target # p
        BY <1>1, <1>2, <1>3, <3>1, <3>3
      <3> QED BY <3>2, <3>3
    <2> QED BY <1>5, <2>1, <2>2, <2>3 DEF Passing, Claimed
  <1>11. Winning'
    BY <1>1, <1>2, <1>3, <1>4, <1>5 DEF IInv, TypeOK, Winning, Claimed
  <1>12. Exclusive'
    BY <1>1, <1>4, <1>5, PluginsAssumption DEF IInv, Exclusive
  <1>13. Claiming'
    BY <1>1, <1>3, PluginsAssumption DEF IInv, Claiming, Claimed, Workers, Listed
  <1>14. Calling'
    BY <1>1 DEF IInv, Calling, Release, RejectedCalls
  <1>15. FailoverPending'
    <2>1. claims' # <<>> => claims # <<>>
      <3>1. Range(claims) = {} => Range(claims') = {}
        BY <1>3
      <3> QED BY <1>3, <3>1, IInvFacts, EmptyRange DEF Listed
    <2> QED BY <1>4, <1>5, <2>1 DEF IInv, FailoverPending, Release, DropClaim
  <1>16. \A q \in Plugins : /\ Wire(out'[q], realm'[q])
                            /\ Hosted(q, host'[q], out'[q], realm'[q], pend'[q])
    BY <1>1, <1>2, <1>9
  <1> QED BY <1>7, <1>10, <1>11, <1>12, <1>13, <1>14, <1>15, <1>16 DEF IInv

(* A pass that finds nobody in effect asks the first claimant that is up,  *)
(* and that one is outranked by no other.                                  *)
LEMMA SelectIInv ==
  ASSUME IInv, NEW cs, Listed(cs), Range(cs) \subseteq Range(claims),
         activatedBy = None, SelectClaimant(cs),
         \A p \in Plugins : ~InEffect(host[p], realm[p]) /\ "activate" \notin pend[p],
         UNCHANGED <<host, realm, out, activatedBy, calls, events>>,
         queued' \in BOOLEAN, loading' \in {"idle", "loading", "activating"}
  PROVE  /\ IInv'
         /\ \A p \in Plugins : \A q \in Range(cs) :
              "activate" \in pend'[p] /\ Routable(q) => Prio[q] <= Prio[p]
  <1> DEFINE live == {k \in DOMAIN cs : Routable(cs[k])}
             i == Min(live)
             t == cs[i]
  <1>1. cs \in Seq(Plugins) /\ Len(cs) \in Nat /\ DOMAIN cs = 1 .. Len(cs)
    BY LenProperties DEF Listed
  <1>2. CASE live = {}
    <2>1. claims' = <<>> /\ pass' = IdlePass /\ pend' = pend
      BY <1>2 DEF SelectClaimant
    <2> HIDE DEF live
    <2>2. /\ claims' \in Seq(Plugins) /\ Len(claims') = 0 /\ DOMAIN claims' = {}
          /\ Range(claims') = {}
      <3>1. claims' \in Seq(Plugins) /\ Len(claims') = 0
        BY <2>1
      <3>2. DOMAIN claims' = 1 .. 0
        BY <3>1, LenProperties
      <3>3. Range(claims') = {}
        BY <2>1, <3>1, EmptyRange
      <3> QED BY <3>1, <3>2, <3>3
    <2>3. Ranked(claims') /\ IsInjective(claims')
      <3>1. 1 .. 0 = {}
        OBVIOUS
      <3> QED BY <2>2, <3>1 DEF Ranked, IsInjective
    <2>4. TypeOK'
      BY <2>1, <2>2, <2>3 DEF IInv, TypeOK, IdlePass
    <2>5. Passing' /\ Winning'
      BY <2>1 DEF IInv, Passing, Winning, IdlePass
    <2>6. Exclusive' /\ Calling'
      BY <2>1 DEF IInv, Exclusive, Calling
    <2>7. Claiming' /\ FailoverPending'
      BY <2>1, <2>2, <2>3 DEF Claiming, Claimed, FailoverPending
    <2>8. \A p \in Plugins : /\ Wire(out'[p], realm'[p])
                             /\ Hosted(p, host'[p], out'[p], realm'[p], pend'[p])
      BY <2>1, IInvFacts
    <2> QED BY <2>1, <2>4, <2>5, <2>6, <2>7, <2>8 DEF IInv
  <1>3. CASE live # {}
    <2>1. i \in live /\ \A k \in live : i <= k
      <3>1. live \in SUBSET Nat
        BY <1>1
      <3> HIDE DEF live
      <3> QED BY <1>3, <3>1, MinExists
    <2>2. i \in 1 .. Len(cs) /\ t \in Plugins /\ Routable(t)
      BY <1>1, <2>1
    <2> DEFINE u == SubSeq(cs, i, Len(cs))
    <2>3. /\ claims' = u
          /\ \/ /\ host[t].ep = "open" /\ pass' = [pc |-> "await", target |-> t]
                /\ pend' = [pend EXCEPT ![t] = @ \cup {"activate"}]
             \/ /\ host[t].ep # "open" /\ pass' = [pc |-> "err", target |-> t]
                /\ pend' = pend
      BY <1>3 DEF SelectClaimant
    <2> HIDE DEF live, i
    <2>4. Listed(u) /\ Range(u) \subseteq Range(claims) /\ u # <<>>
      <3>1. Listed(u) /\ Range(u) \subseteq Range(claims)
        BY <2>2, SuffixListed
      <3>2. Len(u) # 0
        <4>1. \A k \in i .. Len(cs) : cs[k] \in Plugins
          BY <1>1, <2>2
        <4>2. Len(u) = IF i <= Len(cs) THEN Len(cs) - i + 1 ELSE 0
          BY <1>1, <2>2, <4>1, SubSeqProperties
        <4> HIDE DEF u
        <4> QED BY <1>1, <2>2, <4>2
      <3> QED BY <3>1, <3>2, EmptySeq
    <2> DEFINE tt == t
    <2> HIDE DEF tt, u
    <2>5. /\ tt \in Plugins /\ Routable(tt) /\ claims' = u
          /\ pass'.target = tt /\ pass'.pc \in {"await", "err"}
          /\ pass' \in [pc : {"idle", "await", "ok", "err", "stopping"},
                        target : Plugins \cup {None}]
          /\ pend' \in [Plugins -> SUBSET Requests]
          /\ \A p \in Plugins : "activate" \in pend'[p] <=> pass'.pc = "await" /\ tt = p
          /\ \A p \in Plugins : p # tt => pend'[p] = pend[p]
          /\ pend'[tt] \subseteq pend[tt] \cup {"activate"}
          /\ pend[tt] \subseteq pend'[tt]
          /\ pend'[tt] = pend[tt] \/ host[tt].ep = "open"
      <3>1. /\ tt \in Plugins /\ Routable(tt) /\ claims' = u
            /\ pend \in [Plugins -> SUBSET Requests] /\ "activate" \in Requests
            /\ \A p \in Plugins : "activate" \notin pend[p]
        BY <2>2, <2>3 DEF tt, IInv, TypeOK, Requests
      <3>2. CASE host[t].ep = "open"
        <4>1. /\ host[tt].ep = "open" /\ pass' = [pc |-> "await", target |-> tt]
              /\ pend' = [pend EXCEPT ![tt] = pend[tt] \cup {"activate"}]
          BY <2>3, <3>2 DEF tt
        <4>2. /\ pend'[tt] = pend[tt] \cup {"activate"}
              /\ \A p \in Plugins : p # tt => pend'[p] = pend[p]
              /\ pend' \in [Plugins -> SUBSET Requests]
          BY <3>1, <4>1
        <4> QED BY <3>1, <4>1, <4>2
      <3>3. CASE host[t].ep # "open"
        <4>1. /\ pass' = [pc |-> "err", target |-> tt] /\ pend' = pend
          BY <2>3, <3>3 DEF tt
        <4> QED BY <3>1, <4>1
      <3> QED BY <3>2, <3>3
    <2>6. TypeOK'
      BY <2>4, <2>5 DEF IInv, TypeOK, Listed
    <2>7. Passing' /\ Winning'
      BY <2>5 DEF Passing, Winning, Routable
    <2>8. Exclusive'
      BY DEF Exclusive
    <2>9. Calling' /\ FailoverPending'
      BY <2>5 DEF IInv, Calling, FailoverPending
    <2>10. Claiming'
      BY <2>4, <2>5 DEF IInv, Claiming, Claimed, Listed
    <2>11. ASSUME NEW p \in Plugins
           PROVE  Wire(out[p], realm[p]) /\ Hosted(p, host[p], out[p], realm[p], pend'[p])
      <3>1. CASE p # tt
        BY <2>5, <3>1, IInvFacts
      <3>2. CASE p = tt
        <4>1. Hosted(tt, host[tt], out[tt], realm[tt], pend[tt]) /\ host[tt].state = "live"
          BY <2>5, IInvFacts DEF Routable
        <4>2. Hosted(tt, host[tt], out[tt], realm[tt], pend'[tt])
          BY <2>5, <4>1 DEF Hosted
        <4> QED BY <3>2, <4>2, IInvFacts
      <3> QED BY <3>1, <3>2
    <2>12. ASSUME NEW p \in Plugins, NEW q \in Range(cs),
                  "activate" \in pend'[p], Routable(q)
           PROVE  Prio[q] <= Prio[p]
      <3>1. p = t
        BY <2>5, <2>12 DEF tt
      <3>2. PICK k \in 1 .. Len(cs) : cs[k] = q
        BY <1>1, InRange
      <3>3. i <= k
        BY <1>1, <2>1, <2>12, <3>2 DEF live
      <3>4. CASE i = k
        <4>1. q = t /\ Prio[t] \in Nat
          BY <2>2, <3>2, <3>4, PluginsAssumption
        <4> QED BY <3>1, <4>1
      <3>5. CASE i < k
        BY <2>2, <3>1, <3>2, <3>5 DEF Listed, Ranked
      <3> QED BY <2>2, <3>3, <3>4, <3>5
    <2> QED BY <2>6, <2>7, <2>8, <2>9, <2>10, <2>11, <2>12 DEF IInv
  <1> QED BY <1>2, <1>3

-----------------------------------------------------------------------------
(* The actions. *)

(* A step that counts as an event, and one that does not. *)
LEMMA EventBound ==
  ASSUME IInv
  PROVE  /\ Event => events' \in 0 .. MaxEvents
         /\ events' = events => events' \in 0 .. MaxEvents
  <1>1. events \in 0 .. MaxEvents /\ MaxEvents \in Nat
    BY PluginsAssumption DEF IInv, TypeOK
  <1> QED BY <1>1 DEF Event

(* A worker's thread that hangs, resumes or dies changes nothing else of   *)
(* its host.                                                               *)
LEMMA ThreadIInv ==
  ASSUME IInv, NEW p \in Plugins, p \notin InThread, NEW h2 \in Hosts,
         host' = [host EXCEPT ![p] = h2],
         NEW d2 \in SUBSET Requests, pend' = [pend EXCEPT ![p] = d2],
         d2 \in {pend[p]}, Heard(p),
         "unregister" \in Range(out[p]) => "unregister" \in Range(out'[p]),
         host[p].thread \in {"running", "stuck"},
         h2.thread \in {"exiting", "running", "stuck"},
         h2.state = host[p].state, h2.state # "unspawned", h2.ep = host[p].ep,
         h2.stopping = host[p].stopping, h2.settled = host[p].settled,
         h2.thread = "exiting" \/ (h2.stopping # "killing" /\ h2.ep # "closed"),
         events' \in 0 .. MaxEvents,
         UNCHANGED <<realm, claims, activatedBy, pass, queued, loading, calls>>
  PROVE  IInv'
  <1>1. Hosted(p, host[p], out'[p], realm[p], pend[p])
    BY HeardFacts
  <1>2. Hosted(p, h2, out'[p], realm[p], d2)
    BY <1>1 DEF Hosted
  <1>3. InEffect(h2, realm[p]) => InEffect(host[p], realm[p])
    BY DEF InEffect
  <1>4. /\ "activate" \in d2 <=> "activate" \in pend[p]
        /\ \A c \in Calls : c \in pend[p] => c \in d2
    OBVIOUS
  <1> QED BY <1>2, <1>3, <1>4, HostIInv

(* The plugin's side of the wire. *)
LEMMA RealmIInv ==
  ASSUME IInv, NEW p \in Plugins, Realm(p)
  PROVE  IInv'
  <1> DEFINE r == realm[p]
             o == out[p]
  <1>1. /\ r \in Realms /\ o \in Seq(Messages) /\ host[p] \in Hosts
        /\ realm \in [Plugins -> Realms] /\ out \in [Plugins -> Seq(Messages)]
        /\ Hosted(p, host[p], o, r, pend[p]) /\ pend \in [Plugins -> SUBSET Requests]
        /\ host \in [Plugins -> Hosts]
    BY IInvFacts DEF IInv, TypeOK
  <1>2. {"register", "unregister", "initOk", "initFail", "actOk", "actFail", "ack"} \cup Calls
          \subseteq Messages
    BY DEF Messages, Replies
  <1>3. CASE RealmRegister(p)
    <2> DEFINE r2 == [r EXCEPT !.api = "pending"]
    <2>1. realm' = [realm EXCEPT ![p] = r2] /\ out' = [out EXCEPT ![p] = Append(@, "register")]
      BY <1>1, <1>3 DEF RealmRegister, Post
    <2>2. r2 \in Realms /\ Posts(o, "register", r, r2)
      BY <1>1, <1>3 DEF RealmRegister, Realms, Posts
    <2>3. events' \in 0 .. MaxEvents /\ Runs(p)
      BY <1>3, EventBound DEF RealmRegister
    <2>4. UNCHANGED <<host, pend, claims, activatedBy, pass, queued, loading, calls>>
      BY <1>3 DEF RealmRegister
    <2> HIDE DEF r2
    <2> QED BY <1>2, <2>1, <2>2, <2>3, <2>4, PostIInv DEF Acts
  <1>4. CASE RealmUnregister(p)
    <2> DEFINE r2 == [r EXCEPT !.api = "none"]
    <2>1. realm' = [realm EXCEPT ![p] = r2] /\ out' = [out EXCEPT ![p] = Append(@, "unregister")]
      BY <1>1, <1>4 DEF RealmUnregister, Post
    <2>2. r2 \in Realms /\ Posts(o, "unregister", r, r2)
      BY <1>1, <1>4 DEF RealmUnregister, Realms, Posts
    <2>3. events' \in 0 .. MaxEvents /\ Runs(p)
      BY <1>4, EventBound DEF RealmUnregister
    <2>4. UNCHANGED <<host, pend, claims, activatedBy, pass, queued, loading, calls>>
      BY <1>4 DEF RealmUnregister
    <2> HIDE DEF r2
    <2> QED BY <1>2, <2>1, <2>2, <2>3, <2>4, PostIInv DEF Acts
  <1>5. ASSUME NEW ok \in BOOLEAN, RealmInit(p, ok) PROVE IInv'
    <2> DEFINE ph == IF ok THEN "up" ELSE "failed"
               r2 == [r EXCEPT !.phase = ph]
               m == IF ok THEN "initOk" ELSE "initFail"
    <2>1. realm' = [realm EXCEPT ![p] = r2] /\ out' = [out EXCEPT ![p] = Append(@, m)]
      BY <1>1, <1>5 DEF RealmInit, Post
    <2>2. r2 \in Realms /\ Posts(o, m, r, r2) /\ m \in Messages /\ m \notin Acts
      BY <1>1, <1>2, <1>5 DEF RealmInit, Realms, Posts, Inits, Acts
    <2>3. events' \in 0 .. MaxEvents /\ Runs(p)
      BY <1>5, EventBound DEF RealmInit
    <2>4. UNCHANGED <<host, pend, claims, activatedBy, pass, queued, loading, calls>>
      BY <1>5 DEF RealmInit
    <2> HIDE DEF r2, m
    <2> QED BY <2>1, <2>2, <2>3, <2>4, PostIInv
  <1>6. ASSUME RealmCrash(p) \/ RealmHang(p) PROVE IInv'
    <2> DEFINE th == IF RealmCrash(p) THEN "exiting"
                     ELSE IF host[p].thread = "stuck" THEN "running" ELSE "stuck"
               h2 == [host[p] EXCEPT !.thread = th]
    <2>1. /\ host[p].thread \in {"running", "stuck"}
          /\ host' = [host EXCEPT ![p] = h2] /\ pend' = [pend EXCEPT ![p] = pend[p]]
      BY <1>1, <1>6 DEF RealmCrash, RealmHang
    <2>2. events' \in 0 .. MaxEvents
      BY <1>6, EventBound DEF RealmCrash, RealmHang
    <2>3. UNCHANGED <<realm, out, claims, activatedBy, pass, queued, loading, calls>>
      BY <1>6 DEF RealmCrash, RealmHang
    <2>4. /\ h2 \in Hosts /\ h2.thread = th /\ th \in {"exiting", "running", "stuck"}
          /\ h2.state = host[p].state /\ h2.ep = host[p].ep /\ h2.stopping = host[p].stopping
          /\ h2.settled = host[p].settled /\ h2.pingTimer = host[p].pingTimer
      BY <1>1 DEF Hosts
    <2>5. h2.state # "unspawned" /\ p \notin InThread
      BY <1>1, <2>1, <2>4 DEF Hosted, UnspawnedHost
    <2>6. th = "exiting" \/ (h2.stopping # "killing" /\ h2.ep # "closed")
      BY <1>1, <2>1, <2>4, <2>5 DEF Hosted, Workers
    <2> HIDE DEF h2, th
    <2> DEFINE d2 == pend[p]
    <2>7. /\ d2 \in SUBSET Requests /\ d2 \in {pend[p]} /\ pend' = [pend EXCEPT ![p] = d2]
          /\ h2.thread \in {"exiting", "running", "stuck"}
          /\ h2.thread = "exiting" \/ (h2.stopping # "killing" /\ h2.ep # "closed")
      BY <1>1, <2>1, <2>4, <2>6
    <2>8. Heard(p) /\ ("unregister" \in Range(out[p]) => "unregister" \in Range(out'[p]))
      BY <2>3 DEF Heard
    <2> HIDE DEF d2
    <2> QED BY <2>1, <2>2, <2>3, <2>8, <2>4, <2>5, <2>7, ThreadIInv
  <1>7. CASE RealmActivate(p)
    <2>1. /\ Runs(p) /\ "activate" \in pend[p] /\ \A k \in 1 .. Len(o) : o[k] \notin Acts
      BY <1>1, <1>7, InRange DEF RealmActivate, Acts
    <2>2. events' \in 0 .. MaxEvents
      BY <1>7, EventBound DEF RealmActivate
    <2>3. UNCHANGED <<host, pend, claims, activatedBy, pass, queued, loading, calls>>
      BY <1>7 DEF RealmActivate
    <2>4. \E m \in Acts, a \in {"none", "partial", "active"} :
            /\ out' = [out EXCEPT ![p] = Append(@, m)]
            /\ realm' = [realm EXCEPT ![p] = [r EXCEPT !.api = a]]
            /\ IF m = "actOk" THEN a = "active" ELSE a \in {"partial", r.api}
      <3>1. r.api = "none" => realm = [realm EXCEPT ![p] = [r EXCEPT !.api = "none"]]
        BY <1>1 DEF Realms
      <3> QED BY <1>1, <1>7, <3>1 DEF RealmActivate, Post, Acts
    <2>5. PICK m \in Acts, a \in {"none", "partial", "active"} :
            /\ out' = [out EXCEPT ![p] = Append(@, m)]
            /\ realm' = [realm EXCEPT ![p] = [r EXCEPT !.api = a]]
            /\ IF m = "actOk" THEN a = "active" ELSE a \in {"partial", r.api}
      BY <2>4
    <2> DEFINE r2 == [r EXCEPT !.api = a]
    <2>6. r2 \in Realms /\ r2.api = a /\ r2.phase = r.phase
      BY <1>1 DEF Realms
    <2>7. m \in Messages
      BY <1>2 DEF Acts
    <2> HIDE DEF r2
    <2>8. Posts(o, m, r, r2)
      BY <2>1, <2>5, <2>6 DEF Posts
    <2>9. realm' = [realm EXCEPT ![p] = r2]
      BY <2>5 DEF r2
    <2> QED BY <2>1, <2>2, <2>3, <2>5, <2>6, <2>7, <2>8, <2>9, PostIInv
  <1>8. ASSUME NEW q \in Requests, RealmReply(p, q) PROVE IInv'
    <2> DEFINE m == ReplyTo(q)
    <2>1. m \in {"ack"} \cup Calls
      BY <1>8 DEF RealmReply, ReplyTo, Requests
    <2>2. /\ out' = [out EXCEPT ![p] = Append(@, m)] /\ realm' = [realm EXCEPT ![p] = r]
          /\ Runs(p)
      BY <1>1, <1>8 DEF RealmReply, Post
    <2>3. events' \in 0 .. MaxEvents
      BY <1>8, EventBound DEF RealmReply
    <2>4. UNCHANGED <<host, pend, claims, activatedBy, pass, queued, loading, calls>>
      BY <1>8 DEF RealmReply
    <2> HIDE DEF m
    <2>5. m \in Messages /\ m \notin Acts
      BY <1>2, <2>1, CallNames DEF Acts
    <2>6. Posts(o, m, r, r)
      BY <2>1 DEF Posts
    <2> QED BY <1>1, <2>2, <2>3, <2>4, <2>5, <2>6, PostIInv
  <1>9. TRUE \in BOOLEAN /\ FALSE \in BOOLEAN
    OBVIOUS
  <1> QED BY <1>3, <1>4, <1>5, <1>6, <1>7, <1>8, <1>9 DEF Realm

(* A delivery takes the first message off the wire. *)
LEMMA ReceiveFacts ==
  ASSUME IInv, NEW p \in Plugins, NEW m, Receive(p, m)
  PROVE  /\ Heard(p) /\ out[p] # <<>> /\ Head(out[p]) = m /\ out'[p] = Tail(out[p])
         /\ m # "unregister" /\ "unregister" \in Range(out[p])
              => "unregister" \in Range(out'[p])
         /\ host[p].state # "unspawned"
         /\ p \in Workers => host[p].ep # "null" /\ host[p].thread # "none"
  <1>1. Heard(p) /\ out[p] # <<>> /\ Head(out[p]) = m /\ out'[p] = Tail(out[p])
    BY DEF Receive, Heard, IInv, TypeOK
  <1>2. \A e \in Range(out[p]) : e \in Range(out'[p]) \/ e = Head(out[p])
    BY <1>1, HeardFacts
  <1>3. Hosted(p, host[p], out[p], realm[p], pend[p])
    BY IInvFacts
  <1> QED BY <1>1, <1>2, <1>3 DEF Hosted

(* onRegister. *)
LEMMA OnRegisterIInv ==
  ASSUME IInv, NEW p \in Plugins, OnRegister(p)
  PROVE  IInv'
  <1>1. Receive(p, "register")
        /\ UNCHANGED <<host, realm, pend, activatedBy, pass, loading, calls, events>>
    BY DEF OnRegister
  <1>2. /\ Heard(p) /\ out[p] # <<>> /\ Head(out[p]) = "register" /\ out'[p] = Tail(out[p])
        /\ "unregister" \in Range(out[p]) => "unregister" \in Range(out'[p])
        /\ p \in Workers => host[p].ep # "null"
    BY <1>1, ReceiveFacts
  <1>3. /\ out' \in [Plugins -> Seq(Messages)]
        /\ \A q \in Plugins :
             /\ q # p => out'[q] = out[q]
             /\ Wire(out'[q], realm[q])
             /\ Hosted(q, host[q], out'[q], realm[q], pend[q])
             /\ Leaving(out[q], realm[q]) => Leaving(out'[q], realm[q])
    BY <1>2, HeardFacts
  <1>4. /\ Listed(claims') /\ queued' \in BOOLEAN
        /\ \/ claims' = claims /\ queued' = queued
           \/ /\ p \notin Range(claims) /\ Range(claims') = Range(claims) \cup {p}
              /\ queued' = (queued \/ loading # "loading")
    <2>1. CASE Claimed(p)
      BY <2>1, IInvFacts DEF OnRegister, IInv, TypeOK
    <2>2. CASE ~Claimed(p)
      BY <2>2, IInvFacts, InsertListed DEF OnRegister, Claimed
    <2> QED BY <2>1, <2>2
  <1>5. TypeOK'
    BY <1>1, <1>3, <1>4 DEF IInv, TypeOK, Listed
  <1>6. \A q \in Plugins : Backed(q, out[q], realm[q]) => Backed(q, out'[q], realm[q])
    BY <1>2, <1>3 DEF Backed
  <1>7. realm[p].api # "none" \/ "unregister" \in Range(out'[p])
    BY <1>2, IInvFacts, WireTail
  <1>8. Passing'
    <2>1. ASSUME pass.pc = "ok"
          PROVE  /\ realm[pass.target].api # "partial"
                 /\ Leaving(out'[pass.target], realm[pass.target])
                 /\ pass.target \in Range(claims') =>
                      Backed(pass.target, out'[pass.target], realm[pass.target])
      <3>1. /\ pass.target \in Plugins
            /\ realm[pass.target].api # "partial"
            /\ Leaving(out'[pass.target], realm[pass.target])
            /\ pass.target \in Range(claims) =>
                 Backed(pass.target, out'[pass.target], realm[pass.target])
        BY <1>3, <1>6, <2>1 DEF IInv, Passing, Claimed
      <3>2. pass.target = p => p \in InThread
        BY <1>1, <2>1 DEF Receive, Turn, Microtask, PassResumes
      <3>3. pass.target = p => Backed(p, out'[p], realm[p])
        <4>1. realm[p] \in Realms
          BY IInvFacts
        <4> QED BY <1>7, <3>1, <3>2, <4>1 DEF Backed, Realms
      <3> QED BY <1>4, <3>1, <3>3
    <2> QED BY <1>1, <2>1 DEF IInv, Passing, Claimed
  <1>9. Winning'
    BY <1>1, <1>3, <1>4, <1>6 DEF IInv, TypeOK, Winning, Claimed
  <1>10. Claiming'
    BY <1>1, <1>2, <1>4 DEF IInv, Claiming, Claimed, Listed
  <1>11. FailoverPending'
    BY <1>1, <1>4 DEF IInv, FailoverPending
  <1>12. Exclusive' /\ Calling'
    BY <1>1 DEF IInv, Exclusive, Calling
  <1> QED BY <1>1, <1>3, <1>5, <1>8, <1>9, <1>10, <1>11, <1>12 DEF IInv

(* onUnregister.  The API of a plugin that was the winner, or is being     *)
(* activated, is gone by then.                                             *)
LEMMA OnUnregisterIInv ==
  ASSUME IInv, NEW p \in Plugins, OnUnregister(p)
  PROVE  IInv'
  <1>1. /\ Receive(p, "unregister") /\ DropClaim(p)
        /\ UNCHANGED <<host, realm, pend, pass, loading, calls, events>>
    BY DEF OnUnregister
  <1>2. /\ Heard(p) /\ out[p] # <<>> /\ Head(out[p]) = "unregister" /\ out'[p] = Tail(out[p])
    BY <1>1, ReceiveFacts
  <1>3. /\ out' \in [Plugins -> Seq(Messages)]
        /\ \A q \in Plugins :
             /\ q # p => out'[q] = out[q]
             /\ Wire(out'[q], realm[q])
             /\ Hosted(q, host[q], out'[q], realm[q], pend[q])
             /\ Leaving(out[q], realm[q]) => Leaving(out'[q], realm[q])
    BY <1>2, HeardFacts
  <1>4. /\ Listed(claims') /\ Range(claims') = Range(claims) \ {p} /\ queued' \in BOOLEAN
        /\ activatedBy' \in Plugins \cup {None}
        /\ activatedBy' = IF activatedBy = p THEN None ELSE activatedBy
    BY <1>1, IInvFacts, WithoutListed DEF DropClaim, IInv, TypeOK
  <1>5. TypeOK'
    BY <1>1, <1>3, <1>4 DEF IInv, TypeOK, Listed
  <1>6. "unregister" \in Range(out[p])
    <2>1. out[p] \in Seq(Messages)
      BY IInvFacts
    <2>2. Len(out[p]) \in Nat /\ Len(out[p]) # 0 /\ Head(out[p]) = out[p][1]
      BY <1>2, <2>1, LenProperties, EmptySeq, HeadTailProperties
    <2>3. 1 \in 1 .. Len(out[p])
      BY <2>2
    <2> QED BY <1>2, <2>1, <2>2, <2>3, InRange
  <1>7. Passing'
    BY <1>1, <1>3, <1>4 DEF IInv, Passing, Claimed
  <1>8. Winning'
    BY <1>1, <1>3, <1>4 DEF IInv, TypeOK, Winning, Claimed
  <1>9. Exclusive'
    <2>1. activatedBy = p => ~InEffect(host[p], realm[p])
      BY <1>6, PluginsAssumption DEF IInv, Winning, Leaving, InEffect
    <2> QED BY <1>1, <1>4, <2>1 DEF IInv, Exclusive
  <1>10. Claiming' /\ Calling'
    BY <1>1, <1>4 DEF IInv, Claiming, Claimed, Calling, Listed
  <1>11. FailoverPending'
    <2>1. claims' # <<>> => claims # <<>>
      <3>1. Range(claims) = {} => Range(claims') = {}
        BY <1>4
      <3> QED BY <1>4, <3>1, IInvFacts, EmptyRange DEF Listed
    <2> QED BY <1>1, <2>1 DEF IInv, FailoverPending, DropClaim
  <1> QED BY <1>1, <1>3, <1>5, <1>7, <1>8, <1>9, <1>10, <1>11 DEF IInv

(* onIncomingResponse for an activation. *)
LEMMA OnActivateReplyIInv ==
  ASSUME IInv, NEW p \in Plugins, NEW m, OnActivateReply(p, m)
  PROVE  IInv'
  <1>1. /\ Receive(p, m) /\ m \in Acts
        /\ UNCHANGED <<host, realm, claims, activatedBy, queued, loading, calls, events>>
        /\ pend' = [pend EXCEPT ![p] = @ \ {"activate"}]
    BY DEF OnActivateReply, Acts
  <1>2. /\ Heard(p) /\ out[p] # <<>> /\ Head(out[p]) = m /\ out'[p] = Tail(out[p])
        /\ "unregister" \in Range(out[p]) => "unregister" \in Range(out'[p])
    BY <1>1, ReceiveFacts DEF Acts
  <1>3. /\ out' \in [Plugins -> Seq(Messages)]
        /\ \A q \in Plugins :
             /\ q # p => out'[q] = out[q]
             /\ Wire(out'[q], realm[q])
             /\ Hosted(q, host[q], out'[q], realm[q], pend[q])
             /\ Leaving(out[q], realm[q]) => Leaving(out'[q], realm[q])
    BY <1>2, HeardFacts
  <1>4. /\ pend' \in [Plugins -> SUBSET Requests] /\ pend'[p] = pend[p] \ {"activate"}
        /\ \A q \in Plugins : q # p => pend'[q] = pend[q]
    BY <1>1 DEF IInv, TypeOK
  <1>5. /\ pass'.target = pass.target
        /\ pass' \in [pc : {"idle", "await", "ok", "err", "stopping"},
                      target : Plugins \cup {None}]
        /\ IF "activate" \in pend[p]
           THEN pass'.pc = IF m = "actOk" THEN "ok" ELSE "err"
           ELSE pass' = pass
    BY IInvFacts DEF OnActivateReply
  <1>6. "activate" \in pend[p] <=> pass.pc = "await" /\ pass.target = p
    BY DEF IInv, Passing
  <1>7. TypeOK'
    BY <1>1, <1>3, <1>4, <1>5 DEF IInv, TypeOK
  <1>8. \A q \in Plugins : Backed(q, out[q], realm[q]) => Backed(q, out'[q], realm[q])
    BY <1>2, <1>3 DEF Backed
  <1>9. Passing'
    <2>1. pass'.pc # "idle" => /\ pass.target \in Plugins /\ activatedBy = None
                               /\ host[pass.target].state # "unspawned"
      BY <1>5, <1>6 DEF IInv, Passing
    <2>2. \A q \in Plugins :
            "activate" \in pend'[q] <=> pass'.pc = "await" /\ pass'.target = q
      BY <1>4, <1>5, <1>6 DEF IInv, Passing
    <2>3. ASSUME pass'.pc = "ok"
          PROVE  /\ realm[pass.target].api # "partial"
                 /\ Leaving(out'[pass.target], realm[pass.target])
                 /\ pass.target \in Range(claims) =>
                      Backed(pass.target, out'[pass.target], realm[pass.target])
      <3>1. CASE "activate" \in pend[p]
        <4>1. pass.target = p /\ Head(out[p]) = "actOk"
          BY <1>2, <1>5, <1>6, <2>3, <3>1
        <4>2. /\ realm[p].api # "partial" /\ Leaving(out'[p], realm[p])
              /\ realm[p].api = "active" \/ "unregister" \in Range(out'[p])
          BY <1>2, <4>1, IInvFacts, WireTail
        <4> QED BY <4>1, <4>2 DEF Backed
      <3>2. CASE "activate" \notin pend[p]
        BY <1>3, <1>5, <1>8, <2>1, <2>3, <3>2 DEF IInv, Passing, Claimed
      <3> QED BY <3>1, <3>2
    <2> QED BY <1>1, <1>5, <2>1, <2>2, <2>3 DEF Passing, Claimed
  <1>10. pass'.pc = "idle" <=> pass.pc = "idle"
    BY <1>5, <1>6
  <1>11. Winning'
    BY <1>1, <1>3, <1>8, <1>10 DEF IInv, TypeOK, Winning, Claimed
  <1>12. Exclusive' /\ Claiming' /\ FailoverPending'
    BY <1>1, <1>5, <1>10 DEF IInv, Exclusive, Claiming, Claimed, FailoverPending
  <1>13. Calling'
    BY <1>1, <1>4, CallNames DEF IInv, Calling
  <1>14. Hosted(p, host[p], out'[p], realm[p], pend'[p])
    <2>1. Hosted(p, host[p], out'[p], realm[p], pend[p])
      BY <1>3
    <2> QED BY <1>4, <2>1 DEF Hosted
  <1> QED BY <1>1, <1>3, <1>4, <1>7, <1>9, <1>11, <1>12, <1>13, <1>14 DEF IInv

(* onIncomingResponse for a call. *)
LEMMA OnCallReplyIInv ==
  ASSUME IInv, NEW p \in Plugins, NEW c \in Calls, OnCallReply(p, c)
  PROVE  IInv'
  <1>1. /\ Receive(p, c)
        /\ UNCHANGED <<host, realm, claims, activatedBy, pass, queued, loading, events>>
        /\ pend' = [pend EXCEPT ![p] = @ \ {c}]
    BY DEF OnCallReply
  <1>2. /\ Heard(p) /\ out[p] # <<>> /\ Head(out[p]) = c /\ out'[p] = Tail(out[p])
        /\ "unregister" \in Range(out[p]) => "unregister" \in Range(out'[p])
    BY <1>1, ReceiveFacts, CallNames
  <1>3. /\ out' \in [Plugins -> Seq(Messages)]
        /\ \A q \in Plugins :
             /\ q # p => out'[q] = out[q]
             /\ Wire(out'[q], realm[q])
             /\ Hosted(q, host[q], out'[q], realm[q], pend[q])
             /\ Leaving(out[q], realm[q]) => Leaving(out'[q], realm[q])
    BY <1>2, HeardFacts
  <1>4. /\ pend' \in [Plugins -> SUBSET Requests] /\ pend'[p] = pend[p] \ {c}
        /\ \A q \in Plugins : q # p => pend'[q] = pend[q]
        /\ \A q \in Plugins : "activate" \in pend'[q] <=> "activate" \in pend[q]
    BY <1>1, CallNames DEF IInv, TypeOK
  <1>5. calls' \in [Calls -> {"idle", "waiting", "ready", "sent", "settled"}]
    BY DEF OnCallReply, IInv, TypeOK
  <1>6. TypeOK'
    BY <1>1, <1>3, <1>4, <1>5 DEF IInv, TypeOK
  <1>7. \A q \in Plugins : Backed(q, out[q], realm[q]) => Backed(q, out'[q], realm[q])
    BY <1>2, <1>3 DEF Backed
  <1>8. Passing'
    BY <1>1, <1>3, <1>4, <1>7 DEF IInv, Passing, Claimed
  <1>9. Winning'
    BY <1>1, <1>3, <1>7 DEF IInv, TypeOK, Winning, Claimed
  <1>10. Exclusive' /\ Claiming' /\ FailoverPending'
    BY <1>1 DEF IInv, Exclusive, Claiming, Claimed, FailoverPending
  <1>11. Calling'
    <2> SUFFICES ASSUME NEW b \in Calls, calls'[b] = "sent"
                 PROVE  \E q \in Plugins : b \in pend'[q]
      BY DEF Calling
    <2>1. calls[b] = "sent" /\ (b = c => c \notin pend[p])
      BY DEF OnCallReply, IInv, TypeOK
    <2>2. PICK q \in Plugins : b \in pend[q]
      BY <2>1 DEF IInv, Calling
    <2> QED BY <1>4, <2>1, <2>2
  <1>12. Hosted(p, host[p], out'[p], realm[p], pend'[p])
    <2>1. Hosted(p, host[p], out'[p], realm[p], pend[p])
      BY <1>3
    <2> QED BY <1>4, <2>1 DEF Hosted
  <1> QED BY <1>1, <1>3, <1>4, <1>6, <1>8, <1>9, <1>10, <1>11, <1>12 DEF IInv

(* onPluginEvent: the plugin's init is over. *)
LEMMA OnInitOkIInv ==
  ASSUME IInv, NEW p \in Plugins, OnInitOk(p)
  PROVE  IInv'
  <1> DEFINE h == host[p]
             w == p \in Workers
             h2 == [h EXCEPT !.state = "live", !.initTimer = FALSE, !.settled = TRUE,
                             !.pingTimer = w]
  <1>1. /\ Receive(p, "initOk")
        /\ UNCHANGED <<realm, pend, claims, activatedBy, pass, queued, loading, calls, events>>
        /\ host' = [host EXCEPT ![p] = h2] /\ pend' = [pend EXCEPT ![p] = pend[p]]
    BY DEF OnInitOk, IInv, TypeOK
  <1>2. /\ Heard(p) /\ out[p] # <<>> /\ Head(out[p]) = "initOk" /\ out'[p] = Tail(out[p])
        /\ "unregister" \in Range(out[p]) => "unregister" \in Range(out'[p])
        /\ p \in Workers => h.ep # "null" /\ h.thread # "none"
    BY <1>1, ReceiveFacts
  <1>3. /\ h \in Hosts /\ realm[p] \in Realms /\ pend[p] \in SUBSET Requests
        /\ Hosted(p, h, out[p], realm[p], pend[p])
    BY IInvFacts
  <1>4. /\ h2 \in Hosts /\ h2.state = "live" /\ h2.ep = h.ep /\ h2.thread = h.thread
        /\ h2.stopping = h.stopping /\ h2.settled = TRUE /\ h2.pingTimer = w
    <2>1. w \in BOOLEAN
      OBVIOUS
    <2> HIDE DEF w
    <2> QED BY <1>3, <2>1 DEF Hosts
  <1> HIDE DEF h2
  <1>5. ~Inited(out[p], realm[p]) /\ Inited(out'[p], realm[p])
    BY <1>2, IInvFacts, WireTail DEF Inits
  <1>6. realm[p].api \notin Effective
    BY <1>3, <1>5 DEF Hosted
  <1>7. Hosted(p, h2, out'[p], realm[p], pend[p])
    <2>1. Hosted(p, h, out'[p], realm[p], pend[p])
      BY <1>2, HeardFacts
    <2>2. p \in InThread => p \notin Workers
      BY DEF Workers
    <2>3. h2.stopping = "done" => h2.ep = "null"
      BY <1>4, <2>1 DEF Hosted
    <2>4. p \in Workers => h2.stopping # "done"
      BY <1>2, <1>4, <2>3
    <2>5. p \in InThread => h2.pingTimer = FALSE
      BY <1>4, <2>2 DEF Hosts
    <2> QED BY <1>2, <1>4, <1>5, <1>6, <2>1, <2>3, <2>4, <2>5 DEF Hosted
  <1>8. ~InEffect(h2, realm[p])
    BY <1>6 DEF InEffect
  <1>9. events' \in 0 .. MaxEvents
    BY <1>1, EventBound
  <1> QED BY <1>1, <1>2, <1>3, <1>4, <1>7, <1>8, <1>9, HostIInv

(* A plugin on the main thread is given up. *)
LEMMA GiveUpIInv ==
  ASSUME IInv, NEW p \in Plugins, p \in InThread, GiveUp(p), Heard(p),
         host[p].state # "unspawned", UNCHANGED <<realm, loading, events>>
  PROVE  IInv'
  <1> DEFINE h == host[p]
             h2 == GivenUp(h)
  <1>1. /\ h \in Hosts /\ realm[p] \in Realms /\ realm \in [Plugins -> Realms]
        /\ Hosted(p, h, out'[p], realm[p], pend[p])
    BY IInvFacts, HeardFacts DEF IInv, TypeOK
  <1>2. /\ h2 \in Hosts /\ h2.state = "failed" /\ h2.ep = "null" /\ h2.thread = h.thread
        /\ h2.stopping \in {"no", "done"} /\ h2.settled = TRUE /\ h2.pingTimer = h.pingTimer
    BY <1>1 DEF Hosts, GivenUp
  <1>3. /\ host' = [host EXCEPT ![p] = h2] /\ Release(p) /\ pass' = RejectedPass(p)
        /\ realm' = [realm EXCEPT ![p] = realm[p]]
    BY <1>1 DEF GiveUp
  <1> HIDE DEF h2
  <1>4. Hosted(p, h2, out'[p], realm[p], {})
    BY <1>1, <1>2 DEF Hosted, Workers
  <1>5. ~InEffect(h2, realm[p])
    BY <1>2 DEF InEffect
  <1>6. events' \in 0 .. MaxEvents
    BY EventBound
  <1> QED BY <1>1, <1>2, <1>3, <1>4, <1>5, <1>6, ReleaseIInv

(* A worker is terminated; the rest waits for its exit. *)
LEMMA TerminateIInv ==
  ASSUME IInv, NEW p \in Plugins, p \in Workers, NEW h2 \in Hosts, Heard(p),
         "unregister" \in Range(out[p]) => "unregister" \in Range(out'[p]),
         host' = [host EXCEPT ![p] = h2],
         NEW d2 \in SUBSET Requests, pend' = [pend EXCEPT ![p] = d2],
         d2 \in {pend[p], pend[p] \ {"shutdown"}},
         host[p].state # "unspawned", host[p].ep # "null",
         h2.thread = "exiting", h2.state = host[p].state, h2.ep = host[p].ep,
         h2.settled = host[p].settled, h2.stopping \in {host[p].stopping, "killing"},
         UNCHANGED <<realm, claims, activatedBy, pass, queued, loading, calls, events>>
  PROVE  IInv'
  <1>1. Hosted(p, host[p], out'[p], realm[p], pend[p])
    BY HeardFacts
  <1>2. Hosted(p, h2, out'[p], realm[p], d2)
    BY <1>1 DEF Hosted, Workers
  <1>3. ~InEffect(h2, realm[p])
    BY DEF InEffect
  <1>4. events' \in 0 .. MaxEvents
    BY EventBound
  <1>5. /\ "activate" \in d2 <=> "activate" \in pend[p]
        /\ \A c \in Calls : c \in pend[p] => c \in d2
    BY CallNames
  <1> QED BY <1>2, <1>3, <1>4, <1>5, HostIInv

(* The init event says it failed, or the init timer fires. *)
LEMMA InitFailedIInv ==
  ASSUME IInv, NEW p \in Plugins, InitFailed(p), Heard(p),
         "unregister" \in Range(out[p]) => "unregister" \in Range(out'[p]),
         host[p].state # "unspawned", p \in Workers => host[p].ep # "null",
         UNCHANGED <<realm, loading, events>>
  PROVE  IInv'
  <1>1. CASE p \in InThread
    BY <1>1, GiveUpIInv DEF InitFailed
  <1>2. CASE p \notin InThread
    <2> DEFINE h2 == Terminating(host[p])
    <2>1. host[p] \in Hosts /\ pend[p] \in SUBSET Requests /\ p \in Workers
      BY <1>2, IInvFacts DEF Workers
    <2>2. /\ h2 \in Hosts /\ h2.thread = "exiting" /\ h2.state = host[p].state
          /\ h2.ep = host[p].ep /\ h2.settled = host[p].settled
          /\ h2.stopping = host[p].stopping
      BY <2>1 DEF Hosts, Terminating
    <2>3. /\ host' = [host EXCEPT ![p] = h2] /\ pend' = [pend EXCEPT ![p] = pend[p]]
          /\ UNCHANGED <<claims, activatedBy, pass, queued, calls>>
      BY <1>2 DEF InitFailed, IInv, TypeOK
    <2> HIDE DEF h2
    <2> QED BY <2>1, <2>2, <2>3, TerminateIInv
  <1> QED BY <1>1, <1>2

(* stop() goes on: the plugin is given up or its worker terminated. *)
LEMMA StopProceedsIInv ==
  ASSUME IInv, NEW p \in Plugins, StopProceeds(p), Heard(p),
         "unregister" \in Range(out[p]) => "unregister" \in Range(out'[p]),
         host[p].stopping = "asked",
         p \in Workers => pend' \in {pend, [pend EXCEPT ![p] = @ \ {"shutdown"}]},
         UNCHANGED <<realm, loading, events>>
  PROVE  IInv'
  <1>1. /\ host[p] \in Hosts /\ pend[p] \in SUBSET Requests
        /\ Hosted(p, host[p], out[p], realm[p], pend[p])
    BY IInvFacts
  <1>2. host[p].state # "unspawned"
    BY <1>1 DEF Hosted, UnspawnedHost
  <1>3. CASE p \in InThread
    BY <1>2, <1>3, GiveUpIInv DEF StopProceeds
  <1>4. CASE p \notin InThread
    <2> DEFINE h2 == [host[p] EXCEPT !.stopping = "killing", !.thread = "exiting"]
    <2>1. p \in Workers
      BY <1>4 DEF Workers
    <2>2. host[p].ep # "null"
      BY <1>1 DEF Hosted
    <2>3. /\ h2 \in Hosts /\ h2.thread = "exiting" /\ h2.state = host[p].state
          /\ h2.ep = host[p].ep /\ h2.settled = host[p].settled
          /\ h2.stopping = "killing"
      BY <1>1 DEF Hosts
    <2>4. /\ host' = [host EXCEPT ![p] = h2]
          /\ UNCHANGED <<claims, activatedBy, pass, queued, calls>>
      BY <1>4 DEF StopProceeds, IInv, TypeOK
    <2>5. PICK d2 \in {pend[p], pend[p] \ {"shutdown"}} : pend' = [pend EXCEPT ![p] = d2]
      BY <2>1 DEF IInv, TypeOK
    <2>6. d2 \in SUBSET Requests
      BY <2>5 DEF IInv, TypeOK
    <2> HIDE DEF h2
    <2> QED BY <1>1, <1>2, <2>1, <2>2, <2>3, <2>4, <2>5, <2>6, TerminateIInv
  <1> QED BY <1>3, <1>4

(* The answer to a shutdown request, or its timeout. *)
LEMMA ShutdownIInv ==
  ASSUME IInv, NEW p \in Plugins, OnShutdownReply(p) \/ ShutdownTimeout(p)
  PROVE  IInv'
  <1>1. CASE ShutdownTimeout(p)
    <2>1. /\ StopProceeds(p) /\ host[p].stopping = "asked" /\ Heard(p) /\ out' = out
          /\ UNCHANGED <<realm, loading, events>> /\ (p \in Workers => pend' = pend)
      BY <1>1 DEF ShutdownTimeout, Heard
    <2> QED BY <2>1, StopProceedsIInv
  <1>2. CASE OnShutdownReply(p)
    <2>1. Receive(p, "ack") /\ UNCHANGED <<realm, loading, events>>
      BY <1>2 DEF OnShutdownReply
    <2>2. /\ Heard(p) /\ host[p].state # "unspawned"
          /\ "unregister" \in Range(out[p]) => "unregister" \in Range(out'[p])
      BY <2>1, ReceiveFacts
    <2>3. CASE "shutdown" \in pend[p] /\ host[p].stopping = "asked"
      <3>1. /\ StopProceeds(p)
            /\ p \in Workers => pend' = [pend EXCEPT ![p] = @ \ {"shutdown"}]
        BY <1>2, <2>3 DEF OnShutdownReply
      <3> QED BY <2>1, <2>2, <2>3, <3>1, StopProceedsIInv
    <2>4. CASE ~("shutdown" \in pend[p] /\ host[p].stopping = "asked")
      <3> DEFINE d2 == pend[p] \ {"shutdown"}
      <3>1. /\ pend' = [pend EXCEPT ![p] = d2] /\ host' = [host EXCEPT ![p] = host[p]]
            /\ UNCHANGED <<claims, activatedBy, pass, queued, calls>>
        BY <1>2, <2>4 DEF OnShutdownReply, IInv, TypeOK
      <3>2. /\ host[p] \in Hosts /\ d2 \in SUBSET Requests
            /\ Hosted(p, host[p], out'[p], realm[p], pend[p])
        BY <2>2, IInvFacts, HeardFacts
      <3>3. Hosted(p, host[p], out'[p], realm[p], d2)
        BY <3>2 DEF Hosted
      <3>4. /\ "activate" \in d2 <=> "activate" \in pend[p]
            /\ \A c \in Calls : c \in pend[p] => c \in d2
        BY CallNames
      <3>5. events' \in 0 .. MaxEvents
        BY <2>1, EventBound
      <3> HIDE DEF d2
      <3> QED BY <2>1, <2>2, <3>1, <3>2, <3>3, <3>4, <3>5, HostIInv
    <2> QED BY <2>3, <2>4
  <1> QED BY <1>1, <1>2

(* stop(), by whoever calls it. *)
LEMMA StopHostIInv ==
  ASSUME IInv, NEW p \in Plugins, StopHost(p), host[p].state # "unspawned",
         pass' = pass \/ (pass.pc = "err" /\ pass' = [pass EXCEPT !.pc = "stopping"]),
         events' \in 0 .. MaxEvents, UNCHANGED <<realm, out, loading>>
  PROVE  IInv'
  <1> DEFINE h == host[p]
             ask == h.ep = "open" /\ h.stopping = "no"
             sg == CASE h.ep = "null" -> "done"
                     [] h.ep = "closed" -> "killing"
                     [] ask -> "asked"
                     [] OTHER -> h.stopping
             st == h.settled \/ h.ep = "null"
             h2 == [h EXCEPT !.initTimer = FALSE, !.pingTimer = FALSE, !.settled = st,
                             !.state = IF h.ep = "null" THEN "failed" ELSE "shutting-down",
                             !.stopping = sg]
  <1>1. /\ h \in Hosts /\ realm \in [Plugins -> Realms] /\ pend \in [Plugins -> SUBSET Requests]
        /\ Hosted(p, h, out[p], realm[p], pend[p]) /\ Heard(p) /\ realm[p] \in Realms
        /\ pend[p] \in SUBSET Requests
    BY IInvFacts DEF IInv, TypeOK, Heard
  <1>2. /\ host' = [host EXCEPT ![p] = h2]
        /\ IF h.ep = "null" THEN Release(p)
           ELSE /\ pend' = IF ask THEN [pend EXCEPT ![p] = @ \cup {"shutdown"}] ELSE pend
                /\ UNCHANGED <<claims, activatedBy, queued, calls>>
    BY DEF StopHost
  <1>3. st \in BOOLEAN /\ (st <=> h.settled \/ h.ep = "null")
    OBVIOUS
  <1>4. /\ sg \in {"no", "asked", "killing", "done"}
        /\ h.ep = "null" => sg = "done"
        /\ h.ep = "closed" => sg = "killing"
        /\ h.ep = "open" => sg \in {h.stopping, "asked"}
    BY <1>1 DEF Hosts
  <1> HIDE DEF sg, st
  <1>5. /\ h2 \in Hosts /\ h2.ep = h.ep /\ h2.thread = h.thread /\ h2.stopping = sg
        /\ h2.state = (IF h.ep = "null" THEN "failed" ELSE "shutting-down")
        /\ h2.settled = st /\ h2.pingTimer = FALSE
    BY <1>1, <1>3, <1>4 DEF Hosts
  <1> HIDE DEF h2
  <1>6. CASE h.ep = "null"
    <2>1. Hosted(p, h2, out'[p], realm[p], {})
      BY <1>1, <1>3, <1>4, <1>5, <1>6 DEF Hosted
    <2>2. ~InEffect(h2, realm[p]) /\ h2.state # "unspawned"
      BY <1>5, <1>6 DEF InEffect
    <2>3. pass = RejectedPass(p)
      BY <1>1, <1>6 DEF Hosted, RejectedPass
    <2>4. Release(p) /\ realm' = [realm EXCEPT ![p] = realm[p]] /\ loading' = loading
      BY <1>1, <1>2, <1>6
    <2> QED BY <1>1, <1>2, <1>5, <2>1, <2>2, <2>3, <2>4, ReleaseIInv
  <1>7. CASE h.ep # "null"
    <2> DEFINE d2 == IF ask THEN pend[p] \cup {"shutdown"} ELSE pend[p]
    <2>1. /\ pend' = [pend EXCEPT ![p] = d2] /\ UNCHANGED <<claims, activatedBy, queued, calls>>
      BY <1>1, <1>2, <1>7
    <2>2. /\ d2 \in SUBSET Requests /\ ("activate" \in d2 <=> "activate" \in pend[p])
          /\ \A c \in Calls : c \in pend[p] => c \in d2
          /\ d2 # pend[p] => h.ep = "open"
      BY <1>1 DEF Requests
    <2> HIDE DEF d2
    <2>3. h2.state = "shutting-down"
      BY <1>5, <1>7
    <2>4. Hosted(p, h2, out'[p], realm[p], d2)
      <3>1. p \in Workers => h.state # "failed" /\ h.stopping # "done"
        BY <1>1, <1>7 DEF Hosted
      <3>2. h.stopping # "done"
        BY <1>1, <1>7 DEF Hosted
      <3> QED BY <1>1, <1>4, <1>5, <1>7, <2>2, <2>3, <3>1, <3>2 DEF Hosted, Hosts
    <2>5. InEffect(h2, realm[p]) => InEffect(h, realm[p])
      BY <1>1, <1>5, <1>7 DEF InEffect, Hosted
    <2> QED BY <1>1, <1>2, <1>5, <1>7, <2>1, <2>2, <2>3, <2>4, <2>5, HostIInv
  <1> QED BY <1>6, <1>7

(* stopByName, reload or shutdown. *)
LEMMA StopIInv ==
  ASSUME IInv, NEW p \in Plugins, Stop(p)
  PROVE  IInv'
  <1>1. events' \in 0 .. MaxEvents
    BY EventBound DEF Stop
  <1> QED BY <1>1, StopHostIInv DEF Stop, Spawned

(* The init timer and the watchdog. *)
LEMMA WatchdogIInv ==
  ASSUME IInv, NEW p \in Plugins, InitTimeout(p) \/ PingTimeout(p)
  PROVE  IInv'
  <1> DEFINE h == host[p]
  <1>1. /\ h \in Hosts /\ realm \in [Plugins -> Realms] /\ realm[p] \in Realms
        /\ Hosted(p, h, out[p], realm[p], pend[p]) /\ Heard(p) /\ out' = out
    BY IInvFacts DEF IInv, TypeOK, Heard, InitTimeout, PingTimeout
  <1>2. CASE InitTimeout(p)
    <2>1. /\ InitFailed(p) /\ h.state = "spawning" /\ UNCHANGED <<realm, loading, events>>
      BY <1>2 DEF InitTimeout
    <2>2. p \in Workers => h.ep # "null"
      BY <1>1, <2>1 DEF Hosted
    <2> QED BY <1>1, <2>1, <2>2, InitFailedIInv
  <1>3. CASE PingTimeout(p)
    <2> DEFINE h2 == [Terminating(h) EXCEPT !.pingTimer = FALSE, !.ep = "closed"]
    <2>1. /\ h.pingTimer /\ h.state = "live" /\ host' = [host EXCEPT ![p] = h2]
          /\ Release(p) /\ pass' = RejectedPass(p) /\ loading' = loading
          /\ realm' = [realm EXCEPT ![p] = realm[p]] /\ events' = events
      BY <1>1, <1>3 DEF PingTimeout
    <2>2. p \in Workers /\ p \notin InThread
      BY <1>1, <2>1 DEF Hosted, Workers
    <2>3. /\ h2 \in Hosts /\ h2.state = h.state /\ h2.thread = "exiting" /\ h2.ep = "closed"
          /\ h2.stopping = h.stopping /\ h2.settled = h.settled
      BY <1>1 DEF Hosts, Terminating
    <2> HIDE DEF h2
    <2>4. Hosted(p, h2, out'[p], realm[p], {})
      BY <1>1, <2>1, <2>2, <2>3 DEF Hosted
    <2>5. ~InEffect(h2, realm[p]) /\ h2.state # "unspawned"
      BY <2>1, <2>3 DEF InEffect
    <2>6. events' \in 0 .. MaxEvents
      BY <2>1, EventBound
    <2> QED BY <1>1, <2>1, <2>3, <2>4, <2>5, <2>6, ReleaseIInv
  <1> QED BY <1>2, <1>3

(* onExit: the worker is respawned or done with. *)
LEMMA ExitIInv ==
  ASSUME IInv, NEW p \in Plugins, Exit(p)
  PROVE  IInv'
  <1> DEFINE h == host[p]
  <1>1. /\ h \in Hosts /\ realm \in [Plugins -> Realms] /\ realm[p] \in Realms
        /\ Hosted(p, h, out[p], realm[p], pend[p]) /\ Heard(p) /\ out' = out
        /\ events' = events /\ loading' = loading
    BY IInvFacts DEF IInv, TypeOK, Heard, Exit
  <1>2. /\ h.thread = "exiting" /\ out[p] = <<>> /\ Release(p) /\ pass' = RejectedPass(p)
    BY DEF Exit
  <1>3. h.state # "unspawned" /\ p \notin InThread
    BY <1>1, <1>2 DEF Hosted, UnspawnedHost
  <1>4. events' \in 0 .. MaxEvents
    BY <1>1, EventBound
  <1>5. CASE Respawns(p)
    <2> DEFINE n == h.restarts + 1
               h2 == SpawnedHost(p, [h EXCEPT !.restarts = n])
    <2>1. host' = [host EXCEPT ![p] = h2] /\ realm' = [realm EXCEPT ![p] = FreshRealm]
      BY <1>5 DEF Exit
    <2>2. n \in 0 .. MaxRestarts
      BY <1>1, <1>5, PluginsAssumption DEF Hosts, Respawns
    <2> HIDE DEF n
    <2>3. /\ h2 \in Hosts /\ h2.state = "spawning" /\ h2.ep = "open" /\ h2.pingTimer = FALSE
          /\ h2.stopping = h.stopping /\ h2.thread = "running"
      BY <1>1, <1>3, <2>2 DEF Hosts, SpawnedHost
    <2> HIDE DEF h2
    <2>4. FreshRealm \in Realms /\ ~InEffect(h2, FreshRealm)
      BY DEF FreshRealm, Realms, InEffect, Effective
    <2>5. Hosted(p, h2, out'[p], FreshRealm, {})
      BY <1>3, <1>5, <2>3, <2>4 DEF Hosted, InEffect, Respawns, Effective, FreshRealm
    <2> QED BY <1>1, <1>2, <1>4, <2>1, <2>3, <2>4, <2>5, ReleaseIInv
  <1>6. CASE ~Respawns(p)
    <2> DEFINE h2 == [GivenUp(h) EXCEPT !.thread = "none", !.pingTimer = FALSE]
    <2>1. host' = [host EXCEPT ![p] = h2] /\ realm' = [realm EXCEPT ![p] = realm[p]]
      BY <1>1, <1>6 DEF Exit
    <2>2. /\ h2 \in Hosts /\ h2.state = "failed" /\ h2.ep = "null" /\ h2.pingTimer = FALSE
          /\ h2.stopping \in {"no", "done"} /\ h2.thread = "none" /\ h2.settled = TRUE
      BY <1>1 DEF Hosts, GivenUp
    <2> HIDE DEF h2
    <2>3. Hosted(p, h2, out'[p], realm[p], {})
      BY <1>1, <1>2, <1>3, <2>2 DEF Hosted
    <2>4. ~InEffect(h2, realm[p])
      BY <2>2 DEF InEffect
    <2> QED BY <1>1, <1>2, <1>4, <2>1, <2>2, <2>3, <2>4, ReleaseIInv
  <1> QED BY <1>5, <1>6

(* The core receives a message. *)
LEMMA DeliverIInv ==
  ASSUME IInv, NEW p \in Plugins, Deliver(p)
  PROVE  IInv'
  <1>1. CASE OnInitFail(p)
    <2>1. Receive(p, "initFail") /\ InitFailed(p) /\ UNCHANGED <<realm, loading, events>>
      BY <1>1 DEF OnInitFail
    <2>2. /\ Heard(p) /\ host[p].state # "unspawned" /\ (p \in Workers => host[p].ep # "null")
          /\ "unregister" \in Range(out[p]) => "unregister" \in Range(out'[p])
      BY <2>1, ReceiveFacts
    <2> QED BY <2>1, <2>2, InitFailedIInv
  <1> QED BY <1>1, OnRegisterIInv, OnUnregisterIInv, OnInitOkIInv, OnActivateReplyIInv,
             OnCallReplyIInv, ShutdownIInv DEF Deliver

(* Nobody is in effect, and nobody is asked, when there is neither a       *)
(* winner nor a pass.                                                      *)
LEMMA NobodyInEffect ==
  ASSUME IInv, activatedBy = None, pass.pc = "idle"
  PROVE  \A p \in Plugins : ~InEffect(host[p], realm[p]) /\ "activate" \notin pend[p]
  BY PluginsAssumption DEF IInv, Exclusive, Passing

(* What every step may do to the requests for an activation. *)
Ranking ==
  \A p, q \in Plugins :
    /\ "activate" \in pend'[p] \ pend[p]
    /\ Claimed(q) /\ Routable(q)
    => Prio[q] <= Prio[p]

(* A step that starts no request asks nobody. *)
LEMMA Unasked ==
  ASSUME IInv, IInv', pass'.pc = "await" => pass' = pass
  PROVE  Ranking
  BY DEF IInv, Passing, Ranking

(* The queued pass starts, or finds that there is nothing to do. *)
LEMMA PassStartIInv ==
  ASSUME IInv, PassStart
  PROVE  IInv' /\ Ranking
  <1>1. CASE pass.pc = "idle" /\ activatedBy = None
    <2>1. /\ SelectClaimant(claims) /\ queued' = FALSE
          /\ UNCHANGED <<host, realm, out, activatedBy, loading, calls, events>>
      BY <1>1 DEF PassStart
    <2>2. queued' \in BOOLEAN /\ loading' \in {"idle", "loading", "activating"}
      BY <2>1 DEF IInv, TypeOK
    <2>3. /\ IInv'
          /\ \A p \in Plugins : \A q \in Range(claims) :
               "activate" \in pend'[p] /\ Routable(q) => Prio[q] <= Prio[p]
      BY <1>1, <2>1, <2>2, IInvFacts, NobodyInEffect, SelectIInv
    <2> QED BY <2>3 DEF Ranking, Claimed
  <1>2. CASE ~(pass.pc = "idle" /\ activatedBy = None)
    <2>1. /\ queued' = FALSE
          /\ UNCHANGED <<host, realm, out, pend, claims, activatedBy, pass, loading, calls,
                         events>>
      BY <1>2 DEF PassStart
    <2>2. TypeOK'
      BY <2>1 DEF IInv, TypeOK
    <2>3. FailoverPending'
      BY <1>2, <2>1 DEF FailoverPending
    <2>4. Passing' /\ Winning' /\ Exclusive' /\ Claiming' /\ Calling'
      BY <2>1 DEF IInv, Passing, Winning, Exclusive, Claiming, Calling, Claimed
    <2>5. IInv'
      BY <2>1, <2>2, <2>3, <2>4 DEF IInv
    <2> QED BY <2>1, <2>5, Unasked
  <1> QED BY <1>1, <1>2

(* markActivated, or its throw. *)
LEMMA PassOkIInv ==
  ASSUME IInv, PassOk
  PROVE  IInv'
  <1>1. /\ pass.pc = "ok" /\ pass.target \in Plugins /\ activatedBy = None
        /\ UNCHANGED <<host, realm, out, pend, claims, queued, loading, events>>
        /\ \A p \in Plugins : "activate" \notin pend[p]
    BY DEF PassOk, IInv, Passing
  <1>2. CASE Claimed(pass.target)
    <2>1. /\ activatedBy' = pass.target /\ pass' = IdlePass
          /\ calls' = [c \in Calls |-> IF calls[c] = "waiting" THEN "ready" ELSE calls[c]]
      BY <1>2 DEF PassOk
    <2>2. calls' \in [Calls -> {"idle", "waiting", "ready", "sent", "settled"}]
      BY <2>1 DEF IInv, TypeOK
    <2>3. TypeOK'
      BY <1>1, <2>1, <2>2 DEF IInv, TypeOK, IdlePass
    <2>4. Passing'
      BY <1>1, <2>1 DEF Passing, IdlePass
    <2>5. Winning'
      BY <1>1, <1>2, <2>1 DEF IInv, Passing, Winning, IdlePass, Claimed
    <2>6. Exclusive'
      BY <1>1, <2>1, PluginsAssumption DEF IInv, Exclusive
    <2>7. Claiming'
      BY <1>1 DEF IInv, Claiming, Claimed
    <2>8. Calling'
      BY <1>1, <2>1 DEF IInv, Calling
    <2>9. FailoverPending'
      BY <1>1, <2>1, PluginsAssumption DEF FailoverPending
    <2> QED BY <1>1, <2>3, <2>4, <2>5, <2>6, <2>7, <2>8, <2>9 DEF IInv
  <1>3. CASE ~Claimed(pass.target)
    <2>1. /\ pass' = [pass EXCEPT !.pc = "err"] /\ UNCHANGED <<activatedBy, calls>>
      BY <1>3 DEF PassOk
    <2>2. pass'.pc = "err" /\ pass'.target = pass.target
          /\ pass' \in [pc : {"idle", "await", "ok", "err", "stopping"},
                        target : Plugins \cup {None}]
      BY <2>1, IInvFacts
    <2>3. TypeOK'
      BY <1>1, <2>1, <2>2 DEF IInv, TypeOK
    <2>4. Passing' /\ Winning'
      BY <1>1, <2>1, <2>2 DEF IInv, Passing, Winning
    <2>5. Exclusive' /\ Claiming' /\ Calling' /\ FailoverPending'
      BY <1>1, <2>1, <2>2 DEF IInv, Exclusive, Claiming, Calling, FailoverPending, Claimed
    <2> QED BY <1>1, <2>3, <2>4, <2>5 DEF IInv
  <1> QED BY <1>2, <1>3

(* The catch of a failed activation. *)
LEMMA PassErrIInv ==
  ASSUME IInv, PassErr
  PROVE  IInv'
  <1>1. /\ pass.pc = "err" /\ pass.target \in Plugins /\ StopHost(pass.target)
        /\ host[pass.target].state # "unspawned"
        /\ pass' = [pass EXCEPT !.pc = "stopping"] /\ UNCHANGED <<realm, out, loading>>
    BY DEF PassErr, IInv, Passing
  <1>2. events' \in 0 .. MaxEvents
    BY EventBound DEF PassErr
  <1> QED BY <1>1, <1>2, StopHostIInv

(* The failed claimant has stopped: on to the next claim. *)
LEMMA PassRetryIInv ==
  ASSUME IInv, PassRetry
  PROVE  IInv' /\ Ranking
  <1> DEFINE t == pass.target
             cs == WithoutClaim(t)
  <1>1. /\ pass.pc = "stopping" /\ StopDone(t) /\ SelectClaimant(cs)
        /\ UNCHANGED <<host, realm, out, activatedBy, queued, loading, calls, events>>
    BY DEF PassRetry
  <1>2. t \in Plugins /\ activatedBy = None /\ \A p \in Plugins : "activate" \notin pend[p]
    BY <1>1 DEF IInv, Passing
  <1>3. host[t].ep = "null" /\ ~InEffect(host[t], realm[t])
    <2>1. Hosted(t, host[t], out[t], realm[t], pend[t]) /\ host[t].stopping = "done"
      BY <1>1, <1>2, IInvFacts DEF StopDone
    <2>2. t \in InThread \/ t \in Workers
      BY <1>2 DEF Workers
    <2> QED BY <2>1, <2>2 DEF Hosted, InEffect
  <1>4. \A p \in Plugins : ~InEffect(host[p], realm[p])
    BY <1>1, <1>2, <1>3, PluginsAssumption DEF IInv, Exclusive
  <1>5. Listed(cs) /\ Range(cs) = Range(claims) \ {t}
    BY IInvFacts, WithoutListed
  <1>6. queued' \in BOOLEAN /\ loading' \in {"idle", "loading", "activating"}
    BY <1>1 DEF IInv, TypeOK
  <1> HIDE DEF cs
  <1>7. /\ IInv'
        /\ \A p \in Plugins : \A q \in Range(cs) :
             "activate" \in pend'[p] /\ Routable(q) => Prio[q] <= Prio[p]
    BY <1>1, <1>2, <1>4, <1>5, <1>6, SelectIInv
  <1>8. ~Routable(t)
    BY <1>3 DEF Routable
  <1> QED BY <1>5, <1>7, <1>8 DEF Ranking, Claimed

(* The end of a load batch. *)
LEMMA EndLoadIInv ==
  ASSUME IInv, EndLoad
  PROVE  IInv' /\ Ranking
  <1>1. UNCHANGED <<host, realm, out, activatedBy, queued, calls, events>>
    BY DEF EndLoad
  <1>2. queued' \in BOOLEAN /\ loading' \in {"idle", "loading", "activating"}
    BY DEF EndLoad, IInv, TypeOK
  <1>3. CASE activatedBy = None /\ claims # <<>> /\ pass.pc = "idle"
    <2>1. SelectClaimant(claims)
      BY <1>3 DEF EndLoad
    <2>2. /\ IInv'
          /\ \A p \in Plugins : \A q \in Range(claims) :
               "activate" \in pend'[p] /\ Routable(q) => Prio[q] <= Prio[p]
      BY <1>1, <1>2, <1>3, <2>1, IInvFacts, NobodyInEffect, SelectIInv
    <2> QED BY <2>2 DEF Ranking, Claimed
  <1>4. CASE ~(activatedBy = None /\ claims # <<>> /\ pass.pc = "idle")
    <2>1. UNCHANGED <<claims, pass, pend>>
      BY <1>4 DEF EndLoad
    <2>2. TypeOK' /\ FailoverPending'
      BY <1>1, <1>2, <1>4, <2>1 DEF IInv, TypeOK, FailoverPending
    <2>3. Passing' /\ Winning' /\ Exclusive' /\ Claiming' /\ Calling'
      BY <1>1, <2>1 DEF IInv, Passing, Winning, Exclusive, Claiming, Calling, Claimed
    <2>4. IInv'
      BY <1>1, <2>1, <2>2, <2>3 DEF IInv
    <2> QED BY <2>1, <2>4, Unasked
  <1> QED BY <1>3, <1>4

(* A load that returns, and the next one. *)
LEMMA LoadIInv ==
  ASSUME IInv, LoadReturns \/ StartLoad
  PROVE  IInv' /\ pass' = pass
  <1>1. CASE LoadReturns
    <2>1. /\ loading = "activating" /\ loading' = "idle"
          /\ UNCHANGED <<host, realm, out, pend, claims, activatedBy, pass, queued, calls,
                         events>>
      BY <1>1 DEF LoadReturns
    <2>2. TypeOK' /\ FailoverPending'
      BY <2>1 DEF IInv, TypeOK, FailoverPending
    <2>3. Passing' /\ Winning' /\ Exclusive' /\ Claiming' /\ Calling'
      BY <2>1 DEF IInv, Passing, Winning, Exclusive, Claiming, Calling, Claimed
    <2> QED BY <2>1, <2>2, <2>3 DEF IInv
  <1>2. CASE StartLoad
    <2>1. /\ loading' = "loading"
          /\ host' = [p \in Plugins |->
                        IF Spawned(p) THEN host[p] ELSE SpawnedHost(p, host[p])]
          /\ UNCHANGED <<realm, out, pend, claims, activatedBy, pass, queued, calls, events>>
      BY <1>2 DEF StartLoad
    <2>2. ASSUME NEW p \in Plugins
          PROVE  /\ host'[p] \in Hosts
                 /\ Hosted(p, host'[p], out[p], realm[p], pend[p])
                 /\ host'[p].state # "unspawned"
                 /\ host'[p] = host[p] \/ (host'[p].ep = "open" /\ realm[p] = FreshRealm)
      <3>1. host[p] \in Hosts /\ Hosted(p, host[p], out[p], realm[p], pend[p])
        BY IInvFacts
      <3>2. CASE Spawned(p)
        BY <2>1, <3>1, <3>2 DEF Spawned
      <3>3. CASE ~Spawned(p)
        <4> DEFINE h2 == SpawnedHost(p, host[p])
        <4>1. host'[p] = h2
          BY <2>1, <3>3
        <4>2. /\ host[p] = UnspawnedHost /\ out[p] = <<>> /\ realm[p] = FreshRealm
              /\ pend[p] = {}
          BY <3>1, <3>3 DEF Hosted, Spawned, UnspawnedHost
        <4>3. /\ h2 \in Hosts /\ h2.state = "spawning" /\ h2.ep = "open"
              /\ h2.thread = (IF p \in InThread THEN "main" ELSE "running")
              /\ h2.pingTimer = FALSE /\ h2.stopping = host[p].stopping
          BY <3>1 DEF SpawnedHost, Hosts
        <4>4. host[p].stopping = "no"
          BY <4>2 DEF UnspawnedHost
        <4> HIDE DEF h2
        <4>5. Hosted(p, h2, out[p], realm[p], pend[p])
          BY <4>2, <4>3, <4>4 DEF Hosted, FreshRealm, Effective, Workers
        <4> QED BY <4>1, <4>2, <4>3, <4>5
      <3> QED BY <3>2, <3>3
    <2>3. TypeOK'
      BY <2>1, <2>2 DEF IInv, TypeOK
    <2>4. Passing' /\ Winning' /\ Calling' /\ FailoverPending'
      BY <2>1, <2>2 DEF IInv, Passing, Winning, Calling, FailoverPending, Claimed
    <2>5. Exclusive'
      BY <2>1, <2>2 DEF IInv, Exclusive, InEffect, FreshRealm, Effective
    <2>6. Claiming'
      BY <2>1, <2>2, PluginsAssumption DEF IInv, Claiming, Claimed, Workers
    <2> QED BY <2>1, <2>2, <2>3, <2>4, <2>5, <2>6 DEF IInv
  <1> QED BY <1>1, <1>2

(* sdk.plugin(name).method(). *)
LEMMA CallIInv ==
  ASSUME IInv, NEW c \in Calls, Wait(c) \/ WaitTimeout(c) \/ Invoke(c)
  PROVE  IInv' /\ pass' = pass
  <1>1. CASE Wait(c) \/ WaitTimeout(c)
    <2>1. /\ UNCHANGED <<host, realm, out, pend, claims, activatedBy, pass, queued, loading,
                         events>>
          /\ \E v \in {"waiting", "ready", "settled"} : calls' = [calls EXCEPT ![c] = v]
      BY <1>1 DEF Wait, WaitTimeout
    <2>2. TypeOK' /\ Calling'
      BY <2>1 DEF IInv, TypeOK, Calling
    <2>3. Passing' /\ Winning' /\ Exclusive' /\ Claiming' /\ FailoverPending'
      BY <2>1 DEF IInv, Passing, Winning, Exclusive, Claiming, FailoverPending, Claimed
    <2> QED BY <2>1, <2>2, <2>3 DEF IInv
  <1>2. CASE Invoke(c)
    <2> DEFINE p == activatedBy
               routed == p # None /\ Routable(p) /\ host[p].ep = "open"
    <2>1. /\ UNCHANGED <<host, realm, out, claims, activatedBy, pass, queued, loading, events>>
          /\ calls' = [calls EXCEPT ![c] = IF routed THEN "sent" ELSE "settled"]
          /\ pend' = IF routed THEN [pend EXCEPT ![p] = @ \cup {c}] ELSE pend
          /\ p \in Plugins \cup {None} /\ pend \in [Plugins -> SUBSET Requests]
      BY <1>2 DEF Invoke, IInv, TypeOK
    <2>2. CASE ~routed
      <3>1. TypeOK' /\ Calling'
        BY <2>1, <2>2 DEF IInv, TypeOK, Calling
      <3>2. Passing' /\ Winning' /\ Exclusive' /\ Claiming' /\ FailoverPending'
        BY <2>1, <2>2 DEF IInv, Passing, Winning, Exclusive, Claiming, FailoverPending, Claimed
      <3> QED BY <2>1, <2>2, <3>1, <3>2 DEF IInv
    <2>3. CASE routed
      <3>1. /\ p \in Plugins /\ host[p].ep = "open" /\ pend'[p] = pend[p] \cup {c}
            /\ \A q \in Plugins : q # p => pend'[q] = pend[q]
            /\ pend' \in [Plugins -> SUBSET Requests]
            /\ \A q \in Plugins : "activate" \in pend'[q] <=> "activate" \in pend[q]
            /\ \A q \in Plugins : pend[q] \subseteq pend'[q]
        BY <2>1, <2>3, CallNames DEF Requests
      <3>2. calls' = [calls EXCEPT ![c] = "sent"]
        BY <2>1, <2>3
      <3>3. TypeOK'
        BY <2>1, <3>1, <3>2 DEF IInv, TypeOK
      <3>4. Calling'
        BY <3>1, <3>2 DEF IInv, TypeOK, Calling
      <3>5. Passing' /\ Winning' /\ Exclusive' /\ Claiming' /\ FailoverPending'
        BY <2>1, <3>1 DEF IInv, Passing, Winning, Exclusive, Claiming, FailoverPending, Claimed
      <3>6. ASSUME NEW q \in Plugins
            PROVE  Hosted(q, host[q], out[q], realm[q], pend'[q])
        <4>1. Hosted(q, host[q], out[q], realm[q], pend[q])
          BY IInvFacts
        <4> QED BY <3>1, <4>1 DEF Hosted
      <3> QED BY <2>1, <3>3, <3>4, <3>5, <3>6 DEF IInv
    <2> QED BY <2>2, <2>3
  <1> QED BY <1>1, <1>2

-----------------------------------------------------------------------------
(* The theorems. *)

(* The invariant holds when the runtime starts loading. *)
LEMMA InitIInv ==
  ASSUME Init
  PROVE  IInv
  <1>1. PICK batch \in Batches :
          host = [p \in Plugins |-> IF p \in batch THEN SpawnedHost(p, UnspawnedHost)
                                                   ELSE UnspawnedHost]
    BY DEF Init
  <1>2. /\ realm = [p \in Plugins |-> FreshRealm] /\ out = [p \in Plugins |-> <<>>]
        /\ pend = [p \in Plugins |-> {}] /\ claims = <<>> /\ activatedBy = None
        /\ pass = IdlePass /\ queued = FALSE /\ loading = "loading"
        /\ calls = [c \in Calls |-> "idle"] /\ events = 0
    BY DEF Init
  <1>3. ASSUME NEW p \in Plugins
        PROVE  host[p] \in Hosts /\ Hosted(p, host[p], out[p], realm[p], pend[p])
    <2>1. UnspawnedHost \in Hosts
      BY PluginsAssumption DEF UnspawnedHost, Hosts
    <2>2. CASE host[p] = UnspawnedHost
      BY <1>2, <2>1, <2>2 DEF UnspawnedHost, Hosted, FreshRealm, Effective
    <2>3. CASE host[p] = SpawnedHost(p, UnspawnedHost)
      <3> DEFINE u == UnspawnedHost
                 h == SpawnedHost(p, u)
      <3>1. u.stopping = "no"
        BY DEF UnspawnedHost
      <3> HIDE DEF u
      <3>2. /\ h \in Hosts /\ h.state = "spawning" /\ h.ep = "open"
            /\ h.thread = (IF p \in InThread THEN "main" ELSE "running")
            /\ h.pingTimer = FALSE /\ h.stopping = "no"
        BY <2>1, <3>1 DEF SpawnedHost, Hosts, u
      <3> HIDE DEF h
      <3>3. Hosted(p, h, out[p], realm[p], pend[p])
        BY <1>2, <3>2 DEF Hosted, FreshRealm, Effective, Workers
      <3> QED BY <2>3, <3>2, <3>3 DEF h, u
    <2> QED BY <1>1, <2>2, <2>3
  <1>4. FreshRealm \in Realms /\ <<>> \in Seq(Messages) /\ Len(<<>>) = 0 /\ 1 .. 0 = {}
    BY DEF FreshRealm, Realms
  <1>5. Wire(<<>>, FreshRealm)
    BY <1>4 DEF Wire
  <1>6. claims \in Seq(Plugins) /\ IsInjective(claims) /\ Ranked(claims) /\ Range(claims) = {}
    <2>1. claims \in Seq(Plugins) /\ Len(claims) = 0
      BY <1>2
    <2>2. DOMAIN claims = 1 .. 0 /\ Range(claims) = {}
      BY <1>2, <2>1, LenProperties, EmptyRange
    <2> QED BY <1>4, <2>1, <2>2 DEF IsInjective, Ranked
  <1>7. TypeOK
    <2>1. host \in [Plugins -> Hosts]
      BY <1>1, <1>3
    <2>2. realm \in [Plugins -> Realms] /\ out \in [Plugins -> Seq(Messages)]
      BY <1>2, <1>4
    <2>3. /\ pend \in [Plugins -> SUBSET Requests]
          /\ calls \in [Calls -> {"idle", "waiting", "ready", "sent", "settled"}]
      BY <1>2
    <2>4. pass \in [pc : {"idle", "await", "ok", "err", "stopping"}, target : Plugins \cup {None}]
      BY <1>2 DEF IdlePass
    <2>5. events \in 0 .. MaxEvents
      BY <1>2, PluginsAssumption
    <2>6. /\ activatedBy \in Plugins \cup {None} /\ queued \in BOOLEAN
          /\ loading \in {"idle", "loading", "activating"}
      BY <1>2
    <2> QED BY <1>6, <2>1, <2>2, <2>3, <2>4, <2>5, <2>6 DEF TypeOK
  <1>8. Passing /\ Winning /\ Claiming /\ Calling /\ FailoverPending
    BY <1>2, <1>6 DEF Passing, Winning, Claiming, Claimed, Calling, FailoverPending, IdlePass
  <1>9. Exclusive
    BY <1>2 DEF Exclusive, InEffect, FreshRealm, Effective
  <1> QED BY <1>2, <1>3, <1>5, <1>7, <1>8, <1>9 DEF IInv

(* What a plugin, its messages and its timers do never starts a request. *)
LEMMA PassKept ==
  ASSUME IInv, NEW p \in Plugins,
         Realm(p) \/ Deliver(p) \/ Timer(p) \/ Stop(p) \/ Exit(p)
  PROVE  pass'.pc = "await" => pass' = pass
  <1>1. pass \in [pc : {"idle", "await", "ok", "err", "stopping"}, target : Plugins \cup {None}]
    BY IInvFacts
  <1>2. RejectedPass(p) = pass \/ RejectedPass(p).pc = "err"
    BY <1>1 DEF RejectedPass
  <1>3. GiveUp(p) => pass' = RejectedPass(p)
    BY DEF GiveUp
  <1>4. CASE Realm(p) \/ Stop(p)
    BY <1>4 DEF Realm, RealmRegister, RealmUnregister, RealmInit, RealmCrash, RealmHang,
                RealmActivate, RealmReply, Stop
  <1>5. CASE Timer(p) \/ Exit(p) \/ OnShutdownReply(p) \/ OnInitFail(p)
    BY <1>2, <1>3, <1>5 DEF Timer, ShutdownTimeout, InitTimeout, PingTimeout, StopProceeds,
                            InitFailed, OnShutdownReply, OnInitFail, Exit
  <1>6. CASE \E m \in {"actOk", "actFail"} : OnActivateReply(p, m)
    <2>1. \E v \in {"ok", "err"} : pass' = [pass EXCEPT !.pc = v] \/ pass' = pass
      BY <1>6 DEF OnActivateReply
    <2> QED BY <1>1, <2>1
  <1>7. CASE OnRegister(p) \/ OnUnregister(p) \/ OnInitOk(p) \/ \E c \in Calls : OnCallReply(p, c)
    BY <1>7 DEF OnRegister, OnUnregister, OnInitOk, OnCallReply
  <1> QED BY <1>4, <1>5, <1>6, <1>7 DEF Deliver

(* Every step keeps the invariant and asks none but a top claimant. *)
LEMMA NextIInv ==
  ASSUME IInv, [Next]_vars
  PROVE  IInv' /\ Ranking
  <1>1. ASSUME NEW p \in Plugins, Realm(p) \/ Deliver(p) \/ Timer(p) \/ Stop(p) \/ Exit(p)
        PROVE  IInv' /\ Ranking
    <2>1. IInv'
      BY <1>1, RealmIInv, DeliverIInv, ShutdownIInv, WatchdogIInv, StopIInv, ExitIInv DEF Timer
    <2> QED BY <1>1, <2>1, PassKept, Unasked
  <1>2. CASE PassOk \/ PassErr
    <2>1. IInv'
      BY <1>2, PassOkIInv, PassErrIInv
    <2>2. pass'.pc # "await"
      BY <1>2, IInvFacts DEF PassOk, PassErr, IdlePass
    <2> QED BY <2>1, <2>2, Unasked
  <1>3. CASE LoadReturns \/ StartLoad
    BY <1>3, LoadIInv, Unasked
  <1>4. ASSUME NEW c \in Calls, Wait(c) \/ WaitTimeout(c) \/ Invoke(c)
        PROVE  IInv' /\ Ranking
    BY <1>4, CallIInv, Unasked
  <1>5. CASE UNCHANGED vars
    <2>1. IInv'
      <3>1. /\ TypeOK' /\ Passing' /\ Winning' /\ Exclusive' /\ Claiming' /\ Calling'
            /\ FailoverPending'
        BY <1>5 DEF vars, IInv, TypeOK, Passing, Winning, Exclusive, Claiming, Calling,
                    FailoverPending, Claimed
      <3> QED BY <1>5, <3>1 DEF vars, IInv
    <2> QED BY <1>5, <2>1, Unasked DEF vars
  <1> QED BY <1>1, <1>2, <1>3, <1>4, <1>5, PassStartIInv, PassRetryIInv, EndLoadIInv
          DEF Next, Resume

(* IInv is an invariant of the plugin runtime. *)
THEOREM Invariance == Spec => []IInv
  <1>1. Init => IInv
    BY InitIInv
  <1>2. IInv /\ [Next]_vars => IInv'
    BY NextIInv
  <1> QED BY <1>1, <1>2, PTL DEF Spec

(* The hosts, realms, messages, claims and calls stay well-typed; a plugin *)
(* claims the namespace at most once (NamespaceRegistry.register).         *)
THEOREM TypeCorrect == Spec => []TypeOK
  <1>1. IInv => TypeOK
    BY DEF IInv
  <1> QED BY <1>1, Invariance, PTL

(* The plugin that calls are routed to has a claim and an API, or the core *)
(* is about to hear that it has not (markActivated, onUnregister), and no  *)
(* pass runs beside it.                                                    *)
THEOREM WinnersAreBacked == Spec => []ActivationBacked
  <1>1. IInv => ActivationBacked
    BY PluginsAssumption DEF IInv, Winning, Passing, Backed, ActivationBacked
  <1> QED BY <1>1, Invariance, PTL

(* At most one provider's init is in effect at a time, however activations *)
(* fail, workers die and claims move (activateNamespace stops a claimant   *)
(* that failed before it asks the next).                                   *)
THEOREM InitsExclude == Spec => []OneInit
  <1>1. IInv => OneInit
    <2> SUFFICES ASSUME IInv PROVE OneInit
      OBVIOUS
    <2> DEFINE E == {p \in Plugins : /\ realm[p].api \in {"active", "partial"}
                                     /\ Runs(p) \/ host[p].thread = "stuck"
                                     /\ host[p].state # "failed"}
    <2>1. \A p \in E : InEffect(host[p], realm[p]) /\ p \in Plugins
      BY DEF InEffect, Effective, Runs
    <2>2. \A p, q \in E : p = q
      BY <2>1, PluginsAssumption DEF IInv, Exclusive, Winning
    <2> HIDE DEF E
    <2>3. CASE E = {}
      <3>1. Cardinality(E) = 0
        BY <2>3, FS_EmptySet
      <3> QED BY <3>1 DEF OneInit, E
    <2>4. CASE E # {}
      <3>1. PICK p : p \in E
        BY <2>4
      <3>2. E = {p}
        BY <2>2, <3>1
      <3>3. Cardinality(E) = 1
        BY <3>2, FS_Singleton
      <3> QED BY <3>3 DEF OneInit, E
    <2> QED BY <2>3, <2>4
  <1> QED BY <1>1, Invariance, PTL

(* A worker that stop() or the restart policy is done with leaves no       *)
(* thread, claim, activation or request behind, and a call that was sent   *)
(* waits at a plugin whose endpoint is open (onExit, Endpoint.close).      *)
THEOREM WorkersAreReleased == Spec => []FinishedReleased
  <1>1. IInv => FinishedReleased
    <2> SUFFICES ASSUME IInv PROVE FinishedReleased
      OBVIOUS
    <2>1. ASSUME NEW p \in Workers
          PROVE  /\ host[p].stopping = "killing" => host[p].thread = "exiting"
                 /\ (host[p].state = "failed" \/ StopDone(p)) =>
                      /\ host[p].thread = "none" /\ host[p].ep = "null"
                      /\ host[p].state = "failed" /\ host[p].settled
                      /\ ~Claimed(p) /\ activatedBy # p /\ pend[p] = {}
      <3>1. p \in Plugins /\ Hosted(p, host[p], out[p], realm[p], pend[p])
        BY IInvFacts DEF Workers
      <3>2. host[p].ep = "null" => ~Claimed(p)
        BY DEF IInv, Claiming
      <3>3. activatedBy = p => Claimed(p)
        BY <3>1, PluginsAssumption DEF IInv, Winning
      <3> QED BY <3>1, <3>2, <3>3 DEF Hosted, StopDone
    <2>2. ASSUME NEW c \in Calls, calls[c] = "sent"
          PROVE  \E p \in Plugins : c \in pend[p] /\ host[p].ep = "open"
      <3>1. PICK p \in Plugins : c \in pend[p]
        BY <2>2 DEF IInv, Calling
      <3>2. Hosted(p, host[p], out[p], realm[p], pend[p])
        BY IInvFacts
      <3> QED BY <3>1, <3>2 DEF Hosted
    <2> QED BY <2>1, <2>2 DEF FinishedReleased
  <1> QED BY <1>1, Invariance, PTL

(* Outside a load batch a namespace with claims has a winner or a pass on  *)
(* its way to find one (onChange, activateNamespace).                      *)
THEOREM FailoverIsPending == Spec => []FailoverPending
  <1>1. IInv => FailoverPending
    BY DEF IInv
  <1> QED BY <1>1, Invariance, PTL

(* No live claimant outranks the plugin that is asked to activate          *)
(* (register's order, topClaim, activateNamespace's loop).                 *)
THEOREM HighestIsAsked == Spec => HighestClaimAsked
  <1>1. IInv /\ [Next]_vars => Ranking
    BY NextIInv
  <1>2. Ranking <=> \A p, q \in Plugins :
                      /\ "activate" \in pend'[p] \ pend[p]
                      /\ Claimed(q) /\ Routable(q)
                      => Prio[q] <= Prio[p]
    BY DEF Ranking
  <1> QED BY <1>1, <1>2, Invariance, PTL DEF Spec, HighestClaimAsked
=============================================================================
