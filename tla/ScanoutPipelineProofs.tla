----------------------- MODULE ScanoutPipelineProofs -----------------------
(***************************************************************************)
(* Proofs of ScanoutPipeline's safety properties, for any buffers and any  *)
(* number of changes, refusals and VT switches.  A turn of either process  *)
(* is a composition of functions on the records of the two, so what is     *)
(* invariant is stated of any pair of records, c of the core and g of the  *)
(* GPU process, and of h, the present the GPU process has in its hands     *)
(* between taking it from one place and putting it in the next.            *)
(***************************************************************************)
EXTENDS ScanoutPipeline, SequenceTheorems, WellFoundedInduction, TLAPS

(* The presents under way, and the ring's slots among them or on their way *)
(* back.                                                                   *)
Under(c, g, h) == (ToSet(c.wire) \cup {g.pending, g.stash, h}) \cap Shown
Flying(c, g, h) == (Under(c, g, h) \cap Slots) \cup ToSet(g.ctrl)

(* Replies not handled yet. *)
Unread(c, g) == ToSet(g.wire) \cup ToSet(c.todo)

(* A slot is at most once on the wire. *)
Alone(w) == \A j, k \in 1..Len(w) : w[j] \in Slots /\ w[k] \in Slots => j = k

(* One slot at most is under way, in one place. *)
Single(c, g, h) ==
  /\ Alone(c.wire)
  /\ g.ctrl = <<>> \/ \E x \in Slots : g.ctrl = <<x>>
  /\ ToSet(c.wire) \cap Slots # {} =>
       h \notin Slots /\ g.pending \notin Slots /\ g.stash \notin Slots /\ g.ctrl = <<>>
  /\ h \in Slots => g.pending \notin Slots /\ g.stash \notin Slots /\ g.ctrl = <<>>
  /\ g.pending \in Slots => g.stash \notin Slots /\ g.ctrl = <<>>
  /\ g.stash \in Slots => g.ctrl = <<>>

(* The core knows the slot that is under way, and waits for no other. *)
Marked(c, g, h) ==
  /\ ~c.paused => \A x \in Flying(c, g, h) : c.slot[x] = "PENDING_FLIP"
  /\ \A s \in Slots : c.slot[s] = "PENDING_FLIP" => s \in Flying(c, g, h) \cup g.lost

(* The slot on the screen is the core's SCANOUT, or will be when the flip  *)
(* message is read.                                                        *)
OnScreen(c, g) ==
  ~c.paused /\ g.ring # None =>
    IF g.ctrl = <<>> THEN c.slot[g.ring] = "SCANOUT" ELSE g.ctrl = <<g.ring>>

(* Where the two processes are in a VT switch. *)
Seat(c, g) ==
  /\ c.paused => /\ c.ctrl # "resume" /\ (c.ctrl = "none" => g.paused)
                 /\ \A s \in Slots : c.slot[s] # "PENDING_FLIP"
  /\ ~c.paused => c.ctrl # "pause" /\ (c.ctrl = "resume" <=> g.paused)
  /\ g.paused => g.pending = None /\ g.stash = None /\ g.latched = None /\ g.ring = None

(* The gate of one client present has something to open it. *)
Gated(c, g, h) ==
  c.flipPending /\ ~c.paused =>
    \E b \in Bufs : \/ b \in Under(c, g, h) \cup g.lost
                    \/ \E m \in Unread(c, g) : b \in {m.latched, m.retired}

(* A refusal names its buffer, and the loop has a turn to go on with only  *)
(* while it has refusals to handle.                                        *)
Named(c, g) ==
  /\ \A m \in Unread(c, g) : m.kind = "reject" => m.retired \in Bufs
  /\ c.todo # <<>> => Rejects(c.todo) # {}

Unique(c) == \A s, t \in Slots : c.slot[s] = c.slot[t] /\ c.slot[s] # "FREE" => s = t

Safe(c, g, h) ==
  /\ c \in Cores /\ g \in Gpus /\ Unique(c)
  /\ Single(c, g, h) /\ Marked(c, g, h) /\ OnScreen(c, g) /\ Seat(c, g)
  /\ Gated(c, g, h) /\ Named(c, g)

(* Something is on its way that will run a frame when the core reads it. *)
Coming(c, g, h) ==
  \/ Under(c, g, h) # {}
  \/ g.ctrl # <<>>
  \/ \E m \in Unread(c, g) : m.latched # None \/ m.kind = "reject"

(* Outside the two cases NoLostWake leaves out. *)
Running(c, g) == ~c.paused /\ g.lost = {} /\ ~g.overtaken

Awake(c, g, h) ==
  Running(c, g) /\ (c.dirty \/ c.callback \/ c.awaiting \/ c.flipPending) => Coming(c, g, h)

Good(c, g, h) == Safe(c, g, h) /\ Awake(c, g, h)

(* The inductive invariant: a present is stashed only behind a commit the  *)
(* kernel has queued.                                                      *)
Behind(g) == g.stash # None => g.pending # None

IInv == Good(core, gpu, None) /\ Behind(gpu)

-----------------------------------------------------------------------------
(* Sets of numbers, and sequences. *)

(* A set of naturals has a minimum. *)
LEMMA MinIn ==
  ASSUME NEW S \in SUBSET Nat, S # {}
  PROVE  Min(S) \in S
  <1>1. PICK x \in S : \A y \in S : ~(<<y, x>> \in OpToRel(<, Nat))
    BY NatLessThanWellFounded, WFMin
  <1>2. \A y \in S : ~(y < x)
    BY <1>1 DEF OpToRel
  <1>3. \A y \in S : x <= y
    BY <1>2
  <1> QED BY <1>3 DEF Min

(* A set of numbers up to n has a maximum. *)
LEMMA MaxIn ==
  ASSUME NEW n \in Nat, NEW S \in SUBSET (1..n), S # {}
  PROVE  Max(S) \in S
  <1> DEFINE D == {n - i : i \in S}
  <1>1. ASSUME NEW i \in S PROVE n - i \in Nat
    <2>1. i \in 1..n
      OBVIOUS
    <2> QED BY <2>1
  <1>a. D \in SUBSET Nat
    BY <1>1
  <1>b. D # {}
    <2>1. PICK i : i \in S
      OBVIOUS
    <2>2. n - i \in D
      BY <2>1
    <2> QED BY <2>2
  <1>2. PICK d \in D : \A y \in D : ~(<<y, d>> \in OpToRel(<, Nat))
    BY <1>a, <1>b, NatLessThanWellFounded, WFMin
  <1>3. PICK x \in S : d = n - x
    BY <1>2
  <1>4. ASSUME NEW y \in S PROVE x >= y
    <2>1. n - y \in D /\ n - y \in Nat /\ d \in Nat
      BY <1>1, <1>a
    <2> HIDE DEF D
    <2>2. ~(n - y < d)
      BY <1>2, <2>1 DEF OpToRel
    <2>3. x \in 1..n /\ y \in 1..n
      OBVIOUS
    <2> QED BY <1>3, <2>2, <2>3
  <1> QED BY <1>4 DEF Max

(* What is in a sequence. *)
LEMMA InSeq ==
  ASSUME NEW S, NEW q \in Seq(S)
  PROVE  /\ \A e : e \in ToSet(q) <=> \E k \in 1..Len(q) : q[k] = e
         /\ ToSet(q) \subseteq S
         /\ q = <<>> <=> ToSet(q) = {}
         /\ Len(q) \in Nat /\ DOMAIN q = 1..Len(q)
  <1>1. DOMAIN q = 1..Len(q) /\ Len(q) \in Nat /\ q \in [1..Len(q) -> S]
    BY LenProperties
  <1>2. q = <<>> <=> Len(q) = 0
    BY EmptySeq
  <1>3. \A e : e \in ToSet(q) <=> \E k \in 1..Len(q) : q[k] = e
    BY <1>1 DEF ToSet
  <1>4. Len(q) # 0 => 1 \in 1..Len(q)
    BY <1>1
  <1>5. Len(q) = 0 => 1..Len(q) = {}
    BY <1>1
  <1>6. ToSet(q) \subseteq S
    BY <1>1, <1>3
  <1> QED BY <1>1, <1>2, <1>3, <1>4, <1>5, <1>6

LEMMA EmptyToSet == ToSet(<<>>) = {}
  BY DEF ToSet

LEMMA OneToSet ==
  ASSUME NEW x
  PROVE  ToSet(<<x>>) = {x} /\ <<x>> # <<>> /\ Len(<<x>>) = 1 /\ <<x>>[1] = x
  <1>1. <<x>> \in Seq({x}) /\ Len(<<x>>) = 1 /\ <<x>>[1] = x
    OBVIOUS
  <1>2. \A e : e \in ToSet(<<x>>) <=> \E k \in 1..1 : <<x>>[k] = e
    BY <1>1, InSeq
  <1> QED BY <1>1, <1>2

LEMMA AppendToSet ==
  ASSUME NEW S, NEW q \in Seq(S), NEW x \in S
  PROVE  Append(q, x) \in Seq(S) /\ ToSet(Append(q, x)) = ToSet(q) \cup {x}
  <1> DEFINE a == Append(q, x)
             n == Len(q)
  <1>1. /\ a \in Seq(S) /\ Len(a) = n + 1 /\ a[n + 1] = x
        /\ \A k \in 1..n : a[k] = q[k]
    BY AppendProperties
  <1>2. /\ n \in Nat /\ \A e : e \in ToSet(q) <=> \E k \in 1..n : q[k] = e
    BY InSeq
  <1>3. \A e : e \in ToSet(a) <=> \E k \in 1..n + 1 : a[k] = e
    BY <1>1, InSeq
  <1> HIDE DEF a, n
  <1>4. ASSUME NEW e PROVE e \in ToSet(a) <=> e \in ToSet(q) \cup {x}
    <2>1. CASE e \in ToSet(a)
      <3>1. PICK k \in 1..n + 1 : a[k] = e
        BY <1>3, <2>1
      <3>2. k = n + 1 \/ k \in 1..n
        BY <1>2, <3>1
      <3> QED BY <1>1, <1>2, <2>1, <3>1, <3>2
    <2>2. CASE e \in ToSet(q)
      <3>1. PICK k \in 1..n : q[k] = e
        BY <1>2, <2>2
      <3>2. k \in 1..n + 1 /\ a[k] = e
        BY <1>1, <1>2, <3>1
      <3> QED BY <1>3, <2>2, <3>2
    <2>3. CASE e = x
      <3>1. n + 1 \in 1..n + 1
        BY <1>2
      <3> QED BY <1>1, <1>3, <2>3, <3>1
    <2> QED BY <2>1, <2>2, <2>3
  <1>5. ToSet(a) = ToSet(q) \cup {x}
    BY <1>4
  <1> QED BY <1>1, <1>5 DEF a

LEMMA TailToSet ==
  ASSUME NEW S, NEW q \in Seq(S), q # <<>>
  PROVE  /\ Head(q) \in S /\ Tail(q) \in Seq(S)
         /\ ToSet(q) = ToSet(Tail(q)) \cup {Head(q)}
         /\ Alone(q) => Alone(Tail(q))
         /\ Alone(q) /\ Head(q) \in Slots => ToSet(Tail(q)) \cap Slots = {}
  <1> DEFINE a == Tail(q)
             n == Len(a)
  <1>1. /\ Head(q) \in S /\ a \in Seq(S) /\ n = Len(q) - 1
        /\ \A k \in 1..n : a[k] = q[k + 1]
    BY HeadTailProperties
  <1>2. /\ Len(q) \in Nat /\ \A e : e \in ToSet(q) <=> \E k \in 1..Len(q) : q[k] = e
    BY InSeq
  <1>4. Head(q) = q[1]
    OBVIOUS
  <1> HIDE DEF a
  <1>a. /\ n \in Nat /\ \A e : e \in ToSet(a) <=> \E k \in 1..n : a[k] = e
    BY <1>1, InSeq
  <1>b. Len(q) = n + 1
    BY <1>1, <1>2
  <1>3. n \in Nat /\ Len(q) = n + 1 /\ \A e : e \in ToSet(a) <=> \E k \in 1..n : a[k] = e
    BY <1>a, <1>b
  <1> HIDE DEF n
  <1>5. ASSUME NEW e PROVE e \in ToSet(q) <=> e \in ToSet(a) \cup {Head(q)}
    <2>1. CASE e \in ToSet(q)
      <3>1. PICK k \in 1..n + 1 : q[k] = e
        BY <1>2, <1>3, <2>1
      <3>2. k = 1 \/ (k - 1 \in 1..n /\ (k - 1) + 1 = k)
        BY <1>3, <3>1
      <3>3. k = 1 \/ a[k - 1] = e
        BY <1>1, <3>1, <3>2
      <3> QED BY <1>3, <1>4, <2>1, <3>1, <3>2, <3>3
    <2>2. CASE e \in ToSet(a)
      <3>1. PICK k \in 1..n : a[k] = e
        BY <1>3, <2>2
      <3>2. k + 1 \in 1..n + 1 /\ q[k + 1] = e
        BY <1>1, <1>3, <3>1
      <3> QED BY <1>2, <1>3, <2>2, <3>2
    <2>3. CASE e = Head(q)
      <3>1. 1 \in 1..n + 1
        BY <1>3
      <3> QED BY <1>2, <1>3, <1>4, <2>3, <3>1
    <2> QED BY <2>1, <2>2, <2>3
  <1>6. ToSet(q) = ToSet(a) \cup {Head(q)}
    BY <1>5
  <1>7. ASSUME Alone(q) PROVE Alone(a)
    <2> SUFFICES ASSUME NEW j \in 1..n, NEW k \in 1..n, a[j] \in Slots, a[k] \in Slots
                 PROVE  j = k
      BY DEF Alone, n
    <2>1. /\ j + 1 \in 1..Len(q) /\ k + 1 \in 1..Len(q)
          /\ q[j + 1] \in Slots /\ q[k + 1] \in Slots
      BY <1>1, <1>3
    <2>2. j + 1 = k + 1
      BY <1>7, <2>1 DEF Alone
    <2> QED BY <1>3, <2>2
  <1>8. ASSUME Alone(q), Head(q) \in Slots, NEW e \in ToSet(a), e \in Slots
        PROVE  FALSE
    <2>1. PICK k \in 1..n : a[k] = e
      BY <1>3, <1>8
    <2>2. k + 1 \in 1..Len(q) /\ 1 \in 1..Len(q) /\ q[k + 1] \in Slots /\ q[1] \in Slots
      BY <1>1, <1>3, <1>4, <1>8, <2>1
    <2>3. k + 1 = 1
      BY <1>8, <2>2 DEF Alone
    <2> QED BY <2>1, <2>3
  <1> QED BY <1>1, <1>6, <1>7, <1>8 DEF a


(* A sequence cut in two. *)
LEMMA CutToSet ==
  ASSUME NEW S, NEW q \in Seq(S), NEW n \in 0..Len(q)
  PROVE  /\ SubSeq(q, 1, n) \in Seq(S) /\ SubSeq(q, n + 1, Len(q)) \in Seq(S)
         /\ ToSet(q) = ToSet(SubSeq(q, 1, n)) \cup ToSet(SubSeq(q, n + 1, Len(q)))
         /\ SubSeq(q, 1, n) = <<>> => n = 0
  <1> DEFINE a == SubSeq(q, 1, n)
             b == SubSeq(q, n + 1, Len(q))
             m == Len(q)
  <1>0. m \in Nat /\ n \in Nat /\ n <= m
    BY LenProperties
  <1>a. \A k \in 1..n : k \in 1..m
    BY <1>0
  <1>b. \A k \in n + 1..m : k \in 1..m
    BY <1>0
  <1>1. a \in Seq(S) /\ Len(a) = n /\ \A k \in 1..n : a[k] = q[k]
    <2>1. \A k \in 1..n : q[k] \in S
      BY <1>a, ElementOfSeq
    <2>2. a \in Seq(S) /\ Len(a) = (IF 1 <= n THEN n - 1 + 1 ELSE 0)
          /\ \A k \in 1..n - 1 + 1 : a[k] = q[1 + k - 1]
      BY <1>0, <2>1, SubSeqProperties
    <2> HIDE DEF a
    <2>3. n - 1 + 1 = n /\ (IF 1 <= n THEN n - 1 + 1 ELSE 0) = n
          /\ \A k \in 1..n : 1 + k - 1 = k
      BY <1>0
    <2> QED BY <2>2, <2>3
  <1>2. b \in Seq(S) /\ Len(b) = m - n /\ \A k \in 1..m - n : b[k] = q[n + k]
    <2>1. \A k \in n + 1..m : q[k] \in S
      BY <1>b, ElementOfSeq
    <2>2. b \in Seq(S) /\ Len(b) = (IF n + 1 <= m THEN m - (n + 1) + 1 ELSE 0)
          /\ \A k \in 1..m - (n + 1) + 1 : b[k] = q[n + 1 + k - 1]
      BY <1>0, <2>1, SubSeqProperties
    <2> HIDE DEF b, m
    <2>3. m - (n + 1) + 1 = m - n /\ (IF n + 1 <= m THEN m - (n + 1) + 1 ELSE 0) = m - n
          /\ \A k \in 1..m - n : n + 1 + k - 1 = n + k
      BY <1>0
    <2> QED BY <2>2, <2>3
  <1>3. /\ \A e : e \in ToSet(q) <=> \E k \in 1..m : q[k] = e
    BY InSeq
  <1> HIDE DEF a, b, m
  <1>4. /\ \A e : e \in ToSet(a) <=> \E k \in 1..n : a[k] = e
    BY <1>1, InSeq
  <1>5. /\ \A e : e \in ToSet(b) <=> \E k \in 1..m - n : b[k] = e
    BY <1>2, InSeq
  <1>6. ASSUME NEW e PROVE e \in ToSet(q) <=> e \in ToSet(a) \cup ToSet(b)
    <2>1. CASE e \in ToSet(q)
      <3>1. PICK k \in 1..m : q[k] = e
        BY <1>3, <2>1
      <3>2. CASE k \in 1..n
        BY <1>1, <1>4, <2>1, <3>1, <3>2
      <3>3. CASE k \notin 1..n
        <4>1. k - n \in 1..m - n /\ n + (k - n) = k
          BY <1>0, <3>1, <3>3
        <4>2. b[k - n] = e
          BY <1>2, <3>1, <4>1
        <4> QED BY <1>5, <2>1, <4>1, <4>2
      <3> QED BY <3>2, <3>3
    <2>2. CASE e \in ToSet(a)
      BY <1>1, <1>3, <1>4, <1>a, <2>2
    <2>3. CASE e \in ToSet(b)
      <3>1. PICK k \in 1..m - n : b[k] = e
        BY <1>5, <2>3
      <3>2. n + k \in 1..m /\ q[n + k] = e
        BY <1>0, <1>2, <3>1
      <3> QED BY <1>3, <2>3, <3>2
    <2> QED BY <2>1, <2>2, <2>3
  <1>7. ToSet(q) = ToSet(a) \cup ToSet(b)
    BY <1>6
  <1>8. a = <<>> => n = 0
    BY <1>1, EmptySeq
  <1> QED BY <1>1, <1>2, <1>7, <1>8 DEF a, b, m

(* What is appended stays alone when it is not a slot, or the only one. *)
LEMMA AppendAlone ==
  ASSUME NEW S, NEW q \in Seq(S), NEW x \in S, Alone(q),
         x \notin Slots \/ ToSet(q) \cap Slots = {}
  PROVE  Alone(Append(q, x))
  <1> DEFINE a == Append(q, x)
             n == Len(q)
  <1>1. /\ Len(a) = n + 1 /\ a[n + 1] = x
        /\ \A k \in 1..n : a[k] = q[k]
    BY AppendProperties
  <1>2. /\ n \in Nat /\ \A e : e \in ToSet(q) <=> \E k \in 1..n : q[k] = e
    BY InSeq
  <1>3. \A j, k \in 1..n : q[j] \in Slots /\ q[k] \in Slots => j = k
    BY DEF Alone
  <1> HIDE DEF a, n
  <1>4. ASSUME NEW j \in 1..n + 1, NEW k \in 1..n + 1, a[j] \in Slots, a[k] \in Slots
        PROVE  j = k
    <2>1. (j = n + 1 \/ j \in 1..n) /\ (k = n + 1 \/ k \in 1..n)
      BY <1>2
    <2>2. CASE x \notin Slots
      <3>1. j \in 1..n /\ k \in 1..n /\ q[j] \in Slots /\ q[k] \in Slots
        BY <1>1, <1>4, <2>1, <2>2
      <3> QED BY <1>3, <3>1
    <2>3. CASE ToSet(q) \cap Slots = {}
      <3>1. \A i \in 1..n : a[i] \notin Slots
        BY <1>1, <1>2, <2>3
      <3> QED BY <1>4, <2>1, <3>1
    <2> QED BY <2>2, <2>3
  <1> QED BY <1>1, <1>4 DEF Alone, a

(* One sequence after another. *)
LEMMA ConcatToSet ==
  ASSUME NEW S, NEW p \in Seq(S), NEW q \in Seq(S)
  PROVE  p \o q \in Seq(S) /\ ToSet(p \o q) \subseteq ToSet(p) \cup ToSet(q)
  <1> DEFINE a == p \o q
             m == Len(p)
             n == Len(q)
  <1>1. a \in Seq(S) /\ Len(a) = m + n
        /\ \A k \in 1..m + n : a[k] = IF k <= m THEN p[k] ELSE q[k - m]
    BY ConcatProperties
  <1>2. m \in Nat /\ \A e : e \in ToSet(p) <=> \E k \in 1..m : p[k] = e
    BY InSeq
  <1>3. n \in Nat /\ \A e : e \in ToSet(q) <=> \E k \in 1..n : q[k] = e
    BY InSeq
  <1> HIDE DEF a, m, n
  <1>4. \A e : e \in ToSet(a) <=> \E k \in 1..m + n : a[k] = e
    BY <1>1, InSeq
  <1>5. ASSUME NEW e \in ToSet(a) PROVE e \in ToSet(p) \cup ToSet(q)
    <2>1. PICK k \in 1..m + n : a[k] = e
      BY <1>4
    <2>2. CASE k <= m
      <3>1. k \in 1..m /\ p[k] = e
        BY <1>1, <1>2, <1>3, <2>1, <2>2
      <3> QED BY <1>2, <3>1
    <2>3. CASE ~(k <= m)
      <3>1. k - m \in 1..n /\ q[k - m] = e
        BY <1>1, <1>2, <1>3, <2>1, <2>3
      <3> QED BY <1>3, <3>1
    <2> QED BY <2>2, <2>3
  <1> QED BY <1>1, <1>5 DEF a

-----------------------------------------------------------------------------
(* Records: what the core's and the GPU process's fields are. *)

LEMMA CoreFields ==
  ASSUME NEW c \in Cores
  PROVE  /\ c.slot \in [Slots -> {"FREE", "PENDING_FLIP", "SCANOUT"}]
         /\ c.paused \in BOOLEAN /\ c.dirty \in BOOLEAN /\ c.active \in Bufs \cup {None}
         /\ c.flipPending \in BOOLEAN /\ c.veto \in SUBSET Bufs /\ c.held \in SUBSET Bufs
         /\ c.awaiting \in BOOLEAN /\ c.callback \in BOOLEAN
         /\ c.current \in Bufs \cup {None} /\ c.covered \in BOOLEAN
         /\ c.todo \in Seq(Replies) /\ c.paces \in BOOLEAN
         /\ c.wire \in Seq(Shown \cup {Cursor}) /\ c.ctrl \in {"none", "pause", "resume"}
  BY DEF Cores

LEMMA GpuFields ==
  ASSUME NEW g \in Gpus
  PROVE  /\ g.paused \in BOOLEAN /\ g.modeset \in BOOLEAN
         /\ g.pending \in Shown \cup {Cursor, None} /\ g.latched \in Bufs \cup {None}
         /\ g.ring \in Slots \cup {None} /\ g.stash \in Shown \cup {None}
         /\ g.cursorDue \in BOOLEAN /\ g.ctrl \in Seq(Slots) /\ g.lost \in SUBSET Shown
         /\ g.overtaken \in BOOLEAN /\ g.wire \in Seq(Replies)
  BY DEF Gpus

LEMMA Distinct ==
  /\ \A b \in Bufs : b \notin Slots /\ b # None /\ b # Cursor
  /\ None \notin Shown /\ Cursor \notin Shown /\ Cursor # None
  BY ScanoutAssumption DEF Shown

LEMMA FlipReply ==
  ASSUME NEW l \in Bufs \cup {None}, NEW r \in Bufs \cup {None}
  PROVE  /\ ClientFlip(l, r) \in Replies /\ ClientFlip(l, r).kind # "reject"
         /\ ClientFlip(l, r).latched = l /\ ClientFlip(l, r).retired = r
  BY DEF ClientFlip, Replies

LEMMA RejectReply ==
  ASSUME NEW r \in Bufs
  PROVE  /\ Reject(r) \in Replies /\ Reject(r).kind = "reject"
         /\ Reject(r).latched = None /\ Reject(r).retired = r
  BY DEF Reject, Replies

-----------------------------------------------------------------------------
(* The core. *)

(* Safe does not depend on what else a core has in its record. *)
LEMMA SafeSame ==
  ASSUME NEW c, NEW d, NEW g, NEW h, Safe(c, g, h), d \in Cores,
         d.slot = c.slot, d.wire = c.wire, d.paused = c.paused, d.ctrl = c.ctrl,
         Gated(d, g, h), Named(d, g)
  PROVE  Safe(d, g, h)
  <1>1. Unique(d)
    BY DEF Safe, Unique
  <1>2. Under(d, g, h) = Under(c, g, h) /\ Flying(d, g, h) = Flying(c, g, h)
    BY DEF Under, Flying
  <1>3. Single(d, g, h)
    BY DEF Safe, Single
  <1>4. Marked(d, g, h)
    BY <1>2 DEF Safe, Marked
  <1>5. OnScreen(d, g)
    BY DEF Safe, OnScreen
  <1>6. Seat(d, g)
    BY DEF Safe, Seat
  <1> QED BY <1>1, <1>3, <1>4, <1>5, <1>6 DEF Safe

LEMMA CoreKeeps ==
  ASSUME NEW c, NEW d, NEW g, NEW h, Safe(c, g, h), d \in Cores,
         d.slot = c.slot, d.wire = c.wire, d.paused = c.paused, d.ctrl = c.ctrl,
         d.todo = c.todo, d.flipPending => c.flipPending
  PROVE  /\ Safe(d, g, h)
         /\ Coming(d, g, h) <=> Coming(c, g, h)
         /\ Running(d, g) <=> Running(c, g)
  <1>1. Under(d, g, h) = Under(c, g, h) /\ Unread(d, g) = Unread(c, g)
    BY DEF Under, Unread
  <1>2. Gated(d, g, h)
    BY <1>1 DEF Safe, Gated
  <1>3. Named(d, g)
    BY <1>1 DEF Safe, Named
  <1>4. Safe(d, g, h)
    BY <1>2, <1>3, SafeSame
  <1>5. Coming(d, g, h) <=> Coming(c, g, h)
    BY <1>1 DEF Coming
  <1>6. Running(d, g) <=> Running(c, g)
    BY DEF Running
  <1> QED BY <1>4, <1>5, <1>6

(* A slot the core waits for is on its way. *)
LEMMA FlipComes ==
  ASSUME NEW c, NEW g, NEW h, Safe(c, g, h), Running(c, g), FlipInFlight(c)
  PROVE  Coming(c, g, h)
  <1>1. PICK s \in Slots : c.slot[s] = "PENDING_FLIP"
    BY DEF FlipInFlight
  <1>2. s \in Flying(c, g, h)
    BY <1>1 DEF Safe, Marked, Running
  <1>3. CASE s \in Under(c, g, h)
    BY <1>3 DEF Coming
  <1>4. CASE s \in ToSet(g.ctrl)
    <2>1. g.ctrl # <<>>
      BY <1>4, EmptyToSet
    <2> QED BY <2>1 DEF Coming
  <1> QED BY <1>2, <1>3, <1>4 DEF Flying

(* No slot under way when none is in PENDING_FLIP. *)
LEMMA NoneFlying ==
  ASSUME NEW c, NEW g, NEW h, Safe(c, g, h), ~c.paused, ~FlipInFlight(c)
  PROVE  /\ ToSet(c.wire) \cap Slots = {} /\ g.ctrl = <<>>
         /\ g.pending \notin Slots /\ g.stash \notin Slots /\ h \notin Slots
         /\ Flying(c, g, h) = {}
  <1>1. g.ctrl \in Seq(Slots)
    BY GpuFields DEF Safe
  <1>2. ToSet(g.ctrl) \subseteq Slots /\ (g.ctrl = <<>> <=> ToSet(g.ctrl) = {})
    BY <1>1, InSeq
  <1>3. Flying(c, g, h) \subseteq Slots
    BY <1>2 DEF Flying
  <1>4. Flying(c, g, h) = {}
    BY <1>3 DEF Safe, Marked, FlipInFlight
  <1>5. (ToSet(c.wire) \cup {g.pending, g.stash, h}) \cap Shown \cap Slots = {}
    BY <1>4 DEF Flying, Under
  <1>6. Slots \subseteq Shown
    BY DEF Shown
  <1>7. ToSet(g.ctrl) = {}
    BY <1>4 DEF Flying
  <1> QED BY <1>2, <1>4, <1>5, <1>6, <1>7

(* A present of the ring. *)
LEMMA RingGood ==
  ASSUME NEW c, NEW g, NEW s \in Slots, Safe(c, g, None), ~c.paused, ~FlipInFlight(c),
         c.slot[s] = "FREE", NEW d \in Cores,
         d.slot = [c.slot EXCEPT ![s] = "PENDING_FLIP"], d.wire = Append(c.wire, s),
         d.paused = c.paused, d.ctrl = c.ctrl, d.todo = c.todo,
         d.flipPending = c.flipPending
  PROVE  Good(d, g, None)
  <1>0. /\ c \in Cores /\ g \in Gpus /\ Unique(c)
        /\ Single(c, g, None) /\ Marked(c, g, None) /\ OnScreen(c, g) /\ Seat(c, g)
        /\ Gated(c, g, None) /\ Named(c, g)
    BY DEF Safe
  <1>1. /\ ToSet(c.wire) \cap Slots = {} /\ g.ctrl = <<>>
        /\ g.pending \notin Slots /\ g.stash \notin Slots /\ None \notin Slots
        /\ Flying(c, g, None) = {}
    BY NoneFlying
  <1>2. c.wire \in Seq(Shown \cup {Cursor}) /\ s \in Shown \cup {Cursor} /\ s \in Shown
    BY <1>0, CoreFields DEF Shown
  <1>3. ToSet(d.wire) = ToSet(c.wire) \cup {s} /\ Alone(d.wire)
    BY <1>0, <1>1, <1>2, AppendToSet, AppendAlone DEF Single
  <1>4. Under(d, g, None) = Under(c, g, None) \cup {s}
    BY <1>2, <1>3 DEF Under
  <1>5. Flying(d, g, None) = {s}
    BY <1>1, <1>4 DEF Flying
  <1>6. /\ c.slot \in [Slots -> {"FREE", "PENDING_FLIP", "SCANOUT"}]
        /\ \A t \in Slots : c.slot[t] # "PENDING_FLIP"
    BY <1>0, CoreFields DEF FlipInFlight
  <1>7. \A t \in Slots : d.slot[t] = IF t = s THEN "PENDING_FLIP" ELSE c.slot[t]
    BY <1>6
  <1>8. Unique(d)
    BY <1>0, <1>6, <1>7 DEF Unique
  <1>9. Single(d, g, None)
    BY <1>1, <1>3 DEF Single
  <1>10. Marked(d, g, None)
    BY <1>5, <1>6, <1>7 DEF Marked
  <1>11. OnScreen(d, g)
    <2>1. g.ring \in Slots \cup {None}
      BY <1>0, GpuFields
    <2> QED BY <1>0, <1>1, <1>7, <2>1 DEF OnScreen
  <1>12. Seat(d, g)
    BY <1>0, <1>6, <1>7 DEF Seat
  <1>13. Unread(d, g) = Unread(c, g)
    BY DEF Unread
  <1>14. Gated(d, g, None)
    BY <1>0, <1>4, <1>13 DEF Gated
  <1>15. Named(d, g)
    BY <1>0, <1>13 DEF Named
  <1>16. Awake(d, g, None)
    BY <1>4 DEF Awake, Coming
  <1> QED BY <1>0, <1>8, <1>9, <1>10, <1>11, <1>12, <1>14, <1>15, <1>16 DEF Good, Safe

(* A present that shows no slot of the ring: a client's buffer, or the      *)
(* request for a cursor commit.                                            *)
LEMMA OtherSafe ==
  ASSUME NEW c, NEW g, NEW x \in Bufs \cup {Cursor}, Safe(c, g, None), NEW d \in Cores,
         d.slot = c.slot, d.wire = Append(c.wire, x),
         d.paused = c.paused, d.ctrl = c.ctrl, d.todo = c.todo,
         x \in Bufs \/ d.flipPending = c.flipPending
  PROVE  /\ Safe(d, g, None) /\ Under(c, g, None) \subseteq Under(d, g, None)
         /\ x \in Bufs => x \in Under(d, g, None)
  <1>0. /\ c \in Cores /\ g \in Gpus /\ Unique(c)
        /\ Single(c, g, None) /\ Marked(c, g, None) /\ OnScreen(c, g) /\ Seat(c, g)
        /\ Gated(c, g, None) /\ Named(c, g)
    BY DEF Safe
  <1>1. c.wire \in Seq(Shown \cup {Cursor}) /\ x \in Shown \cup {Cursor} /\ x \notin Slots
    BY <1>0, CoreFields, Distinct, ScanoutAssumption DEF Shown
  <1>2. ToSet(d.wire) = ToSet(c.wire) \cup {x} /\ Alone(d.wire)
    BY <1>0, <1>1, AppendToSet, AppendAlone DEF Single
  <1>3. {x} \cap Shown = {x} \cap Bufs
    BY Distinct, <1>1 DEF Shown
  <1>4. Under(d, g, None) = Under(c, g, None) \cup ({x} \cap Bufs)
    BY <1>2, <1>3 DEF Under
  <1>5. Flying(d, g, None) = Flying(c, g, None)
    BY <1>1, <1>4 DEF Flying
  <1>6. Unique(d)
    BY <1>0 DEF Unique
  <1>7. Single(d, g, None)
    BY <1>0, <1>1, <1>2 DEF Single
  <1>8. Marked(d, g, None)
    BY <1>0, <1>5 DEF Marked
  <1>9. OnScreen(d, g) /\ Seat(d, g)
    BY <1>0 DEF OnScreen, Seat
  <1>10. Unread(d, g) = Unread(c, g)
    BY DEF Unread
  <1>11. Gated(d, g, None)
    <2>1. CASE x \in Bufs
      BY <1>4, <2>1 DEF Gated
    <2>2. CASE x \notin Bufs
      BY <1>0, <1>4, <1>10, <2>2 DEF Gated
    <2> QED BY <2>1, <2>2
  <1>12. Named(d, g)
    BY <1>0, <1>10 DEF Named
  <1>13. Under(c, g, None) \subseteq Under(d, g, None) /\ (x \in Bufs => x \in Under(d, g, None))
    BY <1>4
  <1> QED BY <1>0, <1>13, <1>6, <1>7, <1>8, <1>9, <1>11, <1>12 DEF Safe

(* What has to be true of the core for a frame to leave it awake: whoever  *)
(* waits for a flip without damage has one coming.                         *)
Waiting(c, g, h) ==
  Running(c, g) /\ (c.flipPending \/ (c.awaiting /\ ~c.dirty)) => Coming(c, g, h)

(* acquireOutputTexture finds a slot, or one is on its way: of three slots *)
(* only one is on the screen.                                              *)
LEMMA RingPresentGood ==
  ASSUME NEW c, NEW g, Safe(c, g, None), ~c.paused
  PROVE  Good(RingPresent(c), g, None)
  <1>0. c \in Cores /\ Unique(c)
    BY DEF Safe
  <1>1. c.slot \in [Slots -> {"FREE", "PENDING_FLIP", "SCANOUT"}]
    BY <1>0, CoreFields
  <1> DEFINE free == {s \in Slots : c.slot[s] = "FREE"}
  <1>2. CASE FlipInFlight(c)
    <2>1. RingPresent(c) = c
      BY <1>2 DEF RingPresent
    <2>2. Awake(c, g, None)
      BY <1>2, FlipComes DEF Awake
    <2> QED BY <2>1, <2>2 DEF Good
  <1>3. CASE ~FlipInFlight(c)
    <2>1. free # {}
      <3>1. SUFFICES ASSUME free = {} PROVE FALSE
        OBVIOUS
      <3>2. c.slot[0] # "FREE" /\ c.slot[1] # "FREE"
        BY <3>1 DEF Slots
      <3>3. c.slot[0] = "SCANOUT" /\ c.slot[1] = "SCANOUT"
        BY <1>1, <1>3, <3>2 DEF Slots, FlipInFlight
      <3>4. 0 = 1
        BY <1>0, <3>3 DEF Unique, Slots
      <3> QED BY <3>4
    <2>2. free \in SUBSET Nat
      BY DEF Slots
    <2>3. Min(free) \in free
      BY <2>1, <2>2, MinIn
    <2> DEFINE s == Min(free)
    <2>4. s \in Slots /\ c.slot[s] = "FREE"
      BY <2>3
    <2> DEFINE d == [c EXCEPT !.slot[s] = "PENDING_FLIP", !.wire = Append(@, s),
                              !.dirty = FALSE, !.awaiting = TRUE]
    <2>5. RingPresent(c) = d
      BY <1>3, <2>1 DEF RingPresent
    <2> HIDE DEF s
    <2>6. Append(c.wire, s) \in Seq(Shown \cup {Cursor})
      <3>1. c.wire \in Seq(Shown \cup {Cursor}) /\ s \in Shown \cup {Cursor}
        BY <1>0, <2>4, CoreFields DEF Shown
      <3> QED BY <3>1, AppendToSet
    <2>7. [c.slot EXCEPT ![s] = "PENDING_FLIP"]
             \in [Slots -> {"FREE", "PENDING_FLIP", "SCANOUT"}]
      BY <1>1
    <2>8. /\ d \in Cores
          /\ d.slot = [c.slot EXCEPT ![s] = "PENDING_FLIP"] /\ d.wire = Append(c.wire, s)
          /\ d.paused = c.paused /\ d.ctrl = c.ctrl /\ d.todo = c.todo
          /\ d.flipPending = c.flipPending
      BY <1>0, <2>6, <2>7 DEF Cores
    <2> HIDE DEF d
    <2>9. Good(d, g, None)
      BY <1>3, <2>4, <2>8, RingGood
    <2> QED BY <2>5, <2>9
  <1> QED BY <1>2, <1>3

LEMMA ClientPresentGood ==
  ASSUME NEW c, NEW g, Safe(c, g, None), c.current \in Bufs
  PROVE  Good(ClientPresent(c), g, None)
  <1>0. c \in Cores
    BY DEF Safe
  <1> DEFINE d == ClientPresent(c)
             x == c.current
  <1>1. Append(c.wire, x) \in Seq(Shown \cup {Cursor}) /\ c.held \cup {x} \in SUBSET Bufs
    <2>1. c.wire \in Seq(Shown \cup {Cursor}) /\ x \in Shown \cup {Cursor}
      BY <1>0, CoreFields DEF Shown
    <2>2. c.held \in SUBSET Bufs
      BY <1>0, CoreFields
    <2> QED BY <2>1, <2>2, AppendToSet
  <1>2. /\ d \in Cores /\ d.slot = c.slot /\ d.wire = Append(c.wire, x)
        /\ d.paused = c.paused /\ d.ctrl = c.ctrl /\ d.todo = c.todo
    BY <1>0, <1>1 DEF Cores, ClientPresent
  <1> HIDE DEF d
  <1>3. x \in Bufs \cup {Cursor} /\ x \in Bufs
    OBVIOUS
  <1> HIDE DEF x
  <1>4. Safe(d, g, None) /\ x \in Under(d, g, None)
    BY <1>2, <1>3, OtherSafe
  <1>5. Awake(d, g, None)
    BY <1>3, <1>4 DEF Awake, Coming
  <1> QED BY <1>4, <1>5 DEF Good, d

LEMMA RenderFrameGood ==
  ASSUME NEW c, NEW g, Safe(c, g, None), ~c.paused, Waiting(c, g, None),
         c.callback => c.dirty \/ c.awaiting
  PROVE  Good(RenderFrame(c), g, None)
  <1>0. c \in Cores
    BY DEF Safe
  <1>1. CASE ~c.dirty
    <2>1. RenderFrame(c) = c
      BY <1>1 DEF RenderFrame
    <2>2. Awake(c, g, None)
      BY <1>1 DEF Awake, Waiting
    <2> QED BY <2>1, <2>2 DEF Good
  <1>2. CASE c.dirty /\ ~Candidate(c)
    <2> DEFINE d == [c EXCEPT !.active = None]
    <2>1. RenderFrame(c) = RingPresent(d)
      BY <1>2 DEF RenderFrame
    <2>2. /\ d \in Cores /\ d.slot = c.slot /\ d.wire = c.wire /\ d.paused = c.paused
          /\ d.ctrl = c.ctrl /\ d.todo = c.todo /\ d.flipPending = c.flipPending
      BY <1>0 DEF Cores
    <2> HIDE DEF d
    <2>3. Safe(d, g, None)
      BY <2>2, CoreKeeps
    <2>4. Good(RingPresent(d), g, None)
      BY <2>2, <2>3, RingPresentGood
    <2> QED BY <2>1, <2>4
  <1>3. CASE c.dirty /\ Candidate(c) /\ c.flipPending
    <2>1. RenderFrame(c) = c
      BY <1>3 DEF RenderFrame
    <2>2. Awake(c, g, None)
      BY <1>3 DEF Awake, Waiting
    <2> QED BY <2>1, <2>2 DEF Good
  <1>4. CASE c.dirty /\ Candidate(c) /\ ~c.flipPending
    <2>1. RenderFrame(c) = ClientPresent(c)
      BY <1>4 DEF RenderFrame
    <2>2. c.current \in Bufs
      BY <1>0, <1>4, CoreFields DEF Candidate
    <2> QED BY <2>1, <2>2, ClientPresentGood
  <1> QED BY <1>1, <1>2, <1>3, <1>4

(* A frame leaves the core good. *)
LEMMA RunFrameGood ==
  ASSUME NEW c, NEW g, NEW others \in BOOLEAN, Safe(c, g, None), Waiting(c, g, None)
  PROVE  Good(RunFrame(c, others), g, None)
  <1>0. c \in Cores
    BY DEF Safe
  <1>1. CASE c.paused \/ (FlipInFlight(c) /\ ~others)
    <2>1. RunFrame(c, others) = c
      BY <1>1 DEF RunFrame
    <2>2. Awake(c, g, None)
      BY <1>1, FlipComes DEF Awake, Running
    <2> QED BY <2>1, <2>2 DEF Good
  <1>2. CASE ~(c.paused \/ (FlipInFlight(c) /\ ~others))
    <2> DEFINE e == c.dirty \/ (c.callback /\ ~c.awaiting)
               d == [c EXCEPT !.dirty = e]
    <2>1. RunFrame(c, others) = RenderFrame(d)
      BY <1>2 DEF RunFrame, NotifyFrame
    <2>2. e \in BOOLEAN
      OBVIOUS
    <2> HIDE DEF e
    <2>3. /\ d \in Cores /\ d.slot = c.slot /\ d.wire = c.wire /\ d.paused = c.paused
          /\ d.ctrl = c.ctrl /\ d.todo = c.todo /\ d.flipPending = c.flipPending
          /\ d.callback = c.callback /\ d.awaiting = c.awaiting /\ d.dirty = e
      BY <1>0, <2>2 DEF Cores
    <2> HIDE DEF d
    <2>4. /\ Safe(d, g, None)
          /\ Coming(d, g, None) <=> Coming(c, g, None)
          /\ Running(d, g) <=> Running(c, g)
      BY <2>3, CoreKeeps
    <2>5. Waiting(d, g, None)
      BY <2>3, <2>4 DEF Waiting, e
    <2>6. d.callback => d.dirty \/ d.awaiting
      BY <2>3 DEF e
    <2>7. ~d.paused
      BY <1>2, <2>3
    <2> QED BY <2>1, <2>4, <2>5, <2>6, <2>7, RenderFrameGood
  <1> QED BY <1>1, <1>2

(* What a pump of the clients' requests changes before it runs a frame. *)
LEMMA PumpGood ==
  ASSUME NEW c, NEW d \in Cores, NEW g, NEW others \in BOOLEAN, Good(c, g, None),
         d.slot = c.slot, d.wire = c.wire, d.paused = c.paused, d.ctrl = c.ctrl,
         d.todo = c.todo, d.flipPending => c.flipPending, d.awaiting => c.awaiting
  PROVE  Good(RunFrame(d, others), g, None)
  <1>1. /\ Safe(d, g, None)
        /\ Coming(d, g, None) <=> Coming(c, g, None)
        /\ Running(d, g) <=> Running(c, g)
    BY CoreKeeps DEF Good
  <1>2. Waiting(d, g, None)
    BY <1>1 DEF Waiting, Good, Awake
  <1> QED BY <1>1, <1>2, RunFrameGood

LEMMA FrameCompleteGood ==
  ASSUME NEW c, NEW g, NEW others \in BOOLEAN, Safe(c, g, None),
         Running(c, g) /\ c.flipPending => Coming(c, g, None)
  PROVE  Good(FrameComplete(c, others), g, None)
  <1> DEFINE d == [c EXCEPT !.awaiting = FALSE, !.callback = FALSE]
  <1>0. c \in Cores
    BY DEF Safe
  <1>1. FrameComplete(c, others) = RunFrame(d, others)
    BY DEF FrameComplete
  <1>2. /\ d \in Cores /\ d.slot = c.slot /\ d.wire = c.wire /\ d.paused = c.paused
        /\ d.ctrl = c.ctrl /\ d.todo = c.todo /\ d.flipPending = c.flipPending
        /\ d.awaiting = FALSE
    BY <1>0 DEF Cores
  <1> HIDE DEF d
  <1>3. /\ Safe(d, g, None)
        /\ Coming(d, g, None) <=> Coming(c, g, None)
        /\ Running(d, g) <=> Running(c, g)
    BY <1>2, CoreKeeps
  <1>4. Waiting(d, g, None)
    BY <1>2, <1>3 DEF Waiting
  <1> QED BY <1>1, <1>3, <1>4, RunFrameGood

-----------------------------------------------------------------------------
(* The GPU process. *)

(* What it has to show the core for Safe and Awake, besides the places the *)
(* presents are in: k is what it now has in its hands, f its new record.   *)
LEMMA GpuSafe ==
  ASSUME NEW c, NEW g, NEW h, NEW f \in Gpus, NEW k, Safe(c, g, h),
         Single(c, f, k),
         ~c.paused => Flying(c, f, k) \subseteq Flying(c, g, h),
         ~c.paused => Flying(c, g, h) \subseteq Flying(c, f, k) \cup f.lost,
         g.lost \subseteq f.lost,
         OnScreen(c, f), Seat(c, f), Gated(c, f, k),
         \A m \in ToSet(f.wire) : m \in ToSet(g.wire) \/ (m.kind = "reject" => m.retired \in Bufs)
  PROVE  Safe(c, f, k)
  <1>0. /\ c \in Cores /\ Unique(c) /\ Marked(c, g, h) /\ Seat(c, g) /\ Named(c, g)
    BY DEF Safe
  <1>1. Marked(c, f, k)
    <2>1. CASE c.paused
      BY <1>0, <2>1 DEF Marked, Seat
    <2>2. CASE ~c.paused
      BY <1>0, <2>2 DEF Marked
    <2> QED BY <2>1, <2>2
  <1>2. Named(c, f)
    BY <1>0 DEF Named, Unread
  <1> QED BY <1>0, <1>1, <1>2 DEF Safe

(* The GPU process sends a reply. *)
LEMMA Sent ==
  ASSUME NEW c, NEW g \in Gpus, NEW m \in Replies, NEW f, f.wire = Append(g.wire, m)
  PROVE  /\ f.wire \in Seq(Replies) /\ ToSet(f.wire) = ToSet(g.wire) \cup {m}
         /\ m \in Unread(c, f) /\ Unread(c, g) \subseteq Unread(c, f)
  <1>1. g.wire \in Seq(Replies)
    BY GpuFields
  <1>2. f.wire \in Seq(Replies) /\ ToSet(f.wire) = ToSet(g.wire) \cup {m}
    BY <1>1, AppendToSet
  <1> QED BY <1>2 DEF Unread

(* Gated is about the client's buffers only. *)
LEMMA GatedStays ==
  ASSUME NEW c, NEW g, NEW h, NEW f, NEW k, Gated(c, g, h),
         \A b \in Bufs :
           b \in Under(c, g, h) => \/ b \in Under(c, f, k) \cup f.lost
                                   \/ \E m \in Unread(c, f) : b \in {m.latched, m.retired},
         g.lost \subseteq f.lost, Unread(c, g) \subseteq Unread(c, f)
  PROVE  Gated(c, f, k)
  <1> SUFFICES ASSUME c.flipPending, ~c.paused
               PROVE  \E b \in Bufs :
                        \/ b \in Under(c, f, k) \cup f.lost
                        \/ \E m \in Unread(c, f) : b \in {m.latched, m.retired}
    BY DEF Gated
  <1>1. PICK b \in Bufs : \/ b \in Under(c, g, h) \cup g.lost
                          \/ \E m \in Unread(c, g) : b \in {m.latched, m.retired}
    BY DEF Gated
  <1> QED BY <1>1

(* A commit that shows a slot of the ring takes effect. *)
LEMMA SlotLatched ==
  ASSUME NEW c, NEW g, NEW x \in Slots, Safe(c, g, x), ~g.paused,
         NEW f \in Gpus, f.ctrl = Append(g.ctrl, x), f.ring = x, f.pending = g.pending,
         f.stash = g.stash, f.paused = g.paused, f.lost = g.lost,
         f.wire = g.wire \/ \E b \in Bufs : f.wire = Append(g.wire, ClientFlip(None, b))
  PROVE  Good(c, f, None)
  <1>0. /\ c \in Cores /\ g \in Gpus /\ Single(c, g, x) /\ OnScreen(c, g) /\ Seat(c, g)
        /\ Gated(c, g, x)
    BY DEF Safe
  <1>1. /\ g.ctrl = <<>> /\ g.pending \notin Slots /\ g.stash \notin Slots
        /\ ToSet(c.wire) \cap Slots = {} /\ None \notin Slots
    BY <1>0, ScanoutAssumption DEF Single
  <1>2. f.ctrl = <<x>>
    BY <1>1
  <1>3. ToSet(f.ctrl) = {x} /\ f.ctrl # <<>> /\ ToSet(g.ctrl) = {}
    BY <1>1, <1>2, OneToSet, EmptyToSet
  <1>4. Single(c, f, None)
    BY <1>0, <1>1, <1>2 DEF Single
  <1>5. Flying(c, f, None) = Flying(c, g, x)
    <2>1. Under(c, f, None) \cap Slots = {}
      BY <1>1 DEF Under
    <2>2. Under(c, g, x) \cap Slots = {x}
      BY <1>1 DEF Under, Shown
    <2> QED BY <1>3, <2>1, <2>2 DEF Flying
  <1>6. OnScreen(c, f)
    BY <1>2, <1>3 DEF OnScreen
  <1>7. Seat(c, f)
    BY <1>0 DEF Seat
  <1>8. /\ Unread(c, g) \subseteq Unread(c, f)
        /\ \A m \in ToSet(f.wire) : m \in ToSet(g.wire) \/ m.kind # "reject"
    <2>1. CASE f.wire = g.wire
      BY <2>1 DEF Unread
    <2>2. ASSUME NEW b \in Bufs, f.wire = Append(g.wire, ClientFlip(None, b))
          PROVE  /\ Unread(c, g) \subseteq Unread(c, f)
                 /\ \A m \in ToSet(f.wire) : m \in ToSet(g.wire) \/ m.kind # "reject"
      <3> DEFINE m == ClientFlip(None, b)
      <3>0. None \in Bufs \cup {None} /\ b \in Bufs \cup {None}
        OBVIOUS
      <3>1. m \in Replies /\ m.kind # "reject"
        BY ONLY <3>0, FlipReply
      <3> HIDE DEF m
      <3>2. f.wire = Append(g.wire, m)
        BY <2>2 DEF m
      <3>3. ToSet(f.wire) = ToSet(g.wire) \cup {m} /\ Unread(c, g) \subseteq Unread(c, f)
        BY <1>0, <3>1, <3>2, Sent
      <3> QED BY <3>1, <3>3
    <2> QED BY <2>1, <2>2
  <1>9. Gated(c, f, None)
    <2>1. \A b \in Bufs : b \in Under(c, g, x) => b \in Under(c, f, None)
      BY Distinct DEF Under
    <2> QED BY <1>0, <1>8, <2>1, GatedStays
  <1>10. Safe(c, f, None)
    BY <1>4, <1>5, <1>6, <1>7, <1>8, <1>9, GpuSafe
  <1>11. Awake(c, f, None)
    BY <1>3 DEF Awake, Coming
  <1> QED BY <1>10, <1>11 DEF Good

(* A commit that shows a client's buffer takes effect. *)
LEMMA BufferLatched ==
  ASSUME NEW c, NEW g, NEW x \in Bufs, Safe(c, g, x), ~g.paused,
         NEW f \in Gpus, f.ctrl = g.ctrl, f.ring = g.ring, f.pending = g.pending,
         f.stash = g.stash, f.paused = g.paused, f.lost = g.lost,
         NEW r \in Bufs \cup {None}, f.wire = Append(g.wire, ClientFlip(x, r))
  PROVE  Good(c, f, None)
  <1>0. /\ c \in Cores /\ g \in Gpus /\ Single(c, g, x) /\ OnScreen(c, g) /\ Seat(c, g)
        /\ Gated(c, g, x)
    BY DEF Safe
  <1>1. x \notin Slots /\ None \notin Slots /\ x # None /\ None \notin Shown
    BY Distinct, ScanoutAssumption
  <1> DEFINE m == ClientFlip(x, r)
  <1>2. m \in Replies /\ m.kind # "reject" /\ m.latched = x
    BY FlipReply
  <1> HIDE DEF m
  <1>3. /\ ToSet(f.wire) = ToSet(g.wire) \cup {m}
        /\ m \in Unread(c, f) /\ Unread(c, g) \subseteq Unread(c, f)
    BY <1>0, <1>2, Sent DEF m
  <1>4. Single(c, f, None)
    BY <1>0, <1>1 DEF Single
  <1>5. Flying(c, f, None) = Flying(c, g, x)
    BY <1>1 DEF Flying, Under
  <1>6. OnScreen(c, f)
    BY <1>0 DEF OnScreen
  <1>7. Seat(c, f)
    BY <1>0 DEF Seat
  <1>8. Gated(c, f, None)
    BY <1>2, <1>3 DEF Gated
  <1>9. Safe(c, f, None)
    BY <1>2, <1>3, <1>4, <1>5, <1>6, <1>7, <1>8, GpuSafe
  <1>10. Awake(c, f, None)
    BY <1>1, <1>2, <1>3 DEF Awake, Coming
  <1> QED BY <1>9, <1>10 DEF Good

(* noteLatch and its caller. *)
LEMMA LatchedGood ==
  ASSUME NEW c, NEW g, NEW x \in Shown, Safe(c, g, x), ~g.paused
  PROVE  /\ Good(c, Latched(g, x), None)
         /\ Latched(g, x) \in Gpus /\ Latched(g, x).paused = g.paused
         /\ Latched(g, x).pending = g.pending /\ Latched(g, x).stash = g.stash
  <1>0. g \in Gpus
    BY DEF Safe
  <1>1. /\ g.latched \in Bufs \cup {None} /\ g.wire \in Seq(Replies) /\ g.ctrl \in Seq(Slots)
    BY <1>0, GpuFields
  <1> DEFINE f == Latched(g, x)
  <1>2. CASE x \in Slots
    <2> DEFINE w == IF g.latched = None THEN g.wire
                    ELSE Append(g.wire, ClientFlip(None, g.latched))
               q == Append(g.ctrl, x)
    <2>1. f = [g EXCEPT !.ctrl = q, !.ring = x, !.latched = None, !.wire = w]
      BY <1>0, <1>2 DEF Latched, NoteLatch, Gpus
    <2>2. q \in Seq(Slots)
      BY <1>1, <1>2, AppendToSet
    <2>3. w \in Seq(Replies)
      BY <1>1, FlipReply, AppendToSet
    <2>4. w = g.wire \/ \E b \in Bufs : w = Append(g.wire, ClientFlip(None, b))
      BY <1>1
    <2> HIDE DEF w, q
    <2>5. /\ f \in Gpus /\ f.ctrl = q /\ f.ring = x /\ f.pending = g.pending
          /\ f.stash = g.stash /\ f.paused = g.paused /\ f.lost = g.lost /\ f.wire = w
      BY <1>0, <1>2, <2>1, <2>2, <2>3 DEF Gpus
    <2> HIDE DEF f
    <2>6. Good(c, f, None)
      BY <1>2, <2>4, <2>5, SlotLatched DEF q
    <2> QED BY <2>5, <2>6 DEF f
  <1>3. CASE x \notin Slots
    <2>1. x \in Bufs /\ x # None
      BY <1>3, Distinct DEF Shown
    <2> DEFINE r == IF g.latched # x THEN g.latched ELSE None
               w == Append(g.wire, ClientFlip(x, r))
    <2>2. r \in Bufs \cup {None}
      BY <1>1
    <2>3. f = [g EXCEPT !.latched = x, !.wire = w]
      BY <1>3, <2>1 DEF Latched, NoteLatch
    <2> HIDE DEF r
    <2>4. w \in Seq(Replies)
      BY <1>1, <2>1, <2>2, FlipReply, AppendToSet
    <2> HIDE DEF w
    <2>5. /\ f \in Gpus /\ f.ctrl = g.ctrl /\ f.ring = g.ring /\ f.pending = g.pending
          /\ f.stash = g.stash /\ f.paused = g.paused /\ f.lost = g.lost /\ f.wire = w
      BY <1>0, <2>1, <2>3, <2>4 DEF Gpus
    <2> HIDE DEF f
    <2>6. Good(c, f, None)
      BY <2>1, <2>2, <2>5, BufferLatched DEF w
    <2> QED BY <2>5, <2>6 DEF f
  <1> QED BY <1>2, <1>3

(* A present put in the stash, over another perhaps. *)
LEMMA StashGood ==
  ASSUME NEW c, NEW g, NEW x \in Shown, Safe(c, g, x), ~g.paused,
         g.pending \in Bufs \cup {Cursor} \/ (x \in Bufs /\ g.pending \in Slots)
  PROVE  Good(c, Stashed(g, x), None) /\ Behind(Stashed(g, x))
  <1>0. /\ c \in Cores /\ g \in Gpus /\ Single(c, g, x) /\ OnScreen(c, g) /\ Seat(c, g)
        /\ Gated(c, g, x)
    BY DEF Safe
  <1>1. /\ g.stash \in Shown \cup {None} /\ g.wire \in Seq(Replies) /\ g.lost \in SUBSET Shown
        /\ g.pending \in Shown \cup {Cursor, None}
    BY <1>0, GpuFields
  <1>2. None \notin Shown /\ Slots \subseteq Shown /\ Bufs \subseteq Shown /\ Bufs \cap Slots = {}
        /\ Cursor \notin Slots /\ None \notin Bufs /\ Cursor # None
    BY Distinct, ScanoutAssumption DEF Shown
  <1> DEFINE f == Stashed(g, x)
             w == IF g.stash \in Bufs THEN Append(g.wire, ClientFlip(None, g.stash))
                  ELSE g.wire
             l == IF g.stash \in Slots THEN g.lost \cup {g.stash} ELSE g.lost
  <1>3. l \in SUBSET Shown
    BY <1>1, <1>2
  <1>4. w \in Seq(Replies)
    BY <1>1, FlipReply, AppendToSet
  <1>5. f = [g EXCEPT !.stash = x, !.wire = w, !.lost = l]
    BY DEF Stashed
  <1>6. /\ \A m \in ToSet(w) : m \in ToSet(g.wire) \/ m.kind # "reject"
        /\ ToSet(g.wire) \subseteq ToSet(w)
        /\ g.stash \in Bufs => \E m \in ToSet(w) : m.retired = g.stash
    <2>1. CASE g.stash \notin Bufs
      BY <2>1
    <2>2. CASE g.stash \in Bufs
      <3> DEFINE m == ClientFlip(None, g.stash)
      <3>0. w = Append(g.wire, m)
        BY <2>2
      <3> HIDE DEF w
      <3>1. m \in Replies /\ m.kind # "reject" /\ m.retired = g.stash
        BY <2>2, FlipReply
      <3> HIDE DEF m
      <3>2. ToSet(w) = ToSet(g.wire) \cup {m}
        BY <1>1, <3>0, <3>1, AppendToSet
      <3> QED BY <3>1, <3>2
    <2> QED BY <2>1, <2>2
  <1>7. g.lost \subseteq l /\ (g.stash \in Slots => g.stash \in l)
    OBVIOUS
  <1> HIDE DEF w, l
  <1>8. /\ f \in Gpus /\ f.stash = x /\ f.wire = w /\ f.lost = l /\ f.ctrl = g.ctrl
        /\ f.pending = g.pending /\ f.paused = g.paused /\ f.ring = g.ring
    BY <1>0, <1>3, <1>4, <1>5 DEF Gpus
  <1> HIDE DEF f
  <1>9. Single(c, f, None)
    BY <1>0, <1>2, <1>8 DEF Single
  <1>10. /\ Under(c, f, None) \subseteq Under(c, g, x)
         /\ Under(c, g, x) \subseteq Under(c, f, None) \cup {g.stash}
         /\ x \in Under(c, f, None)
    BY <1>2, <1>8 DEF Under
  <1>11. /\ Flying(c, f, None) \subseteq Flying(c, g, x)
         /\ Flying(c, g, x) \subseteq Flying(c, f, None) \cup f.lost
    BY <1>7, <1>8, <1>10 DEF Flying
  <1>12. OnScreen(c, f)
    BY <1>0, <1>8 DEF OnScreen
  <1>13. Seat(c, f)
    BY <1>0, <1>8 DEF Seat
  <1>14. Unread(c, g) \subseteq Unread(c, f)
    BY <1>6, <1>8 DEF Unread
  <1>15. Gated(c, f, None)
    <2>1. ASSUME NEW b \in Bufs, b \in Under(c, g, x)
          PROVE  \/ b \in Under(c, f, None) \cup f.lost
                 \/ \E m \in Unread(c, f) : b \in {m.latched, m.retired}
      <3>1. CASE b \in Under(c, f, None)
        BY <3>1
      <3>2. CASE b = g.stash
        <4>1. PICK m \in ToSet(w) : m.retired = b
          BY <1>6, <3>2
        <4>2. m \in Unread(c, f)
          BY <1>8, <4>1 DEF Unread
        <4> QED BY <4>1, <4>2
      <3> QED BY <1>10, <2>1, <3>1, <3>2
    <2> QED BY <1>0, <1>7, <1>8, <1>14, <2>1, GatedStays
  <1>16. Safe(c, f, None)
    BY <1>6, <1>7, <1>8, <1>9, <1>11, <1>12, <1>13, <1>15, GpuSafe
  <1>17. Awake(c, f, None)
    BY <1>10 DEF Awake, Coming
  <1>18. Behind(f)
    BY <1>2, <1>8 DEF Behind
  <1> QED BY <1>16, <1>17, <1>18 DEF Good, f

(* A present the kernel refuses. *)
LEMMA RefuseGood ==
  ASSUME NEW c, NEW g, NEW x \in Shown, NEW fresh \in BOOLEAN, Safe(c, g, x), ~g.paused
  PROVE  /\ Good(c, Refused(g, x, fresh), None)
         /\ Behind(g) => Behind(Refused(g, x, fresh))
  <1>0. /\ c \in Cores /\ g \in Gpus /\ Single(c, g, x) /\ OnScreen(c, g) /\ Seat(c, g)
        /\ Gated(c, g, x)
    BY DEF Safe
  <1>1. /\ g.wire \in Seq(Replies) /\ g.lost \in SUBSET Shown
    BY <1>0, GpuFields
  <1>2. None \notin Shown /\ Slots \subseteq Shown /\ Bufs \subseteq Shown /\ Bufs \cap Slots = {}
    BY Distinct, ScanoutAssumption DEF Shown
  <1> DEFINE f == Refused(g, x, fresh)
             l == g.lost \cup {x}
             w == Append(g.wire, Reject(x))
  <1>3. CASE fresh /\ x \in Bufs
    <2> DEFINE m == Reject(x)
    <2>1. m \in Replies /\ m.kind = "reject" /\ m.retired = x
      BY <1>3, RejectReply
    <2>2. f = [g EXCEPT !.wire = w]
      BY <1>3 DEF Refused
    <2> HIDE DEF m
    <2>3. w \in Seq(Replies) /\ ToSet(w) = ToSet(g.wire) \cup {m}
      BY <1>1, <2>1, AppendToSet DEF m
    <2> HIDE DEF w
    <2>4. /\ f \in Gpus /\ f.stash = g.stash /\ f.wire = w /\ f.lost = g.lost
          /\ f.ctrl = g.ctrl /\ f.pending = g.pending /\ f.paused = g.paused /\ f.ring = g.ring
          /\ f.latched = g.latched
      BY <1>0, <2>2, <2>3 DEF Gpus
    <2> HIDE DEF f
    <2>5. Single(c, f, None)
      BY <1>0, <1>2, <2>4 DEF Single
    <2>6. Flying(c, f, None) = Flying(c, g, x)
      BY <1>2, <1>3, <2>4 DEF Flying, Under
    <2>7. OnScreen(c, f) /\ Seat(c, f)
      BY <1>0, <2>4 DEF OnScreen, Seat
    <2>8. m \in Unread(c, f)
      BY <2>3, <2>4 DEF Unread
    <2>9. Gated(c, f, None)
      BY <1>3, <2>1, <2>8 DEF Gated
    <2>10. Safe(c, f, None)
      BY <1>3, <2>1, <2>3, <2>4, <2>5, <2>6, <2>7, <2>9, GpuSafe
    <2>11. Awake(c, f, None)
      BY <2>1, <2>8 DEF Awake, Coming
    <2>12. Behind(g) => Behind(f)
      BY <2>4 DEF Behind
    <2> QED BY <2>10, <2>11, <2>12 DEF Good, f
  <1>4. CASE ~(fresh /\ x \in Bufs)
    <2>1. f = [g EXCEPT !.lost = l]
      BY <1>4 DEF Refused
    <2>2. l \in SUBSET Shown /\ x \in l /\ g.lost \subseteq l
      BY <1>1
    <2> HIDE DEF l
    <2>3. /\ f \in Gpus /\ f.stash = g.stash /\ f.wire = g.wire /\ f.lost = l
          /\ f.ctrl = g.ctrl /\ f.pending = g.pending /\ f.paused = g.paused /\ f.ring = g.ring
          /\ f.latched = g.latched
      BY <1>0, <2>1, <2>2 DEF Gpus
    <2> HIDE DEF f
    <2>4. Single(c, f, None)
      BY <1>0, <1>2, <2>3 DEF Single
    <2>5. /\ Under(c, f, None) \subseteq Under(c, g, x)
          /\ Under(c, g, x) \subseteq Under(c, f, None) \cup {x}
      BY <1>2, <2>3 DEF Under
    <2>6. /\ Flying(c, f, None) \subseteq Flying(c, g, x)
          /\ Flying(c, g, x) \subseteq Flying(c, f, None) \cup f.lost
      BY <2>2, <2>3, <2>5 DEF Flying
    <2>7. OnScreen(c, f) /\ Seat(c, f)
      BY <1>0, <2>3 DEF OnScreen, Seat
    <2>8. Unread(c, g) \subseteq Unread(c, f)
      BY <2>3 DEF Unread
    <2>9. Gated(c, f, None)
      BY <1>0, <2>2, <2>3, <2>5, <2>8, GatedStays
    <2>10. Safe(c, f, None)
      BY <2>2, <2>3, <2>4, <2>6, <2>7, <2>9, GpuSafe
    <2>11. Awake(c, f, None)
      BY <2>2, <2>3 DEF Awake, Running
    <2>12. Behind(g) => Behind(f)
      BY <2>3 DEF Behind
    <2> QED BY <2>10, <2>11, <2>12 DEF Good, f
  <1> QED BY <1>3, <1>4

(* A record of the GPU process that differs in what no property looks at. *)
LEMMA GpuKeeps ==
  ASSUME NEW c, NEW g, NEW h, NEW f \in Gpus, Safe(c, g, h),
         f.paused = g.paused, f.pending = g.pending, f.stash = g.stash,
         f.latched = g.latched, f.ring = g.ring, f.wire = g.wire, f.ctrl = g.ctrl,
         f.lost = g.lost, f.overtaken = g.overtaken
  PROVE  Safe(c, f, h) /\ (Awake(c, g, h) => Awake(c, f, h))
  <1>0. /\ c \in Cores /\ Unique(c) /\ g \in Gpus
        /\ Single(c, g, h) /\ Marked(c, g, h) /\ OnScreen(c, g) /\ Seat(c, g)
        /\ Gated(c, g, h) /\ Named(c, g)
    BY DEF Safe
  <1>1. Under(c, f, h) = Under(c, g, h) /\ Unread(c, f) = Unread(c, g)
    BY DEF Under, Unread
  <1>2. Flying(c, f, h) = Flying(c, g, h)
    BY <1>1 DEF Flying
  <1>3. Single(c, f, h)
    BY <1>0 DEF Single
  <1>4. Marked(c, f, h)
    BY <1>0, <1>2 DEF Marked
  <1>5. OnScreen(c, f) /\ Seat(c, f)
    BY <1>0 DEF OnScreen, Seat
  <1>6. Gated(c, f, h) /\ Named(c, f)
    BY <1>0, <1>1 DEF Gated, Named
  <1>7. Awake(c, g, h) => Awake(c, f, h)
    BY <1>1 DEF Awake, Running, Coming
  <1> QED BY <1>0, <1>3, <1>4, <1>5, <1>6, <1>7 DEF Safe

(* A commit the kernel takes. *)
LEMMA CommitGood ==
  ASSUME NEW c, NEW g, NEW x \in Shown, Good(c, g, x), ~g.paused, g.pending = None
  PROVE  /\ Good(c, Committed(g, x), None)
         /\ Behind(g) => Behind(Committed(g, x))
  <1>0. /\ c \in Cores /\ g \in Gpus /\ Safe(c, g, x) /\ Awake(c, g, x)
    BY DEF Good, Safe
  <1>1. None \notin Shown /\ None \notin Slots
    BY Distinct, ScanoutAssumption
  <1> DEFINE d == [g EXCEPT !.cursorDue = FALSE, !.modeset = TRUE]
             f == [g EXCEPT !.cursorDue = FALSE, !.modeset = TRUE, !.pending = x]
  <1>2. CASE ~g.modeset
    <2>1. Committed(g, x) = Latched(d, x)
      BY <1>2 DEF Committed
    <2>2. /\ d \in Gpus /\ d.paused = g.paused /\ d.pending = g.pending /\ d.stash = g.stash
          /\ d.latched = g.latched /\ d.ring = g.ring /\ d.wire = g.wire /\ d.ctrl = g.ctrl
          /\ d.lost = g.lost /\ d.overtaken = g.overtaken
      BY <1>0 DEF Gpus
    <2> HIDE DEF d
    <2>3. Safe(c, d, x)
      BY <1>0, <2>2, GpuKeeps
    <2>4. /\ Good(c, Latched(d, x), None)
          /\ Latched(d, x).pending = d.pending /\ Latched(d, x).stash = d.stash
      BY <2>2, <2>3, LatchedGood
    <2>5. Behind(g) => Behind(Latched(d, x))
      BY <2>2, <2>4 DEF Behind
    <2> QED BY <2>1, <2>4, <2>5
  <1>3. CASE g.modeset
    <2>1. Committed(g, x) = f
      BY <1>0, <1>3 DEF Committed, Gpus
    <2>2. /\ f \in Gpus /\ f.paused = g.paused /\ f.pending = x /\ f.stash = g.stash
          /\ f.latched = g.latched /\ f.ring = g.ring /\ f.wire = g.wire /\ f.ctrl = g.ctrl
          /\ f.lost = g.lost /\ f.overtaken = g.overtaken
      BY <1>0 DEF Gpus
    <2> HIDE DEF f
    <2>3. /\ Single(c, g, x) /\ OnScreen(c, g) /\ Seat(c, g) /\ Gated(c, g, x)
      BY <1>0 DEF Safe
    <2>4. Single(c, f, None)
      BY <1>1, <2>2, <2>3 DEF Single
    <2>5. Under(c, f, None) = Under(c, g, x) /\ Unread(c, f) = Unread(c, g)
      BY <1>1, <2>2 DEF Under, Unread
    <2>6. Flying(c, f, None) = Flying(c, g, x)
      BY <2>2, <2>5 DEF Flying
    <2>7. OnScreen(c, f) /\ Seat(c, f)
      BY <2>2, <2>3 DEF OnScreen, Seat
    <2>8. Gated(c, f, None)
      BY <2>2, <2>3, <2>5 DEF Gated
    <2>9. Safe(c, f, None)
      BY <1>0, <2>2, <2>4, <2>6, <2>7, <2>8, GpuSafe
    <2>10. Awake(c, f, None)
      BY <1>0, <2>2, <2>5 DEF Awake, Running, Coming
    <2>11. Behind(f)
      BY <1>1, <2>2 DEF Behind
    <2> QED BY <2>1, <2>9, <2>10, <2>11 DEF Good
  <1> QED BY <1>2, <1>3

(* Nothing comes of a present while the GPU process is paused, and the     *)
(* core is then too.                                                       *)
LEMMA DropGood ==
  ASSUME NEW c, NEW g, NEW x, Safe(c, g, x), c.paused
  PROVE  Good(c, g, None)
  <1>0. /\ c \in Cores /\ g \in Gpus /\ Single(c, g, x) /\ Seat(c, g)
    BY DEF Safe
  <1>1. Single(c, g, None)
    BY <1>0, ScanoutAssumption DEF Single
  <1>2. OnScreen(c, g) /\ Gated(c, g, None)
    BY DEF OnScreen, Gated
  <1>3. Safe(c, g, None)
    BY <1>0, <1>1, <1>2, GpuSafe
  <1>4. Awake(c, g, None)
    BY DEF Awake, Running
  <1> QED BY <1>3, <1>4 DEF Good

(* presentOutputImpl. *)
LEMMA PresentGood ==
  ASSUME NEW c, NEW g, NEW x \in Shown, NEW refused \in BOOLEAN, NEW fresh \in BOOLEAN,
         Good(c, g, x), g.paused => c.paused
  PROVE  /\ Good(c, Present(g, x, refused, fresh), None)
         /\ Behind(g) => Behind(Present(g, x, refused, fresh))
  <1> DEFINE f == Present(g, x, refused, fresh)
             waits == g.pending \in Bufs \cup {Cursor} \/ (x \in Bufs /\ g.pending \in Slots)
  <1>0. Safe(c, g, x)
    BY DEF Good
  <1>1. CASE g.paused
    <2>1. f = g
      BY <1>1 DEF Present
    <2> QED BY <1>0, <1>1, <2>1, DropGood
  <1>2. CASE ~g.paused /\ waits
    <2>1. f = Stashed(g, x)
      BY <1>2 DEF Present
    <2> QED BY <1>0, <1>2, <2>1, StashGood
  <1>3. CASE ~g.paused /\ ~waits /\ (refused \/ g.pending # None)
    <2>1. f = Refused(g, x, fresh)
      BY <1>3 DEF Present
    <2> QED BY <1>0, <1>3, <2>1, RefuseGood
  <1>4. CASE ~g.paused /\ ~waits /\ ~(refused \/ g.pending # None)
    <2>1. f = Committed(g, x) /\ g.pending = None
      BY <1>4 DEF Present
    <2> QED BY <1>4, <2>1, CommitGood
  <1> QED BY <1>1, <1>2, <1>3, <1>4

(* replayStashedPresent, once the kernel has nothing queued. *)
LEMMA ReplayGood ==
  ASSUME NEW c, NEW g, NEW refused \in BOOLEAN, Good(c, g, None), ~g.paused, g.pending = None
  PROVE  /\ Good(c, Replayed(g, refused), None) /\ Behind(Replayed(g, refused))
  <1>0. /\ c \in Cores /\ g \in Gpus /\ Safe(c, g, None) /\ Awake(c, g, None)
    BY DEF Good, Safe
  <1>1. None \notin Shown /\ None \notin Slots
    BY Distinct, ScanoutAssumption
  <1>2. CASE g.stash = None
    <2>1. Replayed(g, refused) = g
      BY <1>2 DEF Replayed
    <2> QED BY <1>2, <2>1 DEF Behind
  <1>3. CASE g.stash # None
    <2> DEFINE f == [g EXCEPT !.stash = None]
               x == g.stash
    <2>1. Replayed(g, refused) = Present(f, x, refused, FALSE)
      BY <1>3 DEF Replayed
    <2>2. /\ f \in Gpus /\ f.paused = g.paused /\ f.pending = g.pending /\ f.stash = None
          /\ f.latched = g.latched /\ f.ring = g.ring /\ f.wire = g.wire /\ f.ctrl = g.ctrl
          /\ f.lost = g.lost /\ f.overtaken = g.overtaken
      BY <1>0 DEF Gpus
    <2> HIDE DEF f
    <2>3. x \in Shown /\ x = g.stash
      BY <1>0, <1>3, GpuFields
    <2> HIDE DEF x
    <2>4. /\ Single(c, g, None) /\ OnScreen(c, g) /\ Seat(c, g) /\ Gated(c, g, None)
      BY <1>0 DEF Safe
    <2>5. Single(c, f, x)
      BY <1>1, <2>2, <2>3, <2>4 DEF Single
    <2>6. Under(c, f, x) = Under(c, g, None) /\ Unread(c, f) = Unread(c, g)
      BY <1>1, <2>2, <2>3 DEF Under, Unread
    <2>7. Flying(c, f, x) = Flying(c, g, None)
      BY <2>2, <2>6 DEF Flying
    <2>8. OnScreen(c, f) /\ Seat(c, f)
      BY <2>2, <2>4 DEF OnScreen, Seat
    <2>9. Gated(c, f, x)
      BY <2>2, <2>4, <2>6 DEF Gated
    <2>10. Safe(c, f, x)
      BY <1>0, <2>2, <2>5, <2>7, <2>8, <2>9, GpuSafe
    <2>11. Awake(c, f, x)
      BY <1>0, <2>2, <2>6 DEF Awake, Running, Coming
    <2>12. Behind(f) /\ ~f.paused
      BY <2>2 DEF Behind
    <2> QED BY <2>1, <2>3, <2>10, <2>11, <2>12, PresentGood DEF Good
  <1> QED BY <1>2, <1>3

(* maybeCursorCommit. *)
LEMMA CursorGood ==
  ASSUME NEW c, NEW g, NEW h \in {None, Cursor}, Good(c, g, h), Behind(g)
  PROVE  Good(c, CursorCommitted(g), None) /\ Behind(CursorCommitted(g))
  <1>0. /\ c \in Cores /\ g \in Gpus /\ Safe(c, g, h) /\ Awake(c, g, h)
    BY DEF Good, Safe
  <1>1. /\ None \notin Shown /\ None \notin Slots /\ Cursor \notin Shown
        /\ Cursor \notin Slots /\ Cursor # None
    BY Distinct, ScanoutAssumption
  <1> DEFINE f == CursorCommitted(g)
             e == [g EXCEPT !.pending = Cursor, !.cursorDue = FALSE]
  <1>2. /\ f \in Gpus /\ f.paused = g.paused /\ f.stash = g.stash
        /\ f.latched = g.latched /\ f.ring = g.ring /\ f.wire = g.wire /\ f.ctrl = g.ctrl
        /\ f.lost = g.lost /\ f.overtaken = g.overtaken
        /\ f.pending = g.pending \/ (g.pending = None /\ f.pending = Cursor /\ ~g.paused)
    <2>1. /\ e \in Gpus /\ e.paused = g.paused /\ e.stash = g.stash
          /\ e.latched = g.latched /\ e.ring = g.ring /\ e.wire = g.wire /\ e.ctrl = g.ctrl
          /\ e.lost = g.lost /\ e.overtaken = g.overtaken /\ e.pending = Cursor
      BY <1>0 DEF Gpus
    <2>2. f = g \/ (f = e /\ g.pending = None /\ ~g.paused)
      BY DEF CursorCommitted
    <2> HIDE DEF e, f
    <2> QED BY <1>0, <2>1, <2>2
  <1> HIDE DEF f
  <1>3. /\ Single(c, g, h) /\ OnScreen(c, g) /\ Seat(c, g) /\ Gated(c, g, h)
    BY <1>0 DEF Safe
  <1>4. Single(c, f, None)
    BY <1>1, <1>2, <1>3 DEF Single
  <1>5. Under(c, f, None) = Under(c, g, h) /\ Unread(c, f) = Unread(c, g)
    BY <1>1, <1>2 DEF Under, Unread
  <1>6. Flying(c, f, None) = Flying(c, g, h)
    BY <1>2, <1>5 DEF Flying
  <1>7. OnScreen(c, f) /\ Seat(c, f)
    BY <1>2, <1>3 DEF OnScreen, Seat
  <1>8. Gated(c, f, None)
    BY <1>2, <1>3, <1>5 DEF Gated
  <1>9. Safe(c, f, None)
    BY <1>0, <1>2, <1>4, <1>6, <1>7, <1>8, GpuSafe
  <1>10. Awake(c, f, None)
    BY <1>0, <1>2, <1>5 DEF Awake, Running, Coming
  <1>11. Behind(f)
    BY <1>1, <1>2 DEF Behind
  <1> QED BY <1>9, <1>10, <1>11 DEF Good, f

(* pageFlipTrampoline. *)
LEMMA PageFlipGood ==
  ASSUME NEW c, NEW g, NEW refused \in BOOLEAN, Good(c, g, None), Behind(g), g.pending # None
  PROVE  Good(c, PageFlipped(g, refused), None) /\ Behind(PageFlipped(g, refused))
  <1>0. /\ c \in Cores /\ g \in Gpus /\ Safe(c, g, None) /\ Awake(c, g, None)
    BY DEF Good, Safe
  <1>1. /\ None \notin Shown /\ None \notin Slots /\ Cursor \notin Shown
        /\ Cursor \notin Slots /\ Cursor # None
    BY Distinct, ScanoutAssumption
  <1>2. /\ Single(c, g, None) /\ OnScreen(c, g) /\ Seat(c, g) /\ Gated(c, g, None)
    BY <1>0 DEF Safe
  <1>3. ~g.paused
    BY <1>2 DEF Seat
  <1> DEFINE idle == [g EXCEPT !.pending = None]
             x == g.pending
             shown == IF g.pending = Cursor THEN idle ELSE Latched(idle, x)
  <1>4. /\ idle \in Gpus /\ idle.paused = g.paused /\ idle.pending = None
        /\ idle.stash = g.stash /\ idle.latched = g.latched /\ idle.ring = g.ring
        /\ idle.wire = g.wire /\ idle.ctrl = g.ctrl
        /\ idle.lost = g.lost /\ idle.overtaken = g.overtaken
    BY <1>0 DEF Gpus
  <1>5. PageFlipped(g, refused) = IF g.pending = Cursor /\ g.stash # None
                                  THEN Replayed(shown, refused)
                                  ELSE CursorCommitted(Replayed(shown, refused))
    BY DEF PageFlipped
  <1>6. x \in Shown \cup {Cursor} /\ x = g.pending
    BY <1>0, GpuFields
  <1> HIDE DEF idle, x
  <1>7. Good(c, idle, x)
    <2>1. Single(c, idle, x)
      BY <1>1, <1>2, <1>4, <1>6 DEF Single
    <2>2. Under(c, idle, x) = Under(c, g, None) /\ Unread(c, idle) = Unread(c, g)
      BY <1>1, <1>4, <1>6 DEF Under, Unread
    <2>3. Flying(c, idle, x) = Flying(c, g, None)
      BY <1>4, <2>2 DEF Flying
    <2>4. OnScreen(c, idle) /\ Seat(c, idle)
      BY <1>2, <1>4 DEF OnScreen, Seat
    <2>5. Gated(c, idle, x)
      BY <1>2, <1>4, <2>2 DEF Gated
    <2>6. Safe(c, idle, x)
      BY <1>0, <1>4, <2>1, <2>3, <2>4, <2>5, GpuSafe
    <2>7. Awake(c, idle, x)
      BY <1>0, <1>4, <2>2 DEF Awake, Running, Coming
    <2> QED BY <2>6, <2>7 DEF Good
  <1>8. Good(c, shown, None) /\ ~shown.paused /\ shown.pending = None
    <2>1. CASE x = Cursor
      <3>1. shown = idle
        BY <1>6, <2>1
      <3>2. Under(c, idle, None) = Under(c, idle, x)
        BY <1>1, <2>1 DEF Under
      <3>3. Flying(c, idle, None) = Flying(c, idle, x)
        BY <3>2 DEF Flying
      <3>4. /\ Safe(c, idle, x) /\ Single(c, idle, x) /\ OnScreen(c, idle) /\ Seat(c, idle)
            /\ Gated(c, idle, x) /\ Awake(c, idle, x)
        BY <1>7 DEF Good, Safe
      <3>5. Single(c, idle, None) /\ Gated(c, idle, None)
        BY <1>1, <3>2, <3>4 DEF Single, Gated
      <3>6. Safe(c, idle, None)
        BY <1>4, <3>3, <3>4, <3>5, GpuSafe
      <3>7. Awake(c, idle, None)
        BY <3>2, <3>4 DEF Awake, Coming
      <3> HIDE DEF shown
      <3> QED BY <1>3, <1>4, <3>1, <3>6, <3>7 DEF Good
    <2>2. CASE x # Cursor
      <3>1. shown = Latched(idle, x)
        BY <1>6, <2>2
      <3>2. x \in Shown /\ ~idle.paused /\ Safe(c, idle, x)
        BY <1>3, <1>4, <1>6, <1>7, <2>2 DEF Good
      <3> HIDE DEF shown
      <3> QED BY <1>4, <3>1, <3>2, LatchedGood
    <2> QED BY <2>1, <2>2
  <1> HIDE DEF shown
  <1>9. Good(c, Replayed(shown, refused), None) /\ Behind(Replayed(shown, refused))
    BY <1>8, ReplayGood
  <1>10. Good(c, CursorCommitted(Replayed(shown, refused)), None)
         /\ Behind(CursorCommitted(Replayed(shown, refused)))
    <2> DEFINE r == Replayed(shown, refused)
    <2>1. Good(c, r, None) /\ Behind(r) /\ None \in {None, Cursor}
      BY <1>9
    <2> HIDE DEF r
    <2>2. Good(c, CursorCommitted(r), None) /\ Behind(CursorCommitted(r))
      BY <2>1, CursorGood
    <2> QED BY <2>2 DEF r
  <1> QED BY <1>5, <1>9, <1>10

(* KmsOutputBackend::pause. *)
LEMMA GpuPausedFields ==
  ASSUME NEW g \in Gpus
  PROVE  LET f == GpuPaused(g) IN
         /\ f \in Gpus /\ f.paused = TRUE /\ f.pending = None /\ f.stash = None
         /\ f.latched = None /\ f.ring = None /\ f.ctrl = g.ctrl /\ f.lost = g.lost
         /\ f.overtaken = g.overtaken
         /\ \A m \in ToSet(f.wire) : m \in ToSet(g.wire) \/ m.kind # "reject"
  <1> DEFINE report(x, done) == IF x \in Bufs \ done THEN <<ClientFlip(None, x)>> ELSE <<>>
             r1 == report(g.latched, {})
             r2 == report(g.pending, {g.latched})
             r3 == report(g.stash, {g.latched, g.pending})
             w == g.wire \o (r1 \o r2 \o r3)
             f == GpuPaused(g)
  <1>1. ASSUME NEW x, NEW done
        PROVE  /\ report(x, done) \in Seq(Replies)
               /\ \A m \in ToSet(report(x, done)) : m.kind # "reject"
    <2>1. CASE x \in Bufs \ done
      <3> DEFINE m == ClientFlip(None, x)
      <3>1. report(x, done) = <<m>>
        BY <2>1
      <3>2. m \in Replies /\ m.kind # "reject"
        BY <2>1, FlipReply
      <3> HIDE DEF m, report
      <3>3. <<m>> \in Seq(Replies) /\ ToSet(<<m>>) = {m}
        BY <3>2, OneToSet
      <3> QED BY <3>1, <3>2, <3>3
    <2>2. CASE x \notin Bufs \ done
      <3>1. report(x, done) = <<>>
        BY <2>2
      <3> QED BY <3>1, EmptyToSet
    <2> QED BY <2>1, <2>2
  <1>2. f = [NewGpu EXCEPT !.paused = TRUE, !.cursorDue = g.cursorDue, !.wire = w,
                           !.ctrl = g.ctrl, !.lost = g.lost, !.overtaken = g.overtaken]
    BY DEF GpuPaused
  <1> HIDE DEF report
  <1>3. /\ r1 \in Seq(Replies) /\ r2 \in Seq(Replies) /\ r3 \in Seq(Replies)
        /\ \A m \in ToSet(r1) \cup ToSet(r2) \cup ToSet(r3) : m.kind # "reject"
    BY <1>1
  <1>4. g.wire \in Seq(Replies)
    BY GpuFields
  <1> HIDE DEF r1, r2, r3
  <1>5. /\ r1 \o r2 \in Seq(Replies)
        /\ ToSet(r1 \o r2) \subseteq ToSet(r1) \cup ToSet(r2)
    BY <1>3, ConcatToSet
  <1>6. /\ r1 \o r2 \o r3 \in Seq(Replies)
        /\ ToSet(r1 \o r2 \o r3) \subseteq ToSet(r1 \o r2) \cup ToSet(r3)
    BY <1>3, <1>5, ConcatToSet
  <1>7. /\ w \in Seq(Replies)
        /\ ToSet(w) \subseteq ToSet(g.wire) \cup ToSet(r1 \o r2 \o r3)
    BY <1>4, <1>6, ConcatToSet
  <1>8. \A m \in ToSet(w) : m \in ToSet(g.wire) \/ m.kind # "reject"
    BY <1>3, <1>5, <1>6, <1>7
  <1> HIDE DEF w
  <1>9. /\ f \in Gpus /\ f.paused = TRUE /\ f.pending = None /\ f.stash = None
        /\ f.latched = None /\ f.ring = None /\ f.ctrl = g.ctrl /\ f.lost = g.lost
        /\ f.overtaken = g.overtaken /\ f.wire = w
    <2>1. /\ g.cursorDue \in BOOLEAN /\ g.ctrl \in Seq(Slots) /\ g.lost \in SUBSET Shown
          /\ g.overtaken \in BOOLEAN
      BY GpuFields
    <2> QED BY <1>2, <1>7, <2>1 DEF NewGpu, Gpus
  <1> HIDE DEF f
  <1>10. \A m \in ToSet(f.wire) : m \in ToSet(g.wire) \/ m.kind # "reject"
    BY <1>8, <1>9
  <1> QED BY <1>9, <1>10 DEF f

(* The GPU process takes a frame from the wire into its hands. *)
LEMMA TakeGood ==
  ASSUME NEW c, NEW g, Good(c, g, None), c.wire # <<>>, NEW d \in Cores,
         d.wire = Tail(c.wire), d.slot = c.slot, d.paused = c.paused, d.ctrl = c.ctrl,
         d.todo = c.todo, d.flipPending = c.flipPending, d.dirty = c.dirty,
         d.callback = c.callback, d.awaiting = c.awaiting
  PROVE  Good(d, g, Head(c.wire))
  <1>0. /\ c \in Cores /\ g \in Gpus /\ Unique(c) /\ Single(c, g, None)
        /\ Marked(c, g, None) /\ OnScreen(c, g) /\ Seat(c, g)
        /\ Gated(c, g, None) /\ Named(c, g) /\ Awake(c, g, None)
    BY DEF Good, Safe
  <1> DEFINE x == Head(c.wire)
  <1>1. c.wire \in Seq(Shown \cup {Cursor})
    BY <1>0, CoreFields
  <1>2. /\ ToSet(c.wire) = ToSet(d.wire) \cup {x} /\ Alone(d.wire)
        /\ x \in Slots => ToSet(d.wire) \cap Slots = {}
    BY <1>0, <1>1, TailToSet DEF Single
  <1> HIDE DEF x
  <1>3. None \notin Shown /\ None \notin Slots
    BY Distinct, ScanoutAssumption
  <1>4. Under(d, g, x) = Under(c, g, None) /\ Unread(d, g) = Unread(c, g)
    BY <1>2, <1>3 DEF Under, Unread
  <1>5. Flying(d, g, x) = Flying(c, g, None)
    BY <1>4 DEF Flying
  <1>6. Single(d, g, x)
    BY <1>0, <1>2, <1>3 DEF Single
  <1>7. Marked(d, g, x) /\ Unique(d)
    BY <1>0, <1>5 DEF Marked, Unique
  <1>8. OnScreen(d, g) /\ Seat(d, g)
    BY <1>0 DEF OnScreen, Seat
  <1>9. Gated(d, g, x) /\ Named(d, g)
    BY <1>0, <1>4 DEF Gated, Named
  <1>10. Awake(d, g, x)
    BY <1>0, <1>4 DEF Awake, Running, Coming
  <1> QED BY <1>0, <1>6, <1>7, <1>8, <1>9, <1>10 DEF Good, Safe, x

-----------------------------------------------------------------------------
(* What the core reads. *)

LEMMA FlippedFields ==
  ASSUME NEW c \in Cores, NEW flips \in Seq(Slots)
  PROVE  LET d == Flipped(c, flips) IN
         /\ d \in Cores /\ d.wire = c.wire /\ d.paused = c.paused /\ d.ctrl = c.ctrl
         /\ d.todo = c.todo /\ d.flipPending = c.flipPending /\ d.dirty = c.dirty
         /\ d.callback = c.callback /\ d.awaiting = c.awaiting
         /\ flips = <<>> => d.slot = c.slot
         /\ \A x \in Slots : flips = <<x>> =>
              d.slot = [t \in Slots |-> IF t = x THEN "SCANOUT"
                                        ELSE IF c.slot[t] = "SCANOUT" THEN "FREE"
                                        ELSE c.slot[t]]
  <1> DEFINE slot == [t \in Slots |->
               IF t = flips[Len(flips)] THEN "SCANOUT"
               ELSE IF c.slot[t] = "SCANOUT" \/ t \in ToSet(flips) THEN "FREE"
               ELSE c.slot[t]]
             d == Flipped(c, flips)
             e == [c EXCEPT !.slot = slot]
  <1>1. d = IF flips = <<>> THEN c ELSE e
    BY DEF Flipped
  <1>2. c.slot \in [Slots -> {"FREE", "PENDING_FLIP", "SCANOUT"}]
    BY CoreFields
  <1>3. slot \in [Slots -> {"FREE", "PENDING_FLIP", "SCANOUT"}]
    BY <1>2
  <1>4. ASSUME NEW x \in Slots, flips = <<x>>
        PROVE  slot = [t \in Slots |-> IF t = x THEN "SCANOUT"
                                       ELSE IF c.slot[t] = "SCANOUT" THEN "FREE"
                                       ELSE c.slot[t]]
    <2>1. flips[Len(flips)] = x /\ ToSet(flips) = {x}
      BY <1>4, OneToSet
    <2> QED BY <2>1
  <1>a. \A x \in Slots : flips = <<x>> => flips # <<>>
    BY OneToSet
  <1> HIDE DEF slot
  <1>5. /\ e \in Cores /\ e.wire = c.wire /\ e.paused = c.paused /\ e.ctrl = c.ctrl
        /\ e.todo = c.todo /\ e.flipPending = c.flipPending /\ e.dirty = c.dirty
        /\ e.callback = c.callback /\ e.awaiting = c.awaiting /\ e.slot = slot
    BY <1>3 DEF Cores
  <1> HIDE DEF d, e
  <1>6. CASE flips = <<>>
    BY <1>1, <1>6, <1>a DEF d
  <1>7. CASE flips # <<>>
    <2>1. d = e
      BY <1>1, <1>7
    <2>2. \A x \in Slots : flips = <<x>> =>
              d.slot = [t \in Slots |-> IF t = x THEN "SCANOUT"
                                        ELSE IF c.slot[t] = "SCANOUT" THEN "FREE"
                                        ELSE c.slot[t]]
      BY <1>4, <1>5, <2>1
    <2> QED BY <1>5, <1>7, <2>1, <2>2 DEF d
  <1> QED BY <1>6, <1>7

(* The flip messages read: their slot is on the screen. *)
LEMMA FlippedSafe ==
  ASSUME NEW c, NEW g, Safe(c, g, None), NEW d \in Cores, NEW f \in Gpus,
         d.slot = Flipped(c, g.ctrl).slot, d.wire = c.wire, d.paused = c.paused,
         d.ctrl = c.ctrl, f.ctrl = <<>>, f.pending = g.pending, f.stash = g.stash,
         f.latched = g.latched, f.ring = g.ring, f.paused = g.paused, f.lost = g.lost
  PROVE  /\ Unique(d) /\ Single(d, f, None) /\ Marked(d, f, None)
         /\ OnScreen(d, f) /\ Seat(d, f) /\ Under(d, f, None) = Under(c, g, None)
  <1>0. /\ c \in Cores /\ g \in Gpus /\ Unique(c) /\ Single(c, g, None)
        /\ Marked(c, g, None) /\ OnScreen(c, g) /\ Seat(c, g)
    BY DEF Safe
  <1>1. Under(d, f, None) = Under(c, g, None)
    BY DEF Under
  <1>2. None \notin Slots
    BY ScanoutAssumption
  <1>3. Single(d, f, None)
    BY <1>0, <1>2 DEF Single
  <1>4. g.ctrl \in Seq(Slots) /\ c.slot \in [Slots -> {"FREE", "PENDING_FLIP", "SCANOUT"}]
        /\ g.ring \in Slots \cup {None}
    BY <1>0, CoreFields, GpuFields
  <1>5. CASE g.ctrl = <<>>
    <2>1. d.slot = c.slot
      BY <1>0, <1>4, <1>5, FlippedFields
    <2>2. Flying(d, f, None) = Flying(c, g, None)
      BY <1>1, <1>5 DEF Flying
    <2>3. Unique(d) /\ Marked(d, f, None)
      BY <1>0, <2>1, <2>2 DEF Unique, Marked
    <2>4. OnScreen(d, f) /\ Seat(d, f)
      BY <1>0, <1>5, <2>1 DEF OnScreen, Seat
    <2> QED BY <1>1, <1>3, <2>3, <2>4
  <1>6. CASE g.ctrl # <<>>
    <2>1. PICK x \in Slots : g.ctrl = <<x>>
      BY <1>0, <1>6 DEF Single
    <2>2. d.slot = [t \in Slots |-> IF t = x THEN "SCANOUT"
                                    ELSE IF c.slot[t] = "SCANOUT" THEN "FREE"
                                    ELSE c.slot[t]]
      BY <1>0, <1>4, <2>1, FlippedFields
    <2>3. \A t \in Slots : d.slot[t] = IF t = x THEN "SCANOUT"
                                       ELSE IF c.slot[t] = "SCANOUT" THEN "FREE"
                                       ELSE c.slot[t]
      BY <2>2
    <2>4. ToSet(g.ctrl) = {x} /\ ToSet(f.ctrl) = {}
      BY <2>1, OneToSet, EmptyToSet
    <2>5. \A t \in Slots : d.slot[t] # "PENDING_FLIP"
      <3>1. CASE c.paused
        BY <1>0, <2>3, <3>1 DEF Seat
      <3>2. CASE ~c.paused
        <4>1. c.slot[x] = "PENDING_FLIP"
          BY <1>0, <2>4, <3>2 DEF Marked, Flying
        <4>2. \A t \in Slots : c.slot[t] = "PENDING_FLIP" => t = x
          BY <1>0, <4>1 DEF Unique
        <4> QED BY <2>3, <4>2
      <3> QED BY <3>1, <3>2
    <2>6. Unique(d)
      BY <1>4, <2>3, <2>5 DEF Unique
    <2>7. Flying(d, f, None) = {}
      <3>1. /\ ToSet(c.wire) \cap Slots = {}
            /\ g.pending \notin Slots /\ g.stash \notin Slots
        BY <1>0, <1>6 DEF Single
      <3> QED BY <1>2, <2>4, <3>1 DEF Flying, Under
    <2>8. Marked(d, f, None)
      BY <2>5, <2>7 DEF Marked
    <2>9. OnScreen(d, f)
      <3> SUFFICES ASSUME ~d.paused, g.ring # None PROVE d.slot[g.ring] = "SCANOUT"
        BY DEF OnScreen
      <3>1. g.ctrl = <<g.ring>>
        BY <1>0, <1>6 DEF OnScreen
      <3>2. g.ring = x
        BY <2>1, <3>1
      <3> QED BY <2>3, <3>2
    <2>10. Seat(d, f)
      BY <1>0, <2>5 DEF Seat
    <2> QED BY <1>1, <1>3, <2>6, <2>8, <2>9, <2>10
  <1> QED BY <1>5, <1>6

(* handleScanoutClientFlip touches only what the client's buffers are in. *)
LEMMA ClientFlippedFields ==
  ASSUME NEW c \in Cores, NEW replies \in Seq(Replies)
  PROVE  LET d == ClientFlipped(c, replies) IN
         /\ d \in Cores /\ d.slot = c.slot /\ d.wire = c.wire /\ d.paused = c.paused
         /\ d.ctrl = c.ctrl /\ d.todo = c.todo /\ d.dirty = c.dirty
         /\ d.callback = c.callback /\ d.awaiting = c.awaiting
         /\ d.flipPending <=> c.flipPending /\ DOMAIN replies \ Rejects(replies) = {}
  <1> DEFINE flips == DOMAIN replies \ Rejects(replies)
             latches == {i \in flips : replies[i].latched # None}
             last == IF latches = {} THEN 0 ELSE Max(latches)
             shown == IF last = 0 THEN c.active ELSE replies[last].latched
             left == \E i \in flips : i > last /\ replies[i].retired = shown
             a == IF left THEN None ELSE shown
             p == c.flipPending /\ flips = {}
             h == c.held \ {replies[i].retired : i \in flips}
             d == ClientFlipped(c, replies)
  <1>1. d = [c EXCEPT !.flipPending = p, !.held = h, !.active = a]
    BY DEF ClientFlipped
  <1>2. c.active \in Bufs \cup {None} /\ c.held \in SUBSET Bufs
    BY CoreFields
  <1>3. Len(replies) \in Nat /\ DOMAIN replies = 1..Len(replies)
        /\ \A i \in 1..Len(replies) : replies[i] \in Replies
    BY LenProperties, ElementOfSeq
  <1>4. \A i \in DOMAIN replies : replies[i].latched \in Bufs \cup {None}
    <2>1. \A m \in Replies : m.latched \in Bufs \cup {None}
      BY DEF Replies
    <2> QED BY <1>3, <2>1
  <1>5. last = 0 \/ last \in DOMAIN replies
    <2>1. CASE latches = {}
      BY <2>1
    <2>2. CASE latches # {}
      <3>1. latches \in SUBSET (1..Len(replies)) /\ latches \subseteq DOMAIN replies
        BY <1>3
      <3>2. last = Max(latches)
        BY <2>2
      <3> HIDE DEF latches, last
      <3> QED BY <1>3, <2>2, <3>1, <3>2, MaxIn
    <2> QED BY <2>1, <2>2
  <1> HIDE DEF last
  <1>6. shown \in Bufs \cup {None}
    BY <1>2, <1>4, <1>5
  <1> HIDE DEF shown
  <1>7. a \in Bufs \cup {None}
    BY <1>6
  <1>8. h \in SUBSET Bufs
    BY <1>2
  <1>9. p \in BOOLEAN /\ (p <=> c.flipPending /\ DOMAIN replies \ Rejects(replies) = {})
    BY CoreFields
  <1> HIDE DEF a, h, p
  <1>10. /\ d \in Cores /\ d.slot = c.slot /\ d.wire = c.wire /\ d.paused = c.paused
         /\ d.ctrl = c.ctrl /\ d.todo = c.todo /\ d.dirty = c.dirty
         /\ d.callback = c.callback /\ d.awaiting = c.awaiting /\ d.flipPending = p
    <2>1. p \in BOOLEAN
      BY <1>9
    <2>2. d \in Cores
      BY ONLY c \in Cores, <1>1, <1>7, <1>8, <2>1 DEF Cores
    <2>3. /\ d.slot = c.slot /\ d.wire = c.wire /\ d.paused = c.paused
          /\ d.ctrl = c.ctrl /\ d.todo = c.todo /\ d.dirty = c.dirty
          /\ d.callback = c.callback /\ d.awaiting = c.awaiting /\ d.flipPending = p
      BY ONLY c \in Cores, <1>1 DEF Cores
    <2> QED BY <2>2, <2>3
  <1> HIDE DEF d
  <1>11. d.flipPending <=> c.flipPending /\ DOMAIN replies \ Rejects(replies) = {}
    BY <1>9, <1>10
  <1> QED BY <1>10, <1>11 DEF d

(* The refusals among replies. *)
LEMMA RejectsIn ==
  ASSUME NEW q \in Seq(Replies)
  PROVE  /\ Rejects(q) \in SUBSET Nat /\ Rejects(q) \subseteq DOMAIN q
         /\ \A i \in Rejects(q) : q[i] \in ToSet(q) /\ q[i].kind = "reject"
         /\ Rejects(q) = {} <=> \A m \in ToSet(q) : m.kind # "reject"
         /\ Rejects(q) = {} /\ DOMAIN q \ Rejects(q) = {} => q = <<>>
  <1>1. /\ \A e : e \in ToSet(q) <=> \E k \in 1..Len(q) : q[k] = e
        /\ Len(q) \in Nat /\ DOMAIN q = 1..Len(q)
        /\ q = <<>> <=> ToSet(q) = {}
    BY InSeq
  <1>2. Rejects(q) \in SUBSET Nat /\ Rejects(q) \subseteq DOMAIN q
    BY <1>1 DEF Rejects
  <1>3. \A i \in Rejects(q) : q[i] \in ToSet(q) /\ q[i].kind = "reject"
    BY <1>1 DEF Rejects
  <1>4. Rejects(q) = {} <=> \A m \in ToSet(q) : m.kind # "reject"
    BY <1>1, <1>3 DEF Rejects
  <1>5. DOMAIN q = {} => q = <<>>
    BY <1>1
  <1> QED BY <1>2, <1>3, <1>4, <1>5

(* dispatchAfterDrain, on what the drains found. *)
LEMMA DrainGood ==
  ASSUME NEW c, NEW g, NEW q \in Seq(Replies), NEW others \in BOOLEAN, Good(c, g, None),
         c.todo = <<>>, NEW f \in Gpus, f.ctrl = <<>>,
         ToSet(g.wire) = ToSet(q) \cup ToSet(f.wire),
         ~f.overtaken => ~g.overtaken,
         ~f.overtaken /\ q = <<>> /\ g.ctrl # <<>> => g.wire = <<>>,
         f.pending = g.pending, f.stash = g.stash, f.latched = g.latched, f.ring = g.ring,
         f.paused = g.paused, f.lost = g.lost
  PROVE  Good(Drained(c, q, g.ctrl, others), f, None)
  <1> DEFINE b == Flipped(c, g.ctrl)
             d == ClientFlipped(b, q)
             paces == g.ctrl # <<>> \/ \E m \in ToSet(q) : m.latched # None
  <1>0. /\ c \in Cores /\ g \in Gpus /\ Safe(c, g, None) /\ Awake(c, g, None)
        /\ Gated(c, g, None) /\ Named(c, g)
    BY DEF Good, Safe
  <1>1. g.wire \in Seq(Replies) /\ g.ctrl \in Seq(Slots)
    BY <1>0, GpuFields
  <1>3. Drained(c, q, g.ctrl, others) =
          IF Rejects(q) # {} THEN [d EXCEPT !.todo = q, !.paces = paces]
          ELSE IF paces THEN FrameComplete(d, others) ELSE d
    BY DEF Drained
  <1>4. /\ b \in Cores /\ b.wire = c.wire /\ b.paused = c.paused /\ b.ctrl = c.ctrl
        /\ b.todo = c.todo /\ b.flipPending = c.flipPending /\ b.dirty = c.dirty
        /\ b.callback = c.callback /\ b.awaiting = c.awaiting
    BY <1>0, <1>1, FlippedFields
  <1> HIDE DEF b
  <1>5. /\ d \in Cores /\ d.slot = b.slot /\ d.wire = c.wire /\ d.paused = c.paused
        /\ d.ctrl = c.ctrl /\ d.todo = <<>> /\ d.dirty = c.dirty
        /\ d.callback = c.callback /\ d.awaiting = c.awaiting
        /\ d.flipPending <=> c.flipPending /\ DOMAIN q \ Rejects(q) = {}
    BY <1>4, ClientFlippedFields
  <1> HIDE DEF d
  <1>6. Unread(c, g) = ToSet(q) \cup ToSet(f.wire)
    BY EmptyToSet DEF Unread
  <1>7. /\ \A i \in Rejects(q) : q[i] \in ToSet(q) /\ q[i].kind = "reject"
        /\ Rejects(q) = {} <=> \A m \in ToSet(q) : m.kind # "reject"
        /\ Rejects(q) = {} /\ DOMAIN q \ Rejects(q) = {} => q = <<>>
    BY RejectsIn
  <1>8. CASE Rejects(q) # {}
    <2> DEFINE e == [d EXCEPT !.todo = q, !.paces = paces]
    <2>1. Drained(c, q, g.ctrl, others) = e
      BY <1>3, <1>8
    <2>2. paces \in BOOLEAN
      OBVIOUS
    <2> HIDE DEF paces
    <2>3. /\ e \in Cores /\ e.slot = d.slot /\ e.wire = d.wire /\ e.paused = d.paused
          /\ e.ctrl = d.ctrl /\ e.todo = q /\ e.flipPending = d.flipPending
      BY <1>5, <2>2 DEF Cores
    <2> HIDE DEF e
    <2>4. /\ Unique(e) /\ Single(e, f, None) /\ Marked(e, f, None)
          /\ OnScreen(e, f) /\ Seat(e, f) /\ Under(e, f, None) = Under(c, g, None)
      BY <1>0, <1>5, <2>3, FlippedSafe DEF b
    <2>5. Unread(e, f) = Unread(c, g)
      BY <1>6, <2>3 DEF Unread
    <2>6. Gated(e, f, None)
      BY <1>0, <1>5, <2>3, <2>4, <2>5 DEF Gated
    <2>7. Named(e, f)
      BY <1>0, <1>8, <2>3, <2>5 DEF Named
    <2>8. Awake(e, f, None)
      <3>1. \E m \in Unread(e, f) : m.kind = "reject"
        BY <1>6, <1>7, <1>8, <2>5
      <3> QED BY <3>1 DEF Awake, Coming
    <2>9. Safe(e, f, None)
      BY <2>3, <2>4, <2>6, <2>7 DEF Safe
    <2> QED BY <2>1, <2>8, <2>9 DEF Good
  <1>9. CASE Rejects(q) = {}
    <2>1. /\ Unique(d) /\ Single(d, f, None) /\ Marked(d, f, None)
          /\ OnScreen(d, f) /\ Seat(d, f) /\ Under(d, f, None) = Under(c, g, None)
      BY <1>0, <1>5, FlippedSafe DEF b
    <2>2. Unread(d, f) = ToSet(f.wire)
      BY <1>5, EmptyToSet DEF Unread
    <2>3. d.flipPending => c.flipPending /\ q = <<>>
      BY <1>5, <1>7, <1>9
    <2>4. q = <<>> => Unread(d, f) = Unread(c, g)
      BY <1>6, <2>2, EmptyToSet
    <2>5. Gated(d, f, None)
      BY <1>0, <1>5, <2>1, <2>3, <2>4 DEF Gated
    <2>6. Named(d, f)
      BY <1>0, <1>5, <1>6, <2>2 DEF Named
    <2>7. Safe(d, f, None)
      BY <1>5, <2>1, <2>5, <2>6 DEF Safe
    <2>8. CASE paces
      <3>1. Drained(c, q, g.ctrl, others) = FrameComplete(d, others)
        BY <1>3, <1>9, <2>8
      <3>2. ASSUME Running(d, f), d.flipPending PROVE Coming(d, f, None)
        <4>1. q = <<>> /\ g.ctrl # <<>>
          BY <2>3, <2>8, <3>2, EmptyToSet
        <4>3. g.wire = <<>>
          BY <3>2, <4>1 DEF Running
        <4>4. Unread(c, g) = {}
          BY <4>3, EmptyToSet DEF Unread
        <4>5. c.flipPending /\ ~c.paused /\ g.lost = {}
          BY <1>5, <2>3, <3>2 DEF Running
        <4>6. \E x \in Bufs : x \in Under(c, g, None)
          BY <1>0, <4>4, <4>5 DEF Gated
        <4> QED BY <2>1, <4>6 DEF Coming
      <3>3. Good(FrameComplete(d, others), f, None)
        BY <2>7, <3>2, FrameCompleteGood
      <3> QED BY <3>1, <3>3
    <2>9. CASE ~paces
      <3>1. Drained(c, q, g.ctrl, others) = d
        BY <1>3, <1>9, <2>9
      <3>2. g.ctrl = <<>> /\ \A m \in ToSet(q) : m.latched = None /\ m.kind # "reject"
        BY <1>7, <1>9, <2>9
      <3>3. Awake(d, f, None)
        <4> SUFFICES ASSUME Running(d, f),
                            d.dirty \/ d.callback \/ d.awaiting \/ d.flipPending
                     PROVE  Coming(d, f, None)
          BY DEF Awake
        <4>1. Running(c, g)
          BY <1>5 DEF Running
        <4>2. Coming(c, g, None)
          BY <1>0, <1>5, <4>1 DEF Awake
        <4> QED BY <1>6, <2>1, <2>2, <3>2, <4>2 DEF Coming
      <3> QED BY <2>7, <3>1, <3>3 DEF Good
    <2> QED BY <2>8, <2>9
  <1> QED BY <1>8, <1>9

(* handleScanoutClientReject and the frame it runs. *)
LEMMA HandleRejectGood ==
  ASSUME NEW c, NEW g, NEW others \in BOOLEAN, Good(c, g, None), c.todo # <<>>
  PROVE  Good(RejectHandled(c, others), g, None)
  <1> DEFINE i == Min(Rejects(c.todo))
             rest == SubSeq(c.todo, i + 1, Len(c.todo))
             more == Rejects(rest) # {}
             r == c.todo[i].retired
             todo == IF more THEN rest ELSE <<>>
             paces == c.paces /\ more
             a == [c EXCEPT !.todo = todo, !.paces = paces]
             b == Rejected(a, r)
             d == RunFrame(b, others)
  <1>0. /\ c \in Cores /\ g \in Gpus /\ Safe(c, g, None) /\ Named(c, g)
    BY DEF Good, Safe
  <1>1. RejectHandled(c, others) = IF c.paces /\ ~more THEN FrameComplete(d, others) ELSE d
    BY DEF RejectHandled
  <1>2. c.todo \in Seq(Replies) /\ c.paces \in BOOLEAN
    BY <1>0, CoreFields
  <1>3. Rejects(c.todo) # {} /\ Rejects(c.todo) \in SUBSET Nat
    BY <1>0, <1>2, RejectsIn DEF Named
  <1>4. i \in Rejects(c.todo)
    BY <1>3, MinIn
  <1> HIDE DEF i
  <1>5. i \in 0..Len(c.todo) /\ c.todo[i] \in ToSet(c.todo) /\ c.todo[i].kind = "reject"
    <2>1. i \in DOMAIN c.todo /\ c.todo[i] \in ToSet(c.todo) /\ c.todo[i].kind = "reject"
      BY <1>2, <1>4, RejectsIn
    <2>2. DOMAIN c.todo = 1..Len(c.todo) /\ Len(c.todo) \in Nat
      BY <1>2, InSeq
    <2> QED BY <2>1, <2>2
  <1>6. r \in Bufs
    BY <1>0, <1>5 DEF Named, Unread
  <1>7. rest \in Seq(Replies) /\ ToSet(rest) \subseteq ToSet(c.todo)
    BY <1>2, <1>5, CutToSet
  <1> HIDE DEF r, rest
  <1>8. /\ todo \in Seq(Replies) /\ ToSet(todo) \subseteq ToSet(c.todo)
        /\ todo # <<>> => Rejects(todo) # {}
    BY <1>7, EmptyToSet
  <1>9. more \in BOOLEAN
    OBVIOUS
  <1> HIDE DEF todo, more
  <1>10. /\ a \in Cores /\ a.slot = c.slot /\ a.wire = c.wire /\ a.paused = c.paused
         /\ a.ctrl = c.ctrl /\ a.todo = todo
    <2>1. c \in Cores /\ todo \in Seq(Replies) /\ paces \in BOOLEAN
      BY <1>0, <1>2, <1>8, <1>9
    <2> HIDE DEF paces
    <2>2. a \in Cores
      BY ONLY <2>1 DEF Cores
    <2>3. /\ a.slot = c.slot /\ a.wire = c.wire /\ a.paused = c.paused
          /\ a.ctrl = c.ctrl /\ a.todo = todo
      BY ONLY <2>1 DEF Cores
    <2> QED BY <2>2, <2>3
  <1> HIDE DEF a
  <1>11. /\ b \in Cores /\ b.slot = c.slot /\ b.wire = c.wire /\ b.paused = c.paused
         /\ b.ctrl = c.ctrl /\ b.todo = todo /\ b.flipPending = FALSE /\ b.dirty = TRUE
    <2>1. a.veto \cup {r} \in SUBSET Bufs /\ a.held \ {r} \in SUBSET Bufs
      BY <1>6, <1>10, CoreFields
    <2> QED BY <1>10, <2>1 DEF Rejected, Cores
  <1> HIDE DEF b
  <1>12. Gated(b, g, None)
    BY <1>11 DEF Gated
  <1>13. Named(b, g)
    BY <1>0, <1>8, <1>11 DEF Named, Unread
  <1>14. Safe(b, g, None)
    BY <1>0, <1>11, <1>12, <1>13, SafeSame
  <1>15. Waiting(b, g, None)
    BY <1>11 DEF Waiting
  <1>16. Good(d, g, None)
    BY <1>14, <1>15, RunFrameGood
  <1> HIDE DEF d
  <1>17. Safe(d, g, None) /\ (Running(d, g) /\ d.flipPending => Coming(d, g, None))
    BY <1>16 DEF Good, Awake
  <1>18. Good(FrameComplete(d, others), g, None)
    BY <1>17, FrameCompleteGood
  <1> QED BY <1>1, <1>16, <1>18

-----------------------------------------------------------------------------
(* The invariant. *)

LEMMA InitGood == Init => IInv
  <1> SUFFICES ASSUME Init PROVE IInv
    OBVIOUS
  <1>1. core = RunFrame(NewCore, FALSE) /\ gpu = NewGpu
    BY DEF Init
  <1> DEFINE c == NewCore
             g == NewGpu
  <1>2. <<>> \in Seq(Replies) /\ <<>> \in Seq(Shown \cup {Cursor}) /\ <<>> \in Seq(Slots)
    OBVIOUS
  <1>3. /\ c \in Cores /\ c.wire = <<>> /\ c.todo = <<>> /\ c.ctrl = "none"
        /\ c.paused = FALSE /\ c.flipPending = FALSE /\ c.awaiting = FALSE
        /\ \A s \in Slots : c.slot[s] = "FREE"
    BY <1>2 DEF NewCore, Cores
  <1>4. /\ g \in Gpus /\ g.wire = <<>> /\ g.ctrl = <<>> /\ g.paused = FALSE
        /\ g.pending = None /\ g.stash = None /\ g.ring = None
    BY <1>2 DEF NewGpu, Gpus
  <1> HIDE DEF c, g
  <1>5. ToSet(<<>>) = {} /\ None \notin Shown /\ None \notin Slots
    BY EmptyToSet, Distinct, ScanoutAssumption
  <1>6. Under(c, g, None) = {} /\ Unread(c, g) = {}
    BY <1>3, <1>4, <1>5 DEF Under, Unread
  <1>7. Flying(c, g, None) = {}
    BY <1>4, <1>5, <1>6 DEF Flying
  <1>8. Unique(c) /\ Marked(c, g, None)
    BY <1>3, <1>7 DEF Unique, Marked
  <1>9. Single(c, g, None)
    BY <1>3, <1>4, <1>5 DEF Single, Alone
  <1>10. OnScreen(c, g) /\ Seat(c, g)
    BY <1>3, <1>4 DEF OnScreen, Seat
  <1>11. Gated(c, g, None) /\ Named(c, g) /\ Waiting(c, g, None)
    BY <1>3, <1>6 DEF Gated, Named, Waiting
  <1>12. Safe(c, g, None)
    BY <1>3, <1>4, <1>8, <1>9, <1>10, <1>11 DEF Safe
  <1>13. FALSE \in BOOLEAN
    OBVIOUS
  <1>14. Good(RunFrame(c, FALSE), g, None)
    BY <1>11, <1>12, <1>13, RunFrameGood
  <1>15. Behind(g)
    BY <1>4 DEF Behind
  <1> QED BY <1>1, <1>14, <1>15 DEF IInv, c, g

LEMMA CommitStep ==
  ASSUME IInv, NEW b \in Bufs, NEW callback \in BOOLEAN, Commit(b, callback)
  PROVE  IInv'
  <1>0. Good(core, gpu, None) /\ Behind(gpu) /\ core \in Cores
    BY DEF IInv, Good, Safe
  <1> DEFINE e == core.callback \/ callback
             d == [core EXCEPT !.current = b, !.dirty = TRUE, !.callback = e]
  <1>1. PICK others \in BOOLEAN : core' = RunFrame(d, others)
    BY DEF Commit, Pumped
  <1>2. gpu' = gpu
    BY DEF Commit
  <1>3. e \in BOOLEAN
    OBVIOUS
  <1> HIDE DEF e
  <1>4. /\ d \in Cores /\ d.slot = core.slot /\ d.wire = core.wire /\ d.paused = core.paused
        /\ d.ctrl = core.ctrl /\ d.todo = core.todo /\ d.flipPending = core.flipPending
        /\ d.awaiting = core.awaiting
    BY <1>0, <1>3 DEF Cores
  <1> HIDE DEF d
  <1>5. Good(RunFrame(d, others), gpu, None)
    BY <1>0, <1>4, PumpGood
  <1> QED BY <1>0, <1>1, <1>2, <1>5 DEF IInv

LEMMA RequestFrameStep == ASSUME IInv, RequestFrame PROVE IInv'
  <1>0. Good(core, gpu, None) /\ Behind(gpu) /\ core \in Cores
    BY DEF IInv, Good, Safe
  <1> DEFINE d == [core EXCEPT !.callback = TRUE]
  <1>1. PICK others \in BOOLEAN : core' = RunFrame(d, others)
    BY DEF RequestFrame, Pumped
  <1>2. gpu' = gpu
    BY DEF RequestFrame
  <1>4. /\ d \in Cores /\ d.slot = core.slot /\ d.wire = core.wire /\ d.paused = core.paused
        /\ d.ctrl = core.ctrl /\ d.todo = core.todo /\ d.flipPending = core.flipPending
        /\ d.awaiting = core.awaiting
    BY <1>0 DEF Cores
  <1> HIDE DEF d
  <1>5. Good(RunFrame(d, others), gpu, None)
    BY <1>0, <1>4, PumpGood
  <1> QED BY <1>0, <1>1, <1>2, <1>5 DEF IInv

LEMMA OverlayStep == ASSUME IInv, Overlay PROVE IInv'
  <1>0. Good(core, gpu, None) /\ Behind(gpu) /\ core \in Cores
    BY DEF IInv, Good, Safe
  <1> DEFINE e == ~core.covered
             d == [core EXCEPT !.covered = e, !.dirty = TRUE]
  <1>1. PICK others \in BOOLEAN : core' = RunFrame(d, others)
    BY DEF Overlay, Pumped
  <1>2. gpu' = gpu
    BY DEF Overlay
  <1>3. e \in BOOLEAN
    OBVIOUS
  <1> HIDE DEF e
  <1>4. /\ d \in Cores /\ d.slot = core.slot /\ d.wire = core.wire /\ d.paused = core.paused
        /\ d.ctrl = core.ctrl /\ d.todo = core.todo /\ d.flipPending = core.flipPending
        /\ d.awaiting = core.awaiting
    BY <1>0, <1>3 DEF Cores
  <1> HIDE DEF d
  <1>5. Good(RunFrame(d, others), gpu, None)
    BY <1>0, <1>4, PumpGood
  <1> QED BY <1>0, <1>1, <1>2, <1>5 DEF IInv

LEMMA MoveCursorStep == ASSUME IInv, MoveCursor PROVE IInv'
  <1>0. Safe(core, gpu, None) /\ Awake(core, gpu, None) /\ Behind(gpu) /\ core \in Cores
    BY DEF IInv, Good, Safe
  <1> DEFINE d == [core EXCEPT !.wire = Append(@, Cursor)]
  <1>1. core' = d /\ gpu' = gpu
    BY DEF MoveCursor
  <1>2. Append(core.wire, Cursor) \in Seq(Shown \cup {Cursor})
    <2>1. core.wire \in Seq(Shown \cup {Cursor})
      BY <1>0, CoreFields
    <2> QED BY <2>1, AppendToSet
  <1>3. /\ d \in Cores /\ d.slot = core.slot /\ d.wire = Append(core.wire, Cursor)
        /\ d.paused = core.paused /\ d.ctrl = core.ctrl /\ d.todo = core.todo
        /\ d.flipPending = core.flipPending /\ d.awaiting = core.awaiting
        /\ d.dirty = core.dirty /\ d.callback = core.callback
    BY <1>0, <1>2 DEF Cores
  <1> HIDE DEF d
  <1> DEFINE x == Cursor
  <1>4. /\ x \in Bufs \cup {Cursor} /\ d.wire = Append(core.wire, x) /\ d \in Cores
        /\ d.slot = core.slot /\ d.paused = core.paused /\ d.ctrl = core.ctrl
        /\ d.todo = core.todo /\ (x \in Bufs \/ d.flipPending = core.flipPending)
    BY <1>3
  <1> HIDE DEF x
  <1>5. Safe(d, gpu, None) /\ Under(core, gpu, None) \subseteq Under(d, gpu, None)
    BY <1>0, <1>4, OtherSafe
  <1>6. Unread(d, gpu) = Unread(core, gpu)
    BY <1>3 DEF Unread
  <1>7. Awake(d, gpu, None)
    BY <1>0, <1>3, <1>5, <1>6 DEF Awake, Running, Coming
  <1>8. IInv' <=> Good(core', gpu', None) /\ Behind(gpu')
    BY DEF IInv
  <1> QED BY <1>0, <1>1, <1>5, <1>7, <1>8 DEF Good

LEMMA PauseStep == ASSUME IInv, Pause PROVE IInv'
  <1>0. /\ Safe(core, gpu, None) /\ Behind(gpu) /\ core \in Cores /\ gpu \in Gpus
        /\ Single(core, gpu, None) /\ Seat(core, gpu) /\ Named(core, gpu)
    BY DEF IInv, Good, Safe
  <1> DEFINE e == [s \in Slots |-> "FREE"]
             d == [core EXCEPT !.paused = TRUE, !.slot = e, !.ctrl = "pause"]
  <1>1. core' = d /\ gpu' = gpu /\ ~core.paused
    BY DEF Pause, PauseOutput
  <1>2. e \in [Slots -> {"FREE", "PENDING_FLIP", "SCANOUT"}] /\ \A s \in Slots : e[s] = "FREE"
    OBVIOUS
  <1> HIDE DEF e
  <1>3. /\ d \in Cores /\ d.slot = e /\ d.wire = core.wire /\ d.paused = TRUE
        /\ d.ctrl = "pause" /\ d.todo = core.todo
    BY <1>0, <1>2 DEF Cores
  <1> HIDE DEF d
  <1>4. Unique(d) /\ Marked(d, gpu, None)
    BY <1>2, <1>3 DEF Unique, Marked
  <1>5. Single(d, gpu, None)
    BY <1>0, <1>3 DEF Single
  <1>6. OnScreen(d, gpu) /\ Gated(d, gpu, None) /\ Awake(d, gpu, None)
    BY <1>3 DEF OnScreen, Gated, Awake, Running
  <1>7. Seat(d, gpu)
    BY <1>0, <1>2, <1>3 DEF Seat
  <1>8. Named(d, gpu)
    BY <1>0, <1>3 DEF Named, Unread
  <1>9. Good(d, gpu, None)
    BY <1>0, <1>3, <1>4, <1>5, <1>6, <1>7, <1>8 DEF Good, Safe
  <1>10. IInv' <=> Good(core', gpu', None) /\ Behind(gpu')
    BY DEF IInv
  <1> QED BY <1>0, <1>1, <1>9, <1>10

LEMMA ResumeStep == ASSUME IInv, Resume PROVE IInv'
  <1>0. /\ Behind(gpu) /\ core \in Cores /\ gpu \in Gpus /\ Unique(core)
        /\ Single(core, gpu, None) /\ Seat(core, gpu) /\ Named(core, gpu)
    BY DEF IInv, Good, Safe
  <1>1. /\ core.paused /\ gpu.paused /\ core.wire = <<>> /\ gpu.wire = <<>> /\ gpu.ctrl = <<>>
        /\ core.todo = <<>>
    BY DEF Resume, Pumped, Turn
  <1> DEFINE d == ResumeOutput(core)
             f == [gpu EXCEPT !.lost = {}, !.overtaken = FALSE]
  <1>2. PICK others \in BOOLEAN : core' = RunFrame(d, others)
    BY DEF Resume, Pumped
  <1>3. gpu' = f
    BY DEF Resume
  <1>4. /\ d \in Cores /\ d.slot = core.slot /\ d.wire = <<>> /\ d.paused = FALSE
        /\ d.ctrl = "resume" /\ d.todo = <<>> /\ d.flipPending = FALSE /\ d.dirty = TRUE
    BY <1>0, <1>1 DEF Cores, ResumeOutput
  <1>5. /\ f \in Gpus /\ f.wire = <<>> /\ f.ctrl = <<>> /\ f.paused = TRUE
        /\ f.pending = None /\ f.stash = None /\ f.ring = None /\ f.latched = None
        /\ f.paused \in BOOLEAN
    <2>1. gpu.pending = None /\ gpu.stash = None /\ gpu.ring = None /\ gpu.latched = None
      BY <1>0, <1>1 DEF Seat
    <2>2. f \in Gpus /\ f.wire = gpu.wire /\ f.ctrl = gpu.ctrl /\ f.paused = gpu.paused
          /\ f.pending = gpu.pending /\ f.stash = gpu.stash /\ f.ring = gpu.ring
          /\ f.latched = gpu.latched
      BY <1>0 DEF Gpus
    <2>3. gpu.paused = TRUE
      BY <1>0, <1>1, GpuFields
    <2> HIDE DEF f
    <2> QED BY <1>1, <2>1, <2>2, <2>3
  <1> HIDE DEF d, f
  <1>6. ToSet(<<>>) = {} /\ None \notin Shown /\ None \notin Slots
    BY EmptyToSet, Distinct, ScanoutAssumption
  <1>7. Under(d, f, None) = {} /\ Unread(d, f) = {}
    BY <1>4, <1>5, <1>6 DEF Under, Unread
  <1>8. Flying(d, f, None) = {}
    BY <1>5, <1>6, <1>7 DEF Flying
  <1>9. Unique(d)
    BY <1>0, <1>4 DEF Unique
  <1>10. Marked(d, f, None)
    BY <1>0, <1>1, <1>4, <1>8 DEF Marked, Seat
  <1>11. Single(d, f, None)
    BY <1>4, <1>5, <1>6 DEF Single, Alone
  <1>12. OnScreen(d, f) /\ Seat(d, f)
    BY <1>4, <1>5 DEF OnScreen, Seat
  <1>13. Gated(d, f, None) /\ Named(d, f) /\ Waiting(d, f, None)
    BY <1>4, <1>7 DEF Gated, Named, Waiting
  <1>14. Safe(d, f, None)
    BY <1>4, <1>5, <1>9, <1>10, <1>11, <1>12, <1>13 DEF Safe
  <1>15. Good(RunFrame(d, others), f, None)
    BY <1>13, <1>14, RunFrameGood
  <1>16. Behind(f)
    BY <1>5 DEF Behind
  <1>17. IInv' <=> Good(core', gpu', None) /\ Behind(gpu')
    BY DEF IInv
  <1> QED BY <1>2, <1>3, <1>15, <1>16, <1>17

LEMMA ReadSeatStep == ASSUME IInv, ReadSeat PROVE IInv'
  <1>0. /\ Behind(gpu) /\ core \in Cores /\ gpu \in Gpus /\ Unique(core)
        /\ Good(core, gpu, None) /\ Safe(core, gpu, None) /\ Awake(core, gpu, None)
        /\ Single(core, gpu, None) /\ Marked(core, gpu, None) /\ OnScreen(core, gpu)
        /\ Seat(core, gpu) /\ Gated(core, gpu, None) /\ Named(core, gpu)
    BY DEF IInv, Good, Safe
  <1> DEFINE d == [core EXCEPT !.ctrl = "none"]
  <1>1. core' = d /\ core.ctrl # "none"
    BY DEF ReadSeat
  <1>2. /\ d \in Cores /\ d.slot = core.slot /\ d.wire = core.wire
        /\ d.paused = core.paused /\ d.ctrl = "none" /\ d.todo = core.todo
        /\ d.flipPending = core.flipPending /\ d.awaiting = core.awaiting
        /\ d.dirty = core.dirty /\ d.callback = core.callback
    BY <1>0 DEF Cores
  <1> HIDE DEF d
  <1>3. core.ctrl \in {"none", "pause", "resume"}
    BY <1>0, CoreFields
  <1>4. None \notin Shown /\ None \notin Slots
    BY Distinct, ScanoutAssumption
  <1>5. IInv' <=> Good(core', gpu', None) /\ Behind(gpu')
    BY DEF IInv
  <1>6. CASE core.ctrl = "pause"
    <2> DEFINE f == GpuPaused(gpu)
    <2>1. gpu' = f
      BY <1>6 DEF ReadSeat
    <2>2. core.paused
      BY <1>0, <1>6 DEF Seat
    <2>3. /\ f \in Gpus /\ f.paused = TRUE /\ f.pending = None /\ f.stash = None
          /\ f.latched = None /\ f.ring = None /\ f.ctrl = gpu.ctrl /\ f.lost = gpu.lost
          /\ \A m \in ToSet(f.wire) : m \in ToSet(gpu.wire) \/ m.kind # "reject"
      BY <1>0, GpuPausedFields
    <2> HIDE DEF f
    <2>4. Unique(d)
      BY <1>0, <1>2 DEF Unique
    <2>5. Single(d, f, None)
      BY <1>0, <1>2, <1>4, <2>3 DEF Single
    <2>6. Marked(d, f, None) /\ Seat(d, f)
      BY <1>0, <1>2, <2>2, <2>3 DEF Marked, Seat
    <2>7. OnScreen(d, f) /\ Gated(d, f, None) /\ Awake(d, f, None)
      BY <1>2, <2>2 DEF OnScreen, Gated, Awake, Running
    <2>8. Named(d, f)
      BY <1>0, <1>2, <2>3 DEF Named, Unread
    <2>9. Good(d, f, None)
      BY <1>2, <2>3, <2>4, <2>5, <2>6, <2>7, <2>8 DEF Good, Safe
    <2>10. Behind(f)
      BY <2>3 DEF Behind
    <2> QED BY <1>1, <1>5, <2>1, <2>9, <2>10
  <1>7. CASE core.ctrl = "resume"
    <2> DEFINE f == [gpu EXCEPT !.paused = FALSE]
    <2>1. gpu' = f
      BY <1>7 DEF ReadSeat
    <2>2. ~core.paused /\ gpu.paused
      BY <1>0, <1>7 DEF Seat
    <2>3. /\ f \in Gpus /\ f.paused = FALSE /\ f.pending = gpu.pending /\ f.stash = gpu.stash
          /\ f.latched = gpu.latched /\ f.ring = gpu.ring /\ f.ctrl = gpu.ctrl
          /\ f.lost = gpu.lost /\ f.wire = gpu.wire /\ f.overtaken = gpu.overtaken
      BY <1>0 DEF Gpus
    <2> HIDE DEF f
    <2>4. Under(d, f, None) = Under(core, gpu, None) /\ Unread(d, f) = Unread(core, gpu)
      BY <1>2, <2>3 DEF Under, Unread
    <2>5. Flying(d, f, None) = Flying(core, gpu, None)
      BY <2>3, <2>4 DEF Flying
    <2>6. Unique(d) /\ Marked(d, f, None)
      BY <1>0, <1>2, <2>3, <2>5 DEF Unique, Marked
    <2>7. Single(d, f, None)
      BY <1>0, <1>2, <2>3 DEF Single
    <2>8. OnScreen(d, f) /\ Seat(d, f)
      BY <1>0, <1>2, <2>2, <2>3 DEF OnScreen, Seat
    <2>9. Gated(d, f, None) /\ Named(d, f)
      BY <1>0, <1>2, <2>3, <2>4 DEF Gated, Named
    <2>10. Awake(d, f, None)
      BY <1>0, <1>2, <2>3, <2>4 DEF Awake, Running, Coming
    <2>11. Good(d, f, None)
      BY <1>2, <2>3, <2>6, <2>7, <2>8, <2>9, <2>10 DEF Good, Safe
    <2>12. Behind(f)
      BY <1>0, <2>3 DEF Behind
    <2> QED BY <1>1, <1>5, <2>1, <2>11, <2>12
  <1> QED BY <1>1, <1>3, <1>6, <1>7

LEMMA ReadWireStep == ASSUME IInv, NEW refused \in BOOLEAN, ReadWire(refused) PROVE IInv'
  <1>0. /\ Behind(gpu) /\ core \in Cores /\ gpu \in Gpus /\ Good(core, gpu, None)
        /\ Seat(core, gpu)
    BY DEF IInv, Good, Safe
  <1>1. core.wire # <<>> /\ core.ctrl # "resume"
    BY DEF ReadWire
  <1> DEFINE d == [core EXCEPT !.wire = Tail(@)]
             x == Head(core.wire)
             due == [gpu EXCEPT !.cursorDue = TRUE]
  <1>2. core' = d
    BY DEF ReadWire
  <1>3. gpu' = IF x = Cursor THEN CursorCommitted(due) ELSE Present(gpu, x, refused, TRUE)
    BY DEF ReadWire
  <1>4. core.wire \in Seq(Shown \cup {Cursor})
    BY <1>0, CoreFields
  <1>5. Tail(core.wire) \in Seq(Shown \cup {Cursor}) /\ x \in Shown \cup {Cursor}
    BY <1>1, <1>4, TailToSet
  <1>6. /\ d \in Cores /\ d.slot = core.slot /\ d.wire = Tail(core.wire)
        /\ d.paused = core.paused /\ d.ctrl = core.ctrl /\ d.todo = core.todo
        /\ d.flipPending = core.flipPending /\ d.awaiting = core.awaiting
        /\ d.dirty = core.dirty /\ d.callback = core.callback
    BY <1>0, <1>5 DEF Cores
  <1> HIDE DEF d
  <1>7. Good(d, gpu, x)
    BY <1>0, <1>1, <1>6, TakeGood
  <1>8. /\ due \in Gpus /\ due.paused = gpu.paused /\ due.pending = gpu.pending
        /\ due.stash = gpu.stash /\ due.latched = gpu.latched /\ due.ring = gpu.ring
        /\ due.wire = gpu.wire /\ due.ctrl = gpu.ctrl /\ due.lost = gpu.lost
        /\ due.overtaken = gpu.overtaken
    BY <1>0 DEF Gpus
  <1> HIDE DEF due, x
  <1>9. IInv' <=> Good(core', gpu', None) /\ Behind(gpu')
    BY DEF IInv
  <1>10. CASE x = Cursor
    <2>1. Safe(d, gpu, x) /\ Awake(d, gpu, x)
      BY <1>7 DEF Good
    <2>2. Safe(d, due, x) /\ Awake(d, due, x)
      BY <1>8, <2>1, GpuKeeps
    <2>3. Good(d, due, x) /\ Behind(due) /\ x \in {None, Cursor}
      BY <1>0, <1>8, <1>10, <2>2 DEF Good, Behind
    <2>4. Good(d, CursorCommitted(due), None) /\ Behind(CursorCommitted(due))
      BY <2>3, CursorGood
    <2> QED BY <1>2, <1>3, <1>9, <1>10, <2>4
  <1>11. CASE x # Cursor
    <2>1. x \in Shown /\ (gpu.paused => d.paused) /\ TRUE \in BOOLEAN
      BY <1>0, <1>1, <1>5, <1>6, <1>11 DEF Seat
    <2>2. /\ Good(d, Present(gpu, x, refused, TRUE), None)
          /\ Behind(Present(gpu, x, refused, TRUE))
      BY <1>0, <1>7, <2>1, PresentGood
    <2> QED BY <1>2, <1>3, <1>9, <1>11, <2>2
  <1> QED BY <1>10, <1>11

LEMMA PageFlipStep == ASSUME IInv, NEW refused \in BOOLEAN, PageFlip(refused) PROVE IInv'
  <1>1. /\ Good(core, gpu, None) /\ Behind(gpu) /\ gpu.pending # None
        /\ core' = core /\ gpu' = PageFlipped(gpu, refused)
    BY DEF IInv, PageFlip
  <1>2. Good(core, PageFlipped(gpu, refused), None) /\ Behind(PageFlipped(gpu, refused))
    BY <1>1, PageFlipGood
  <1> QED BY <1>1, <1>2 DEF IInv

LEMMA DrainStep == ASSUME IInv, NEW n \in 0..Len(gpu.wire), Drain(n) PROVE IInv'
  <1>0. Good(core, gpu, None) /\ Behind(gpu) /\ gpu \in Gpus
    BY DEF IInv, Good, Safe
  <1> DEFINE w == gpu.wire
             q == SubSeq(w, 1, n)
             rest == SubSeq(w, n + 1, Len(w))
             o == gpu.overtaken \/ (n < Len(w) /\ gpu.ctrl # <<>>)
             f == [gpu EXCEPT !.wire = rest, !.ctrl = <<>>, !.overtaken = o]
  <1>1. core.todo = <<>>
    BY DEF Drain, Turn
  <1>2. PICK others \in BOOLEAN : core' = Drained(core, q, gpu.ctrl, others)
    BY DEF Drain
  <1>3. gpu' = f
    BY DEF Drain
  <1>4. w \in Seq(Replies) /\ n \in 0..Len(w) /\ w = gpu.wire
    BY <1>0, GpuFields
  <1> HIDE DEF w
  <1>5. /\ q \in Seq(Replies) /\ rest \in Seq(Replies)
        /\ ToSet(w) = ToSet(q) \cup ToSet(rest) /\ (q = <<>> => n = 0)
    BY <1>4, CutToSet
  <1>6. o \in BOOLEAN /\ (~o => ~gpu.overtaken)
    OBVIOUS
  <1>7. ~o /\ q = <<>> /\ gpu.ctrl # <<>> => w = <<>>
    <2> SUFFICES ASSUME ~o, q = <<>>, gpu.ctrl # <<>> PROVE w = <<>>
      OBVIOUS
    <2>1. n = 0 /\ ~(n < Len(w))
      BY <1>5
    <2>2. Len(w) \in Nat /\ Len(w) = 0
      BY <1>4, <2>1, LenProperties
    <2> QED BY <1>4, <2>2, EmptySeq
  <1> HIDE DEF o, q, rest
  <1>a. rest \in Seq(Replies) /\ <<>> \in Seq(Slots) /\ o \in BOOLEAN
    BY <1>5, <1>6
  <1>8. /\ f \in Gpus /\ f.wire = rest /\ f.ctrl = <<>> /\ f.overtaken = o
        /\ f.pending = gpu.pending /\ f.stash = gpu.stash /\ f.latched = gpu.latched
        /\ f.ring = gpu.ring /\ f.paused = gpu.paused /\ f.lost = gpu.lost
    BY <1>0, <1>a DEF Gpus
  <1> HIDE DEF f
  <1>9. /\ ToSet(gpu.wire) = ToSet(q) \cup ToSet(f.wire)
        /\ ~f.overtaken => ~gpu.overtaken
        /\ ~f.overtaken /\ q = <<>> /\ gpu.ctrl # <<>> => gpu.wire = <<>>
    BY <1>4, <1>5, <1>6, <1>7, <1>8
  <1>10. Good(Drained(core, q, gpu.ctrl, others), f, None)
    BY <1>0, <1>1, <1>5, <1>8, <1>9, DrainGood
  <1>11. Behind(f)
    BY <1>0, <1>8 DEF Behind
  <1>12. IInv' <=> Good(core', gpu', None) /\ Behind(gpu')
    BY DEF IInv
  <1> QED BY <1>2, <1>3, <1>10, <1>11, <1>12

LEMMA HandleRejectStep == ASSUME IInv, HandleReject PROVE IInv'
  <1>1. Good(core, gpu, None) /\ Behind(gpu) /\ core.todo # <<>> /\ gpu' = gpu
    BY DEF IInv, HandleReject
  <1>2. PICK others \in BOOLEAN : core' = RejectHandled(core, others)
    BY DEF HandleReject
  <1>3. Good(RejectHandled(core, others), gpu, None)
    BY <1>1, HandleRejectGood
  <1> QED BY <1>1, <1>2, <1>3 DEF IInv

(* IInv is an invariant: every turn of the core's loop and every event of  *)
(* the GPU process preserves it.                                           *)
THEOREM Invariance == Spec => []IInv
  <1>1. Init => IInv
    BY InitGood
  <1>2. IInv /\ [Next]_vars => IInv'
    <2> SUFFICES ASSUME IInv, [Next]_vars PROVE IInv'
      OBVIOUS
    <2>1. ASSUME NEW b \in Bufs, NEW callback \in BOOLEAN, Commit(b, callback) PROVE IInv'
      BY <2>1, CommitStep
    <2>2. CASE RequestFrame
      BY <2>2, RequestFrameStep
    <2>3. CASE Overlay
      BY <2>3, OverlayStep
    <2>4. CASE MoveCursor
      BY <2>4, MoveCursorStep
    <2>5. CASE Pause
      BY <2>5, PauseStep
    <2>6. CASE Resume
      BY <2>6, ResumeStep
    <2>7. CASE ReadSeat
      BY <2>7, ReadSeatStep
    <2>8. CASE HandleReject
      BY <2>8, HandleRejectStep
    <2>9. ASSUME NEW n \in 0..Len(gpu.wire), Drain(n) PROVE IInv'
      BY <2>9, DrainStep
    <2>10. ASSUME NEW refused \in BOOLEAN, ReadWire(refused) PROVE IInv'
      BY <2>10, ReadWireStep
    <2>11. ASSUME NEW refused \in BOOLEAN, PageFlip(refused) PROVE IInv'
      BY <2>11, PageFlipStep
    <2>12. CASE UNCHANGED vars
      <3>1. core' = core /\ gpu' = gpu
        BY <2>12 DEF vars
      <3> QED BY <3>1 DEF IInv
    <2> QED BY <2>1, <2>2, <2>3, <2>4, <2>5, <2>6, <2>7, <2>8, <2>9, <2>10, <2>11, <2>12 DEF Next
  <1> QED BY <1>1, <1>2, PTL DEF Spec

(* The records keep their types, and in the core's view one slot at most   *)
(* is on the screen and one on its way to it (drainCtrl, pauseOutput,      *)
(* acquireOutputTextureHandle).                                            *)
THEOREM TypeCorrect == Spec => []TypeOK
  <1>1. IInv => TypeOK
    BY DEF IInv, Good, Safe, Unique, TypeOK
  <1> QED BY <1>1, Invariance, PTL

(* The core never renders into a slot that is on the screen or about to    *)
(* be, whatever the order in which the two streams are read.               *)
THEOREM RendersOffScreen == Spec => []NoScribble
  <1>1. IInv => NoScribble
    <2> SUFFICES ASSUME IInv, ~core.paused, ~gpu.paused, NEW s \in Slots,
                        core.slot[s] = "FREE"
                 PROVE  s # Plane /\ s \notin InPipeline
      BY DEF NoScribble
    <2>1. /\ gpu \in Gpus /\ Marked(core, gpu, None) /\ OnScreen(core, gpu)
      BY DEF IInv, Good, Safe
    <2>2. s \notin Flying(core, gpu, None)
      BY <2>1 DEF Marked
    <2>3. s \notin Under(core, gpu, None) /\ s \notin ToSet(gpu.ctrl) /\ s \in Shown
      BY <2>2 DEF Flying, Shown
    <2>4. s \notin InPipeline
      BY <2>3 DEF Under, InPipeline
    <2>5. s # gpu.latched /\ s # None
      BY <2>1, GpuFields, Distinct, ScanoutAssumption
    <2>6. s # gpu.ring
      <3> SUFFICES ASSUME s = gpu.ring PROVE FALSE
        OBVIOUS
      <3>1. gpu.ctrl = <<s>>
        BY <2>1, <2>5 DEF OnScreen
      <3> QED BY <2>3, <3>1, OneToSet
    <2> QED BY <2>4, <2>5, <2>6 DEF Plane
  <1> QED BY <1>1, Invariance, PTL

(* Whoever waits for a flip has one coming, or the GPU process dropped the *)
(* present without an answer.                                              *)
THEOREM FlipsResolve == Spec => []PresentsResolve
  <1>1. IInv => PresentsResolve
    <2> SUFFICES ASSUME IInv PROVE PresentsResolve
      OBVIOUS
    <2>1. /\ Marked(core, gpu, None) /\ Gated(core, gpu, None)
      BY DEF IInv, Good, Safe
    <2>2. None \notin Shown
      BY Distinct
    <2>3. Under(core, gpu, None) \subseteq InPipeline
      BY <2>2 DEF Under, InPipeline
    <2>4. Flying(core, gpu, None) \subseteq InPipeline \cup ToSet(gpu.ctrl)
      BY <2>3 DEF Flying
    <2>5. \A s \in Slots : core.slot[s] = "PENDING_FLIP" =>
            s \in InPipeline \cup ToSet(gpu.ctrl) \cup gpu.lost
      BY <2>1, <2>4 DEF Marked
    <2>6. core.flipPending /\ ~core.paused =>
            \E b \in Bufs :
              \/ b \in InPipeline \cup gpu.lost
              \/ \E m \in ToSet(gpu.wire) \cup ToSet(core.todo) : b \in {m.latched, m.retired}
      BY <2>1, <2>3 DEF Gated, Unread
    <2> QED BY <2>5, <2>6 DEF PresentsResolve
  <1> QED BY <1>1, Invariance, PTL

(* No wake is lost: when nothing is on its way, no damage, no frame        *)
(* callback and no stashed present is left behind.                         *)
THEOREM WakesKept == Spec => []NoLostWake
  <1>1. IInv => NoLostWake
    <2> SUFFICES ASSUME IInv, Quiet, ~core.paused, gpu.lost = {}, ~gpu.overtaken
                 PROVE  ~core.dirty /\ ~core.callback /\ ~core.awaiting /\ gpu.stash = None
      BY DEF NoLostWake
    <2>1. Awake(core, gpu, None) /\ Behind(gpu)
      BY DEF IInv, Good
    <2>2. gpu.stash = None /\ gpu.pending = None /\ core.wire = <<>> /\ core.todo = <<>>
          /\ gpu.wire = <<>> /\ gpu.ctrl = <<>>
      BY <2>1 DEF Quiet, Behind
    <2>3. None \notin Shown /\ ToSet(<<>>) = {}
      BY Distinct, EmptyToSet
    <2>4. Under(core, gpu, None) = {} /\ Unread(core, gpu) = {}
      BY <2>2, <2>3 DEF Under, Unread
    <2>5. ~Coming(core, gpu, None)
      BY <2>2, <2>4 DEF Coming
    <2> QED BY <2>1, <2>2, <2>5 DEF Awake, Running
  <1> QED BY <1>1, Invariance, PTL

=============================================================================
