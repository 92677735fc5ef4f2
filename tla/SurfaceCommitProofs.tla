------------------------ MODULE SurfaceCommitProofs ------------------------
(***************************************************************************)
(* Proofs of SurfaceCommit's properties, for any surfaces, any tree of     *)
(* them, any buffers and bounds.  A commit is a function of a world        *)
(* (surfaces, compositor, what was applied, what was lost), and the        *)
(* invariant is stated of any world, so that it can be carried through the *)
(* several commits that one timer latches.                                 *)
(***************************************************************************)
EXTENDS SurfaceCommit, SequenceTheorems, NaturalsInduction, WellFoundedInduction, TLAPS

-----------------------------------------------------------------------------
(* The types of a world. *)

Points  == Dmabufs \cup {None}
Times   == 0 .. MaxCommits
Caches  == [buf : Buffers \cup {Null, NoAttach}, ver : Times, fresh : BOOLEAN,
            pt : Points, last : Times]
Entries == [buf : Buffers \cup {Null, NoAttach}, pt : Points, timed : BOOLEAN, n : Times]
Records == [alive : BOOLEAN, mapped : BOOLEAN, committed : Contents, cached : Caches,
            queue : Seq(Entries), timer : BOOLEAN]
Worlds  == [surf : [Surfaces -> Records], comp : Compositor,
            applied : [Surfaces -> Times], lost : SUBSET Buffers]

(* What the constants are. *)
LEMMA Constants ==
  /\ Null \notin Buffers /\ NoAttach \notin Buffers /\ None \notin Buffers
  /\ NoAttach # Null /\ Dmabufs \subseteq Buffers /\ Shm \subseteq Buffers
  /\ Dmabufs \cap Shm = {} /\ Buffers = Dmabufs \cup Shm
  /\ Children \subseteq Surfaces /\ Root \in Surfaces
  /\ MaxCommits \in Nat /\ MaxChanges \in Nat
  /\ \A c \in Children : Parent[c] \in Surfaces
  BY ConstantsAssumption DEF Buffers, Children

LEMMA WorldFields ==
  ASSUME NEW w \in Worlds
  PROVE  /\ w.surf \in [Surfaces -> Records] /\ w.comp \in Compositor
         /\ w.applied \in [Surfaces -> Times] /\ w.lost \in SUBSET Buffers
  BY DEF Worlds

LEMMA RecordFields ==
  ASSUME NEW r \in Records
  PROVE  /\ r.alive \in BOOLEAN /\ r.mapped \in BOOLEAN /\ r.committed \in Contents
         /\ r.cached \in Caches /\ r.queue \in Seq(Entries) /\ r.timer \in BOOLEAN
  BY DEF Records

LEMMA CacheFields ==
  ASSUME NEW k \in Caches
  PROVE  /\ k.buf \in Buffers \cup {Null, NoAttach} /\ k.ver \in Times
         /\ k.fresh \in BOOLEAN /\ k.pt \in Points /\ k.last \in Times
  BY DEF Caches

LEMMA EntryFields ==
  ASSUME NEW e \in Entries
  PROVE  /\ e.buf \in Buffers \cup {Null, NoAttach} /\ e.pt \in Points
         /\ e.timed \in BOOLEAN /\ e.n \in Times
  BY DEF Entries

LEMMA ContentFields ==
  ASSUME NEW x \in Contents
  PROVE  x.buf \in Buffers \cup {Null} /\ x.ver \in Times
  BY DEF Contents, Times

LEMMA CompFields ==
  ASSUME NEW c \in Compositor
  PROVE  /\ c.tex \in [Surfaces -> Contents] /\ c.registered \in [Dmabufs -> Points]
         /\ c.returning \in SUBSET Buffers /\ c.busy \in SUBSET Buffers
         /\ c.unsignalled \in SUBSET Dmabufs
  BY DEF Compositor, Contents, Points

LEMMA Empties ==
  /\ NoCache \in Caches /\ NoContent \in Contents
  /\ NoCache.buf = NoAttach /\ NoCache.ver = 0 /\ NoCache.fresh = FALSE
  /\ NoCache.pt = None /\ NoCache.last = 0
  /\ NoContent.buf = Null /\ NoContent.ver = 0
  BY Constants DEF NoCache, NoContent, Caches, Contents, Points, Times

-----------------------------------------------------------------------------
(* The invariant of a world. *)

Rising(q) == \A i, j \in DOMAIN q : i < j => q[i].n < q[j].n

(* One surface: its record, what is shown and the last commit applied, when *)
(* there have been m commits.  Numbers grow from what is shown to what is   *)
(* committed, cached and queued, and a cache holds what is committed.       *)
Aged(r, x, a, m) ==
  /\ x.ver <= r.committed.ver /\ r.committed.ver <= m /\ a <= m
  /\ r.cached # NoCache =>
       /\ r.cached.buf = r.committed.buf /\ r.cached.ver = r.committed.ver
       /\ a < r.cached.last /\ r.cached.last <= m
  /\ \A i \in DOMAIN r.queue :
       /\ r.committed.ver < r.queue[i].n /\ a < r.queue[i].n
       /\ r.cached.last < r.queue[i].n /\ r.queue[i].n <= m
  /\ Rising(r.queue)

(* A point comes with the buffer it was set for. *)
Paired(r) ==
  /\ \A i \in DOMAIN r.queue : r.queue[i].pt \in {None, r.queue[i].buf}
  /\ r.cached.pt \in {None, r.cached.buf} /\ (r.cached.pt # None => r.cached.fresh)

Registered(c, l) ==
  \A b \in Dmabufs : c.registered[b] \in {None, b} \cup l

(* Where a buffer may be. *)
Queued(q, b) == \E i \in DOMAIN q : q[i].buf = b
Once(q, b) == \A i, j \in DOMAIN q : q[i].buf = b /\ q[j].buf = b => i = j
InQueue(r, b) == Queued(r.queue, b)
InCache(r, b) == r.cached.fresh /\ r.cached.buf = b
OnScreen(x, b) == b \in Dmabufs /\ x.buf = b

Held(r, x, b) == InQueue(r, b) \/ InCache(r, b) \/ OnScreen(x, b)

(* It is in one place of a surface at most. *)
Within(r, x, b) ==
  /\ Once(r.queue, b)
  /\ ~(InQueue(r, b) /\ InCache(r, b)) /\ ~(InQueue(r, b) /\ OnScreen(x, b))
  /\ ~(InCache(r, b) /\ OnScreen(x, b))

Holds(w, s, b) == Held(w.surf[s], w.comp.tex[s], b)

(* It is in one place at most, and somewhere exactly if it is lent. *)
Single(w, b) ==
  /\ \A s \in Surfaces : Within(w.surf[s], w.comp.tex[s], b)
  /\ \A s, t \in Surfaces : Holds(w, s, b) /\ Holds(w, t, b) => s = t
  /\ \A s \in Surfaces : Holds(w, s, b) => b \notin w.comp.returning
  /\ b \in w.comp.busy <=> b \in w.comp.returning \/ \E s \in Surfaces : Holds(w, s, b)

(* A point of a surface's record. *)
PointQueued(q, b) == \E i \in DOMAIN q : q[i].pt = b
HasPoint(r, b) == PointQueued(r.queue, b) \/ r.cached.pt = b

(* A point that is owed a signal is with its commit, or is registered. *)
Owed(w, b) ==
  b \in w.comp.unsignalled =>
    (\E s \in Surfaces : HasPoint(w.surf[s], b)) \/ w.comp.registered[b] = b

Fit(w, m) ==
  /\ w \in Worlds
  /\ \A s \in Surfaces : /\ Aged(w.surf[s], w.comp.tex[s], w.applied[s], m)
                         /\ Paired(w.surf[s])
  /\ Registered(w.comp, w.lost)
  /\ \A b \in Buffers \ w.lost : Single(w, b) /\ Owed(w, b)

(* No timer without a queue, no queue without a timer. *)
Armed(r) ==
  /\ r.timer <=> r.queue # <<>>
  /\ r.timer => r.queue[1].timed

(* What the client has asked for, one surface at a time. *)
Asking(s) ==
  /\ pending[s].buf \in Buffers \cup {Null, NoAttach}
  /\ pending[s].pt \in Points /\ pending[s].pt \in {None, pending[s].buf}
  /\ pending[s].timed \in BOOLEAN
  /\ pending[s] = [buf |-> pending[s].buf, pt |-> pending[s].pt, timed |-> pending[s].timed]
  /\ pending[s].buf \in Buffers => Free(pending[s].buf)

IInv ==
  /\ Fit(World, commits) /\ \A s \in Surfaces : Armed(surf[s])
  /\ \A s \in Surfaces : Asking(s)
  /\ \A s, t \in Surfaces : s # t => pending[s] = Nothing \/ pending[t] = Nothing
  /\ DOMAIN pending = Surfaces
  /\ sub \in UNION {[D -> BOOLEAN] : D \in SUBSET Children}
  /\ commits \in Times /\ changes \in 0 .. MaxChanges

-----------------------------------------------------------------------------
(* The cascade. *)

(* What a cascade applies: synchronized children with a cache. *)
Takes(srf, c) ==
  c \in DOMAIN sub /\ srf[c].alive /\ srf[c].cached # NoCache /\ EffectiveSync(c)

LEMMA CascadeTakes ==
  ASSUME NEW srf, NEW s, NEW c \in Cascade(srf, s)
  PROVE  Takes(srf, c)
  BY DEF Cascade, Cached, Takes

(* A child of one that is applied is applied. *)
LEMMA CascadeDown ==
  ASSUME NEW srf, NEW s, NEW c, Takes(srf, c), Parent[c] \in Cascade(srf, s) \cup {s}
  PROVE  c \in Cascade(srf, s)
  <1> DEFINE takers == {x \in DOMAIN sub : srf[x].alive /\ Cached(srf, x) /\ EffectiveSync(x)}
             closed == {X \in SUBSET takers :
                          \A x \in takers : Parent[x] \in X \cup {s} => x \in X}
  <1>1. Cascade(srf, s) = {x \in takers : \A X \in closed : x \in X}
    BY DEF Cascade
  <1>2. c \in takers
    BY DEF Takes, Cached
  <1>3. ASSUME NEW X \in closed PROVE c \in X
    <2>1. Parent[c] \in X \cup {s}
      BY <1>1
    <2> QED BY <1>2, <2>1
  <1> HIDE DEF takers, closed
  <1> QED BY <1>1, <1>2, <1>3

(* What is applied is a child of what is applied. *)
LEMMA CascadeUp ==
  ASSUME NEW srf, NEW s, NEW c \in Cascade(srf, s)
  PROVE  Parent[c] \in Cascade(srf, s) \cup {s}
  <1> DEFINE takers == {x \in DOMAIN sub : srf[x].alive /\ Cached(srf, x) /\ EffectiveSync(x)}
             closed == {X \in SUBSET takers :
                          \A x \in takers : Parent[x] \in X \cup {s} => x \in X}
             p == Parent[c]
  <1>1. Cascade(srf, s) = {x \in takers : \A X \in closed : x \in X}
    BY DEF Cascade
  <1>2. SUFFICES ASSUME p \notin Cascade(srf, s), p # s
                 PROVE  FALSE
    OBVIOUS
  <1>3. takers \in closed
    OBVIOUS
  <1>4. PICK X \in closed : p \notin X
    <2>1. CASE p \in takers
      <3> HIDE DEF takers, closed
      <3> QED BY <1>1, <1>2, <2>1
    <2>2. CASE p \notin takers
      BY <1>3, <2>2
    <2> QED BY <2>1, <2>2
  <1>5. X \ {c} \in closed
    <2>1. X \ {c} \in SUBSET takers
      OBVIOUS
    <2>2. ASSUME NEW x \in takers, Parent[x] \in (X \ {c}) \cup {s}
          PROVE  x \in X \ {c}
      <3>1. x \in X
        BY <2>2
      <3>2. x # c
        BY <1>2, <1>4, <2>2
      <3> QED BY <3>1, <3>2
    <2> QED BY <2>1, <2>2
  <1>6. c \in X \ {c}
    <2> HIDE DEF takers, closed
    <2> QED BY <1>1, <1>5
  <1> QED BY <1>6

-----------------------------------------------------------------------------
(* What the compositor's operators do. *)

(* A surface of U takes what is not null. *)
Drawn(U, content, s) == s \in U /\ content[s].buf # Null

(* c becomes d by what the surfaces of U take. *)
Uploaded(c, U, content, pt, d) ==
  /\ d \in Compositor /\ d.busy = c.busy /\ d.unsignalled = c.unsignalled
  /\ \A s \in Surfaces :
       d.tex[s] = IF Drawn(U, content, s) THEN content[s] ELSE c.tex[s]
  /\ \A b \in Dmabufs :
       \/ /\ d.registered[b] = c.registered[b]
          /\ \A s \in Surfaces :
               Drawn(U, content, s) /\ content[s].buf = b => pt[s] = None
       \/ \E s \in Surfaces :
            /\ Drawn(U, content, s) /\ content[s].buf = b /\ pt[s] # None
            /\ d.registered[b] = pt[s]
  /\ \A b : b \in d.returning <=>
       \/ b \in c.returning
       \/ b \in Shm /\ \E s \in Surfaces : Drawn(U, content, s) /\ content[s].buf = b
       \/ b \in Dmabufs /\ \E s \in Surfaces :
            Drawn(U, content, s) /\ content[s].buf # b /\ c.tex[s].buf = b

LEMMA UploadIs ==
  ASSUME NEW c \in Compositor, NEW U \in SUBSET Surfaces, NEW content, NEW pt,
         \A s \in U : content[s] \in Contents /\ pt[s] \in Points
  PROVE  Uploaded(c, U, content, pt, Upload(c, U, content, pt))
  <1> DEFINE up   == {s \in U : content[s].buf # Null}
             new  == {content[s].buf : s \in up}
             old  == {c.tex[s].buf : s \in {x \in up : c.tex[x].buf # content[x].buf}}
             with(b) == {s \in up : content[s].buf = b /\ pt[s] # None}
             tx  == [s \in Surfaces |-> IF s \in up THEN content[s] ELSE c.tex[s]]
             rg  == [b \in Dmabufs |-> IF with(b) = {} THEN c.registered[b]
                                       ELSE pt[CHOOSE s \in with(b) : TRUE]]
             rt  == c.returning \cup (new \cap Shm) \cup (old \cap Dmabufs)
             d   == Upload(c, U, content, pt)
  <1>1. d = [c EXCEPT !.tex = tx, !.registered = rg, !.returning = rt]
    BY DEF Upload
  <1>2. \A s : s \in up <=> Drawn(U, content, s)
    BY DEF Drawn
  <1>3. up \subseteq Surfaces /\ \A s \in up : content[s] \in Contents /\ pt[s] \in Points
    OBVIOUS
  <1>4. tx \in [Surfaces -> Contents]
    BY <1>3, CompFields
  <1>5. ASSUME NEW b \in Dmabufs
        PROVE  \/ /\ rg[b] = c.registered[b]
                  /\ \A s \in up : content[s].buf = b => pt[s] = None
               \/ \E s \in up : content[s].buf = b /\ pt[s] # None /\ rg[b] = pt[s]
    <2>1. CASE with(b) = {}
      BY <2>1
    <2>2. CASE with(b) # {}
      <3>1. (CHOOSE s \in with(b) : TRUE) \in with(b)
        BY <2>2
      <3>2. rg[b] = pt[CHOOSE s \in with(b) : TRUE]
        BY <2>2
      <3> QED BY <3>1, <3>2
    <2> QED BY <2>1, <2>2
  <1>6. rg \in [Dmabufs -> Points]
    <2>1. ASSUME NEW b \in Dmabufs PROVE rg[b] \in Points
      <3> HIDE DEF rg
      <3> QED BY <1>3, <1>5, CompFields
    <2> QED BY <2>1
  <1>7. rt \in SUBSET Buffers
    BY Constants, CompFields
  <1>8. \A b : b \in rt <=>
          \/ b \in c.returning
          \/ b \in Shm /\ \E s \in up : content[s].buf = b
          \/ b \in Dmabufs /\ \E s \in up : content[s].buf # b /\ c.tex[s].buf = b
    OBVIOUS
  <1>9. \A s \in Surfaces : tx[s] = IF s \in up THEN content[s] ELSE c.tex[s]
    OBVIOUS
  <1> HIDE DEF tx, rg, rt, up
  <1>10. /\ d.tex = tx /\ d.registered = rg /\ d.returning = rt
         /\ d.busy = c.busy /\ d.unsignalled = c.unsignalled /\ d \in Compositor
    BY <1>1, <1>4, <1>6, <1>7 DEF Compositor, Contents, Points
  <1> HIDE DEF d
  <1>11. \A s \in Surfaces : d.tex[s] = IF Drawn(U, content, s) THEN content[s] ELSE c.tex[s]
    BY <1>2, <1>9, <1>10
  <1>12. \A b \in Dmabufs :
           \/ /\ d.registered[b] = c.registered[b]
              /\ \A s \in Surfaces : Drawn(U, content, s) /\ content[s].buf = b
                   => pt[s] = None
           \/ \E s \in Surfaces :
                /\ Drawn(U, content, s) /\ content[s].buf = b /\ pt[s] # None
                /\ d.registered[b] = pt[s]
    BY <1>2, <1>3, <1>5, <1>10
  <1>13. \A b : b \in d.returning <=>
           \/ b \in c.returning
           \/ b \in Shm /\ \E s \in Surfaces :
                             Drawn(U, content, s) /\ content[s].buf = b
           \/ b \in Dmabufs /\ \E s \in Surfaces :
                /\ Drawn(U, content, s) /\ content[s].buf # b
                /\ c.tex[s].buf = b
    BY <1>2, <1>3, <1>8, <1>10
  <1> QED BY <1>10, <1>11, <1>12, <1>13 DEF d, Uploaded

(* Only what U takes matters. *)
LEMMA UploadedSame ==
  ASSUME NEW c, NEW U \in SUBSET Surfaces, NEW x, NEW p, NEW d, Uploaded(c, U, x, p, d),
         NEW y, NEW q, \A s \in U : x[s] = y[s] /\ p[s] = q[s]
  PROVE  Uploaded(c, U, y, q, d)
  <1>1. \A s : Drawn(U, x, s) <=> Drawn(U, y, s)
    BY DEF Drawn
  <1>2. \A s : Drawn(U, x, s) => x[s] = y[s] /\ p[s] = q[s]
    BY DEF Drawn
  <1>3. /\ \A s \in Surfaces :
             d.tex[s] = IF Drawn(U, y, s) THEN y[s] ELSE c.tex[s]
        /\ d \in Compositor /\ d.busy = c.busy /\ d.unsignalled = c.unsignalled
    BY <1>1, <1>2 DEF Uploaded
  <1>4. ASSUME NEW b \in Dmabufs
        PROVE  \/ /\ d.registered[b] = c.registered[b]
                  /\ \A s \in Surfaces : Drawn(U, y, s) /\ y[s].buf = b => q[s] = None
               \/ \E s \in Surfaces :
                    /\ Drawn(U, y, s) /\ y[s].buf = b /\ q[s] # None
                    /\ d.registered[b] = q[s]
    BY <1>1, <1>2 DEF Uploaded
  <1>5. ASSUME NEW b
        PROVE  b \in d.returning <=>
                 \/ b \in c.returning
                 \/ b \in Shm /\ \E s \in Surfaces : Drawn(U, y, s) /\ y[s].buf = b
                 \/ b \in Dmabufs /\ \E s \in Surfaces :
                      Drawn(U, y, s) /\ y[s].buf # b /\ c.tex[s].buf = b
    BY <1>1, <1>2 DEF Uploaded
  <1> QED BY <1>3, <1>4, <1>5 DEF Uploaded

(* A cached buffer is the committed one. *)
Agrees(r) ==
  r.cached # NoCache => r.cached.buf = r.committed.buf /\ r.cached.ver = r.committed.ver

LEMMA UncachedIs ==
  ASSUME NEW r \in Records, Agrees(r), r.cached # NoCache
  PROVE  Uncached(r) = r.committed
  <1>1. r.committed = [buf |-> r.committed.buf, ver |-> r.committed.ver]
    BY RecordFields DEF Contents
  <1>2. r.cached.buf = r.committed.buf /\ r.cached.ver = r.committed.ver
    BY DEF Agrees
  <1> QED BY <1>1, <1>2 DEF Uncached

-----------------------------------------------------------------------------
(* applySurfaceState. *)

SubTyped == sub \in UNION {[D -> BOOLEAN] : D \in SUBSET Children}

LEMMA SubIn ==
  ASSUME SubTyped
  PROVE  /\ DOMAIN sub \subseteq Children /\ DOMAIN sub \subseteq Surfaces
         /\ \A s \in DOMAIN sub : sub[s] \in BOOLEAN /\ Parent[s] \in Surfaces
  <1>1. PICK D \in SUBSET Children : sub \in [D -> BOOLEAN]
    BY DEF SubTyped
  <1> QED BY <1>1, Constants

Applying(w, s) == Cascade(w.surf, s) \cup {s}
Taking(w, s, fresh) ==
  {c \in Applying(w, s) : IF c = s THEN fresh ELSE w.surf[c].cached.fresh}
NowShown(w, s, content) ==
  [c \in Surfaces |-> IF c = s THEN content ELSE w.surf[c].committed]
PointsOf(w, s, pt) ==
  [c \in Surfaces |-> IF c = s THEN pt ELSE w.surf[c].cached.pt]

IsApplied(w, s, content, fresh, pt, n, v) ==
  /\ v \in Worlds /\ v.lost = w.lost
  /\ \A c \in Surfaces :
       /\ v.surf[c].alive = w.surf[c].alive /\ v.surf[c].mapped = w.surf[c].mapped
       /\ v.surf[c].queue = w.surf[c].queue /\ v.surf[c].timer = w.surf[c].timer
       /\ v.surf[c].committed = NowShown(w, s, content)[c]
       /\ v.surf[c].cached = IF c \in Applying(w, s) THEN NoCache ELSE w.surf[c].cached
       /\ v.applied[c] = IF c = s THEN n
                         ELSE IF c \in Applying(w, s) THEN w.surf[c].cached.last
                         ELSE w.applied[c]
  /\ Uploaded(w.comp, Taking(w, s, fresh), NowShown(w, s, content), PointsOf(w, s, pt),
              v.comp)

LEMMA ApplyIs ==
  ASSUME NEW w \in Worlds, SubTyped, \A c \in Surfaces : Agrees(w.surf[c]),
         NEW s \in Surfaces, NEW content \in Contents, NEW fresh \in BOOLEAN,
         NEW pt \in Points, NEW n \in Times
  PROVE  IsApplied(w, s, content, fresh, pt, n, ApplySurfaceState(w, s, content, fresh, pt, n))
  <1> DEFINE below == Cascade(w.surf, s)
             all   == below \cup {s}
             now   == [c \in all |-> IF c = s THEN content ELSE Uncached(w.surf[c])]
             pts   == [c \in all |-> IF c = s THEN pt ELSE w.surf[c].cached.pt]
             takes == {c \in all : IF c = s THEN fresh ELSE w.surf[c].cached.fresh}
             srf   == [c \in Surfaces |->
                         IF c \in all THEN [w.surf[c] EXCEPT !.committed = now[c],
                                                             !.cached = NoCache]
                         ELSE w.surf[c]]
             cmp   == Upload(w.comp, takes, now, pts)
             app   == [c \in Surfaces |-> IF c = s THEN n
                         ELSE IF c \in below THEN w.surf[c].cached.last ELSE w.applied[c]]
             v     == ApplySurfaceState(w, s, content, fresh, pt, n)
             N     == NowShown(w, s, content)
             P     == PointsOf(w, s, pt)
  <1>1. v = [w EXCEPT !.surf = srf, !.comp = cmp, !.applied = app]
    BY DEF ApplySurfaceState
  <1>2. ASSUME NEW c \in below
        PROVE  c \in Surfaces /\ w.surf[c].cached # NoCache
    BY CascadeTakes, SubIn DEF Takes
  <1>3. /\ all \subseteq Surfaces /\ takes \subseteq all /\ takes = Taking(w, s, fresh)
        /\ all = Applying(w, s)
    BY <1>2 DEF Taking, Applying
  <1>4. ASSUME NEW c \in all
        PROVE  now[c] = N[c] /\ pts[c] = P[c] /\ N[c] \in Contents /\ P[c] \in Points
    <2>1. c \in Surfaces /\ w.surf[c] \in Records
      BY <1>3, WorldFields
    <2>2. CASE c = s
      BY <2>1, <2>2 DEF NowShown, PointsOf
    <2>3. CASE c # s
      <3>1. c \in below
        BY <2>3
      <3>2. Uncached(w.surf[c]) = w.surf[c].committed
        BY <1>2, <2>1, <3>1, UncachedIs
      <3>3. w.surf[c].committed \in Contents /\ w.surf[c].cached.pt \in Points
        BY <2>1, RecordFields, CacheFields
      <3> QED BY <2>1, <2>3, <3>2, <3>3 DEF NowShown, PointsOf
    <2> QED BY <2>2, <2>3
  <1> HIDE DEF now, pts, below, v
  <1>5. Uploaded(w.comp, takes, now, pts, cmp)
    <2>1. w.comp \in Compositor /\ takes \in SUBSET Surfaces
      BY <1>3, WorldFields
    <2>2. \A c \in takes : now[c] \in Contents /\ pts[c] \in Points
      BY <1>3, <1>4
    <2> HIDE DEF takes, all
    <2> QED BY <2>1, <2>2, UploadIs
  <1>6. Uploaded(w.comp, takes, N, P, cmp)
    <2>1. takes \in SUBSET Surfaces /\ \A c \in takes : now[c] = N[c] /\ pts[c] = P[c]
      BY <1>3, <1>4
    <2> HIDE DEF takes, cmp, all, N, P
    <2> QED BY <1>5, <2>1, UploadedSame
  <1>7. ASSUME NEW c \in Surfaces
        PROVE  /\ srf[c] \in Records
               /\ srf[c].alive = w.surf[c].alive /\ srf[c].mapped = w.surf[c].mapped
               /\ srf[c].queue = w.surf[c].queue /\ srf[c].timer = w.surf[c].timer
               /\ srf[c].committed = N[c]
               /\ srf[c].cached = IF c \in all THEN NoCache ELSE w.surf[c].cached
               /\ app[c] = IF c = s THEN n
                           ELSE IF c \in all THEN w.surf[c].cached.last ELSE w.applied[c]
               /\ app[c] \in Times
    <2>1. w.surf[c] \in Records /\ w.applied[c] \in Times /\ w.surf[c].cached.last \in Times
      BY WorldFields, RecordFields, CacheFields
    <2>2. CASE c \in all
      <3>1. /\ now[c] = N[c] /\ N[c] \in Contents /\ NoCache \in Caches
        BY <1>4, <2>2, Empties
      <3>2. srf[c] = [w.surf[c] EXCEPT !.committed = now[c], !.cached = NoCache]
        BY <2>2
      <3> HIDE DEF srf, N
      <3>3. /\ srf[c] \in Records
            /\ srf[c].alive = w.surf[c].alive /\ srf[c].mapped = w.surf[c].mapped
            /\ srf[c].queue = w.surf[c].queue /\ srf[c].timer = w.surf[c].timer
            /\ srf[c].committed = now[c] /\ srf[c].cached = NoCache
        BY <2>1, <3>1, <3>2 DEF Records
      <3> QED BY <2>1, <2>2, <3>1, <3>3
    <2>3. CASE c \notin all
      <3>1. srf[c] = w.surf[c] /\ N[c] = w.surf[c].committed
        BY <2>3 DEF NowShown
      <3> QED BY <2>1, <2>3, <3>1
    <2> QED BY <2>2, <2>3
  <1> HIDE DEF srf, cmp, app, all, takes, N, P
  <1>8. /\ srf \in [Surfaces -> Records] /\ app \in [Surfaces -> Times]
        /\ cmp \in Compositor
    <2>1. srf \in [Surfaces -> Records]
      BY <1>7 DEF srf
    <2>2. app \in [Surfaces -> Times]
      BY <1>7 DEF app
    <2> QED BY <1>6, <2>1, <2>2 DEF Uploaded
  <1>9. /\ v \in Worlds /\ v.surf = srf /\ v.comp = cmp /\ v.applied = app
        /\ v.lost = w.lost
    BY <1>1, <1>8 DEF Worlds
  <1> QED BY <1>3, <1>6, <1>7, <1>9 DEF IsApplied, N, P, v

-----------------------------------------------------------------------------
(* The commit at the head of a queue. *)

LEMMA Queues ==
  ASSUME NEW q \in Seq(Entries)
  PROVE  /\ Len(q) \in Nat /\ DOMAIN q = 1 .. Len(q)
         /\ \A i \in DOMAIN q : q[i] \in Entries
         /\ q = <<>> <=> Len(q) = 0
         /\ q # <<>> => /\ Head(q) = q[1] /\ 1 \in DOMAIN q /\ Tail(q) \in Seq(Entries)
                        /\ Len(Tail(q)) = Len(q) - 1
                        /\ \A i \in DOMAIN Tail(q) : i + 1 \in DOMAIN q
                                                     /\ Tail(q)[i] = q[i + 1]
                        /\ \A i \in DOMAIN q : i # 1 => i - 1 \in DOMAIN Tail(q)
                                                        /\ Tail(q)[i - 1] = q[i]
  OBVIOUS

(* What is in a queue without its head. *)
LEMMA TailHas ==
  ASSUME NEW q \in Seq(Entries), q # <<>>, NEW b
  PROVE  /\ Queued(q, b) <=> q[1].buf = b \/ Queued(Tail(q), b)
         /\ PointQueued(q, b) <=> q[1].pt = b \/ PointQueued(Tail(q), b)
         /\ Once(q, b) => ~(q[1].buf = b /\ Queued(Tail(q), b)) /\ Once(Tail(q), b)
  <1> DEFINE t == Tail(q)
  <1>1. /\ 1 \in DOMAIN q
        /\ \A i \in DOMAIN t : i + 1 \in DOMAIN q /\ t[i] = q[i + 1]
        /\ \A i \in DOMAIN q : i # 1 => i - 1 \in DOMAIN t /\ t[i - 1] = q[i]
    BY Queues
  <1>2. \A i \in DOMAIN t : i \in Nat /\ i + 1 # 1
    BY Queues
  <1> HIDE DEF t
  <1>3. (\E i \in DOMAIN q : q[i].buf = b) <=> q[1].buf = b \/ \E i \in DOMAIN t : t[i].buf = b
    BY <1>1
  <1>4. (\E i \in DOMAIN q : q[i].pt = b) <=> q[1].pt = b \/ \E i \in DOMAIN t : t[i].pt = b
    BY <1>1
  <1>5. ASSUME \A i, j \in DOMAIN q : q[i].buf = b /\ q[j].buf = b => i = j
        PROVE  /\ ~(q[1].buf = b /\ \E i \in DOMAIN t : t[i].buf = b)
               /\ \A i, j \in DOMAIN t : t[i].buf = b /\ t[j].buf = b => i = j
    <2>1. ASSUME q[1].buf = b, NEW i \in DOMAIN t, t[i].buf = b PROVE FALSE
      BY <1>1, <1>2, <1>5, <2>1
    <2>2. ASSUME NEW i \in DOMAIN t, NEW j \in DOMAIN t, t[i].buf = b, t[j].buf = b
          PROVE  i = j
      <3>1. i + 1 = j + 1
        BY <1>1, <1>5, <2>2
      <3> QED BY <1>2, <3>1
    <2> QED BY <2>1, <2>2
  <1>6. /\ Queued(q, b) <=> q[1].buf = b \/ Queued(t, b)
        /\ PointQueued(q, b) <=> q[1].pt = b \/ PointQueued(t, b)
    BY <1>3, <1>4 DEF Queued, PointQueued
  <1>7. Once(q, b) => ~(q[1].buf = b /\ Queued(t, b)) /\ Once(t, b)
    BY <1>5 DEF Once, Queued
  <1> QED BY <1>6, <1>7 DEF t

(* A world whose surface s has lost the head of its queue. *)
Popped(w, s, d) ==
  /\ d \in Worlds /\ d.comp = w.comp /\ d.applied = w.applied /\ w.lost \subseteq d.lost
  /\ \A c \in Surfaces :
       /\ d.surf[c].alive = w.surf[c].alive /\ d.surf[c].mapped = w.surf[c].mapped
       /\ d.surf[c].committed = w.surf[c].committed /\ d.surf[c].cached = w.surf[c].cached
       /\ d.surf[c].timer = w.surf[c].timer
       /\ d.surf[c].queue = IF c = s THEN Tail(w.surf[s].queue) ELSE w.surf[c].queue

(* How a world with buffer b in one place becomes another. *)
Moves(w, v, c, b) ==
  /\ Within(v.surf[c], v.comp.tex[c], b)
  /\ Holds(v, c, b) => Holds(w, c, b)
  /\ Holds(w, c, b) => Holds(v, c, b) \/ b \in v.comp.returning

LEMMA SingleMoved ==
  ASSUME NEW w, NEW v, NEW b, Single(w, b), \A c \in Surfaces : Moves(w, v, c, b),
         b \in v.comp.returning =>
           b \in w.comp.returning \/ \E c \in Surfaces : Holds(w, c, b) /\ ~Holds(v, c, b),
         b \in w.comp.returning => b \in v.comp.returning,
         b \in v.comp.busy <=> b \in w.comp.busy
  PROVE  Single(v, b)
  <1>1. /\ \A s, t \in Surfaces : Holds(w, s, b) /\ Holds(w, t, b) => s = t
        /\ \A s \in Surfaces : Holds(w, s, b) => b \notin w.comp.returning
        /\ b \in w.comp.busy <=> b \in w.comp.returning \/ \E s \in Surfaces : Holds(w, s, b)
    BY DEF Single
  <1>2. \A c \in Surfaces : /\ Within(v.surf[c], v.comp.tex[c], b)
                            /\ Holds(v, c, b) => Holds(w, c, b)
                            /\ Holds(w, c, b) => Holds(v, c, b) \/ b \in v.comp.returning
    BY DEF Moves
  <1>3. \A s, t \in Surfaces : Holds(v, s, b) /\ Holds(v, t, b) => s = t
    BY <1>1, <1>2
  <1>4. \A s \in Surfaces : Holds(v, s, b) => b \notin v.comp.returning
    BY <1>1, <1>2
  <1>5. b \in v.comp.busy <=> b \in v.comp.returning \/ \E s \in Surfaces : Holds(v, s, b)
    BY <1>1, <1>2
  <1> QED BY <1>2, <1>3, <1>4, <1>5 DEF Single

(* Buffer b, when the head of the queue of s and the caches of T are applied  *)
(* and the surfaces of U show what they get: it is taken where it was in hand *)
(* or cached, with its own point.                                          *)
InHand(w, s, T, c, b) ==
  c \in T /\ (InCache(w.surf[c], b) \/ (c = s /\ w.surf[s].queue[1].buf = b))

Delivers(w, s, T, U, now, pts, b) ==
  /\ \A c \in Surfaces : Drawn(U, now, c) /\ now[c].buf = b <=> InHand(w, s, T, c, b)
  /\ \A c \in Surfaces : Drawn(U, now, c) /\ now[c].buf = b => pts[c] \in {None, b}
  /\ \A c \in T : w.surf[c].cached.pt = b => pts[c] = b /\ InCache(w.surf[c], b)
  /\ w.surf[s].queue[1].pt = b => pts[s] = b /\ w.surf[s].queue[1].buf = b

(* The worlds before and after. *)
Latches(w, s, T, U, now, pts, v) ==
  /\ s \in T /\ T \subseteq Surfaces /\ U \subseteq T
  /\ w.surf[s].queue \in Seq(Entries) /\ w.surf[s].queue # <<>>
  /\ \A c \in Surfaces :
       /\ v.surf[c].queue = IF c = s THEN Tail(w.surf[s].queue) ELSE w.surf[c].queue
       /\ v.surf[c].cached = IF c \in T THEN NoCache ELSE w.surf[c].cached
  /\ Uploaded(w.comp, U, now, pts, v.comp)

LEMMA LatchMoves ==
  ASSUME NEW w, NEW s, NEW T, NEW U, NEW now, NEW pts, NEW v,
         Latches(w, s, T, U, now, pts, v), NEW b \in Buffers,
         Delivers(w, s, T, U, now, pts, b), NEW c \in Surfaces,
         Within(w.surf[c], w.comp.tex[c], b)
  PROVE  /\ Moves(w, v, c, b)
         /\ Drawn(U, now, c) /\ (IF now[c].buf = b THEN b \in Shm ELSE OnScreen(w.comp.tex[c], b))
              => Holds(w, c, b) /\ ~Holds(v, c, b)
  <1> DEFINE q == w.surf[s].queue
             x == w.comp.tex[c]
             y == v.comp.tex[c]
             r == w.surf[c]
             u == v.surf[c]
             D == Drawn(U, now, c)
             H == InHand(w, s, T, c, b)
  <1>1. /\ InQueue(r, b) <=> InQueue(u, b) \/ (c = s /\ q[1].buf = b)
        /\ ~(InQueue(u, b) /\ c = s /\ q[1].buf = b)
        /\ Once(u.queue, b)
    <2>1. CASE c = s
      <3>1. u.queue = Tail(q) /\ r.queue = q /\ q \in Seq(Entries) /\ q # <<>>
        BY <2>1 DEF Latches
      <3>2. Once(q, b)
        BY <3>1 DEF Within
      <3> HIDE DEF q
      <3>3. /\ Queued(q, b) <=> q[1].buf = b \/ Queued(Tail(q), b)
            /\ ~(q[1].buf = b /\ Queued(Tail(q), b)) /\ Once(Tail(q), b)
        BY <3>1, <3>2, TailHas
      <3> HIDE DEF u, r
      <3> QED BY <2>1, <3>1, <3>3 DEF InQueue
    <2>2. CASE c # s
      <3>1. u.queue = r.queue
        BY <2>2 DEF Latches
      <3> QED BY <2>2, <3>1 DEF InQueue, Within
    <2> QED BY <2>1, <2>2
  <1>2. /\ c \in T => ~InCache(u, b)
        /\ c \notin T => (InCache(u, b) <=> InCache(r, b))
    BY Empties DEF Latches, InCache
  <1>3. D /\ now[c].buf = b <=> H
    BY DEF Delivers
  <1>4. D => c \in T
    BY DEF Drawn, Latches
  <1>5. H <=> c \in T /\ (InCache(r, b) \/ (c = s /\ q[1].buf = b))
    BY DEF InHand
  <1>6. s \in T
    BY DEF Latches
  <1>7. y = IF D THEN now[c] ELSE x
    BY DEF Latches, Uploaded
  <1>8. OnScreen(y, b) <=> IF D THEN b \in Dmabufs /\ H ELSE OnScreen(x, b)
    BY <1>3, <1>7 DEF OnScreen
  <1>9. /\ D /\ now[c].buf = b /\ b \in Shm => b \in v.comp.returning
        /\ D /\ now[c].buf # b /\ OnScreen(x, b) => b \in v.comp.returning
    BY DEF Latches, Uploaded, OnScreen
  <1>10. b \in Dmabufs \/ b \in Shm
    BY Constants
  <1>11. ~(b \in Dmabufs /\ b \in Shm)
    BY Constants
  <1>12. /\ ~(InQueue(r, b) /\ InCache(r, b)) /\ ~(InQueue(r, b) /\ OnScreen(x, b))
         /\ ~(InCache(r, b) /\ OnScreen(x, b))
    BY DEF Within
  <1>13. OnScreen(x, b) => b \in Dmabufs
    BY DEF OnScreen
  <1> HIDE DEF q, x, y, r, u, D, H
  <1>14. /\ ~(InQueue(u, b) /\ InCache(u, b)) /\ ~(InQueue(u, b) /\ OnScreen(y, b))
         /\ ~(InCache(u, b) /\ OnScreen(y, b))
    BY <1>1, <1>2, <1>4, <1>5, <1>6, <1>8, <1>12
  <1>15. Held(u, y, b) => Held(r, x, b)
    BY <1>1, <1>2, <1>5, <1>8 DEF Held
  <1>16. Held(r, x, b) => Held(u, y, b) \/ b \in v.comp.returning
    BY <1>1, <1>2, <1>3, <1>5, <1>6, <1>8, <1>9, <1>10 DEF Held
  <1>17. D /\ (IF now[c].buf = b THEN b \in Shm ELSE OnScreen(x, b))
           => Held(r, x, b) /\ ~Held(u, y, b)
    BY <1>1, <1>2, <1>3, <1>4, <1>5, <1>6, <1>8, <1>11, <1>12 DEF Held
  <1>18. Within(u, y, b)
    BY <1>1, <1>14 DEF Within
  <1> QED BY <1>15, <1>16, <1>17, <1>18 DEF Moves, Holds, q, x, y, r, u, D

LEMMA LatchSingle ==
  ASSUME NEW w, NEW s, NEW T, NEW U, NEW now, NEW pts, NEW v,
         Latches(w, s, T, U, now, pts, v), NEW b \in Buffers,
         Delivers(w, s, T, U, now, pts, b), Single(w, b)
  PROVE  Single(v, b)
  <1>1. \A c \in Surfaces :
          /\ Moves(w, v, c, b)
          /\ Drawn(U, now, c) /\ (IF now[c].buf = b THEN b \in Shm
                                                    ELSE OnScreen(w.comp.tex[c], b))
               => Holds(w, c, b) /\ ~Holds(v, c, b)
    BY LatchMoves DEF Single
  <1>2. b \in v.comp.returning <=>
          \/ b \in w.comp.returning
          \/ b \in Shm /\ \E c \in Surfaces : Drawn(U, now, c) /\ now[c].buf = b
          \/ b \in Dmabufs /\ \E c \in Surfaces :
               Drawn(U, now, c) /\ now[c].buf # b /\ w.comp.tex[c].buf = b
    BY DEF Latches, Uploaded
  <1>3. b \in v.comp.returning =>
          b \in w.comp.returning \/ \E c \in Surfaces : Holds(w, c, b) /\ ~Holds(v, c, b)
    BY <1>1, <1>2 DEF OnScreen
  <1>4. b \in v.comp.busy <=> b \in w.comp.busy
    BY DEF Latches, Uploaded
  <1> QED BY <1>1, <1>2, <1>3, <1>4, SingleMoved

(* The points that were owed a signal still are. *)
LEMMA LatchOwed ==
  ASSUME NEW w, NEW s \in Surfaces, NEW T, NEW U, NEW now, NEW pts, NEW v,
         Latches(w, s, T, U, now, pts, v), w.comp \in Compositor, NEW b \in Buffers,
         Delivers(w, s, T, U, now, pts, b), Owed(w, b)
  PROVE  Owed(v, b)
  <1> DEFINE q == w.surf[s].queue
  <1>1. SUFFICES ASSUME b \in v.comp.unsignalled,
                        ~\E c \in Surfaces : HasPoint(v.surf[c], b)
                 PROVE  v.comp.registered[b] = b
    BY DEF Owed
  <1>2. b \in w.comp.unsignalled
    BY <1>1 DEF Latches, Uploaded
  <1>3. b \in Dmabufs
    BY <1>2, CompFields
  <1>4. b # None
    BY Constants
  <1>5. \/ /\ v.comp.registered[b] = w.comp.registered[b]
           /\ \A c \in Surfaces : Drawn(U, now, c) /\ now[c].buf = b => pts[c] = None
        \/ \E c \in Surfaces : /\ Drawn(U, now, c) /\ now[c].buf = b /\ pts[c] # None
                               /\ v.comp.registered[b] = pts[c]
    BY <1>3 DEF Latches, Uploaded
  <1>6. \A c \in Surfaces : Drawn(U, now, c) /\ now[c].buf = b => pts[c] \in {None, b}
    BY DEF Delivers
  <1>7. ASSUME NEW c \in Surfaces, Drawn(U, now, c), now[c].buf = b, pts[c] = b
        PROVE  v.comp.registered[b] = b
    BY <1>4, <1>5, <1>6, <1>7
  <1>8. CASE w.comp.registered[b] = b
    BY <1>5, <1>6, <1>8
  <1>9. CASE \E c \in Surfaces : HasPoint(w.surf[c], b)
    <2>1. PICK c \in Surfaces : HasPoint(w.surf[c], b)
      BY <1>9
    <2>2. ~PointQueued(v.surf[c].queue, b) /\ v.surf[c].cached.pt # b
      BY <1>1 DEF HasPoint
    <2>3. CASE w.surf[c].cached.pt = b
      <3>1. c \in T
        BY <2>2, <2>3 DEF Latches
      <3>2. pts[c] = b /\ InCache(w.surf[c], b)
        BY <2>3, <3>1 DEF Delivers
      <3>3. Drawn(U, now, c) /\ now[c].buf = b
        BY <3>1, <3>2 DEF Delivers, InHand
      <3> QED BY <1>7, <3>2, <3>3
    <2>4. CASE PointQueued(w.surf[c].queue, b)
      <3>1. c = s
        BY <2>2, <2>4 DEF Latches
      <3>2. q \in Seq(Entries) /\ q # <<>> /\ v.surf[c].queue = Tail(q)
        BY <3>1 DEF Latches
      <3> HIDE DEF q
      <3>3. PointQueued(q, b) <=> q[1].pt = b \/ PointQueued(Tail(q), b)
        BY <3>2, TailHas
      <3>4. q[1].pt = b
        BY <2>2, <2>4, <3>1, <3>2, <3>3 DEF q
      <3>5. pts[s] = b /\ q[1].buf = b /\ s \in T
        BY <3>4 DEF Delivers, Latches, q
      <3>6. Drawn(U, now, s) /\ now[s].buf = b
        BY <3>5 DEF Delivers, InHand, q
      <3> QED BY <1>7, <3>5, <3>6
    <2> QED BY <2>1, <2>3, <2>4 DEF HasPoint
  <1> QED BY <1>2, <1>8, <1>9 DEF Owed

LEMMA LatchRegistered ==
  ASSUME NEW w, NEW s, NEW T, NEW U, NEW now, NEW pts, NEW v,
         Latches(w, s, T, U, now, pts, v), Registered(w.comp, w.lost),
         NEW l, w.lost \subseteq l,
         \A c \in Surfaces : Drawn(U, now, c) => pts[c] \in {None, now[c].buf} \cup l
  PROVE  Registered(v.comp, l)
  <1>1. SUFFICES ASSUME NEW b \in Dmabufs PROVE v.comp.registered[b] \in {None, b} \cup l
    BY DEF Registered
  <1>2. w.comp.registered[b] \in {None, b} \cup w.lost
    BY DEF Registered
  <1>3. \/ v.comp.registered[b] = w.comp.registered[b]
        \/ \E c \in Surfaces : /\ Drawn(U, now, c) /\ now[c].buf = b
                               /\ v.comp.registered[b] = pts[c]
    BY DEF Latches, Uploaded
  <1> QED BY <1>2, <1>3

-----------------------------------------------------------------------------
(* A desynchronized commit: the parts of LatchDesync. *)

Flushes(k)  == k.buf \notin {NoAttach, Null}
Attaches(e) == e.buf # NoAttach
Own(r, e)   == IF Attaches(e) THEN [buf |-> e.buf, ver |-> e.n] ELSE r.committed
Shows(r, e) ==
  IF Flushes(r.cached) THEN [buf |-> r.cached.buf, ver |-> r.cached.ver] ELSE Own(r, e)
Fresh(r, e)  == Attaches(e) \/ r.cached.fresh
Brings(r, e) == IF e.pt # None THEN e.pt ELSE r.cached.pt
Muddles(r, e) ==
  IF Flushes(r.cached) /\ Attaches(e) THEN {e.buf, r.cached.buf} \cap Buffers ELSE {}

LEMMA LatchDesyncIs ==
  ASSUME NEW d, NEW s, NEW e
  PROVE  LatchDesync(d, s, e) =
           ApplySurfaceState([d EXCEPT !.lost = @ \cup Muddles(d.surf[s], e)], s,
                             Shows(d.surf[s], e), Fresh(d.surf[s], e),
                             Brings(d.surf[s], e), e.n)
  BY DEF LatchDesync, Flushes, Attaches, Own, Shows, Fresh, Brings, Muddles

(* A cache or an entry whose point is its buffer's. *)
PairedCache(k) == k.pt \in {None, k.buf} /\ (k.pt # None => k.fresh)
PairedEntry(e) == e.pt \in {None, e.buf}

LEMMA ShowsTyped ==
  ASSUME NEW r \in Records, Agrees(r), NEW e \in Entries
  PROVE  /\ Shows(r, e) \in Contents /\ Brings(r, e) \in Points /\ Fresh(r, e) \in BOOLEAN
         /\ Shows(r, e).ver \in {r.committed.ver, e.n} /\ Muddles(r, e) \subseteq Buffers
  <1> DEFINE k == r.cached
  <1>1. k \in Caches /\ r.committed \in Contents
    BY RecordFields
  <1>2. e.buf \in Buffers \cup {Null, NoAttach} /\ e.pt \in Points /\ e.n \in Times
    BY EntryFields
  <1>3. k.buf \in Buffers \cup {Null, NoAttach} /\ k.pt \in Points /\ k.ver \in Times
        /\ k.fresh \in BOOLEAN
    BY <1>1, CacheFields
  <1>4. Flushes(k) => k # NoCache
    BY Empties DEF Flushes
  <1>5. Flushes(k) => k.ver = r.committed.ver
    BY <1>4 DEF Agrees
  <1>6. Own(r, e) \in Contents /\ Own(r, e).ver \in {r.committed.ver, e.n}
    BY <1>1, <1>2 DEF Own, Attaches, Contents, Times
  <1>7. Shows(r, e) \in Contents /\ Shows(r, e).ver \in {r.committed.ver, e.n}
    <2>1. CASE Flushes(k)
      BY <1>3, <1>5, <2>1 DEF Shows, Flushes, Contents, Times
    <2>2. CASE ~Flushes(k)
      BY <1>6, <2>2 DEF Shows
    <2> QED BY <2>1, <2>2
  <1>8. Brings(r, e) \in Points /\ Fresh(r, e) \in BOOLEAN /\ Muddles(r, e) \subseteq Buffers
    BY <1>2, <1>3 DEF Brings, Fresh, Muddles, Attaches
  <1> QED BY <1>7, <1>8

(* A buffer that is not muddled is shown, with its point, if it was cached or *)
(* attached, and only then.                                                *)
LEMMA ShowsRight ==
  ASSUME NEW r \in Records, Agrees(r), NEW e \in Entries, PairedCache(r.cached),
         PairedEntry(e), NEW b \in Buffers, b \notin Muddles(r, e)
  PROVE  /\ Fresh(r, e) /\ Shows(r, e).buf = b <=> InCache(r, b) \/ e.buf = b
         /\ Fresh(r, e) /\ Shows(r, e).buf = b => Brings(r, e) \in {None, b}
         /\ r.cached.pt = b => Brings(r, e) = b /\ InCache(r, b)
         /\ e.pt = b => Brings(r, e) = b /\ e.buf = b
  <1> DEFINE k == r.cached
  <1>1. b # None /\ b # Null /\ b # NoAttach
    BY Constants
  <1>2. k \in Caches /\ r.committed \in Contents
    BY RecordFields
  <1>3. e.buf \in Buffers \cup {Null, NoAttach} /\ e.pt \in Points
    BY EntryFields
  <1>4. k.buf \in Buffers \cup {Null, NoAttach} /\ k.pt \in Points /\ k.fresh \in BOOLEAN
    BY <1>2, CacheFields
  <1>5. NoAttach \notin Points \/ NoAttach = None
    BY Constants DEF Points
  <1>6. Null \notin Points \/ Null = None
    BY Constants DEF Points
  <1>7. /\ k.pt \in {None, k.buf} /\ (k.pt # None => k.fresh) /\ e.pt \in {None, e.buf}
    BY DEF PairedCache, PairedEntry
  <1>8. k.fresh => k.buf = r.committed.buf
    BY Empties DEF Agrees
  <1>9. InCache(r, b) <=> k.fresh /\ k.buf = b
    BY DEF InCache
  <1>10. CASE Flushes(k) /\ Attaches(e)
    <2>1. b # k.buf /\ b # e.buf
      BY <1>10 DEF Muddles
    <2>2. Shows(r, e).buf = k.buf
      BY <1>10 DEF Shows
    <2> HIDE DEF k
    <2> QED BY <1>1, <1>7, <1>9, <2>1, <2>2 DEF k
  <1>11. CASE Flushes(k) /\ ~Attaches(e)
    <2>1. Shows(r, e).buf = k.buf
      BY <1>11 DEF Shows
    <2>2. e.buf = NoAttach /\ e.pt = None
      BY <1>3, <1>5, <1>7, <1>11 DEF Attaches
    <2>3. Brings(r, e) = k.pt /\ (Fresh(r, e) <=> k.fresh)
      BY <1>11, <2>2 DEF Brings, Fresh
    <2> HIDE DEF k
    <2> QED BY <1>1, <1>7, <1>9, <2>1, <2>2, <2>3 DEF k
  <1>12. CASE ~Flushes(k) /\ Attaches(e)
    <2>1. k.buf # b
      BY <1>1, <1>12 DEF Flushes
    <2>2. k.pt = None
      BY <1>4, <1>5, <1>6, <1>7, <1>12 DEF Flushes
    <2>3. Shows(r, e).buf = e.buf /\ Fresh(r, e) /\ Brings(r, e) = e.pt
      BY <1>12, <2>2 DEF Shows, Own, Fresh, Brings
    <2> HIDE DEF k
    <2> QED BY <1>1, <1>7, <1>9, <2>1, <2>2, <2>3 DEF k
  <1>13. CASE ~Flushes(k) /\ ~Attaches(e)
    <2>1. k.buf # b
      BY <1>1, <1>13 DEF Flushes
    <2>2. k.pt = None
      BY <1>4, <1>5, <1>6, <1>7, <1>13 DEF Flushes
    <2>3. e.buf = NoAttach /\ e.pt = None
      BY <1>3, <1>5, <1>7, <1>13 DEF Attaches
    <2>4. Shows(r, e).buf = r.committed.buf /\ (Fresh(r, e) <=> k.fresh)
      BY <1>13 DEF Shows, Own, Fresh
    <2> HIDE DEF k
    <2> QED BY <1>1, <1>8, <1>9, <2>1, <2>2, <2>3, <2>4 DEF k
  <1> QED BY <1>10, <1>11, <1>12, <1>13

(* Whatever point it brings is the buffer's, or lost with it. *)
LEMMA BringsPaired ==
  ASSUME NEW r \in Records, NEW e \in Entries, PairedCache(r.cached), PairedEntry(e)
  PROVE  Brings(r, e) \in {None, Shows(r, e).buf} \cup Muddles(r, e)
  <1> DEFINE k == r.cached
  <1>1. k \in Caches /\ Dmabufs \subseteq Buffers
    BY RecordFields, Constants
  <1>2. e.buf \in Buffers \cup {Null, NoAttach} /\ e.pt \in Points
    BY EntryFields
  <1>3. k.buf \in Buffers \cup {Null, NoAttach} /\ k.pt \in Points
    BY <1>1, CacheFields
  <1>4. k.pt \in {None, k.buf} /\ e.pt \in {None, e.buf}
    BY DEF PairedCache, PairedEntry
  <1>5. CASE e.pt # None
    <2>1. Brings(r, e) = e.buf /\ e.buf \in Buffers /\ Attaches(e)
      BY <1>1, <1>2, <1>4, <1>5, Constants DEF Brings, Attaches, Points
    <2> QED BY <2>1 DEF Shows, Own, Muddles
  <1>6. CASE e.pt = None /\ k.pt # None
    <2>1. Brings(r, e) = k.buf /\ k.buf \in Buffers
      BY <1>1, <1>3, <1>4, <1>6 DEF Brings, Points
    <2>2. Shows(r, e).buf = k.buf
      BY <2>1, Constants DEF Shows, Flushes
    <2> QED BY <2>1, <2>2
  <1>7. CASE e.pt = None /\ k.pt = None
    BY <1>7 DEF Brings
  <1> QED BY <1>5, <1>6, <1>7

(* The parts of an invariant. *)
LEMMA FitParts ==
  ASSUME NEW w, NEW m, Fit(w, m)
  PROVE  /\ w \in Worlds /\ Registered(w.comp, w.lost)
         /\ \A s \in Surfaces : /\ Aged(w.surf[s], w.comp.tex[s], w.applied[s], m)
                                /\ Paired(w.surf[s]) /\ Agrees(w.surf[s])
                                /\ PairedCache(w.surf[s].cached)
                                /\ w.surf[s] \in Records /\ w.surf[s].queue \in Seq(Entries)
         /\ \A b \in Buffers \ w.lost : Single(w, b) /\ Owed(w, b)
  <1>1. /\ w \in Worlds /\ Registered(w.comp, w.lost)
        /\ \A s \in Surfaces : /\ Aged(w.surf[s], w.comp.tex[s], w.applied[s], m)
                               /\ Paired(w.surf[s])
        /\ \A b \in Buffers \ w.lost : Single(w, b) /\ Owed(w, b)
    BY DEF Fit
  <1>2. ASSUME NEW s \in Surfaces
        PROVE  /\ Agrees(w.surf[s]) /\ PairedCache(w.surf[s].cached)
               /\ w.surf[s] \in Records /\ w.surf[s].queue \in Seq(Entries)
    <2>1. w.surf[s] \in Records
      BY <1>1, WorldFields
    <2>2. Agrees(w.surf[s])
      BY <1>1 DEF Aged, Agrees
    <2>3. PairedCache(w.surf[s].cached)
      BY <1>1 DEF Paired, PairedCache
    <2> QED BY <2>1, <2>2, <2>3, RecordFields
  <1> QED BY <1>1, <1>2

Pop(w, s) == [w EXCEPT !.surf[s].queue = Tail(@)]

LEMMA PopIs ==
  ASSUME NEW w \in Worlds, NEW s \in Surfaces, w.surf[s].queue # <<>>
  PROVE  Popped(w, s, Pop(w, s)) /\ Pop(w, s).lost = w.lost
  <1> DEFINE r == w.surf[s]
             u == [r EXCEPT !.queue = Tail(@)]
             srf == [w.surf EXCEPT ![s] = u]
  <1>1. /\ w.surf \in [Surfaces -> Records] /\ r \in Records /\ r.queue \in Seq(Entries)
        /\ Tail(r.queue) \in Seq(Entries)
    BY WorldFields, RecordFields
  <1>2. /\ u \in Records /\ u.alive = r.alive /\ u.mapped = r.mapped
        /\ u.committed = r.committed /\ u.cached = r.cached /\ u.timer = r.timer
        /\ u.queue = Tail(r.queue)
    BY <1>1 DEF Records
  <1>3. Pop(w, s) = [w EXCEPT !.surf = srf]
    BY <1>1 DEF Pop
  <1> HIDE DEF u
  <1>4. /\ srf \in [Surfaces -> Records] /\ srf[s] = u
        /\ \A c \in Surfaces : c # s => srf[c] = w.surf[c]
    BY <1>1, <1>2
  <1> HIDE DEF srf
  <1>5. /\ Pop(w, s) \in Worlds /\ Pop(w, s).surf = srf /\ Pop(w, s).comp = w.comp
        /\ Pop(w, s).applied = w.applied /\ Pop(w, s).lost = w.lost
    BY <1>3, <1>4 DEF Worlds
  <1> QED BY <1>2, <1>4, <1>5 DEF Popped

Losing(d, X) == [d EXCEPT !.lost = @ \cup X]

LEMMA LosingIs ==
  ASSUME NEW d \in Worlds, NEW X \in SUBSET Buffers
  PROVE  /\ Losing(d, X) \in Worlds /\ Losing(d, X).lost = d.lost \cup X
         /\ Losing(d, X).surf = d.surf /\ Losing(d, X).comp = d.comp
         /\ Losing(d, X).applied = d.applied
  BY DEF Losing, Worlds

(* v is w after a desynchronized commit of s, through d. *)
Desyncs(w, s, d, v) ==
  LET r == d.surf[s]
      e == w.surf[s].queue[1]
  IN  /\ Popped(w, s, d) /\ d.lost = w.lost \cup Muddles(r, e)
      /\ IsApplied(d, s, Shows(r, e), Fresh(r, e), Brings(r, e), e.n, v)

LEMMA DesyncsIs ==
  ASSUME NEW w, NEW m, Fit(w, m), SubTyped, NEW s \in Surfaces, w.surf[s].queue # <<>>
  PROVE  \E d : Desyncs(w, s, d, LatchDesync(Pop(w, s), s, Head(w.surf[s].queue)))
  <1> DEFINE q == w.surf[s].queue
             e == q[1]
             p == Pop(w, s)
             r == p.surf[s]
             d == Losing(p, Muddles(r, e))
             v == LatchDesync(p, s, e)
  <1>1. /\ w \in Worlds /\ \A c \in Surfaces : Agrees(w.surf[c])
        /\ q \in Seq(Entries)
    BY FitParts
  <1>2. e \in Entries /\ Head(q) = e /\ e.n \in Times
    <2>1. e \in Entries /\ Head(q) = e
      BY <1>1, Queues
    <2> QED BY <2>1, EntryFields
  <1>3. Popped(w, s, p) /\ p.lost = w.lost
    BY <1>1, PopIs
  <1> HIDE DEF p, e
  <1>4. \A c \in Surfaces : Agrees(p.surf[c])
    BY <1>1, <1>3 DEF Popped, Agrees
  <1>5. p \in Worlds /\ r \in Records
    BY <1>3, WorldFields DEF Popped
  <1> HIDE DEF r
  <1>6. /\ Shows(r, e) \in Contents /\ Brings(r, e) \in Points /\ Fresh(r, e) \in BOOLEAN
        /\ Muddles(r, e) \subseteq Buffers
    BY <1>2, <1>4, <1>5, ShowsTyped DEF r
  <1>7. /\ d \in Worlds /\ d.lost = p.lost \cup Muddles(r, e) /\ d.surf = p.surf
        /\ d.comp = p.comp /\ d.applied = p.applied
    BY <1>5, <1>6, LosingIs
  <1>8. v = ApplySurfaceState(d, s, Shows(r, e), Fresh(r, e), Brings(r, e), e.n)
    BY LatchDesyncIs DEF Losing, r
  <1> HIDE DEF d, v
  <1>9. Popped(w, s, d)
    BY <1>3, <1>7 DEF Popped
  <1>10. IsApplied(d, s, Shows(r, e), Fresh(r, e), Brings(r, e), e.n, v)
    <2>1. \A c \in Surfaces : Agrees(d.surf[c])
      BY <1>4, <1>7
    <2> QED BY <1>2, <1>6, <1>7, <1>8, <2>1, ApplyIs
  <1>11. d.surf[s] = r
    BY <1>7 DEF r
  <1>12. Desyncs(w, s, d, v)
    BY <1>3, <1>7, <1>9, <1>10, <1>11 DEF Desyncs, e
  <1>13. v = LatchDesync(Pop(w, s), s, Head(w.surf[s].queue))
    BY <1>2 DEF v, p
  <1> QED BY <1>12, <1>13

(* What a desynchronized commit applies, uploads and shows. *)
Set(d, s)    == Applying(d, s)
Ups(w, s, d) == Taking(d, s, Fresh(d.surf[s], w.surf[s].queue[1]))
News(w, s, d) == NowShown(d, s, Shows(d.surf[s], w.surf[s].queue[1]))
Pts(w, s, d) == PointsOf(d, s, Brings(d.surf[s], w.surf[s].queue[1]))

LEMMA DesyncFields ==
  ASSUME NEW w, NEW s \in Surfaces, NEW d, NEW v, Desyncs(w, s, d, v), SubTyped
  PROVE  /\ v \in Worlds /\ v.lost = d.lost /\ d \in Worlds
         /\ d.lost = w.lost \cup Muddles(d.surf[s], w.surf[s].queue[1])
         /\ s \in Set(d, s) /\ Set(d, s) \subseteq Surfaces /\ Ups(w, s, d) \subseteq Set(d, s)
         /\ \A c \in Set(d, s) : c # s => Takes(w.surf, c)
         /\ \A c \in Set(d, s) : c # s => (c \in Ups(w, s, d) <=> w.surf[c].cached.fresh)
         /\ s \in Ups(w, s, d) <=> Fresh(d.surf[s], w.surf[s].queue[1])
         /\ News(w, s, d)[s] = Shows(d.surf[s], w.surf[s].queue[1])
         /\ Pts(w, s, d)[s] = Brings(d.surf[s], w.surf[s].queue[1])
         /\ \A c \in Surfaces : c # s => /\ News(w, s, d)[c] = w.surf[c].committed
                                         /\ Pts(w, s, d)[c] = w.surf[c].cached.pt
         /\ Uploaded(w.comp, Ups(w, s, d), News(w, s, d), Pts(w, s, d), v.comp)
         /\ \A c \in Surfaces :
              /\ d.surf[c].committed = w.surf[c].committed
              /\ d.surf[c].cached = w.surf[c].cached
              /\ v.surf[c].alive = w.surf[c].alive /\ v.surf[c].mapped = w.surf[c].mapped
              /\ v.surf[c].timer = w.surf[c].timer
              /\ v.surf[c].queue = IF c = s THEN Tail(w.surf[s].queue) ELSE w.surf[c].queue
              /\ v.surf[c].committed = News(w, s, d)[c]
              /\ v.surf[c].cached = IF c \in Set(d, s) THEN NoCache ELSE w.surf[c].cached
              /\ v.applied[c] = IF c = s THEN w.surf[s].queue[1].n
                                ELSE IF c \in Set(d, s) THEN w.surf[c].cached.last
                                ELSE w.applied[c]
  <1> DEFINE e == w.surf[s].queue[1]
             r == d.surf[s]
             N == News(w, s, d)
             P == Pts(w, s, d)
             U == Ups(w, s, d)
             T == Set(d, s)
  <1>1. /\ Popped(w, s, d) /\ d.lost = w.lost \cup Muddles(r, e)
        /\ IsApplied(d, s, Shows(r, e), Fresh(r, e), Brings(r, e), e.n, v)
    BY DEF Desyncs
  <1>2. /\ d \in Worlds /\ d.comp = w.comp /\ d.applied = w.applied
        /\ \A c \in Surfaces :
             /\ d.surf[c].alive = w.surf[c].alive /\ d.surf[c].mapped = w.surf[c].mapped
             /\ d.surf[c].committed = w.surf[c].committed
             /\ d.surf[c].cached = w.surf[c].cached /\ d.surf[c].timer = w.surf[c].timer
             /\ d.surf[c].queue = IF c = s THEN Tail(w.surf[s].queue) ELSE w.surf[c].queue
    BY <1>1 DEF Popped
  <1>3. /\ N[s] = Shows(r, e) /\ P[s] = Brings(r, e)
        /\ \A c \in Surfaces : c # s => /\ N[c] = d.surf[c].committed
                                        /\ P[c] = d.surf[c].cached.pt
    BY DEF News, Pts, NowShown, PointsOf
  <1>4. \A c \in T : c # s => Takes(d.surf, c)
    BY CascadeTakes DEF Set, Applying
  <1>5. \A c \in T : c # s => c \in Surfaces /\ Takes(w.surf, c)
    BY <1>2, <1>4, SubIn DEF Takes
  <1>6. s \in T /\ T \subseteq Surfaces
    BY <1>5 DEF Set, Applying
  <1>7. /\ U \subseteq T /\ (s \in U <=> Fresh(r, e))
        /\ \A c \in T : c # s => (c \in U <=> d.surf[c].cached.fresh)
    BY <1>6 DEF Ups, Taking, Set
  <1>8. /\ v \in Worlds /\ v.lost = d.lost
        /\ \A c \in Surfaces :
             /\ v.surf[c].alive = d.surf[c].alive /\ v.surf[c].mapped = d.surf[c].mapped
             /\ v.surf[c].queue = d.surf[c].queue /\ v.surf[c].timer = d.surf[c].timer
             /\ v.surf[c].committed = N[c]
             /\ v.surf[c].cached = IF c \in T THEN NoCache ELSE d.surf[c].cached
             /\ v.applied[c] = IF c = s THEN e.n
                               ELSE IF c \in T THEN d.surf[c].cached.last
                               ELSE d.applied[c]
    BY <1>1 DEF IsApplied, News, Set
  <1>9. Uploaded(w.comp, U, N, P, v.comp)
    BY <1>1, <1>2 DEF IsApplied, News, Pts, Ups
  <1> HIDE DEF N, P, U, T
  <1>10. /\ \A c \in Surfaces : c # s => N[c] = w.surf[c].committed /\ P[c] = w.surf[c].cached.pt
         /\ \A c \in T : c # s => (c \in U <=> w.surf[c].cached.fresh)
    BY <1>2, <1>3, <1>5, <1>7
  <1>11. \A c \in Surfaces :
             /\ v.surf[c].alive = w.surf[c].alive /\ v.surf[c].mapped = w.surf[c].mapped
             /\ v.surf[c].timer = w.surf[c].timer
             /\ v.surf[c].queue = IF c = s THEN Tail(w.surf[s].queue) ELSE w.surf[c].queue
             /\ v.surf[c].committed = N[c]
             /\ v.surf[c].cached = IF c \in T THEN NoCache ELSE w.surf[c].cached
             /\ v.applied[c] = IF c = s THEN e.n
                               ELSE IF c \in T THEN w.surf[c].cached.last
                               ELSE w.applied[c]
    BY <1>2, <1>8
  <1> QED BY <1>1, <1>2, <1>3, <1>5, <1>6, <1>7, <1>8, <1>9, <1>10, <1>11 DEF N, P, U, T

LEMMA DesyncDelivers ==
  ASSUME NEW w, NEW m, Fit(w, m), SubTyped, NEW s \in Surfaces, w.surf[s].queue # <<>>,
         NEW d, NEW v, Desyncs(w, s, d, v), NEW b \in Buffers \ v.lost
  PROVE  Delivers(w, s, Set(d, s), Ups(w, s, d), News(w, s, d), Pts(w, s, d), b)
  <1> DEFINE e == w.surf[s].queue[1]
             r == d.surf[s]
             N == News(w, s, d)
             P == Pts(w, s, d)
             U == Ups(w, s, d)
             T == Set(d, s)
  <1>1. /\ e \in Entries /\ PairedEntry(e)
    <2>1. w.surf[s].queue \in Seq(Entries) /\ Paired(w.surf[s])
      BY FitParts
    <2> QED BY <2>1, Queues DEF Paired, PairedEntry
  <1>2. /\ r \in Records /\ Agrees(r) /\ PairedCache(r.cached)
        /\ \A x : InCache(r, x) <=> InCache(w.surf[s], x)
    <2>1. d \in Worlds /\ r.committed = w.surf[s].committed /\ r.cached = w.surf[s].cached
      BY DesyncFields
    <2>2. Agrees(w.surf[s]) /\ PairedCache(w.surf[s].cached)
      BY FitParts
    <2> QED BY <2>1, <2>2, WorldFields DEF Agrees, InCache
  <1>3. b # Null /\ b # None /\ b \notin Muddles(r, e)
    BY Constants, DesyncFields
  <1> HIDE DEF e, r
  <1>4. /\ Fresh(r, e) /\ Shows(r, e).buf = b <=> InCache(r, b) \/ e.buf = b
        /\ Fresh(r, e) /\ Shows(r, e).buf = b => Brings(r, e) \in {None, b}
        /\ r.cached.pt = b => Brings(r, e) = b /\ InCache(r, b)
        /\ e.pt = b => Brings(r, e) = b /\ e.buf = b
    BY <1>1, <1>2, <1>3, ShowsRight
  <1>5. /\ s \in T /\ T \subseteq Surfaces /\ U \subseteq T
        /\ \A c \in T : c # s => Takes(w.surf, c)
        /\ \A c \in T : c # s => (c \in U <=> w.surf[c].cached.fresh)
        /\ s \in U <=> Fresh(r, e)
        /\ N[s] = Shows(r, e) /\ P[s] = Brings(r, e)
        /\ \A c \in Surfaces : c # s => N[c] = w.surf[c].committed /\ P[c] = w.surf[c].cached.pt
        /\ r.cached = w.surf[s].cached
    BY DesyncFields DEF e, r
  <1> HIDE DEF N, P, U, T
  <1>6. ASSUME NEW c \in Surfaces
        PROVE  /\ Drawn(U, N, c) /\ N[c].buf = b <=> InHand(w, s, T, c, b)
               /\ Drawn(U, N, c) /\ N[c].buf = b => P[c] \in {None, b}
               /\ c \in T /\ w.surf[c].cached.pt = b => P[c] = b /\ InCache(w.surf[c], b)
    <2>1. Drawn(U, N, c) /\ N[c].buf = b <=> c \in U /\ N[c].buf = b
      BY <1>3 DEF Drawn
    <2>2. CASE c = s
      <3>1. InHand(w, s, T, c, b) <=> InCache(r, b) \/ e.buf = b
        BY <1>2, <1>5, <2>2 DEF InHand, e
      <3> QED BY <1>2, <1>4, <1>5, <2>1, <2>2, <3>1
    <2>3. CASE c # s /\ c \in T
      <3>1. Agrees(w.surf[c]) /\ PairedCache(w.surf[c].cached)
        BY FitParts
      <3>2. w.surf[c].cached # NoCache
        BY <1>5, <2>3 DEF Takes
      <3>3. w.surf[c].committed.buf = w.surf[c].cached.buf
        BY <3>1, <3>2 DEF Agrees
      <3>4. InHand(w, s, T, c, b) <=> w.surf[c].cached.fresh /\ w.surf[c].cached.buf = b
        BY <2>3 DEF InHand, InCache
      <3>5. /\ w.surf[c].cached.pt \in {None, w.surf[c].cached.buf}
            /\ w.surf[c].cached.pt # None => w.surf[c].cached.fresh
        BY <3>1 DEF PairedCache
      <3> QED BY <1>3, <1>5, <2>1, <2>3, <3>3, <3>4, <3>5 DEF InCache
    <2>4. CASE c \notin T
      BY <1>5, <2>1, <2>4 DEF InHand
    <2> QED BY <2>2, <2>3, <2>4
  <1>7. e.pt = b => P[s] = b /\ e.buf = b
    BY <1>4, <1>5
  <1>8. Delivers(w, s, T, U, N, P, b)
    BY <1>5, <1>6, <1>7 DEF Delivers, e
  <1> QED BY <1>8 DEF N, P, U, T

-----------------------------------------------------------------------------
(* How the numbers grow. *)

LEMMA TailRises ==
  ASSUME NEW q \in Seq(Entries), q # <<>>, Rising(q)
  PROVE  /\ Rising(Tail(q))
         /\ \A i \in DOMAIN Tail(q) : \E j \in DOMAIN q : Tail(q)[i] = q[j] /\ q[1].n < q[j].n
  <1> DEFINE t == Tail(q)
  <1>1. /\ 1 \in DOMAIN q /\ DOMAIN q \subseteq Nat
        /\ \A i \in DOMAIN t : i \in Nat /\ i >= 1 /\ i + 1 \in DOMAIN q /\ t[i] = q[i + 1]
    BY Queues
  <1> HIDE DEF t
  <1>2. ASSUME NEW i \in DOMAIN t, NEW j \in DOMAIN t, i < j PROVE t[i].n < t[j].n
    <2>1. i + 1 < j + 1
      BY <1>1, <1>2
    <2> QED BY <1>1, <2>1 DEF Rising
  <1>3. ASSUME NEW i \in DOMAIN t PROVE \E j \in DOMAIN q : t[i] = q[j] /\ q[1].n < q[j].n
    <2>1. 1 < i + 1
      BY <1>1
    <2>2. q[1].n < q[i + 1].n
      BY <1>1, <2>1 DEF Rising
    <2> QED BY <1>1, <2>2
  <1> QED BY <1>2, <1>3 DEF t, Rising

(* A record whose numbers are natural. *)
LEMMA AgedNumbers ==
  ASSUME NEW r \in Records, NEW x \in Contents, NEW a \in Times
  PROVE  /\ r.committed.ver \in Nat /\ r.cached.last \in Nat /\ x.ver \in Nat /\ a \in Nat
         /\ \A i \in DOMAIN r.queue : r.queue[i].n \in Nat
  <1>1. r.committed \in Contents /\ r.cached \in Caches /\ r.queue \in Seq(Entries)
    BY RecordFields
  <1>2. r.committed.ver \in Times /\ r.cached.last \in Times /\ x.ver \in Times
    BY <1>1, ContentFields, CacheFields
  <1>3. \A i \in DOMAIN r.queue : r.queue[i].n \in Times
    BY <1>1, Queues, EntryFields
  <1> QED BY <1>2, <1>3, Constants DEF Times

(* The record u of a surface whose first commit e is no longer queued, when  *)
(* what it commits is not newer than e and it has applied nothing newer.     *)
LEMMA AgedTail ==
  ASSUME NEW r \in Records, NEW x \in Contents, NEW a \in Times, NEW m \in Nat,
         Aged(r, x, a, m), r.queue # <<>>,
         NEW u \in Records, NEW y \in Contents, NEW n \in Times,
         u.queue = Tail(r.queue), u.committed.ver \in {r.committed.ver, r.queue[1].n},
         y.ver <= u.committed.ver, n \in {a, r.queue[1].n},
         \/ u.cached = NoCache
         \/ /\ u.cached.buf = u.committed.buf /\ u.cached.ver = u.committed.ver
            /\ u.cached.last = r.queue[1].n /\ n = a
  PROVE  Aged(u, y, n, m) /\ r.committed.ver <= u.committed.ver /\ a <= n
  <1> DEFINE q == r.queue
             t == u.queue
  <1>1. q \in Seq(Entries) /\ q # <<>> /\ t = Tail(q) /\ Rising(q)
    BY RecordFields DEF Aged
  <1>2. /\ Rising(t)
        /\ \A i \in DOMAIN t : \E j \in DOMAIN q : t[i] = q[j] /\ q[1].n < q[j].n
    BY <1>1, TailRises
  <1>3. 1 \in DOMAIN q
    BY <1>1, Queues
  <1>4. /\ r.committed.ver \in Nat /\ r.cached.last \in Nat /\ x.ver \in Nat /\ a \in Nat
        /\ \A i \in DOMAIN q : q[i].n \in Nat
    BY AgedNumbers
  <1>5. /\ r.committed.ver < q[1].n /\ a < q[1].n /\ r.cached.last < q[1].n
        /\ r.committed.ver <= m /\ a <= m /\ q[1].n <= m /\ \A i \in DOMAIN q : q[i].n <= m
    BY <1>3 DEF Aged
  <1>6. \A i \in DOMAIN t : t[i].n \in Nat /\ q[1].n < t[i].n /\ t[i].n <= m
    BY <1>2, <1>4, <1>5
  <1>7. u.committed.ver \in {r.committed.ver, q[1].n} /\ n \in {a, q[1].n}
    OBVIOUS
  <1>8. q[1].n \in Nat
    BY <1>3, <1>4
  <1>9. u.cached.last \in {0, q[1].n}
    BY Empties
  <1> HIDE DEF q, t
  <1>10. /\ u.committed.ver <= m /\ n <= m /\ u.cached.last <= m
         /\ r.committed.ver <= u.committed.ver /\ a <= n
    BY <1>4, <1>5, <1>7, <1>8, <1>9
  <1>11. \A i \in DOMAIN t : /\ u.committed.ver < t[i].n /\ n < t[i].n
                             /\ u.cached.last < t[i].n
    BY <1>4, <1>5, <1>6, <1>7, <1>8, <1>9
  <1>12. u.cached # NoCache =>
           /\ u.cached.buf = u.committed.buf /\ u.cached.ver = u.committed.ver
           /\ n < u.cached.last
    BY <1>5 DEF q
  <1> QED BY <1>2, <1>6, <1>10, <1>11, <1>12 DEF Aged, t

Grows(w, v, c) ==
  /\ v.surf[c].alive = w.surf[c].alive
  /\ w.applied[c] <= v.applied[c] /\ w.surf[c].committed.ver <= v.surf[c].committed.ver
  /\ \/ v.comp.tex[c] \in {NoContent, w.comp.tex[c]}
     \/ w.surf[c].committed.ver <= v.comp.tex[c].ver

(* A cache that is applied with the parent. *)
LEMMA AgedApplied ==
  ASSUME NEW r \in Records, NEW x \in Contents, NEW a \in Times, NEW m \in Nat,
         Aged(r, x, a, m), r.cached # NoCache,
         NEW u, u.queue = r.queue, u.committed = r.committed, u.cached = NoCache,
         NEW y, y.ver <= r.committed.ver
  PROVE  Aged(u, y, r.cached.last, m) /\ a < r.cached.last
  <1>1. /\ r.committed.ver \in Nat /\ r.cached.last \in Nat /\ a \in Nat
        /\ \A i \in DOMAIN r.queue : r.queue[i].n \in Nat
    BY AgedNumbers
  <1>2. \A i \in DOMAIN r.queue : 0 < r.queue[i].n
    BY <1>1 DEF Aged
  <1>3. a < r.cached.last /\ r.cached.last <= m
    BY DEF Aged
  <1>4. \A i \in DOMAIN u.queue :
          /\ u.committed.ver < u.queue[i].n /\ r.cached.last < u.queue[i].n
          /\ u.cached.last < u.queue[i].n /\ u.queue[i].n <= m
    BY <1>2, Empties DEF Aged
  <1> QED BY <1>3, <1>4 DEF Aged

LEMMA PairedTail ==
  ASSUME NEW r \in Records, Paired(r), r.queue # <<>>,
         NEW u, u.queue \in {r.queue, Tail(r.queue)}, PairedCache(u.cached)
  PROVE  Paired(u)
  <1>1. r.queue \in Seq(Entries)
    BY RecordFields
  <1>2. ASSUME NEW i \in DOMAIN u.queue
        PROVE  \E j \in DOMAIN r.queue : u.queue[i] = r.queue[j]
    <2>1. CASE u.queue = r.queue
      BY <2>1
    <2>2. CASE u.queue = Tail(r.queue)
      <3> DEFINE q == r.queue
                 t == Tail(q)
      <3>1. \A j \in DOMAIN t : j + 1 \in DOMAIN q /\ t[j] = q[j + 1]
        BY <1>1, Queues
      <3>2. u.queue = t
        BY <2>2
      <3> HIDE DEF q, t
      <3>3. i + 1 \in DOMAIN q /\ u.queue[i] = q[i + 1]
        BY <3>1, <3>2
      <3> QED BY <3>3 DEF q
    <2> QED BY <2>1, <2>2
  <1> QED BY <1>2 DEF Paired, PairedCache

LEMMA DesyncAged ==
  ASSUME NEW w, NEW m \in Nat, Fit(w, m), SubTyped, NEW s \in Surfaces,
         w.surf[s].queue # <<>>, NEW d, NEW v, Desyncs(w, s, d, v), NEW c \in Surfaces
  PROVE  /\ Aged(v.surf[c], v.comp.tex[c], v.applied[c], m) /\ Paired(v.surf[c])
         /\ Grows(w, v, c)
         /\ c \in Set(d, s) <=> v.applied[c] > w.applied[c]
         /\ c \notin Set(d, s) <=> v.applied[c] = w.applied[c]
  <1> DEFINE e == w.surf[s].queue[1]
             N == News(w, s, d)
             U == Ups(w, s, d)
             T == Set(d, s)
             r == w.surf[c]
             u == v.surf[c]
             x == w.comp.tex[c]
             y == v.comp.tex[c]
             a == w.applied[c]
             n == v.applied[c]
  <1>1. /\ w \in Worlds /\ Aged(r, x, a, m) /\ Paired(r) /\ PairedCache(r.cached)
        /\ r \in Records /\ r.queue \in Seq(Entries)
    BY FitParts
  <1>2. /\ v \in Worlds /\ s \in T /\ u.alive = r.alive
        /\ c \in T /\ c # s => Takes(w.surf, c)
        /\ u.queue = IF c = s THEN Tail(r.queue) ELSE r.queue
        /\ u.committed = N[c]
        /\ u.cached = IF c \in T THEN NoCache ELSE r.cached
        /\ n = IF c = s THEN e.n ELSE IF c \in T THEN r.cached.last ELSE a
        /\ c # s => N[c] = r.committed
        /\ U \subseteq T
    BY DesyncFields
  <1>3. /\ y = IF Drawn(U, N, c) THEN N[c] ELSE x
    BY DesyncFields DEF Uploaded
  <1>4. /\ x \in Contents /\ a \in Times /\ u \in Records /\ y \in Contents /\ n \in Times
    <2>1. w.comp \in Compositor /\ v.comp \in Compositor /\ a \in Times /\ n \in Times
          /\ u \in Records
      BY <1>1, <1>2, WorldFields
    <2> QED BY <2>1, CompFields
  <1>5. c = s => u.committed.ver \in {r.committed.ver, e.n}
    <2>1. d.surf[s] \in Records /\ Agrees(d.surf[s]) /\ e \in Entries
      <3>1. /\ d \in Worlds /\ d.surf[s].committed = w.surf[s].committed
            /\ d.surf[s].cached = w.surf[s].cached
        BY DesyncFields
      <3>2. Agrees(w.surf[s]) /\ w.surf[s].queue \in Seq(Entries)
        BY FitParts
      <3> QED BY <3>1, <3>2, WorldFields, Queues DEF Agrees
    <2>2. Shows(d.surf[s], e).ver \in {d.surf[s].committed.ver, e.n}
      BY <2>1, ShowsTyped
    <2>3. N[s] = Shows(d.surf[s], e) /\ d.surf[s].committed = w.surf[s].committed
      BY DesyncFields
    <2> QED BY <1>2, <2>2, <2>3
  <1>6. c = s => 1 \in DOMAIN r.queue /\ e = r.queue[1] /\ r.queue # <<>>
    BY <1>1, Queues
  <1>7. PairedCache(NoCache)
    BY Empties DEF PairedCache
  <1> HIDE DEF e, N, U, T, r, u, x, y, a, n
  <1>8. /\ r.committed.ver \in Nat /\ r.cached.last \in Nat /\ x.ver \in Nat /\ a \in Nat
        /\ \A i \in DOMAIN r.queue : r.queue[i].n \in Nat
    BY <1>1, <1>4, AgedNumbers
  <1>9. x.ver <= r.committed.ver
    BY <1>1 DEF Aged
  <1>10. CASE c = s
    <2>1. r.committed.ver < e.n /\ a < e.n /\ e.n \in Nat
      BY <1>1, <1>6, <1>8, <1>10 DEF Aged
    <2>2. r.committed.ver <= u.committed.ver /\ u.committed.ver \in Nat
      BY <1>5, <1>8, <1>10, <2>1
    <2>3. y.ver <= u.committed.ver
      BY <1>2, <1>3, <1>8, <1>9, <2>2
    <2>4. /\ u.queue = Tail(r.queue) /\ n = r.queue[1].n /\ u.cached = NoCache
          /\ u.committed.ver \in {r.committed.ver, r.queue[1].n}
      BY <1>2, <1>5, <1>6, <1>10
    <2>5. Aged(u, y, n, m)
      BY <1>1, <1>4, <1>6, <1>10, <2>3, <2>4, AgedTail
    <2>6. Paired(u)
      <3>1. PairedCache(u.cached)
        BY <1>7, <2>4
      <3>2. u.queue \in {r.queue, Tail(r.queue)} /\ r.queue # <<>> /\ r \in Records /\ Paired(r)
        BY <1>1, <1>6, <1>10, <2>4
      <3> QED BY <3>1, <3>2, PairedTail
    <2>7. a < n /\ n \in Nat
      BY <1>2, <1>10, <2>1
    <2>8. y = x \/ r.committed.ver <= y.ver
      BY <1>2, <1>3, <2>2
    <2>9. Grows(w, v, c)
      BY <1>2, <2>2, <2>7, <2>8, <1>8 DEF Grows, r, u, x, y, a, n
    <2> QED BY <1>2, <1>8, <1>10, <2>5, <2>6, <2>7, <2>9 DEF T, u, y, n, a
  <1>11. CASE c # s /\ c \in T
    <2>1. /\ u.queue = r.queue /\ u.committed = r.committed /\ u.cached = NoCache
          /\ n = r.cached.last /\ r.cached # NoCache
      BY <1>2, <1>11 DEF Takes, r
    <2>2. y.ver <= r.committed.ver
      BY <1>2, <1>3, <1>8, <1>9, <2>1
    <2>3. Aged(u, y, n, m) /\ a < n
      BY <1>1, <1>4, <2>1, <2>2, AgedApplied
    <2>4. Paired(u)
      BY <1>1, <1>7, <2>1 DEF Paired, PairedCache
    <2>5. y = x \/ r.committed.ver <= y.ver
      BY <1>2, <1>3, <1>8, <2>1
    <2>6. Grows(w, v, c)
      BY <1>2, <1>8, <2>1, <2>3, <2>5 DEF Grows, r, u, x, y, a, n
    <2> QED BY <1>8, <1>11, <2>1, <2>3, <2>4, <2>6 DEF T, u, y, n, a
  <1>12. CASE c \notin T
    <2>1. /\ u.queue = r.queue /\ u.committed = r.committed /\ u.cached = r.cached
          /\ n = a
      BY <1>2, <1>12
    <2>2. y = x
      BY <1>2, <1>3, <1>12 DEF Drawn
    <2>3. Aged(u, y, n, m) /\ Paired(u)
      BY <1>1, <2>1, <2>2 DEF Aged, Paired
    <2>4. Grows(w, v, c)
      BY <1>2, <1>8, <2>1, <2>2 DEF Grows, r, u, x, y, a, n
    <2> QED BY <1>8, <1>12, <2>1, <2>3, <2>4 DEF T, u, y, n, a
  <1> QED BY <1>2, <1>10, <1>11, <1>12

LEMMA DesyncFit ==
  ASSUME NEW w, NEW m \in Nat, Fit(w, m), SubTyped, NEW s \in Surfaces,
         w.surf[s].queue # <<>>, NEW d, NEW v, Desyncs(w, s, d, v)
  PROVE  Fit(v, m)
  <1> DEFINE e == w.surf[s].queue[1]
             r == d.surf[s]
             N == News(w, s, d)
             P == Pts(w, s, d)
             U == Ups(w, s, d)
             T == Set(d, s)
  <1>1. /\ w \in Worlds /\ w.comp \in Compositor /\ Registered(w.comp, w.lost)
        /\ \A b \in Buffers \ w.lost : Single(w, b) /\ Owed(w, b)
        /\ w.surf[s].queue \in Seq(Entries)
    BY FitParts, WorldFields
  <1>2. Latches(w, s, T, U, N, P, v)
    BY <1>1, DesyncFields DEF Latches
  <1>3. v \in Worlds /\ w.lost \subseteq v.lost /\ v.lost = w.lost \cup Muddles(r, e)
    BY DesyncFields
  <1>4. ASSUME NEW c \in Surfaces, Drawn(U, N, c)
        PROVE  P[c] \in {None, N[c].buf} \cup v.lost
    <2>1. CASE c = s
      <3>1. r \in Records /\ e \in Entries /\ PairedCache(r.cached) /\ PairedEntry(e)
        <4>1. d \in Worlds /\ r.cached = w.surf[s].cached
          BY DesyncFields
        <4>2. PairedCache(w.surf[s].cached) /\ Paired(w.surf[s])
          BY FitParts
        <4> QED BY <1>1, <4>1, <4>2, WorldFields, Queues DEF Paired, PairedEntry
      <3>2. Brings(r, e) \in {None, Shows(r, e).buf} \cup Muddles(r, e)
        BY <3>1, BringsPaired
      <3>3. N[s] = Shows(r, e) /\ P[s] = Brings(r, e)
        BY DesyncFields
      <3> QED BY <1>3, <2>1, <3>2, <3>3
    <2>2. CASE c # s
      <3>1. c \in T /\ Takes(w.surf, c)
        BY <1>4, <2>2, DesyncFields DEF Drawn
      <3>2. Agrees(w.surf[c]) /\ PairedCache(w.surf[c].cached)
        BY FitParts
      <3>3. N[c] = w.surf[c].committed /\ P[c] = w.surf[c].cached.pt
        BY <2>2, DesyncFields
      <3> QED BY <3>1, <3>2, <3>3 DEF Takes, Agrees, PairedCache
    <2> QED BY <2>1, <2>2
  <1> HIDE DEF e, r, N, P, U, T
  <1>5. Registered(v.comp, v.lost)
    BY <1>1, <1>2, <1>3, <1>4, LatchRegistered
  <1>6. ASSUME NEW b \in Buffers \ v.lost
        PROVE  Single(v, b) /\ Owed(v, b)
    <2>1. Delivers(w, s, T, U, N, P, b)
      BY DesyncDelivers DEF N, P, U, T
    <2>2. Single(w, b) /\ Owed(w, b) /\ b \in Buffers
      BY <1>1, <1>3
    <2>3. Single(v, b)
      BY <1>2, <2>1, <2>2, LatchSingle
    <2>4. Owed(v, b)
      BY <1>1, <1>2, <2>1, <2>2, LatchOwed
    <2> QED BY <2>3, <2>4
  <1>7. \A c \in Surfaces : /\ Aged(v.surf[c], v.comp.tex[c], v.applied[c], m)
                            /\ Paired(v.surf[c])
    BY DesyncAged
  <1> QED BY <1>3, <1>5, <1>6, <1>7 DEF Fit

-----------------------------------------------------------------------------
(* What one commit of s, or several, does to the other surfaces. *)

(* Either it waits for the parent, and nothing is applied; or a synchronized  *)
(* child is applied only with its parent, and then has nothing left cached.  *)
Synced(w, v, s) ==
  IF EffectiveSync(s) THEN \A c \in Surfaces : v.applied[c] = w.applied[c]
  ELSE \A c \in DOMAIN sub : w.surf[c].alive /\ EffectiveSync(c) =>
         /\ w.applied[c] < v.applied[c] => w.applied[Parent[c]] < v.applied[Parent[c]]
         /\ w.applied[Parent[c]] < v.applied[Parent[c]] => v.surf[c].cached = NoCache
         /\ w.surf[c].cached = NoCache => v.surf[c].cached = NoCache

(* Nothing more is lent. *)
Repays(w, v) ==
  v.comp.busy \subseteq w.comp.busy /\ v.comp.unsignalled \subseteq w.comp.unsignalled

Steps(w, v, s, m) ==
  /\ Fit(v, m) /\ Synced(w, v, s) /\ Repays(w, v)
  /\ \A c \in Surfaces : Grows(w, v, c)
  /\ \A c \in Surfaces \ {s} : /\ v.surf[c].queue = w.surf[c].queue
                               /\ v.surf[c].timer = w.surf[c].timer
  /\ v.surf[s].timer => w.surf[s].timer

LEMMA DesyncSteps ==
  ASSUME NEW w, NEW m \in Nat, Fit(w, m), SubTyped, NEW s \in Surfaces,
         w.surf[s].queue # <<>>, NEW d, NEW v, Desyncs(w, s, d, v), ~EffectiveSync(s)
  PROVE  Steps(w, v, s, m) /\ v.surf[s].queue = Tail(w.surf[s].queue)
  <1>1. Fit(v, m)
    BY DesyncFit
  <1>2. \A c \in Surfaces : /\ Grows(w, v, c)
                            /\ c \in Set(d, s) <=> v.applied[c] > w.applied[c]
    BY DesyncAged
  <1>3. ASSUME NEW c \in DOMAIN sub, w.surf[c].alive, EffectiveSync(c)
        PROVE  /\ w.applied[c] < v.applied[c] => w.applied[Parent[c]] < v.applied[Parent[c]]
               /\ w.applied[Parent[c]] < v.applied[Parent[c]] => v.surf[c].cached = NoCache
               /\ w.surf[c].cached = NoCache => v.surf[c].cached = NoCache
    <2>1. c \in Surfaces /\ Parent[c] \in Surfaces /\ c # s
      BY <1>3, SubIn
    <2>2. ASSUME c \in Set(d, s) PROVE Parent[c] \in Set(d, s)
      BY <2>1, <2>2, CascadeUp DEF Set, Applying
    <2>3. v.surf[c].cached = IF c \in Set(d, s) THEN NoCache ELSE w.surf[c].cached
      BY <2>1, DesyncFields
    <2>4. ASSUME Parent[c] \in Set(d, s), w.surf[c].cached # NoCache
          PROVE  c \in Set(d, s)
      <3>1. d.surf[c].cached = w.surf[c].cached /\ d.surf[c].alive = w.surf[c].alive
        BY <2>1 DEF Desyncs, Popped
      <3>2. Takes(d.surf, c)
        BY <1>3, <2>4, <3>1 DEF Takes
      <3> QED BY <2>4, <3>2, CascadeDown DEF Set, Applying
    <2>5. /\ c \in Set(d, s) <=> v.applied[c] > w.applied[c]
          /\ Parent[c] \in Set(d, s) <=> v.applied[Parent[c]] > w.applied[Parent[c]]
      BY <1>2, <2>1
    <2>6. /\ w.applied[c] \in Nat /\ v.applied[c] \in Nat /\ w.applied[Parent[c]] \in Nat
          /\ v.applied[Parent[c]] \in Nat
      BY <1>1, <2>1, FitParts, WorldFields, Constants DEF Times
    <2> QED BY <2>2, <2>3, <2>4, <2>5, <2>6
  <1>4. Synced(w, v, s)
    BY <1>3 DEF Synced
  <1>5. \A c \in Surfaces :
          /\ v.surf[c].timer = w.surf[c].timer
          /\ v.surf[c].queue = IF c = s THEN Tail(w.surf[s].queue) ELSE w.surf[c].queue
    BY DesyncFields
  <1>6. Repays(w, v)
    BY DesyncFields DEF Uploaded, Repays
  <1> QED BY <1>1, <1>2, <1>4, <1>5, <1>6 DEF Steps

-----------------------------------------------------------------------------
(* A synchronized commit. *)

Kept(r, e) == IF Attaches(e) /\ r.cached.fresh THEN None ELSE r.cached.pt
NewCache(r, e) ==
  [buf |-> Own(r, e).buf, ver |-> Own(r, e).ver, fresh |-> r.cached.fresh \/ Attaches(e),
   pt |-> IF e.pt # None THEN e.pt ELSE Kept(r, e), last |-> e.n]

(* The cached buffer and its point are given back when another is attached. *)
NewComp(c, r, e) ==
  IF Attaches(e) THEN ReleaseSuperseded(c, r.cached, Own(r, e).buf) ELSE c

LEMMA LatchSyncIs ==
  ASSUME NEW d \in Worlds, NEW s \in Surfaces, NEW e
  PROVE  LatchSync(d, s, e) =
           [d EXCEPT !.surf[s] = [d.surf[s] EXCEPT !.committed = Own(d.surf[s], e),
                                                   !.cached = NewCache(d.surf[s], e)],
                     !.comp = NewComp(d.comp, d.surf[s], e)]
  BY DEF LatchSync, Own, NewCache, Kept, NewComp, Attaches

LEMMA NewCompIs ==
  ASSUME NEW c \in Compositor, NEW r \in Records, NEW e \in Entries
  PROVE  LET d == NewComp(c, r, e)
         IN  /\ d \in Compositor /\ d.tex = c.tex /\ d.registered = c.registered
             /\ d.returning = c.returning
             /\ \A b : b \in d.busy <=>
                  b \in c.busy /\ ~(Attaches(e) /\ InCache(r, b) /\ b # e.buf)
             /\ \A b : b \in d.unsignalled <=>
                  b \in c.unsignalled /\ ~(Attaches(e) /\ r.cached.fresh /\ r.cached.pt = b)
  <1> DEFINE k == r.cached
             sig == [c EXCEPT !.unsignalled = @ \ {k.pt}]
             d == NewComp(c, r, e)
  <1>1. CASE Attaches(e) /\ k.fresh
    <2>1. d = [sig EXCEPT !.busy = @ \ ({k.buf} \ {e.buf})]
      BY <1>1 DEF NewComp, ReleaseSuperseded, Signal, Own
    <2>2. /\ sig \in Compositor /\ sig.tex = c.tex /\ sig.registered = c.registered
          /\ sig.returning = c.returning /\ sig.busy = c.busy
          /\ sig.unsignalled = c.unsignalled \ {k.pt}
      BY DEF Compositor
    <2> HIDE DEF sig, d, k
    <2>3. /\ d \in Compositor /\ d.tex = c.tex /\ d.registered = c.registered
          /\ d.returning = c.returning /\ d.busy = c.busy \ ({k.buf} \ {e.buf})
          /\ d.unsignalled = c.unsignalled \ {k.pt}
      BY <2>1, <2>2 DEF Compositor
    <2> QED BY <1>1, <2>3 DEF d, InCache, k
  <1>2. CASE ~Attaches(e)
    BY <1>2 DEF NewComp
  <1>3. CASE Attaches(e) /\ ~k.fresh
    BY <1>3 DEF NewComp, ReleaseSuperseded, InCache
  <1> QED BY <1>1, <1>2, <1>3

LEMMA NewCacheTyped ==
  ASSUME NEW r \in Records, NEW e \in Entries
  PROVE  Own(r, e) \in Contents /\ NewCache(r, e) \in Caches
  <1>1. r.committed \in Contents /\ r.cached \in Caches
    BY RecordFields
  <1>2. e.buf \in Buffers \cup {Null, NoAttach} /\ e.pt \in Points /\ e.n \in Times
    BY EntryFields
  <1>3. r.cached.fresh \in BOOLEAN /\ r.cached.pt \in Points
    BY <1>1, CacheFields
  <1>4. Own(r, e) \in Contents
    BY <1>1, <1>2 DEF Own, Attaches, Contents, Times
  <1>5. Own(r, e).buf \in Buffers \cup {Null} /\ Own(r, e).ver \in Times
    BY <1>4, ContentFields
  <1>6. Kept(r, e) \in Points
    BY <1>3 DEF Kept, Points
  <1>7. NewCache(r, e) \in Caches
    BY <1>2, <1>3, <1>5, <1>6 DEF NewCache, Caches, Attaches
  <1> QED BY <1>4, <1>7

(* v is w after a synchronized commit of s. *)
Syncs(w, s, v) ==
  LET r == w.surf[s]
      e == r.queue[1]
  IN  /\ v \in Worlds /\ v.lost = w.lost /\ v.applied = w.applied
      /\ v.comp.tex = w.comp.tex /\ v.comp.registered = w.comp.registered
      /\ v.comp.returning = w.comp.returning
      /\ \A b : b \in v.comp.busy <=>
           b \in w.comp.busy /\ ~(Attaches(e) /\ InCache(r, b) /\ b # e.buf)
      /\ \A b : b \in v.comp.unsignalled <=>
           b \in w.comp.unsignalled /\ ~(Attaches(e) /\ r.cached.fresh /\ r.cached.pt = b)
      /\ \A c \in Surfaces :
           /\ v.surf[c].alive = w.surf[c].alive /\ v.surf[c].mapped = w.surf[c].mapped
           /\ v.surf[c].timer = w.surf[c].timer
           /\ v.surf[c].queue = IF c = s THEN Tail(r.queue) ELSE w.surf[c].queue
           /\ v.surf[c].committed = IF c = s THEN Own(r, e) ELSE w.surf[c].committed
           /\ v.surf[c].cached = IF c = s THEN NewCache(r, e) ELSE w.surf[c].cached

LEMMA SyncsIs ==
  ASSUME NEW w \in Worlds, NEW s \in Surfaces, w.surf[s].queue # <<>>
  PROVE  Syncs(w, s, LatchSync(Pop(w, s), s, Head(w.surf[s].queue)))
  <1> DEFINE q == w.surf[s].queue
             e == q[1]
             r == w.surf[s]
             p == Pop(w, s)
             u == [p.surf[s] EXCEPT !.committed = Own(p.surf[s], e),
                                    !.cached = NewCache(p.surf[s], e)]
             srf == [p.surf EXCEPT ![s] = u]
             cmp == NewComp(p.comp, p.surf[s], e)
             v == LatchSync(p, s, e)
  <1>1. r \in Records /\ q \in Seq(Entries) /\ w.comp \in Compositor
    BY WorldFields, RecordFields
  <1>2. e \in Entries /\ Head(q) = e
    BY <1>1, Queues
  <1>3. Popped(w, s, p) /\ p.lost = w.lost
    BY PopIs
  <1> HIDE DEF p, e
  <1>4. /\ p \in Worlds /\ p.comp = w.comp /\ p.applied = w.applied
        /\ \A c \in Surfaces :
             /\ p.surf[c].alive = w.surf[c].alive /\ p.surf[c].mapped = w.surf[c].mapped
             /\ p.surf[c].committed = w.surf[c].committed
             /\ p.surf[c].cached = w.surf[c].cached
             /\ p.surf[c].timer = w.surf[c].timer
             /\ p.surf[c].queue = IF c = s THEN Tail(w.surf[s].queue) ELSE w.surf[c].queue
    BY <1>3 DEF Popped
  <1>5. /\ Own(p.surf[s], e) = Own(r, e) /\ NewCache(p.surf[s], e) = NewCache(r, e)
        /\ cmp = NewComp(w.comp, r, e)
    BY <1>4 DEF Own, NewCache, Kept, NewComp
  <1>6. Own(r, e) \in Contents /\ NewCache(r, e) \in Caches
    BY <1>1, <1>2, NewCacheTyped
  <1>7. p.surf \in [Surfaces -> Records] /\ p.surf[s] \in Records
    BY <1>4, WorldFields
  <1>8. /\ u \in Records /\ u.alive = p.surf[s].alive /\ u.mapped = p.surf[s].mapped
        /\ u.timer = p.surf[s].timer /\ u.queue = p.surf[s].queue
        /\ u.committed = Own(r, e) /\ u.cached = NewCache(r, e)
    BY <1>5, <1>6, <1>7 DEF Records
  <1>9. v = [p EXCEPT !.surf = srf, !.comp = cmp]
    <2>1. p \in Worlds
      BY <1>4
    <2> QED BY <2>1, LatchSyncIs
  <1>10. /\ cmp \in Compositor /\ cmp.tex = w.comp.tex /\ cmp.registered = w.comp.registered
         /\ cmp.returning = w.comp.returning
         /\ \A b : b \in cmp.busy <=>
              b \in w.comp.busy /\ ~(Attaches(e) /\ InCache(r, b) /\ b # e.buf)
         /\ \A b : b \in cmp.unsignalled <=>
              b \in w.comp.unsignalled /\ ~(Attaches(e) /\ r.cached.fresh /\ r.cached.pt = b)
    <2>1. cmp = NewComp(w.comp, r, e)
      BY <1>5
    <2> HIDE DEF cmp, r
    <2> QED BY <1>1, <1>2, <2>1, NewCompIs
  <1> HIDE DEF u, cmp
  <1>11. /\ srf \in [Surfaces -> Records] /\ srf[s] = u
         /\ \A c \in Surfaces : c # s => srf[c] = p.surf[c]
    BY <1>7, <1>8
  <1> HIDE DEF srf, v
  <1>12. /\ v \in Worlds /\ v.surf = srf /\ v.comp = cmp /\ v.applied = w.applied
         /\ v.lost = w.lost
    BY <1>3, <1>4, <1>9, <1>10, <1>11 DEF Worlds
  <1>13. \A c \in Surfaces :
           /\ v.surf[c].alive = w.surf[c].alive /\ v.surf[c].mapped = w.surf[c].mapped
           /\ v.surf[c].timer = w.surf[c].timer
           /\ v.surf[c].queue = IF c = s THEN Tail(r.queue) ELSE w.surf[c].queue
           /\ v.surf[c].committed = IF c = s THEN Own(r, e) ELSE w.surf[c].committed
           /\ v.surf[c].cached = IF c = s THEN NewCache(r, e) ELSE w.surf[c].cached
    BY <1>4, <1>8, <1>11, <1>12
  <1>14. Syncs(w, s, v)
    BY <1>10, <1>12, <1>13 DEF Syncs, e
  <1> QED BY <1>2, <1>14 DEF v, p

(* The new cache of a surface. *)
LEMMA NewCacheRight ==
  ASSUME NEW r \in Records, Agrees(r), PairedCache(r.cached), NEW e \in Entries,
         PairedEntry(e)
  PROVE  /\ PairedCache(NewCache(r, e))
         /\ Own(r, e).ver \in {r.committed.ver, e.n}
         /\ \A b \in Buffers :
              /\ NewCache(r, e).fresh /\ NewCache(r, e).buf = b
                   <=> e.buf = b \/ (~Attaches(e) /\ InCache(r, b))
              /\ e.pt = b => NewCache(r, e).pt = b
              /\ r.cached.pt = b => \/ Attaches(e) /\ r.cached.fresh
                                    \/ NewCache(r, e).pt = b
  <1> DEFINE k == r.cached
             z == NewCache(r, e)
             o == Own(r, e)
  <1>1. k \in Caches /\ r.committed \in Contents
    BY RecordFields
  <1>2. e.buf \in Buffers \cup {Null, NoAttach} /\ e.pt \in Points /\ NoAttach \notin Buffers
        /\ None \notin Buffers
    BY EntryFields, Constants
  <1>3. k.fresh \in BOOLEAN
    BY <1>1, CacheFields
  <1>4. /\ z.buf = o.buf /\ (z.fresh <=> k.fresh \/ Attaches(e))
        /\ z.pt = IF e.pt # None THEN e.pt ELSE Kept(r, e)
    BY DEF NewCache
  <1>5. /\ k.pt \in {None, k.buf} /\ (k.pt # None => k.fresh) /\ e.pt \in {None, e.buf}
    BY DEF PairedCache, PairedEntry
  <1>6. k.fresh => k.buf = r.committed.buf
    BY Empties DEF Agrees
  <1>7. Attaches(e) <=> e.buf # NoAttach
    BY DEF Attaches
  <1>8. e.pt # None => Attaches(e)
    BY <1>2, <1>5, <1>7, Constants DEF Points
  <1>9. \A b : InCache(r, b) <=> k.fresh /\ k.buf = b
    BY DEF InCache
  <1>10. CASE Attaches(e)
    <2>1. o.buf = e.buf /\ o.ver = e.n
      BY <1>10 DEF Own
    <2>2. z.fresh /\ z.buf = e.buf /\ z.pt = e.pt
      BY <1>4, <1>5, <1>10, <2>1 DEF Kept
    <2> HIDE DEF k, z, o
    <2>3. PairedCache(z)
      BY <1>5, <2>2 DEF PairedCache
    <2>4. ASSUME NEW b \in Buffers
          PROVE  /\ z.fresh /\ z.buf = b <=> e.buf = b \/ (~Attaches(e) /\ InCache(r, b))
                 /\ e.pt = b => z.pt = b
                 /\ k.pt = b => Attaches(e) /\ k.fresh
      BY <1>2, <1>5, <1>10, <2>2
    <2> QED BY <2>1, <2>3, <2>4 DEF k, z, o
  <1>11. CASE ~Attaches(e)
    <2>1. o = r.committed /\ e.pt = None
      BY <1>8, <1>11 DEF Own
    <2>2. (z.fresh <=> k.fresh) /\ z.buf = r.committed.buf /\ z.pt = k.pt
      BY <1>4, <1>11, <2>1 DEF Kept
    <2> HIDE DEF k, z, o
    <2>3. PairedCache(z)
      BY <1>5, <1>6, <2>2 DEF PairedCache
    <2>4. ASSUME NEW b \in Buffers
          PROVE  /\ z.fresh /\ z.buf = b <=> e.buf = b \/ (~Attaches(e) /\ InCache(r, b))
                 /\ e.pt = b => z.pt = b
                 /\ k.pt = b => z.pt = b
      BY <1>2, <1>6, <1>7, <1>9, <1>11, <2>1, <2>2
    <2> QED BY <2>1, <2>3, <2>4 DEF k, z, o
  <1> QED BY <1>10, <1>11

LEMMA SyncSingle ==
  ASSUME NEW w, NEW m, Fit(w, m), NEW s \in Surfaces, w.surf[s].queue # <<>>,
         NEW v, Syncs(w, s, v), NEW b \in Buffers, Single(w, b)
  PROVE  Single(v, b)
  <1> DEFINE r == w.surf[s]
             q == r.queue
             e == q[1]
             x == w.comp.tex[s]
             u == v.surf[s]
             t == Tail(q)
  <1>1. /\ r \in Records /\ q \in Seq(Entries) /\ Agrees(r) /\ PairedCache(r.cached)
        /\ Paired(r)
    BY FitParts
  <1>2. e \in Entries /\ PairedEntry(e)
    BY <1>1, Queues DEF Paired, PairedEntry
  <1>3. /\ Within(r, x, b) /\ Once(q, b)
        /\ ~(InQueue(r, b) /\ InCache(r, b)) /\ ~(InQueue(r, b) /\ OnScreen(x, b))
        /\ ~(InCache(r, b) /\ OnScreen(x, b))
    BY DEF Single, Within
  <1>4. /\ InQueue(r, b) <=> e.buf = b \/ Queued(t, b)
        /\ ~(e.buf = b /\ Queued(t, b)) /\ Once(t, b)
    BY <1>1, <1>3, TailHas DEF InQueue
  <1>5. /\ u.queue = t /\ u.cached = NewCache(r, e) /\ v.comp.tex = w.comp.tex
        /\ v.comp.returning = w.comp.returning
        /\ b \in v.comp.busy <=>
             b \in w.comp.busy /\ ~(Attaches(e) /\ InCache(r, b) /\ b # e.buf)
        /\ \A c \in Surfaces : c # s => /\ v.surf[c].queue = w.surf[c].queue
                                        /\ v.surf[c].cached = w.surf[c].cached
    BY DEF Syncs
  <1> HIDE DEF r, q, e, x, u, t
  <1>6. InCache(u, b) <=> e.buf = b \/ (~Attaches(e) /\ InCache(r, b))
    BY <1>1, <1>2, <1>5, NewCacheRight DEF InCache
  <1>7. e.buf = b => Attaches(e)
    BY Constants DEF Attaches
  <1>8. InQueue(u, b) <=> Queued(t, b)
    BY <1>5 DEF InQueue
  <1>9. Within(u, x, b)
    BY <1>3, <1>4, <1>5, <1>6, <1>8 DEF Within
  <1>10. Held(u, x, b) <=> Held(r, x, b) /\ ~(Attaches(e) /\ InCache(r, b) /\ b # e.buf)
    BY <1>3, <1>4, <1>6, <1>7, <1>8 DEF Held
  <1>11. ASSUME NEW c \in Surfaces, c # s
         PROVE  /\ Within(v.surf[c], v.comp.tex[c], b)
                /\ Holds(v, c, b) <=> Holds(w, c, b)
    <2>1. Within(w.surf[c], w.comp.tex[c], b)
      BY DEF Single
    <2> QED BY <1>5, <1>11, <2>1 DEF Within, Holds, Held, InQueue, InCache, OnScreen
  <1>12. /\ Holds(v, s, b) <=> Holds(w, s, b) /\ ~(Attaches(e) /\ InCache(r, b) /\ b # e.buf)
         /\ Within(v.surf[s], v.comp.tex[s], b)
    BY <1>5, <1>9, <1>10 DEF Holds, x, u, r
  <1>13. InCache(r, b) => Holds(w, s, b)
    BY DEF Holds, Held, r
  <1>14. /\ \A c, d \in Surfaces : Holds(w, c, b) /\ Holds(w, d, b) => c = d
         /\ \A c \in Surfaces : Holds(w, c, b) => b \notin w.comp.returning
         /\ b \in w.comp.busy <=> b \in w.comp.returning \/ \E c \in Surfaces : Holds(w, c, b)
    BY DEF Single
  <1>15. \A c \in Surfaces : Within(v.surf[c], v.comp.tex[c], b)
    BY <1>11, <1>12
  <1>16. \A c, d \in Surfaces : Holds(v, c, b) /\ Holds(v, d, b) => c = d
    BY <1>11, <1>12, <1>14
  <1>17. \A c \in Surfaces : Holds(v, c, b) => b \notin v.comp.returning
    BY <1>5, <1>11, <1>12, <1>14
  <1>18. b \in v.comp.busy <=> b \in v.comp.returning \/ \E c \in Surfaces : Holds(v, c, b)
    <2>1. CASE Attaches(e) /\ InCache(r, b) /\ b # e.buf
      BY <1>5, <1>11, <1>12, <1>13, <1>14, <2>1
    <2>2. CASE ~(Attaches(e) /\ InCache(r, b) /\ b # e.buf)
      BY <1>5, <1>11, <1>12, <1>14, <2>2
    <2> QED BY <2>1, <2>2
  <1> QED BY <1>15, <1>16, <1>17, <1>18 DEF Single

LEMMA SyncOwed ==
  ASSUME NEW w, NEW m, Fit(w, m), NEW s \in Surfaces, w.surf[s].queue # <<>>,
         NEW v, Syncs(w, s, v), NEW b \in Buffers, Owed(w, b)
  PROVE  Owed(v, b)
  <1> DEFINE r == w.surf[s]
             q == r.queue
             e == q[1]
             u == v.surf[s]
             t == Tail(q)
  <1>1. /\ r \in Records /\ q \in Seq(Entries) /\ Agrees(r) /\ PairedCache(r.cached)
        /\ Paired(r)
    BY FitParts
  <1>2. e \in Entries /\ PairedEntry(e)
    BY <1>1, Queues DEF Paired, PairedEntry
  <1>3. PointQueued(q, b) <=> e.pt = b \/ PointQueued(t, b)
    BY <1>1, TailHas
  <1>4. /\ u.queue = t /\ u.cached = NewCache(r, e)
        /\ v.comp.registered = w.comp.registered
        /\ b \in v.comp.unsignalled <=>
             b \in w.comp.unsignalled /\ ~(Attaches(e) /\ r.cached.fresh /\ r.cached.pt = b)
        /\ \A c \in Surfaces : c # s => /\ v.surf[c].queue = w.surf[c].queue
                                        /\ v.surf[c].cached = w.surf[c].cached
    BY DEF Syncs
  <1> HIDE DEF r, q, e, u, t
  <1>5. SUFFICES ASSUME b \in v.comp.unsignalled
                 PROVE  (\E c \in Surfaces : HasPoint(v.surf[c], b))
                          \/ v.comp.registered[b] = b
    BY DEF Owed
  <1>6. /\ e.pt = b => u.cached.pt = b
        /\ r.cached.pt = b => u.cached.pt = b
    BY <1>1, <1>2, <1>4, <1>5, NewCacheRight
  <1>7. HasPoint(r, b) => HasPoint(u, b)
    BY <1>3, <1>4, <1>6 DEF HasPoint, q
  <1>8. \A c \in Surfaces : HasPoint(w.surf[c], b) => HasPoint(v.surf[c], b)
    BY <1>4, <1>7 DEF HasPoint, r, u
  <1> QED BY <1>4, <1>5, <1>8 DEF Owed

LEMMA SyncAged ==
  ASSUME NEW w, NEW m \in Nat, Fit(w, m), NEW s \in Surfaces, w.surf[s].queue # <<>>,
         NEW v, Syncs(w, s, v), NEW c \in Surfaces
  PROVE  /\ Aged(v.surf[c], v.comp.tex[c], v.applied[c], m) /\ Paired(v.surf[c])
         /\ Grows(w, v, c)
  <1> DEFINE r == w.surf[c]
             e == r.queue[1]
             u == v.surf[c]
             x == w.comp.tex[c]
             a == w.applied[c]
  <1>1. /\ w \in Worlds /\ Aged(r, x, a, m) /\ Paired(r) /\ PairedCache(r.cached)
        /\ Agrees(r) /\ r \in Records /\ r.queue \in Seq(Entries)
    BY FitParts
  <1>2. /\ v \in Worlds /\ v.applied = w.applied /\ v.comp.tex = w.comp.tex
        /\ u.alive = r.alive
        /\ c = s => /\ u.queue = Tail(r.queue) /\ u.committed = Own(r, e)
                    /\ u.cached = NewCache(r, e)
        /\ c # s => /\ u.queue = r.queue /\ u.committed = r.committed
                    /\ u.cached = r.cached
    BY DEF Syncs
  <1>3. x \in Contents /\ a \in Times /\ u \in Records
    BY <1>1, <1>2, WorldFields, CompFields
  <1>4. x.ver <= r.committed.ver
    BY <1>1 DEF Aged
  <1>5. /\ r.committed.ver \in Nat /\ x.ver \in Nat /\ a \in Nat
        /\ \A i \in DOMAIN r.queue : r.queue[i].n \in Nat
    BY <1>1, <1>3, AgedNumbers
  <1>6. CASE c = s
    <2>1. r.queue # <<>> /\ 1 \in DOMAIN r.queue
      BY <1>1, <1>6, Queues
    <2>2. e \in Entries /\ PairedEntry(e)
      BY <1>1, <2>1, Queues DEF Paired, PairedEntry
    <2>3. r.committed.ver < e.n
      BY <1>1, <2>1 DEF Aged
    <2>4. PairedCache(NewCache(r, e)) /\ Own(r, e).ver \in {r.committed.ver, e.n}
      BY <1>1, <2>2, NewCacheRight
    <2>5. /\ u.cached.buf = u.committed.buf /\ u.cached.ver = u.committed.ver
          /\ u.cached.last = e.n
      BY <1>2, <1>6 DEF NewCache
    <2>6. u.queue = Tail(r.queue) /\ u.committed.ver \in {r.committed.ver, e.n}
          /\ PairedCache(u.cached)
      BY <1>2, <1>6, <2>4
    <2>7. e.n \in Nat
      BY <1>5, <2>1
    <2> HIDE DEF r, u, x, a
    <2>8. x.ver <= u.committed.ver
      BY <1>4, <1>5, <2>3, <2>6, <2>7
    <2>9. Aged(u, x, a, m) /\ r.committed.ver <= u.committed.ver
      BY <1>1, <1>3, <2>1, <2>5, <2>6, <2>8, AgedTail
    <2>10. Paired(u)
      <3>1. u.queue \in {r.queue, Tail(r.queue)}
        BY <2>6
      <3>2. r \in Records /\ Paired(r) /\ r.queue # <<>> /\ PairedCache(u.cached)
        BY <1>1, <2>1, <2>6
      <3> QED BY <3>1, <3>2, PairedTail
    <2> QED BY <1>2, <1>5, <2>9, <2>10 DEF Grows, r, u, x, a
  <1>7. CASE c # s
    <2>1. Aged(u, x, a, m) /\ Paired(u)
      BY <1>1, <1>2, <1>7 DEF Aged, Paired
    <2> QED BY <1>2, <1>5, <1>7, <2>1 DEF Grows
  <1> QED BY <1>6, <1>7

LEMMA SyncSteps ==
  ASSUME NEW w, NEW m \in Nat, Fit(w, m), NEW s \in Surfaces, w.surf[s].queue # <<>>,
         NEW v, Syncs(w, s, v), EffectiveSync(s)
  PROVE  Steps(w, v, s, m) /\ v.surf[s].queue = Tail(w.surf[s].queue)
  <1>1. /\ v \in Worlds /\ v.lost = w.lost /\ v.applied = w.applied
        /\ v.comp.registered = w.comp.registered
        /\ \A c \in Surfaces : /\ v.surf[c].timer = w.surf[c].timer
                               /\ v.surf[c].queue = IF c = s THEN Tail(w.surf[s].queue)
                                                             ELSE w.surf[c].queue
    BY DEF Syncs
  <1>2. Registered(v.comp, v.lost)
    BY <1>1, FitParts DEF Registered
  <1>3. ASSUME NEW b \in Buffers \ v.lost
        PROVE  Single(v, b) /\ Owed(v, b)
    <2>1. Single(w, b) /\ Owed(w, b) /\ b \in Buffers
      BY <1>1, FitParts
    <2> QED BY <2>1, SyncSingle, SyncOwed
  <1>4. \A c \in Surfaces : /\ Aged(v.surf[c], v.comp.tex[c], v.applied[c], m)
                            /\ Paired(v.surf[c]) /\ Grows(w, v, c)
    BY SyncAged
  <1>5. Fit(v, m)
    BY <1>1, <1>2, <1>3, <1>4 DEF Fit
  <1>6. Synced(w, v, s)
    BY <1>1 DEF Synced
  <1>7. Repays(w, v)
    BY DEF Syncs, Repays
  <1> QED BY <1>1, <1>4, <1>5, <1>6, <1>7 DEF Steps

-----------------------------------------------------------------------------
(* A surface that leaves the compositor, and its queue. *)

LEMMA RemovedIs ==
  ASSUME NEW c \in Compositor, NEW s \in Surfaces
  PROVE  LET d == RemoveSurface(c, s)
         IN  /\ d \in Compositor /\ d.registered = c.registered /\ d.busy = c.busy
             /\ d.unsignalled = c.unsignalled
             /\ \A x \in Surfaces : d.tex[x] = IF x = s THEN NoContent ELSE c.tex[x]
             /\ \A b : b \in d.returning <=> b \in c.returning \/ OnScreen(c.tex[s], b)
  <1> DEFINE tx == [c.tex EXCEPT ![s] = NoContent]
             rt == c.returning \cup ({c.tex[s].buf} \cap Dmabufs)
             d  == RemoveSurface(c, s)
  <1>1. c.tex \in [Surfaces -> Contents] /\ c.returning \in SUBSET Buffers
    BY CompFields
  <1>2. tx \in [Surfaces -> Contents] /\ rt \in SUBSET Buffers
    BY <1>1, Empties, Constants
  <1>3. d = [c EXCEPT !.tex = tx, !.returning = rt]
    BY DEF RemoveSurface
  <1>4. \A x \in Surfaces : tx[x] = IF x = s THEN NoContent ELSE c.tex[x]
    BY <1>1
  <1>5. \A b : b \in rt <=> b \in c.returning \/ OnScreen(c.tex[s], b)
    BY DEF OnScreen
  <1> HIDE DEF tx, rt, d
  <1>6. /\ d \in Compositor /\ d.registered = c.registered /\ d.busy = c.busy
        /\ d.unsignalled = c.unsignalled /\ d.tex = tx /\ d.returning = rt
    BY <1>2, <1>3 DEF Compositor, Contents
  <1> QED BY <1>4, <1>5, <1>6 DEF d

(* Only s changes, and b was not in what s loses. *)
Quits(w, s, v, b) ==
  /\ \A c \in Surfaces \ {s} : /\ v.surf[c].queue = w.surf[c].queue
                               /\ v.surf[c].cached = w.surf[c].cached
  /\ \/ v.surf[s].queue = w.surf[s].queue
     \/ v.surf[s].queue = <<>> /\ ~Queued(w.surf[s].queue, b)
          /\ ~PointQueued(w.surf[s].queue, b)
  /\ \/ v.surf[s].cached = w.surf[s].cached
     \/ v.surf[s].cached = NoCache /\ ~InCache(w.surf[s], b) /\ w.surf[s].cached.pt # b
  /\ v.comp \in {w.comp, RemoveSurface(w.comp, s)}

LEMMA QuitsKeeps ==
  ASSUME NEW w, NEW s \in Surfaces, NEW v, NEW b \in Buffers, w.comp \in Compositor,
         Quits(w, s, v, b), Single(w, b), Owed(w, b)
  PROVE  Single(v, b) /\ Owed(v, b)
  <1>1. v.comp \in {w.comp, RemoveSurface(w.comp, s)}
    BY DEF Quits
  <1>2. /\ v.comp.registered = w.comp.registered /\ v.comp.busy = w.comp.busy
        /\ v.comp.unsignalled = w.comp.unsignalled
        /\ \A c \in Surfaces : v.comp.tex[c] = w.comp.tex[c]
                               \/ (c = s /\ v.comp.tex[c] = NoContent
                                   /\ (OnScreen(w.comp.tex[s], b) => b \in v.comp.returning))
        /\ b \in w.comp.returning => b \in v.comp.returning
        /\ b \in v.comp.returning =>
             b \in w.comp.returning \/ (OnScreen(w.comp.tex[s], b) /\ v.comp.tex[s] = NoContent)
    <2>1. CASE v.comp = w.comp
      BY <2>1
    <2>2. CASE v.comp = RemoveSurface(w.comp, s)
      BY <2>2, RemovedIs
    <2> QED BY <1>1, <2>1, <2>2
  <1>3. ~OnScreen(NoContent, b) /\ ~InCache([cached |-> NoCache], b)
    BY Empties, Constants DEF OnScreen, InCache
  <1>4. \A c \in Surfaces :
          /\ InQueue(v.surf[c], b) <=> InQueue(w.surf[c], b)
          /\ InCache(v.surf[c], b) <=> InCache(w.surf[c], b)
          /\ Once(w.surf[c].queue, b) => Once(v.surf[c].queue, b)
    <2>1. ASSUME NEW c \in Surfaces, c # s
          PROVE  v.surf[c].queue = w.surf[c].queue /\ v.surf[c].cached = w.surf[c].cached
      BY <2>1 DEF Quits
    <2>2. /\ v.surf[s].queue = w.surf[s].queue
             \/ (v.surf[s].queue = <<>> /\ ~Queued(w.surf[s].queue, b))
          /\ v.surf[s].cached = w.surf[s].cached
             \/ (v.surf[s].cached = NoCache /\ ~InCache(w.surf[s], b))
      BY DEF Quits
    <2>3. ~Queued(<<>>, b) /\ Once(<<>>, b)
      BY DEF Queued, Once
    <2>4. /\ InQueue(v.surf[s], b) <=> InQueue(w.surf[s], b)
          /\ Once(w.surf[s].queue, b) => Once(v.surf[s].queue, b)
      BY <2>2, <2>3 DEF InQueue
    <2>5. InCache(v.surf[s], b) <=> InCache(w.surf[s], b)
      BY <2>2, Empties DEF InCache
    <2> QED BY <2>1, <2>4, <2>5 DEF InQueue, InCache
  <1>5. ASSUME NEW c \in Surfaces
        PROVE  /\ Moves(w, v, c, b)
               /\ v.comp.tex[c] # w.comp.tex[c] /\ OnScreen(w.comp.tex[c], b)
                    => Holds(w, c, b) /\ ~Holds(v, c, b)
    <2>1. /\ Once(w.surf[c].queue, b)
          /\ ~(InQueue(w.surf[c], b) /\ InCache(w.surf[c], b))
          /\ ~(InQueue(w.surf[c], b) /\ OnScreen(w.comp.tex[c], b))
          /\ ~(InCache(w.surf[c], b) /\ OnScreen(w.comp.tex[c], b))
      BY DEF Single, Within
    <2>2. OnScreen(v.comp.tex[c], b) => OnScreen(w.comp.tex[c], b)
      BY <1>2, <1>3
    <2>3. Within(v.surf[c], v.comp.tex[c], b)
      BY <1>4, <2>1, <2>2 DEF Within
    <2>4. Holds(v, c, b) => Holds(w, c, b)
      BY <1>4, <2>2 DEF Holds, Held
    <2>5. OnScreen(w.comp.tex[c], b) =>
            OnScreen(v.comp.tex[c], b) \/ b \in v.comp.returning
      BY <1>2
    <2>6. Holds(w, c, b) => Holds(v, c, b) \/ b \in v.comp.returning
      BY <1>4, <2>5 DEF Holds, Held
    <2>7. v.comp.tex[c] # w.comp.tex[c] => ~OnScreen(v.comp.tex[c], b)
      BY <1>2, <1>3
    <2>8. v.comp.tex[c] # w.comp.tex[c] /\ OnScreen(w.comp.tex[c], b)
            => Holds(w, c, b) /\ ~Holds(v, c, b)
      BY <1>4, <2>1, <2>7 DEF Holds, Held
    <2> QED BY <2>3, <2>4, <2>6, <2>8 DEF Moves
  <1>6. b \in v.comp.returning =>
          b \in w.comp.returning \/ \E c \in Surfaces : Holds(w, c, b) /\ ~Holds(v, c, b)
    BY <1>2, <1>3, <1>5
  <1>7. Single(v, b)
    BY <1>2, <1>5, <1>6, SingleMoved
  <1>8. ASSUME NEW c \in Surfaces, HasPoint(w.surf[c], b) PROVE HasPoint(v.surf[c], b)
    BY <1>8 DEF Quits, HasPoint
  <1>9. Owed(v, b)
    BY <1>2, <1>8 DEF Owed
  <1> QED BY <1>7, <1>9

(* v is w without the queue of s, and without s on the compositor if mapped. *)
Detached(w, s, v) ==
  /\ v \in Worlds /\ v.applied = w.applied /\ w.lost \subseteq v.lost
  /\ \A b \in Buffers : Queued(w.surf[s].queue, b) => b \in v.lost
  /\ v.comp \in {w.comp, RemoveSurface(w.comp, s)}
  /\ \A c \in Surfaces :
       /\ v.surf[c].alive = w.surf[c].alive /\ v.surf[c].committed = w.surf[c].committed
       /\ v.surf[c].cached = w.surf[c].cached
       /\ c # s => v.surf[c].queue = w.surf[c].queue /\ v.surf[c].timer = w.surf[c].timer
  /\ v.surf[s].queue = <<>> /\ ~v.surf[s].timer

LEMMA DetachedIs ==
  ASSUME NEW w \in Worlds, NEW s \in Surfaces
  PROVE  Detached(w, s, DetachSurfaceRole(w, s))
  <1> DEFINE r == w.surf[s]
             q == r.queue
             u == [w.surf[s] EXCEPT !.queue = <<>>, !.timer = FALSE]
             l == w.lost \cup ({e.buf : e \in ToSet(q)} \cap Buffers)
             d == DiscardTimedCommits(w, s)
             z == [u EXCEPT !.mapped = FALSE]
             v == DetachSurfaceRole(w, s)
  <1>1. /\ w.surf \in [Surfaces -> Records] /\ r \in Records /\ w.comp \in Compositor
        /\ w.applied \in [Surfaces -> Times] /\ w.lost \in SUBSET Buffers
    BY WorldFields
  <1>2. \A b \in Buffers : Queued(q, b) => b \in l
    BY DEF Queued, ToSet
  <1>3. l \in SUBSET Buffers /\ w.lost \subseteq l
    BY <1>1
  <1>4. <<>> \in Seq(Entries)
    OBVIOUS
  <1>5. /\ u \in Records /\ u.queue = <<>> /\ u.timer = FALSE /\ u.alive = r.alive
        /\ u.mapped = r.mapped /\ u.committed = r.committed /\ u.cached = r.cached
    BY <1>1, <1>4 DEF Records
  <1>6. d = [w EXCEPT !.surf = [w.surf EXCEPT ![s] = u], !.lost = l]
    BY DEF DiscardTimedCommits
  <1> HIDE DEF u, l, d, v, z
  <1>7. /\ d \in Worlds /\ d.surf = [w.surf EXCEPT ![s] = u] /\ d.lost = l
        /\ d.comp = w.comp /\ d.applied = w.applied
    BY <1>1, <1>3, <1>5, <1>6 DEF Worlds
  <1>8. d.surf[s] = u /\ \A c \in Surfaces : c # s => d.surf[c] = w.surf[c]
    BY <1>1, <1>7
  <1>9. CASE ~r.mapped
    <2>1. v = d
      BY <1>9 DEF v, d, DetachSurfaceRole
    <2> QED BY <1>2, <1>3, <1>5, <1>7, <1>8, <2>1 DEF Detached, v
  <1>10. CASE r.mapped
    <2>1. /\ z \in Records /\ z.queue = <<>> /\ z.timer = FALSE /\ z.alive = r.alive
          /\ z.committed = r.committed /\ z.cached = r.cached
      BY <1>5 DEF z, Records
    <2>2. v = [d EXCEPT !.surf = [d.surf EXCEPT ![s] = z], !.comp = RemoveSurface(w.comp, s)]
      <3>1. v = [d EXCEPT !.surf[s].mapped = FALSE, !.comp = RemoveSurface(d.comp, s)]
        BY <1>10 DEF v, d, DetachSurfaceRole
      <3> QED BY <1>7, <1>8, <3>1 DEF z
    <2>3. RemoveSurface(w.comp, s) \in Compositor
      BY <1>1, RemovedIs
    <2>4. [d.surf EXCEPT ![s] = z] \in [Surfaces -> Records]
      BY <1>7, <2>1, WorldFields
    <2>5. /\ v \in Worlds /\ v.surf = [d.surf EXCEPT ![s] = z] /\ v.lost = l
          /\ v.comp = RemoveSurface(w.comp, s) /\ v.applied = w.applied
      BY <1>7, <2>2, <2>3, <2>4 DEF Worlds
    <2>6. v.surf[s] = z /\ \A c \in Surfaces : c # s => v.surf[c] = w.surf[c]
      BY <1>7, <1>8, <2>5, WorldFields
    <2> QED BY <1>2, <1>3, <2>1, <2>5, <2>6 DEF Detached, v
  <1> QED BY <1>9, <1>10

LEMMA DetachedFit ==
  ASSUME NEW w, NEW m \in Nat, Fit(w, m), NEW s \in Surfaces, NEW v, Detached(w, s, v)
  PROVE  Fit(v, m) /\ \A c \in Surfaces : Grows(w, v, c)
  <1>1. /\ w \in Worlds /\ w.comp \in Compositor /\ Registered(w.comp, w.lost)
        /\ \A b \in Buffers \ w.lost : Single(w, b) /\ Owed(w, b)
    BY FitParts, WorldFields
  <1>2. /\ v \in Worlds /\ v.applied = w.applied /\ w.lost \subseteq v.lost
        /\ v.comp \in {w.comp, RemoveSurface(w.comp, s)}
    BY DEF Detached
  <1>3. /\ v.comp.registered = w.comp.registered
        /\ \A c \in Surfaces : v.comp.tex[c] \in {NoContent, w.comp.tex[c]}
    BY <1>1, <1>2, RemovedIs
  <1>4. Registered(v.comp, v.lost)
    BY <1>1, <1>2, <1>3 DEF Registered
  <1>5. ASSUME NEW c \in Surfaces
        PROVE  /\ Aged(v.surf[c], v.comp.tex[c], v.applied[c], m) /\ Paired(v.surf[c])
               /\ Grows(w, v, c)
    <2> DEFINE r == w.surf[c]
               u == v.surf[c]
    <2>1. /\ Aged(r, w.comp.tex[c], w.applied[c], m) /\ Paired(r) /\ r \in Records
      BY FitParts
    <2>2. /\ u.alive = r.alive /\ u.committed = r.committed /\ u.cached = r.cached
          /\ u.queue \in {r.queue, <<>>}
      BY DEF Detached
    <2>3. w.comp.tex[c] \in Contents /\ w.applied[c] \in Times
      BY <1>1, WorldFields, CompFields
    <2>4. r.committed.ver \in Nat /\ w.applied[c] \in Nat
      BY <2>1, <2>3, AgedNumbers
    <2>5. v.comp.tex[c].ver <= r.committed.ver
      BY <1>3, <2>1, <2>4, Empties DEF Aged
    <2> HIDE DEF r, u
    <2>6. Aged(u, v.comp.tex[c], w.applied[c], m)
      BY <2>1, <2>2, <2>5 DEF Aged, Rising
    <2>7. Paired(u)
      BY <2>1, <2>2 DEF Paired
    <2> QED BY <1>2, <1>3, <2>2, <2>4, <2>6, <2>7 DEF Grows, r, u
  <1>6. ASSUME NEW b \in Buffers \ v.lost
        PROVE  Single(v, b) /\ Owed(v, b)
    <2>1. Single(w, b) /\ Owed(w, b) /\ b \in Buffers
      BY <1>1, <1>2
    <2>2. ~Queued(w.surf[s].queue, b)
      BY DEF Detached
    <2>3. ~PointQueued(w.surf[s].queue, b)
      BY <2>1, <2>2, FitParts, Constants DEF PointQueued, Queued, Paired
    <2>4. Quits(w, s, v, b)
      BY <2>2, <2>3 DEF Quits, Detached
    <2> QED BY <1>1, <2>1, <2>4, QuitsKeeps
  <1> QED BY <1>2, <1>4, <1>5, <1>6 DEF Fit

-----------------------------------------------------------------------------
(* Steps compose. *)

LEMMA WorldNumbers ==
  ASSUME NEW w \in Worlds, NEW c \in Surfaces
  PROVE  w.applied[c] \in Nat /\ w.surf[c].committed.ver \in Nat /\ w.comp.tex[c].ver \in Nat
  <1>1. /\ w.applied[c] \in Times /\ w.surf[c].committed \in Contents
        /\ w.comp.tex[c] \in Contents
    BY WorldFields, RecordFields, CompFields
  <1> QED BY <1>1, ContentFields, Constants DEF Times

LEMMA StepsSelf ==
  ASSUME NEW w, NEW m, Fit(w, m), NEW s \in Surfaces, SubTyped
  PROVE  Steps(w, w, s, m)
  <1>1. w \in Worlds
    BY FitParts
  <1>2. \A c \in Surfaces : Grows(w, w, c)
    BY <1>1, WorldNumbers DEF Grows
  <1>3. Synced(w, w, s)
    BY <1>1, WorldNumbers, SubIn DEF Synced
  <1> QED BY <1>2, <1>3 DEF Steps, Repays

LEMMA StepsTwice ==
  ASSUME NEW w, NEW v, NEW z, NEW m, Fit(w, m), NEW s \in Surfaces, SubTyped,
         Steps(w, v, s, m), Steps(v, z, s, m)
  PROVE  Steps(w, z, s, m)
  <1>1. w \in Worlds /\ v \in Worlds /\ z \in Worlds
    BY FitParts DEF Steps
  <1>2. ASSUME NEW c \in Surfaces PROVE Grows(w, z, c)
    <2>1. Grows(w, v, c) /\ Grows(v, z, c)
      BY DEF Steps
    <2>2. /\ w.applied[c] \in Nat /\ v.applied[c] \in Nat /\ z.applied[c] \in Nat
          /\ w.surf[c].committed.ver \in Nat /\ v.surf[c].committed.ver \in Nat
          /\ z.surf[c].committed.ver \in Nat /\ z.comp.tex[c].ver \in Nat
      BY <1>1, WorldNumbers
    <2> QED BY <2>1, <2>2 DEF Grows
  <1>3. Synced(w, z, s)
    <2>1. Synced(w, v, s) /\ Synced(v, z, s)
      BY DEF Steps
    <2>2. CASE EffectiveSync(s)
      BY <2>1, <2>2 DEF Synced
    <2>3. CASE ~EffectiveSync(s)
      <3>1. ASSUME NEW c \in DOMAIN sub, w.surf[c].alive, EffectiveSync(c)
            PROVE  /\ w.applied[c] < z.applied[c]
                        => w.applied[Parent[c]] < z.applied[Parent[c]]
                   /\ w.applied[Parent[c]] < z.applied[Parent[c]] => z.surf[c].cached = NoCache
                   /\ w.surf[c].cached = NoCache => z.surf[c].cached = NoCache
        <4> DEFINE p == Parent[c]
        <4>1. c \in Surfaces /\ p \in Surfaces
          BY SubIn
        <4>2. v.surf[c].alive
          BY <3>1, <4>1 DEF Steps, Grows
        <4>3. /\ w.applied[c] < v.applied[c] => w.applied[p] < v.applied[p]
              /\ w.applied[p] < v.applied[p] => v.surf[c].cached = NoCache
              /\ w.surf[c].cached = NoCache => v.surf[c].cached = NoCache
          BY <2>1, <2>3, <3>1 DEF Synced
        <4>4. /\ v.applied[c] < z.applied[c] => v.applied[p] < z.applied[p]
              /\ v.applied[p] < z.applied[p] => z.surf[c].cached = NoCache
              /\ v.surf[c].cached = NoCache => z.surf[c].cached = NoCache
          BY <2>1, <2>3, <3>1, <4>2 DEF Synced
        <4>5. /\ w.applied[c] \in Nat /\ v.applied[c] \in Nat /\ z.applied[c] \in Nat
              /\ w.applied[p] \in Nat /\ v.applied[p] \in Nat /\ z.applied[p] \in Nat
          BY <1>1, <4>1, WorldNumbers
        <4>6. w.applied[p] <= v.applied[p] /\ v.applied[p] <= z.applied[p]
          BY <4>1 DEF Steps, Grows
        <4> HIDE DEF p
        <4> QED BY <4>3, <4>4, <4>5, <4>6 DEF p
      <3> QED BY <2>3, <3>1 DEF Synced
    <2> QED BY <2>2, <2>3
  <1>4. Repays(w, z)
    BY DEF Steps, Repays
  <1> QED BY <1>2, <1>3, <1>4 DEF Steps

LEMMA DetachedSteps ==
  ASSUME NEW w, NEW m \in Nat, Fit(w, m), NEW s \in Surfaces, NEW v, Detached(w, s, v),
         SubTyped
  PROVE  Steps(w, v, s, m)
  <1>1. Fit(v, m) /\ \A c \in Surfaces : Grows(w, v, c)
    BY DetachedFit
  <1>2. w \in Worlds /\ v.applied = w.applied
    BY FitParts DEF Detached
  <1>3. \A c \in DOMAIN sub : c \in Surfaces /\ Parent[c] \in Surfaces
    BY SubIn
  <1>4. Synced(w, v, s)
    BY <1>2, <1>3, WorldNumbers DEF Synced, Detached
  <1>5. Repays(w, v)
    <2>1. w.comp \in Compositor /\ v.comp \in {w.comp, RemoveSurface(w.comp, s)}
      BY <1>2, WorldFields DEF Detached
    <2> QED BY <2>1, RemovedIs DEF Repays
  <1> QED BY <1>1, <1>4, <1>5 DEF Steps, Detached

(* One commit of s, whichever branch it takes. *)
LEMMA HeadSteps ==
  ASSUME NEW w, NEW m \in Nat, Fit(w, m), SubTyped, NEW s \in Surfaces
  PROVE  /\ Steps(w, LatchHead(w, s), s, m)
         /\ w.surf[s].queue = <<>> => LatchHead(w, s) = w
         /\ w.surf[s].queue # <<>> =>
              LatchHead(w, s).surf[s].queue \in {<<>>, Tail(w.surf[s].queue)}
  <1> DEFINE q == w.surf[s].queue
             v == LatchHead(w, s)
  <1>1. CASE q = <<>>
    BY <1>1, StepsSelf DEF LatchHead
  <1>2. CASE q # <<>>
    <2> DEFINE d == IF EffectiveSync(s) THEN LatchSync(Pop(w, s), s, Head(q))
                    ELSE LatchDesync(Pop(w, s), s, Head(q))
    <2>1. v = IF d.surf[s].mapped /\ d.surf[s].committed.buf = Null
              THEN DetachSurfaceRole(d, s) ELSE d
      BY <1>2 DEF LatchHead, CommitNow, Pop
    <2>2. w \in Worlds
      BY FitParts
    <2>3. Steps(w, d, s, m) /\ d.surf[s].queue = Tail(q)
      <3>1. CASE EffectiveSync(s)
        <4>1. Syncs(w, s, d)
          BY <1>2, <2>2, <3>1, SyncsIs
        <4> HIDE DEF d
        <4> QED BY <1>2, <3>1, <4>1, SyncSteps
      <3>2. CASE ~EffectiveSync(s)
        <4>1. PICK x : Desyncs(w, s, x, d)
          BY <1>2, <3>2, DesyncsIs
        <4> HIDE DEF d
        <4> QED BY <1>2, <3>2, <4>1, DesyncSteps
      <3> QED BY <3>1, <3>2
    <2> HIDE DEF d, v
    <2>4. CASE v = d
      BY <1>2, <2>3, <2>4 DEF v
    <2>5. CASE v = DetachSurfaceRole(d, s)
      <3>1. Fit(d, m) /\ d \in Worlds
        BY <2>3, FitParts DEF Steps
      <3>2. Detached(d, s, v)
        BY <2>5, <3>1, DetachedIs
      <3>3. Steps(d, v, s, m)
        BY <3>1, <3>2, DetachedSteps
      <3>4. Steps(w, v, s, m)
        BY <2>3, <3>3, StepsTwice
      <3>5. v.surf[s].queue = <<>>
        BY <3>2 DEF Detached
      <3> QED BY <1>2, <3>4, <3>5 DEF v
    <2> QED BY <2>1, <2>4, <2>5
  <1> QED BY <1>1, <1>2

-----------------------------------------------------------------------------
(* Several commits at once. *)

LEMMA LeastIn ==
  ASSUME NEW S \in SUBSET Nat, S # {}
  PROVE  \E x \in S : \A y \in S : x <= y
  <1>1. PICK x \in S : \A y \in S : ~(<<y, x>> \in OpToRel(<, Nat))
    BY NatLessThanWellFounded, WFMin
  <1>2. \A y \in S : ~(y < x)
    BY <1>1 DEF OpToRel
  <1> QED BY <1>2

Runs(w, s, k, f) == f = [i \in 0 .. k |-> IF i = 0 THEN w ELSE LatchHead(f[i - 1], s)]

LEMMA RunFields ==
  ASSUME NEW w, NEW s, NEW k \in Nat, NEW f, Runs(w, s, k, f)
  PROVE  /\ DOMAIN f = 0 .. k /\ f[0] = w
         /\ \A i \in 1 .. k : f[i] = LatchHead(f[i - 1], s)
  <1>1. DOMAIN f = 0 .. k
        /\ \A i \in 0 .. k : f[i] = IF i = 0 THEN w ELSE LatchHead(f[i - 1], s)
    BY DEF Runs
  <1> QED BY <1>1

LEMMA RunExists ==
  ASSUME NEW w, NEW s
  PROVE  \A k \in Nat : \E f : Runs(w, s, k, f)
  <1> DEFINE Bad == {k \in Nat : ~\E f : Runs(w, s, k, f)}
  <1>1. SUFFICES ASSUME Bad # {} PROVE FALSE
    OBVIOUS
  <1>2. PICK k \in Bad : \A j \in Bad : k <= j
    BY <1>1, LeastIn
  <1>3. k # 0
    <2> DEFINE f == [i \in 0 .. 0 |-> w]
    <2>1. f = [i \in 0 .. 0 |-> IF i = 0 THEN w ELSE LatchHead(f[i - 1], s)]
      OBVIOUS
    <2>2. Runs(w, s, 0, f)
      BY <2>1 DEF Runs
    <2> HIDE DEF f
    <2> QED BY <2>2
  <1>4. k - 1 \in Nat /\ k - 1 \notin Bad
    BY <1>2, <1>3
  <1>5. PICK f : Runs(w, s, k - 1, f)
    BY <1>4
  <1> DEFINE g == [i \in 0 .. k |-> IF i = k THEN LatchHead(f[k - 1], s) ELSE f[i]]
  <1>6. /\ f[0] = w /\ \A i \in 1 .. (k - 1) : f[i] = LatchHead(f[i - 1], s)
    BY <1>4, <1>5, RunFields
  <1>7. ASSUME NEW i \in 0 .. k
        PROVE  g[i] = IF i = 0 THEN w ELSE LatchHead(g[i - 1], s)
    <2>1. CASE i = 0
      BY <1>3, <1>6, <2>1
    <2>2. CASE i # 0
      <3>1. i - 1 \in 0 .. k /\ i - 1 # k
        BY <2>2
      <3>2. g[i - 1] = f[i - 1]
        BY <3>1
      <3>3. CASE i = k
        BY <2>2, <3>2, <3>3
      <3>4. CASE i # k
        <4>1. i \in 1 .. (k - 1) /\ g[i] = f[i]
          BY <2>2, <3>4
        <4> QED BY <1>6, <2>2, <3>2, <4>1
      <3> QED BY <3>3, <3>4
    <2> QED BY <2>1, <2>2
  <1>8. DOMAIN g = 0 .. k /\ g = [i \in 0 .. k |-> g[i]]
    OBVIOUS
  <1> HIDE DEF g
  <1>9. g = [i \in 0 .. k |-> IF i = 0 THEN w ELSE LatchHead(g[i - 1], s)]
    BY <1>7, <1>8
  <1>10. Runs(w, s, k, g)
    BY <1>9 DEF Runs
  <1> QED BY <1>2, <1>10

LEMMA LatchedRuns ==
  ASSUME NEW w, NEW s, NEW k \in Nat
  PROVE  \E f : Runs(w, s, k, f) /\ Latched(w, s, k) = f[k]
  <1> DEFINE run == CHOOSE f : f = [i \in 0 .. k |-> IF i = 0 THEN w ELSE LatchHead(f[i - 1], s)]
  <1>1. Latched(w, s, k) = run[k]
    BY DEF Latched
  <1>2. \E f : f = [i \in 0 .. k |-> IF i = 0 THEN w ELSE LatchHead(f[i - 1], s)]
    <2>1. \E f : Runs(w, s, k, f)
      BY RunExists
    <2> QED BY <2>1 DEF Runs
  <1>3. run = [i \in 0 .. k |-> IF i = 0 THEN w ELSE LatchHead(run[i - 1], s)]
    BY <1>2
  <1> HIDE DEF run
  <1> QED BY <1>1, <1>3 DEF Runs

(* What is left of queue q after i of its commits. *)
Left(p, q, i) ==
  \/ p = <<>>
  \/ p \in Seq(Entries) /\ Len(p) = Len(q) - i /\ \A j \in DOMAIN p : p[j] = q[i + j]

LEMMA LatchedSteps ==
  ASSUME NEW w, NEW m \in Nat, Fit(w, m), SubTyped, NEW s \in Surfaces,
         NEW k \in Nat
  PROVE  /\ Steps(w, Latched(w, s, k), s, m)
         /\ Left(Latched(w, s, k).surf[s].queue, w.surf[s].queue, k)
  <1> DEFINE q == w.surf[s].queue
  <1>1. q \in Seq(Entries) /\ Len(q) \in Nat
    BY FitParts, Queues
  <1>3. PICK f : Runs(w, s, k, f) /\ Latched(w, s, k) = f[k]
    BY LatchedRuns
  <1>4. f[0] = w /\ \A i \in 1 .. k : f[i] = LatchHead(f[i - 1], s)
    <2>1. Runs(w, s, k, f)
      BY <1>3
    <2>2. \A i \in 0 .. k : f[i] = IF i = 0 THEN w ELSE LatchHead(f[i - 1], s)
      BY <2>1 DEF Runs
    <2> QED BY <2>2
  <1> DEFINE Good(i) == Steps(w, f[i], s, m) /\ Left(f[i].surf[s].queue, q, i)
             Bad == {i \in 0 .. k : ~Good(i)}
  <1>5. Good(0)
    BY <1>1, <1>4, StepsSelf DEF Left
  <1>6. ASSUME NEW i \in 1 .. k, Good(i - 1) PROVE Good(i)
    <2> DEFINE v == f[i - 1]
               z == f[i]
               p == v.surf[s].queue
               t == z.surf[s].queue
    <2>1. z = LatchHead(v, s) /\ Steps(w, v, s, m) /\ Left(p, q, i - 1)
      BY <1>4, <1>6
    <2>2. Fit(v, m)
      BY <2>1 DEF Steps
    <2> HIDE DEF v, z
    <2>3. /\ Steps(v, z, s, m) /\ (p = <<>> => z = v) /\ (p # <<>> => t \in {<<>>, Tail(p)})
      BY <2>1, <2>2, HeadSteps
    <2>4. Steps(w, z, s, m)
      BY <2>1, <2>3, StepsTwice
    <2>5. Left(t, q, i)
      <3>1. CASE p = <<>>
        BY <2>3, <3>1 DEF Left
      <3>2. CASE p # <<>> /\ t = <<>>
        BY <3>2 DEF Left
      <3>3. CASE p # <<>> /\ t = Tail(p)
        <4>1. p \in Seq(Entries) /\ Len(p) = Len(q) - (i - 1)
              /\ \A j \in DOMAIN p : p[j] = q[i - 1 + j]
          BY <2>1, <3>3 DEF Left
        <4> HIDE DEF p, t, q
        <4>2. /\ Tail(p) \in Seq(Entries) /\ Len(Tail(p)) = Len(p) - 1 /\ Len(p) \in Nat
              /\ \A j \in DOMAIN Tail(p) : j \in Nat /\ j + 1 \in DOMAIN p
                                           /\ Tail(p)[j] = p[j + 1]
          BY <3>3, <4>1, Queues
        <4>3. ASSUME NEW j \in DOMAIN Tail(p) PROVE Tail(p)[j] = q[i + j]
          <5>1. j \in Nat /\ j + 1 \in DOMAIN p /\ Tail(p)[j] = p[j + 1]
            BY <4>2
          <5>2. p[j + 1] = q[i - 1 + (j + 1)]
            BY <4>1, <5>1
          <5>3. i - 1 + (j + 1) = i + j
            BY <5>1
          <5> QED BY <5>1, <5>2, <5>3
        <4>4. Len(Tail(p)) = Len(q) - i
          BY <1>1, <4>1, <4>2 DEF q
        <4> QED BY <3>3, <4>2, <4>3, <4>4 DEF Left
      <3> QED BY <2>3, <3>1, <3>2, <3>3
    <2> QED BY <2>4, <2>5 DEF z, t
  <1> HIDE DEF Good, q
  <1>7. Bad = {}
    <2>1. SUFFICES ASSUME Bad # {} PROVE FALSE
      OBVIOUS
    <2>2. PICK i \in Bad : \A j \in Bad : i <= j
      <3>1. Bad \in SUBSET Nat
        OBVIOUS
      <3> HIDE DEF Bad
      <3> QED BY <2>1, <3>1, LeastIn
    <2>3. i \in 1 .. k /\ i - 1 \in 0 .. k /\ i - 1 \notin Bad
      BY <1>5, <2>2
    <2> QED BY <1>6, <2>2, <2>3
  <1>8. Good(k)
    BY <1>7
  <1> QED BY <1>3, <1>8 DEF Good, q

-----------------------------------------------------------------------------
(* The timer. *)

(* What the invariant of a world depends on. *)
LEMMA FitSame ==
  ASSUME NEW w, NEW m, Fit(w, m), NEW v \in Worlds, v.comp = w.comp, v.lost = w.lost,
         v.applied = w.applied,
         \A c \in Surfaces :
           /\ v.surf[c].queue = w.surf[c].queue /\ v.surf[c].cached = w.surf[c].cached
           /\ v.surf[c].committed = w.surf[c].committed
  PROVE  Fit(v, m)
  <1>1. \A c \in Surfaces : /\ Aged(v.surf[c], v.comp.tex[c], v.applied[c], m)
                            /\ Paired(v.surf[c])
    BY FitParts DEF Aged, Paired
  <1>2. \A c \in Surfaces, b \in Buffers :
          /\ InQueue(v.surf[c], b) <=> InQueue(w.surf[c], b)
          /\ InCache(v.surf[c], b) <=> InCache(w.surf[c], b)
          /\ HasPoint(v.surf[c], b) <=> HasPoint(w.surf[c], b)
    BY DEF InQueue, InCache, HasPoint
  <1>3. ASSUME NEW b \in Buffers \ v.lost PROVE Single(v, b) /\ Owed(v, b)
    <2>1. Single(w, b) /\ Owed(w, b) /\ b \in Buffers
      BY FitParts
    <2>2. \A c \in Surfaces : Holds(v, c, b) <=> Holds(w, c, b)
      BY <1>2, <2>1 DEF Holds, Held
    <2>3. \A c \in Surfaces : Within(v.surf[c], v.comp.tex[c], b)
      BY <1>2, <2>1 DEF Single, Within
    <2>4. Single(v, b)
      BY <2>1, <2>2, <2>3 DEF Single
    <2>5. Owed(v, b)
      BY <1>2, <2>1 DEF Owed
    <2> QED BY <2>4, <2>5
  <1>4. Registered(v.comp, v.lost)
    BY FitParts
  <1> QED BY <1>1, <1>3, <1>4 DEF Fit

(* v is z but for the timer of s. *)
LEMMA RetimedIs ==
  ASSUME NEW v \in Worlds, NEW s \in Surfaces, NEW x \in BOOLEAN
  PROVE  LET z == [v EXCEPT !.surf[s].timer = x]
         IN  /\ z \in Worlds /\ z.comp = v.comp /\ z.lost = v.lost /\ z.applied = v.applied
             /\ z.surf[s].timer = x
             /\ \A c \in Surfaces :
                  /\ z.surf[c].queue = v.surf[c].queue /\ z.surf[c].cached = v.surf[c].cached
                  /\ z.surf[c].committed = v.surf[c].committed
                  /\ z.surf[c].alive = v.surf[c].alive
                  /\ z.surf[c].mapped = v.surf[c].mapped
                  /\ c # s => z.surf[c].timer = v.surf[c].timer
  <1> DEFINE u == [v.surf[s] EXCEPT !.timer = x]
             z == [v EXCEPT !.surf[s].timer = x]
  <1>1. v.surf \in [Surfaces -> Records] /\ v.surf[s] \in Records
    BY WorldFields
  <1>2. /\ u \in Records /\ u.queue = v.surf[s].queue /\ u.cached = v.surf[s].cached
        /\ u.committed = v.surf[s].committed /\ u.alive = v.surf[s].alive
        /\ u.mapped = v.surf[s].mapped /\ u.timer = x
    BY <1>1 DEF Records
  <1>3. z = [v EXCEPT !.surf = [v.surf EXCEPT ![s] = u]]
    OBVIOUS
  <1> HIDE DEF u, z
  <1>4. /\ z \in Worlds /\ z.comp = v.comp /\ z.lost = v.lost /\ z.applied = v.applied
        /\ z.surf = [v.surf EXCEPT ![s] = u]
    BY <1>1, <1>2, <1>3 DEF Worlds
  <1>5. z.surf[s] = u /\ \A c \in Surfaces : c # s => z.surf[c] = v.surf[c]
    BY <1>1, <1>4
  <1> QED BY <1>2, <1>4, <1>5 DEF z

(* After a commit of s, or several. *)
Pumped(w, z, s, m) ==
  /\ Fit(z, m) /\ Synced(w, z, s) /\ \A c \in Surfaces : Grows(w, z, c)
  /\ \A c \in Surfaces \ {s} : /\ z.surf[c].queue = w.surf[c].queue
                               /\ z.surf[c].timer = w.surf[c].timer
  /\ Armed(z.surf[s])

LEMMA PumpIs ==
  ASSUME NEW w, NEW m \in Nat, Fit(w, m), SubTyped, NEW s \in Surfaces,
         NEW k \in DueCounts(w.surf[s].queue)
  PROVE  /\ Pumped(w, PumpTimedCommits(w, s, k), s, m)
         /\ Repays(w, PumpTimedCommits(w, s, k))
  <1> DEFINE q == w.surf[s].queue
             v == Latched(w, s, k)
             p == v.surf[s].queue
             x == p # <<>>
             z == [v EXCEPT !.surf[s].timer = x]
  <1>1. q \in Seq(Entries) /\ Len(q) \in Nat
    BY FitParts, Queues
  <1>2. k \in Nat /\ (k = Len(q) \/ q[k + 1].timed)
    BY <1>1 DEF DueCounts
  <1>3. Steps(w, v, s, m) /\ Left(p, q, k)
    BY <1>2, LatchedSteps
  <1>4. PumpTimedCommits(w, s, k) = z
    BY DEF PumpTimedCommits
  <1>5. x \in BOOLEAN
    OBVIOUS
  <1> HIDE DEF v, x
  <1>6. /\ Fit(v, m) /\ v \in Worlds
    BY <1>3, FitParts DEF Steps
  <1>7. /\ z \in Worlds /\ z.comp = v.comp /\ z.lost = v.lost /\ z.applied = v.applied
        /\ z.surf[s].timer = x
        /\ \A c \in Surfaces :
             /\ z.surf[c].queue = v.surf[c].queue /\ z.surf[c].cached = v.surf[c].cached
             /\ z.surf[c].committed = v.surf[c].committed
             /\ z.surf[c].alive = v.surf[c].alive
             /\ c # s => z.surf[c].timer = v.surf[c].timer
    BY <1>5, <1>6, RetimedIs
  <1> HIDE DEF z
  <1>8. Fit(z, m)
    BY <1>6, <1>7, FitSame
  <1>9. \A c \in Surfaces : Grows(w, z, c)
    BY <1>3, <1>7 DEF Steps, Grows
  <1>10. Synced(w, z, s)
    BY <1>3, <1>7, SubIn DEF Steps, Synced
  <1>11. Armed(z.surf[s])
    <2>1. CASE p = <<>>
      BY <1>7, <2>1 DEF Armed, x
    <2>2. CASE p # <<>>
      <3>1. p \in Seq(Entries) /\ Len(p) = Len(q) - k /\ \A j \in DOMAIN p : p[j] = q[k + j]
        BY <1>3, <2>2 DEF Left
      <3> HIDE DEF p, q
      <3>2. Len(p) # 0 /\ 1 \in DOMAIN p
        BY <2>2, <3>1, Queues
      <3>3. k # Len(q)
        BY <1>1, <1>2, <3>1, <3>2
      <3>4. p[1] = q[k + 1]
        BY <3>1, <3>2
      <3>5. p[1].timed
        BY <1>2, <3>3, <3>4
      <3>6. z.surf[s].timer = x /\ z.surf[s].queue = p
        BY <1>7 DEF p
      <3> QED BY <2>2, <3>5, <3>6 DEF Armed, x
    <2> QED BY <2>1, <2>2
  <1>12. \A c \in Surfaces \ {s} : /\ z.surf[c].queue = w.surf[c].queue
                                   /\ z.surf[c].timer = w.surf[c].timer
    BY <1>3, <1>7 DEF Steps
  <1>13. Repays(w, z)
    BY <1>3, <1>7 DEF Steps, Repays
  <1> QED BY <1>4, <1>8, <1>9, <1>10, <1>11, <1>12, <1>13 DEF Pumped

-----------------------------------------------------------------------------
(* A commit joins the queue. *)

LEMMA AppendIs ==
  ASSUME NEW q \in Seq(Entries), NEW e \in Entries
  PROVE  /\ Append(q, e) \in Seq(Entries) /\ Append(q, e) # <<>>
         /\ \A i \in DOMAIN q : /\ i \in DOMAIN Append(q, e) /\ Append(q, e)[i] = q[i]
                                /\ i < Len(q) + 1
         /\ \A i \in DOMAIN Append(q, e) : i \in DOMAIN q \/ i = Len(q) + 1
         /\ Len(q) + 1 \in DOMAIN Append(q, e) /\ Append(q, e)[Len(q) + 1] = e
         /\ Len(q) + 1 \notin DOMAIN q
         /\ q # <<>> => Append(q, e)[1] = q[1]
         /\ q = <<>> => Head(Append(q, e)) = e /\ Tail(Append(q, e)) = <<>>
  <1> DEFINE t == Append(q, e)
             l == Len(q)
  <1>1. l \in Nat /\ DOMAIN q = 1 .. l
    BY Queues
  <1>2. t \in Seq(Entries) /\ Len(t) = l + 1
    OBVIOUS
  <1>3. DOMAIN t = 1 .. (l + 1)
    BY <1>2, Queues
  <1>4. \A i \in 1 .. l : t[i] = q[i]
    OBVIOUS
  <1>5. t[l + 1] = e
    OBVIOUS
  <1>6. t # <<>>
    BY <1>1, <1>2
  <1>7. q # <<>> => 1 \in 1 .. l
    BY Queues
  <1>8. q = <<>> => Head(t) = e /\ Tail(t) = <<>>
    OBVIOUS
  <1> HIDE DEF t, l
  <1> QED BY <1>1, <1>2, <1>3, <1>4, <1>5, <1>6, <1>7, <1>8 DEF t, l

LEMMA AppendHas ==
  ASSUME NEW q \in Seq(Entries), NEW e \in Entries, NEW b
  PROVE  /\ Queued(Append(q, e), b) <=> Queued(q, b) \/ e.buf = b
         /\ PointQueued(Append(q, e), b) <=> PointQueued(q, b) \/ e.pt = b
         /\ Once(q, b) /\ ~(Queued(q, b) /\ e.buf = b) => Once(Append(q, e), b)
  <1> DEFINE t == Append(q, e)
             l == Len(q) + 1
  <1>1. /\ \A i \in DOMAIN q : i \in DOMAIN t /\ t[i] = q[i] /\ i < l
        /\ \A i \in DOMAIN t : i \in DOMAIN q \/ i = l
        /\ t[l] = e /\ l \notin DOMAIN q /\ l \in DOMAIN t
        /\ l \in Nat /\ DOMAIN q \subseteq Nat
    BY AppendIs, Queues
  <1> HIDE DEF t, l
  <1>2. Queued(t, b) <=> Queued(q, b) \/ e.buf = b
    BY <1>1 DEF Queued
  <1>3. PointQueued(t, b) <=> PointQueued(q, b) \/ e.pt = b
    BY <1>1 DEF PointQueued
  <1>4. ASSUME Once(q, b), ~(Queued(q, b) /\ e.buf = b) PROVE Once(t, b)
    BY <1>1, <1>4 DEF Once, Queued
  <1> QED BY <1>2, <1>3, <1>4 DEF t

LEMMA AppendRises ==
  ASSUME NEW q \in Seq(Entries), NEW e \in Entries, Rising(q),
         \A i \in DOMAIN q : q[i].n < e.n
  PROVE  Rising(Append(q, e))
  <1> DEFINE t == Append(q, e)
             l == Len(q) + 1
  <1>1. /\ \A i \in DOMAIN t : i \in DOMAIN q \/ i = l
        /\ \A i \in DOMAIN q : t[i] = q[i] /\ i < l
        /\ t[l] = e /\ l \in Nat /\ DOMAIN q \subseteq Nat
    BY AppendIs, Queues
  <1> HIDE DEF t, l
  <1>2. SUFFICES ASSUME NEW i \in DOMAIN t, NEW j \in DOMAIN t, i < j
                 PROVE  t[i].n < t[j].n
    BY DEF Rising
  <1>3. i # l
    BY <1>1, <1>2
  <1>4. i \in DOMAIN q /\ t[i] = q[i]
    BY <1>1, <1>2, <1>3
  <1>5. CASE j = l
    BY <1>1, <1>4, <1>5
  <1>6. CASE j # l
    <2>1. j \in DOMAIN q /\ t[j] = q[j]
      BY <1>1, <1>2, <1>6
    <2> QED BY <1>2, <1>4, <2>1 DEF Rising
  <1> QED BY <1>5, <1>6

(* v is w with commit e at the end of the queue of s, and lent. *)
Joined(w, s, e, v) ==
  /\ v \in Worlds /\ v.applied = w.applied /\ v.lost = w.lost
  /\ v.comp.tex = w.comp.tex /\ v.comp.registered = w.comp.registered
  /\ v.comp.returning = w.comp.returning
  /\ v.comp.busy = w.comp.busy \cup ({e.buf} \cap Buffers)
  /\ v.comp.unsignalled = w.comp.unsignalled \cup ({e.pt} \cap Dmabufs)
  /\ \A c \in Surfaces :
       /\ v.surf[c].alive = w.surf[c].alive /\ v.surf[c].committed = w.surf[c].committed
       /\ v.surf[c].cached = w.surf[c].cached /\ v.surf[c].timer = w.surf[c].timer
       /\ c # s => v.surf[c].queue = w.surf[c].queue
  /\ v.surf[s].queue = Append(w.surf[s].queue, e)

LEMMA JoinedIs ==
  ASSUME NEW w \in Worlds, NEW s \in Surfaces, NEW e \in Entries
  PROVE  Joined(w, s, e, [Lent(w, e) EXCEPT !.surf[s].queue = Append(@, e)])
  <1> DEFINE r == w.surf[s]
             u == [r EXCEPT !.queue = Append(r.queue, e)]
             cmp == [w.comp EXCEPT !.busy = @ \cup ({e.buf} \cap Buffers),
                                   !.unsignalled = @ \cup ({e.pt} \cap Dmabufs)]
             l == Lent(w, e)
             v == [l EXCEPT !.surf[s].queue = Append(@, e)]
  <1>1. w.surf \in [Surfaces -> Records] /\ r \in Records /\ w.comp \in Compositor
    BY WorldFields
  <1>2. Append(r.queue, e) \in Seq(Entries)
    BY <1>1, RecordFields, AppendIs
  <1>3. /\ u \in Records /\ u.alive = r.alive /\ u.mapped = r.mapped
        /\ u.committed = r.committed /\ u.cached = r.cached /\ u.timer = r.timer
        /\ u.queue = Append(r.queue, e)
    BY <1>1, <1>2 DEF Records
  <1>4. /\ cmp \in Compositor /\ cmp.tex = w.comp.tex /\ cmp.registered = w.comp.registered
        /\ cmp.returning = w.comp.returning
        /\ cmp.busy = w.comp.busy \cup ({e.buf} \cap Buffers)
        /\ cmp.unsignalled = w.comp.unsignalled \cup ({e.pt} \cap Dmabufs)
    BY <1>1 DEF Compositor
  <1>5. l = [w EXCEPT !.comp = cmp]
    <2>1. "comp" \in DOMAIN w
      BY DEF Worlds
    <2> QED BY <2>1 DEF Lent
  <1> HIDE DEF cmp, l, u
  <1>6. /\ l \in Worlds /\ l.surf = w.surf /\ l.comp = cmp /\ l.applied = w.applied
        /\ l.lost = w.lost
    BY <1>4, <1>5 DEF Worlds
  <1>7. v = [l EXCEPT !.surf = [w.surf EXCEPT ![s] = u]]
    BY <1>6 DEF u
  <1> HIDE DEF v
  <1>8. /\ v \in Worlds /\ v.surf = [w.surf EXCEPT ![s] = u] /\ v.comp = cmp
        /\ v.applied = w.applied /\ v.lost = w.lost
    BY <1>1, <1>3, <1>6, <1>7 DEF Worlds
  <1>9. v.surf[s] = u /\ \A c \in Surfaces : c # s => v.surf[c] = w.surf[c]
    BY <1>1, <1>8
  <1>10. Joined(w, s, e, v)
    BY <1>3, <1>4, <1>8, <1>9 DEF Joined
  <1> QED BY <1>10 DEF v, l

LEMMA JoinedFit ==
  ASSUME NEW w, NEW m \in Nat, Fit(w, m), NEW s \in Surfaces, NEW e \in Entries,
         PairedEntry(e), e.n = m + 1,
         e.buf \in Buffers => e.buf \notin w.comp.busy,
         NEW v, Joined(w, s, e, v)
  PROVE  Fit(v, m + 1)
  <1> DEFINE q == w.surf[s].queue
             t == v.surf[s].queue
  <1>1. /\ w \in Worlds /\ v \in Worlds /\ v.applied = w.applied /\ v.lost = w.lost
        /\ v.comp.tex = w.comp.tex /\ v.comp.registered = w.comp.registered
        /\ v.comp.returning = w.comp.returning
        /\ v.comp.busy = w.comp.busy \cup ({e.buf} \cap Buffers)
        /\ v.comp.unsignalled = w.comp.unsignalled \cup ({e.pt} \cap Dmabufs)
        /\ \A c \in Surfaces :
             /\ v.surf[c].committed = w.surf[c].committed /\ v.surf[c].cached = w.surf[c].cached
             /\ c # s => v.surf[c].queue = w.surf[c].queue
        /\ t = Append(q, e) /\ q \in Seq(Entries)
    BY FitParts DEF Joined
  <1> HIDE DEF q, t
  <1>2. ASSUME NEW c \in Surfaces
        PROVE  Aged(v.surf[c], v.comp.tex[c], v.applied[c], m + 1) /\ Paired(v.surf[c])
    <2> DEFINE r == w.surf[c]
               u == v.surf[c]
               x == w.comp.tex[c]
               a == w.applied[c]
    <2>1. Aged(r, x, a, m) /\ Paired(r) /\ r \in Records /\ r.queue \in Seq(Entries)
      BY FitParts
    <2>2. x \in Contents /\ a \in Times
      BY <1>1, WorldFields, CompFields
    <2>3. /\ r.committed.ver \in Nat /\ r.cached.last \in Nat /\ x.ver \in Nat /\ a \in Nat
          /\ \A i \in DOMAIN r.queue : r.queue[i].n \in Nat
      BY <2>1, <2>2, AgedNumbers
    <2>4. u.committed = r.committed /\ u.cached = r.cached
          /\ v.comp.tex[c] = x /\ v.applied[c] = a
      BY <1>1
    <2> HIDE DEF r, u, x, a
    <2>5. /\ r.committed.ver < m + 1 /\ a < m + 1 /\ r.cached.last < m + 1
          /\ x.ver <= r.committed.ver /\ Rising(r.queue)
          /\ r.cached # NoCache => /\ r.cached.buf = r.committed.buf
                                   /\ r.cached.ver = r.committed.ver
                                   /\ a < r.cached.last
          /\ \A i \in DOMAIN r.queue : r.queue[i].n < m + 1
      BY <2>1, <2>3, Empties DEF Aged
    <2>6. \A i \in DOMAIN u.queue :
            \/ i \in DOMAIN r.queue /\ u.queue[i] = r.queue[i]
            \/ u.queue[i] = e
      <3>1. CASE c = s
        <4>1. r.queue = q /\ u.queue = t
          BY <3>1 DEF r, u, q, t
        <4> QED BY <1>1, <4>1, AppendIs
      <3>2. CASE c # s
        BY <1>1, <3>2 DEF r, u
      <3> QED BY <3>1, <3>2
    <2>7. Rising(u.queue)
      <3>1. CASE c = s
        <4>1. r.queue = q /\ u.queue = Append(q, e) /\ \A i \in DOMAIN q : q[i].n < e.n
          BY <1>1, <2>5, <3>1 DEF r, u, q, t
        <4> QED BY <1>1, <2>5, <4>1, AppendRises
      <3>2. CASE c # s
        BY <1>1, <2>5, <3>2 DEF r, u
      <3> QED BY <3>1, <3>2
    <2>8. \A i \in DOMAIN u.queue :
            /\ u.committed.ver < u.queue[i].n /\ a < u.queue[i].n
            /\ u.cached.last < u.queue[i].n /\ u.queue[i].n <= m + 1
      <3>1. ASSUME NEW i \in DOMAIN u.queue
            PROVE  /\ r.committed.ver < u.queue[i].n /\ a < u.queue[i].n
                   /\ r.cached.last < u.queue[i].n /\ u.queue[i].n <= m + 1
        <4>1. CASE u.queue[i] = e
          BY <2>5, <4>1
        <4>2. CASE i \in DOMAIN r.queue /\ u.queue[i] = r.queue[i]
          <5>1. r.queue[i].n \in Nat /\ r.queue[i].n < m + 1
            BY <2>3, <2>5, <4>2
          <5>2. /\ r.committed.ver < r.queue[i].n /\ a < r.queue[i].n
                /\ r.cached.last < r.queue[i].n
            BY <2>1, <4>2 DEF Aged
          <5> QED BY <4>2, <5>1, <5>2
        <4> QED BY <2>6, <4>1, <4>2
      <3> QED BY <2>4, <3>1
    <2>9. u.cached.last <= m + 1 /\ u.committed.ver <= m + 1 /\ a <= m + 1
      BY <2>3, <2>4, <2>5
    <2>10. Aged(u, x, a, m + 1)
      BY <2>4, <2>5, <2>7, <2>8, <2>9 DEF Aged
    <2>11. Paired(u)
      BY <2>1, <2>4, <2>6 DEF Paired, PairedEntry
    <2> QED BY <2>4, <2>10, <2>11 DEF u
  <1>3. ASSUME NEW b \in Buffers \ v.lost PROVE Single(v, b) /\ Owed(v, b)
    <2>1. Single(w, b) /\ Owed(w, b) /\ b \in Buffers
      BY <1>1, FitParts
    <2>2. /\ \A c \in Surfaces : Within(w.surf[c], w.comp.tex[c], b)
          /\ \A c, d \in Surfaces : Holds(w, c, b) /\ Holds(w, d, b) => c = d
          /\ \A c \in Surfaces : Holds(w, c, b) => b \notin w.comp.returning
          /\ b \in w.comp.busy <=> b \in w.comp.returning \/ \E c \in Surfaces : Holds(w, c, b)
      BY <2>1 DEF Single
    <2>3. e.buf = b => b \notin w.comp.returning /\ \A c \in Surfaces : ~Holds(w, c, b)
      BY <2>1, <2>2
    <2>4. /\ Queued(t, b) <=> Queued(q, b) \/ e.buf = b
          /\ PointQueued(t, b) <=> PointQueued(q, b) \/ e.pt = b
          /\ Once(q, b) /\ ~(Queued(q, b) /\ e.buf = b) => Once(t, b)
      BY <1>1, AppendHas
    <2>5. ASSUME NEW c \in Surfaces
          PROVE  /\ Within(v.surf[c], v.comp.tex[c], b)
                 /\ Holds(v, c, b) <=> Holds(w, c, b) \/ (c = s /\ e.buf = b)
      <3> DEFINE r == w.surf[c]
                 u == v.surf[c]
                 x == w.comp.tex[c]
      <3>1. /\ InCache(u, b) <=> InCache(r, b)
            /\ v.comp.tex[c] = x
        BY <1>1 DEF InCache
      <3>2. InQueue(u, b) <=> InQueue(r, b) \/ (c = s /\ e.buf = b)
        BY <1>1, <2>4 DEF InQueue, q, t
      <3>3. Within(r, x, b)
        BY <2>2
      <3>4. e.buf = b => ~Held(r, x, b)
        BY <2>3 DEF Holds
      <3>5. Once(u.queue, b)
        <4>1. CASE c # s
          BY <1>1, <3>3, <4>1 DEF Within
        <4>2. CASE c = s
          <5>1. Once(q, b) /\ (Queued(q, b) => Held(r, x, b))
            BY <3>3, <4>2 DEF Within, Held, InQueue, q
          <5> QED BY <2>4, <3>4, <4>2, <5>1 DEF t
        <4> QED BY <4>1, <4>2
      <3> HIDE DEF r, u, x
      <3>6. Within(u, x, b)
        BY <3>1, <3>2, <3>3, <3>4, <3>5 DEF Within, Held
      <3>7. Held(u, x, b) <=> Held(r, x, b) \/ (c = s /\ e.buf = b)
        BY <3>1, <3>2 DEF Held
      <3> QED BY <3>1, <3>6, <3>7 DEF Holds, r, u, x
    <2>6. b \in v.comp.busy <=> b \in w.comp.busy \/ e.buf = b
      BY <1>1, <2>1
    <2>7. Single(v, b)
      <3>1. \A c, d \in Surfaces : Holds(v, c, b) /\ Holds(v, d, b) => c = d
        BY <2>2, <2>3, <2>5
      <3>2. \A c \in Surfaces : Holds(v, c, b) => b \notin v.comp.returning
        BY <1>1, <2>2, <2>3, <2>5
      <3>3. b \in v.comp.busy <=> b \in v.comp.returning \/ \E c \in Surfaces : Holds(v, c, b)
        BY <1>1, <2>2, <2>5, <2>6
      <3> QED BY <2>5, <3>1, <3>2, <3>3 DEF Single
    <2>8. Owed(v, b)
      <3>1. \A c \in Surfaces : HasPoint(w.surf[c], b) => HasPoint(v.surf[c], b)
        BY <1>1, <2>4 DEF HasPoint, q, t
      <3>2. e.pt = b => HasPoint(v.surf[s], b)
        BY <2>4 DEF HasPoint, t
      <3> QED BY <1>1, <2>1, <3>1, <3>2 DEF Owed
    <2> QED BY <2>7, <2>8
  <1>4. Registered(v.comp, v.lost)
    BY <1>1, FitParts DEF Registered
  <1> QED BY <1>1, <1>2, <1>3, <1>4 DEF Fit

(* A commit that waits for nothing is one that joins an empty queue. *)
LEMMA DirectIs ==
  ASSUME NEW w \in Worlds, NEW s \in Surfaces, NEW e \in Entries, w.surf[s].queue = <<>>
  PROVE  CommitNow(Lent(w, e), s, e)
           = LatchHead([Lent(w, e) EXCEPT !.surf[s].queue = Append(@, e)], s)
  <1> DEFINE l == Lent(w, e)
             v == [l EXCEPT !.surf[s].queue = Append(@, e)]
             cmp == [w.comp EXCEPT !.busy = @ \cup ({e.buf} \cap Buffers),
                                   !.unsignalled = @ \cup ({e.pt} \cap Dmabufs)]
  <1>1. w.surf \in [Surfaces -> Records] /\ w.surf[s] \in Records /\ w.comp \in Compositor
    BY WorldFields
  <1>2. cmp \in Compositor
    BY <1>1 DEF Compositor
  <1>3. l = [w EXCEPT !.comp = cmp]
    <2>1. "comp" \in DOMAIN w
      BY DEF Worlds
    <2> QED BY <2>1 DEF Lent
  <1> HIDE DEF cmp, l
  <1>4. l \in Worlds /\ l.surf = w.surf
    BY <1>2, <1>3 DEF Worlds
  <1> DEFINE q == Append(<<>>, e)
             u == [w.surf[s] EXCEPT !.queue = q]
  <1>5. q # <<>> /\ Head(q) = e /\ Tail(q) = <<>> /\ q \in Seq(Entries)
    <2>1. <<>> \in Seq(Entries)
      OBVIOUS
    <2> QED BY <2>1, AppendIs
  <1> HIDE DEF q
  <1>6. u \in Records /\ u.queue = q /\ [u EXCEPT !.queue = <<>>] = w.surf[s]
    BY <1>1, <1>5 DEF Records
  <1>7. v = [l EXCEPT !.surf = [w.surf EXCEPT ![s] = u]]
    BY <1>4 DEF u, q
  <1> HIDE DEF u, v
  <1>8. v.surf = [w.surf EXCEPT ![s] = u] /\ v \in Worlds
    BY <1>1, <1>4, <1>6, <1>7 DEF Worlds
  <1>9. v.surf[s].queue = q
    BY <1>1, <1>6, <1>8
  <1>10. [v.surf EXCEPT ![s] = [u EXCEPT !.queue = <<>>]] = w.surf
    BY <1>1, <1>6, <1>8
  <1>11. Pop(v, s) = l
    <2>1. Pop(v, s) = [v EXCEPT !.surf = [v.surf EXCEPT ![s] = [v.surf[s] EXCEPT !.queue = <<>>]]]
      BY <1>5, <1>9 DEF Pop
    <2>2. v.surf[s] = u
      BY <1>1, <1>8
    <2>3. Pop(v, s) = [v EXCEPT !.surf = w.surf]
      BY <1>10, <2>1, <2>2
    <2>4. [v EXCEPT !.surf = w.surf] = l
      BY <1>4, <1>7 DEF Worlds
    <2> QED BY <2>3, <2>4
  <1>12. LatchHead(v, s) = CommitNow(Pop(v, s), s, Head(v.surf[s].queue))
    BY <1>5, <1>9 DEF LatchHead, Pop
  <1>13. LatchHead(v, s) = CommitNow(l, s, e)
    BY <1>5, <1>9, <1>11, <1>12
  <1>14. v = [l EXCEPT !.surf[s].queue = Append(@, e)]
    BY DEF v
  <1> QED BY <1>13, <1>14 DEF l

(* Whether it waits or not. *)
LEMMA JoinedPumped ==
  ASSUME NEW w, NEW s \in Surfaces, NEW e, NEW v, Joined(w, s, e, v), NEW z, NEW m,
         Pumped(v, z, s, m), SubTyped
  PROVE  Pumped(w, z, s, m)
  <1>1. /\ v.applied = w.applied /\ v.comp.tex = w.comp.tex
        /\ \A c \in Surfaces :
             /\ v.surf[c].alive = w.surf[c].alive /\ v.surf[c].committed = w.surf[c].committed
             /\ v.surf[c].cached = w.surf[c].cached /\ v.surf[c].timer = w.surf[c].timer
             /\ c # s => v.surf[c].queue = w.surf[c].queue
    BY DEF Joined
  <1>2. \A c \in Surfaces : Grows(w, z, c)
    BY <1>1 DEF Pumped, Grows
  <1>3. Synced(w, z, s)
    BY <1>1, SubIn DEF Pumped, Synced
  <1> QED BY <1>1, <1>2, <1>3 DEF Pumped

(* v is w when e has joined, and z comes of it. *)
Latching(w, s, e, v, z) ==
  /\ v = [Lent(w, e) EXCEPT !.surf[s].queue = Append(@, e)]
  /\ \/ \E k \in DueCounts(v.surf[s].queue) : z = PumpTimedCommits(v, s, k)
     \/ w.surf[s].queue = <<>> /\ z = CommitNow(Lent(w, e), s, e)

LEMMA CommitPumps ==
  ASSUME NEW w, NEW m \in Nat, Fit(w, m), SubTyped, NEW s \in Surfaces, NEW e \in Entries,
         PairedEntry(e), e.n = m + 1, e.buf \in Buffers => e.buf \notin w.comp.busy,
         Armed(w.surf[s]), NEW v, NEW z, Latching(w, s, e, v, z)
  PROVE  /\ Pumped(w, z, s, m + 1)
         /\ z.comp.busy \subseteq w.comp.busy \cup {e.buf}
         /\ z.comp.unsignalled \subseteq w.comp.unsignalled \cup {e.pt}
  <1>1. w \in Worlds
    BY FitParts
  <1>2. Joined(w, s, e, v)
    BY <1>1, JoinedIs DEF Latching
  <1>3. Fit(v, m + 1) /\ m + 1 \in Nat
    BY <1>2, JoinedFit
  <1>4. Pumped(v, z, s, m + 1) /\ Repays(v, z)
    <2>1. ASSUME NEW k \in DueCounts(v.surf[s].queue), z = PumpTimedCommits(v, s, k)
          PROVE  Pumped(v, z, s, m + 1) /\ Repays(v, z)
      BY <1>3, <2>1, PumpIs
    <2>2. CASE w.surf[s].queue = <<>> /\ z = CommitNow(Lent(w, e), s, e)
      <3>1. z = LatchHead(v, s)
        BY <1>1, <2>2, DirectIs DEF Latching
      <3>2. v.surf[s].queue = Append(<<>>, e)
        BY <1>2, <2>2 DEF Joined
      <3>3. v.surf[s].queue # <<>> /\ Tail(v.surf[s].queue) = <<>>
        <4>1. <<>> \in Seq(Entries)
          OBVIOUS
        <4>2. Append(<<>>, e) # <<>> /\ Tail(Append(<<>>, e)) = <<>>
          BY <4>1, AppendIs
        <4> QED BY <3>2, <4>2
      <3>4. Steps(v, z, s, m + 1) /\ z.surf[s].queue = <<>>
        BY <1>3, <3>1, <3>3, HeadSteps
      <3>5. ~v.surf[s].timer
        BY <1>2, <2>2 DEF Joined, Armed
      <3>6. ~z.surf[s].timer
        BY <3>4, <3>5 DEF Steps
      <3> QED BY <3>4, <3>6 DEF Steps, Pumped, Armed
    <2> QED BY <2>1, <2>2 DEF Latching
  <1>5. Pumped(w, z, s, m + 1)
    BY <1>2, <1>4, JoinedPumped
  <1> QED BY <1>2, <1>4, <1>5 DEF Joined, Repays

-----------------------------------------------------------------------------
(* The actions. *)

LEMMA WorldKeeps ==
  ASSUME NEW z, Becomes(z), Fit(z, commits'), \A c \in Surfaces : Armed(z.surf[c])
  PROVE  /\ World' = z /\ Fit(World, commits)' /\ (\A c \in Surfaces : Armed(surf[c]))'
  <1>1. z \in Worlds
    BY FitParts
  <1>2. World' = z
    BY <1>1 DEF Worlds, Becomes, World
  <1>3. surf' = z.surf
    BY DEF Becomes
  <1> QED BY <1>2, <1>3

LEMMA WorldIs ==
  /\ World.surf = surf /\ World.comp = comp /\ World.applied = applied /\ World.lost = lost
  BY DEF World

(* The requests that do not commit leave the world alone. *)
LEMMA AskingKeeps ==
  ASSUME IInv, NEW s \in Surfaces, UNCHANGED <<surf, comp, applied, lost, sub, commits>>,
         changes' \in 0 .. MaxChanges, DOMAIN pending' = Surfaces, Alone(s), Asking(s)',
         \A c \in Surfaces \ {s} : pending'[c] = pending[c]
  PROVE  IInv'
  <1>1. World' = World /\ Fit(World, commits)' /\ (\A c \in Surfaces : Armed(surf[c]))'
    <2>1. World' = World /\ commits' = commits /\ surf' = surf
      BY DEF World
    <2> QED BY <2>1 DEF IInv
  <1>2. (\A c \in Surfaces : Asking(c))'
    BY DEF IInv, Asking, Free
  <1>3. (\A c, d \in Surfaces : c # d => pending[c] = Nothing \/ pending[d] = Nothing)'
    BY DEF IInv, Alone
  <1> QED BY <1>1, <1>2, <1>3 DEF IInv

LEMMA AttachKeeps ==
  ASSUME IInv, NEW s \in Surfaces, NEW b \in Pool[s], Attach(s, b)
  PROVE  IInv'
  <1>1. b \in Buffers \cup {Null} /\ (b \in Buffers => Free(b))
    BY ConstantsAssumption DEF Attach
  <1> DEFINE p == IF s \in Explicit /\ b \in Dmabufs THEN b ELSE None
  <1>2. p \in Points /\ p \in {None, b}
    BY DEF Points
  <1>3. /\ Asking(s) /\ DOMAIN pending = Surfaces /\ changes \in 0 .. MaxChanges
    BY DEF IInv
  <1>4. pending' = [pending EXCEPT ![s].buf = b, ![s].pt = p]
    BY DEF Attach
  <1> HIDE DEF p
  <1>5. pending'[s] = [buf |-> b, pt |-> p, timed |-> pending[s].timed]
    BY <1>3, <1>4 DEF Asking
  <1>6. DOMAIN pending' = Surfaces /\ \A c \in Surfaces \ {s} : pending'[c] = pending[c]
    BY <1>3, <1>4
  <1>7. Asking(s)'
    BY <1>1, <1>2, <1>3, <1>5 DEF Asking, Attach, Free
  <1> QED BY <1>3, <1>6, <1>7, AskingKeeps DEF Attach

LEMMA SetTimestampKeeps ==
  ASSUME IInv, NEW s \in Surfaces, SetTimestamp(s)
  PROVE  IInv'
  <1>1. /\ Asking(s) /\ DOMAIN pending = Surfaces /\ changes \in 0 .. MaxChanges
    BY DEF IInv
  <1>2. pending' = [pending EXCEPT ![s].timed = TRUE]
    BY DEF SetTimestamp
  <1>3. pending'[s] = [buf |-> pending[s].buf, pt |-> pending[s].pt, timed |-> TRUE]
    BY <1>1, <1>2 DEF Asking
  <1>4. DOMAIN pending' = Surfaces /\ \A c \in Surfaces \ {s} : pending'[c] = pending[c]
    BY <1>1, <1>2
  <1>5. Asking(s)'
    BY <1>1, <1>3 DEF Asking, SetTimestamp, Free
  <1> QED BY <1>1, <1>4, <1>5, AskingKeeps DEF SetTimestamp

LEMMA NothingAsks ==
  ASSUME NEW s \in Surfaces, pending[s] = Nothing
  PROVE  Asking(s)
  BY Constants DEF Asking, Nothing, Points, Free

(* A commit, latched or queued. *)
LEMMA CommitIs ==
  ASSUME IInv, NEW s \in Surfaces, Commit(s)
  PROVE  /\ Pumped(World, World', s, commits')
         /\ comp'.busy \subseteq comp.busy \cup {pending[s].buf}
         /\ comp'.unsignalled \subseteq comp.unsignalled \cup {pending[s].pt}
  <1> DEFINE e == CommitSet(s)
             l == Lent(World, e)
             v == [l EXCEPT !.surf[s].queue = Append(@, e)]
  <1>1. /\ Fit(World, commits) /\ Armed(surf[s]) /\ Asking(s) /\ SubTyped
        /\ commits \in Nat /\ commits + 1 \in Times /\ commits' = commits + 1
    BY Constants DEF IInv, SubTyped, Commit, Times
  <1>2. /\ e \in Entries /\ PairedEntry(e) /\ e.n = commits + 1
        /\ e.buf = pending[s].buf /\ e.pt = pending[s].pt
    BY <1>1 DEF CommitSet, Asking, Entries, PairedEntry
  <1>3. e.buf \in Buffers => e.buf \notin World.comp.busy
    BY <1>1, <1>2, WorldIs DEF Asking, Free
  <1>4. PICK z : /\ Becomes(z)
                 /\ \/ \E k \in DueCounts(v.surf[s].queue) : z = PumpTimedCommits(v, s, k)
                    \/ World.surf[s].queue = <<>> /\ z = CommitNow(l, s, e)
    <2>1. CASE Waits(s)
      BY <2>1 DEF Commit
    <2>2. CASE ~Waits(s)
      <3>1. World.surf[s].queue = <<>>
        BY <2>2, WorldIs DEF Waits
      <3>2. Becomes(CommitNow(l, s, e))
        BY <2>2 DEF Commit
      <3> QED BY <3>1, <3>2
    <2> QED BY <2>1, <2>2
  <1>5. Armed(World.surf[s])
    BY <1>1, WorldIs
  <1> HIDE DEF e, v
  <1>6. Latching(World, s, e, v, z)
    BY <1>4 DEF Latching, v
  <1>7. /\ Pumped(World, z, s, commits + 1)
        /\ z.comp.busy \subseteq World.comp.busy \cup {e.buf}
        /\ z.comp.unsignalled \subseteq World.comp.unsignalled \cup {e.pt}
    BY <1>1, <1>2, <1>3, <1>5, <1>6, CommitPumps
  <1>8. World' = z
    <2>1. z \in Worlds
      BY <1>7, FitParts DEF Pumped
    <2> QED BY <1>4, <2>1 DEF Worlds, Becomes, World
  <1>9. comp' = z.comp
    BY <1>4 DEF Becomes
  <1> QED BY <1>1, <1>2, <1>7, <1>8, <1>9, WorldIs

LEMMA TimerFiresIs ==
  ASSUME IInv, NEW s \in Surfaces, TimerFires(s)
  PROVE  Pumped(World, World', s, commits') /\ Repays(World, World')
  <1>1. /\ Fit(World, commits) /\ SubTyped /\ commits \in Nat /\ commits' = commits
    BY Constants DEF IInv, SubTyped, TimerFires, Times
  <1>2. PICK k \in DueCounts(surf[s].queue) : Becomes(PumpTimedCommits(World, s, k))
    BY DEF TimerFires
  <1> DEFINE z == PumpTimedCommits(World, s, k)
  <1>3. k \in DueCounts(World.surf[s].queue)
    BY WorldIs
  <1>4. Pumped(World, z, s, commits) /\ Repays(World, z)
    BY <1>1, <1>3, PumpIs
  <1> HIDE DEF z
  <1>5. World' = z
    <2>1. z \in Worlds
      BY <1>4, FitParts DEF Pumped
    <2> QED BY <1>2, <2>1 DEF Worlds, Becomes, World, z
  <1> QED BY <1>1, <1>4, <1>5

(* Whatever a commit or a timer does. *)
LEMMA PumpedKeeps ==
  ASSUME IInv, NEW s \in Surfaces, Pumped(World, World', s, commits')
  PROVE  Fit(World, commits)' /\ (\A c \in Surfaces : Armed(surf[c]))'
  <1>1. Fit(World', commits')
    BY DEF Pumped
  <1>2. surf' = World'.surf
    BY DEF World
  <1>3. ASSUME NEW c \in Surfaces PROVE Armed(surf'[c])
    <2>1. CASE c = s
      BY <1>2, <2>1 DEF Pumped
    <2>2. CASE c # s
      <3>1. surf'[c].queue = surf[c].queue /\ surf'[c].timer = surf[c].timer
        BY <1>2, <2>2, WorldIs DEF Pumped
      <3>2. Armed(surf[c])
        BY DEF IInv
      <3> QED BY <3>1, <3>2 DEF Armed
    <2> QED BY <2>1, <2>2
  <1> QED BY <1>1, <1>3

LEMMA CommitKeeps ==
  ASSUME IInv, NEW s \in Surfaces, Commit(s)
  PROVE  IInv'
  <1>1. /\ Pumped(World, World', s, commits')
        /\ comp'.busy \subseteq comp.busy \cup {pending[s].buf}
        /\ comp'.unsignalled \subseteq comp.unsignalled \cup {pending[s].pt}
    BY CommitIs
  <1>2. Fit(World, commits)' /\ (\A c \in Surfaces : Armed(surf[c]))'
    BY <1>1, PumpedKeeps
  <1>3. /\ pending' = [pending EXCEPT ![s] = Nothing] /\ sub' = sub /\ changes' = changes
        /\ commits' = commits + 1 /\ commits < MaxCommits
    BY DEF Commit
  <1>4. DOMAIN pending = Surfaces
        /\ \A c, d \in Surfaces : c # d => pending[c] = Nothing \/ pending[d] = Nothing
    BY DEF IInv
  <1>5. /\ pending'[s] = Nothing /\ DOMAIN pending' = Surfaces
        /\ \A c \in Surfaces : c # s => pending'[c] = pending[c]
    BY <1>3, <1>4
  <1>6. (\A c, d \in Surfaces : c # d => pending[c] = Nothing \/ pending[d] = Nothing)'
    BY <1>4, <1>5
  <1>7. ASSUME NEW c \in Surfaces PROVE Asking(c)'
    <2>1. CASE pending'[c] = Nothing
      BY <2>1, Constants DEF Asking, Nothing, Points, Free
    <2>2. CASE pending'[c] # Nothing
      <3>1. c # s /\ pending'[c] = pending[c] /\ pending[s] = Nothing
        BY <1>4, <1>5, <2>2
      <3>2. Asking(c)
        BY DEF IInv
      <3>3. pending[s].buf = NoAttach /\ pending[s].pt = None
        BY <3>1 DEF Nothing
      <3>4. pending[c].buf \in Buffers =>
              pending[c].buf \notin comp'.busy \cup comp'.unsignalled
        BY <1>1, <3>2, <3>3, Constants DEF Asking, Free
      <3> QED BY <3>1, <3>2, <3>4 DEF Asking, Free
    <2> QED BY <2>1, <2>2
  <1>8. commits' \in Times /\ changes' \in 0 .. MaxChanges
        /\ sub' \in UNION {[D -> BOOLEAN] : D \in SUBSET Children}
    BY <1>3, Constants DEF IInv, Times
  <1> QED BY <1>2, <1>5, <1>6, <1>7, <1>8 DEF IInv

LEMMA TimerFiresKeeps ==
  ASSUME IInv, NEW s \in Surfaces, TimerFires(s)
  PROVE  IInv'
  <1>1. Pumped(World, World', s, commits') /\ Repays(World, World')
    BY TimerFiresIs
  <1>2. Fit(World, commits)' /\ (\A c \in Surfaces : Armed(surf[c]))'
    BY <1>1, PumpedKeeps
  <1>3. comp'.busy \subseteq comp.busy /\ comp'.unsignalled \subseteq comp.unsignalled
    BY <1>1 DEF Repays, World
  <1>4. UNCHANGED <<sub, pending, commits, changes>>
    BY DEF TimerFires
  <1>5. (\A c \in Surfaces : Asking(c))'
    BY <1>3, <1>4 DEF IInv, Asking, Free
  <1> QED BY <1>2, <1>4, <1>5 DEF IInv

(* A change that leaves the world, or lends nothing, asks the same. *)
LEMMA AsksSame ==
  ASSUME IInv, pending' = pending, comp'.busy \subseteq comp.busy,
         comp'.unsignalled \subseteq comp.unsignalled
  PROVE  /\ (\A c \in Surfaces : Asking(c))' /\ DOMAIN pending' = Surfaces
         /\ (\A c, d \in Surfaces : c # d => pending[c] = Nothing \/ pending[d] = Nothing)'
  BY DEF IInv, Asking, Free

LEMMA SubChanges ==
  ASSUME IInv, NEW t \in UNION {[D -> BOOLEAN] : D \in SUBSET Children}, sub' = t, Change,
         UNCHANGED <<surf, comp, pending, commits, applied, lost>>
  PROVE  IInv'
  <1>1. World' = World
    BY DEF World
  <1>2. Fit(World', commits') /\ \A c \in Surfaces : Armed(surf'[c])
    BY <1>1 DEF IInv
  <1>3. changes' \in 0 .. MaxChanges
    BY Constants DEF Change, IInv
  <1>4. /\ (\A c \in Surfaces : Asking(c))' /\ DOMAIN pending' = Surfaces
        /\ (\A c, d \in Surfaces : c # d => pending[c] = Nothing \/ pending[d] = Nothing)'
    BY AsksSame
  <1> QED BY <1>2, <1>3, <1>4 DEF IInv

LEMMA GetSubsurfaceKeeps ==
  ASSUME IInv, NEW s \in Surfaces, GetSubsurface(s)
  PROVE  IInv'
  <1>1. PICK D \in SUBSET Children : sub \in [D -> BOOLEAN]
    BY DEF IInv
  <1> DEFINE t == [x \in DOMAIN sub \cup {s} |-> IF x = s THEN TRUE ELSE sub[x]]
  <1>2. s \in Children
    BY DEF GetSubsurface
  <1>3. t \in [D \cup {s} -> BOOLEAN] /\ D \cup {s} \in SUBSET Children
    BY <1>1, <1>2
  <1>4. sub' = t /\ Change /\ UNCHANGED <<surf, comp, pending, commits, applied, lost>>
    BY DEF GetSubsurface
  <1> HIDE DEF t
  <1> QED BY <1>3, <1>4, SubChanges

LEMMA SetModeKeeps ==
  ASSUME IInv, NEW s \in Surfaces, NEW b \in BOOLEAN, SetMode(s, b)
  PROVE  IInv'
  <1>1. PICK D \in SUBSET Children : sub \in [D -> BOOLEAN]
    BY DEF IInv
  <1> DEFINE t == [sub EXCEPT ![s] = b]
  <1>2. t \in [D -> BOOLEAN]
    BY <1>1
  <1>3. sub' = t /\ Change /\ UNCHANGED <<surf, comp, pending, commits, applied, lost>>
    BY DEF SetMode
  <1> HIDE DEF t
  <1> QED BY <1>2, <1>3, SubChanges

(* A surface that leaves the compositor only. *)
LEMMA RemovedFit ==
  ASSUME NEW w, NEW m, Fit(w, m), NEW s \in Surfaces, NEW v \in Worlds,
         v.surf = w.surf, v.applied = w.applied, v.lost = w.lost,
         v.comp = RemoveSurface(w.comp, s)
  PROVE  Fit(v, m)
  <1>1. w \in Worlds /\ w.comp \in Compositor
    BY FitParts, WorldFields
  <1>2. /\ v.comp.registered = w.comp.registered
        /\ \A c \in Surfaces : v.comp.tex[c] \in {NoContent, w.comp.tex[c]}
    BY <1>1, RemovedIs
  <1>3. ASSUME NEW c \in Surfaces
        PROVE  Aged(v.surf[c], v.comp.tex[c], v.applied[c], m) /\ Paired(v.surf[c])
    <2>1. Aged(w.surf[c], w.comp.tex[c], w.applied[c], m) /\ Paired(w.surf[c])
      BY FitParts
    <2>2. w.surf[c].committed.ver \in Nat
      BY <1>1, WorldNumbers
    <2>3. v.comp.tex[c].ver <= w.surf[c].committed.ver
      BY <1>2, <2>1, <2>2, Empties DEF Aged
    <2> QED BY <2>1, <2>3 DEF Aged
  <1>4. ASSUME NEW b \in Buffers \ v.lost PROVE Single(v, b) /\ Owed(v, b)
    <2>1. Single(w, b) /\ Owed(w, b) /\ b \in Buffers
      BY FitParts
    <2>2. Quits(w, s, v, b)
      BY DEF Quits
    <2> QED BY <1>1, <2>1, <2>2, QuitsKeeps
  <1>5. Registered(v.comp, v.lost)
    BY <1>2, FitParts DEF Registered
  <1> QED BY <1>3, <1>4, <1>5 DEF Fit

LEMMA DestroySubsurfaceKeeps ==
  ASSUME IInv, NEW s \in Surfaces, DestroySubsurface(s)
  PROVE  IInv'
  <1>1. PICK D \in SUBSET Children : sub \in [D -> BOOLEAN]
    BY DEF IInv
  <1>2. sub' \in UNION {[E -> BOOLEAN] : E \in SUBSET Children}
    <2> DEFINE t == [x \in DOMAIN sub \ {s} |-> sub[x]]
    <2>1. t \in [D \ {s} -> BOOLEAN] /\ D \ {s} \in SUBSET Children
      BY <1>1
    <2>2. sub' = t
      BY DEF DestroySubsurface
    <2> HIDE DEF t
    <2> QED BY <2>1, <2>2
  <1>3. /\ Change /\ UNCHANGED <<surf, pending, commits, applied, lost>>
        /\ comp' \in {comp, RemoveSurface(comp, s)}
    BY DEF DestroySubsurface
  <1>4. Fit(World, commits) /\ World \in Worlds /\ comp \in Compositor
    BY FitParts, WorldFields, WorldIs DEF IInv
  <1>5. comp' \in Compositor /\ comp'.busy = comp.busy /\ comp'.unsignalled = comp.unsignalled
    BY <1>3, <1>4, RemovedIs
  <1>6. Fit(World', commits')
    <2>1. CASE comp' = comp
      <3>1. World' = World
        BY <1>3, <2>1 DEF World
      <3> QED BY <1>3, <1>4, <3>1
    <2>2. CASE comp' = RemoveSurface(comp, s)
      <3>1. /\ World'.surf = World.surf /\ World'.applied = World.applied
            /\ World'.lost = World.lost /\ World'.comp = RemoveSurface(World.comp, s)
        BY <1>3, <2>2 DEF World
      <3>2. World' \in Worlds
        BY <1>3, <1>4, <1>5 DEF World, Worlds
      <3>3. Fit(World', commits)
        BY <1>4, <3>1, <3>2, RemovedFit
      <3> QED BY <1>3, <3>3
    <2> QED BY <1>3, <2>1, <2>2
  <1>7. (\A c \in Surfaces : Armed(surf[c]))'
    BY <1>3 DEF IInv
  <1>8. /\ (\A c \in Surfaces : Asking(c))' /\ DOMAIN pending' = Surfaces
        /\ (\A c, d \in Surfaces : c # d => pending[c] = Nothing \/ pending[d] = Nothing)'
    BY <1>3, <1>5, AsksSame
  <1>9. changes' \in 0 .. MaxChanges /\ commits' \in Times
    BY <1>3, Constants DEF Change, IInv
  <1> QED BY <1>2, <1>6, <1>7, <1>8, <1>9 DEF IInv

(* v is w without the record's cache, whose buffer is lost. *)
Buried(w, s, v) ==
  /\ v \in Worlds /\ v.comp = w.comp /\ v.applied = w.applied /\ w.lost \subseteq v.lost
  /\ \A b \in Buffers :
       b = w.surf[s].cached.buf /\ b \in w.comp.busy /\ b \notin w.comp.returning
         => b \in v.lost
  /\ \A c \in Surfaces :
       /\ v.surf[c].queue = w.surf[c].queue /\ v.surf[c].timer = w.surf[c].timer
       /\ v.surf[c].committed = w.surf[c].committed
       /\ v.surf[c].cached = IF c = s THEN NoCache ELSE w.surf[c].cached

LEMMA BuriedIs ==
  ASSUME NEW w \in Worlds, NEW s \in Surfaces, NEW X, w.surf[s].cached.buf \in X
  PROVE  Buried(w, s,
           [w EXCEPT !.surf[s] = [w.surf[s] EXCEPT !.alive = FALSE, !.cached = NoCache],
                     !.lost = @ \cup (X \cap (w.comp.busy \ w.comp.returning))])
  <1> DEFINE r == w.surf[s]
             u == [r EXCEPT !.alive = FALSE, !.cached = NoCache]
             l == w.lost \cup (X \cap (w.comp.busy \ w.comp.returning))
             v == [w EXCEPT !.surf[s] = [w.surf[s] EXCEPT !.alive = FALSE, !.cached = NoCache],
                            !.lost = @ \cup (X \cap (w.comp.busy \ w.comp.returning))]
  <1>1. /\ w.surf \in [Surfaces -> Records] /\ r \in Records /\ w.comp \in Compositor
        /\ w.lost \in SUBSET Buffers
    BY WorldFields
  <1>2. /\ u \in Records /\ u.queue = r.queue /\ u.timer = r.timer
        /\ u.committed = r.committed /\ u.cached = NoCache
    BY <1>1, Empties DEF Records
  <1>3. l \in SUBSET Buffers
    BY <1>1, CompFields
  <1>4. v = [w EXCEPT !.surf = [w.surf EXCEPT ![s] = u], !.lost = l]
    OBVIOUS
  <1>5. \A b \in Buffers :
          b = r.cached.buf /\ b \in w.comp.busy /\ b \notin w.comp.returning => b \in l
    OBVIOUS
  <1>6. w.lost \subseteq l
    OBVIOUS
  <1> HIDE DEF u, l, v
  <1>7. /\ v \in Worlds /\ v.surf = [w.surf EXCEPT ![s] = u] /\ v.lost = l
        /\ v.comp = w.comp /\ v.applied = w.applied
    BY <1>1, <1>2, <1>3, <1>4 DEF Worlds
  <1>8. v.surf[s] = u /\ \A c \in Surfaces : c # s => v.surf[c] = w.surf[c]
    BY <1>1, <1>7
  <1>9. Buried(w, s, v)
    BY <1>2, <1>5, <1>6, <1>7, <1>8 DEF Buried
  <1> QED BY <1>9 DEF v

LEMMA BuriedFit ==
  ASSUME NEW w, NEW m \in Nat, Fit(w, m), NEW s \in Surfaces, NEW v, Buried(w, s, v)
  PROVE  Fit(v, m)
  <1>1. /\ w \in Worlds /\ w.comp \in Compositor
    BY FitParts, WorldFields
  <1>2. /\ v \in Worlds /\ v.comp = w.comp /\ v.applied = w.applied /\ w.lost \subseteq v.lost
        /\ \A c \in Surfaces :
             /\ v.surf[c].queue = w.surf[c].queue
             /\ v.surf[c].committed = w.surf[c].committed
             /\ v.surf[c].cached = IF c = s THEN NoCache ELSE w.surf[c].cached
    BY DEF Buried
  <1>3. ASSUME NEW c \in Surfaces
        PROVE  Aged(v.surf[c], v.comp.tex[c], v.applied[c], m) /\ Paired(v.surf[c])
    <2> DEFINE r == w.surf[c]
               u == v.surf[c]
    <2>1. Aged(r, w.comp.tex[c], w.applied[c], m) /\ Paired(r) /\ r \in Records
      BY FitParts
    <2>2. w.comp.tex[c] \in Contents /\ w.applied[c] \in Times
      BY <1>1, WorldFields, CompFields
    <2>3. /\ r.committed.ver \in Nat /\ \A i \in DOMAIN r.queue : r.queue[i].n \in Nat
      BY <2>1, <2>2, AgedNumbers
    <2>4. u.queue = r.queue /\ u.committed = r.committed /\ u.cached \in {NoCache, r.cached}
      BY <1>2
    <2> HIDE DEF r, u
    <2>5. \A i \in DOMAIN r.queue : 0 < r.queue[i].n
      BY <2>1, <2>3 DEF Aged
    <2>6. Aged(u, w.comp.tex[c], w.applied[c], m)
      BY <2>1, <2>4, <2>5, Empties DEF Aged
    <2>7. Paired(u)
      BY <2>1, <2>4, Empties DEF Paired
    <2> QED BY <1>2, <2>6, <2>7 DEF u
  <1>4. ASSUME NEW b \in Buffers \ v.lost PROVE Single(v, b) /\ Owed(v, b)
    <2>1. Single(w, b) /\ Owed(w, b) /\ b \in Buffers
      BY <1>2, FitParts
    <2>2. ~InCache(w.surf[s], b)
      <3>1. SUFFICES ASSUME InCache(w.surf[s], b) PROVE FALSE
        OBVIOUS
      <3>2. Holds(w, s, b) /\ b = w.surf[s].cached.buf
        BY <3>1 DEF Holds, Held, InCache
      <3>3. b \in w.comp.busy /\ b \notin w.comp.returning
        BY <2>1, <3>2 DEF Single
      <3> QED BY <2>1, <3>2, <3>3 DEF Buried
    <2>3. w.surf[s].cached.pt # b
      <3>1. PairedCache(w.surf[s].cached)
        BY FitParts
      <3> QED BY <2>1, <2>2, <3>1, Constants DEF PairedCache, InCache
    <2>4. Quits(w, s, v, b)
      BY <1>2, <2>2, <2>3 DEF Quits
    <2> QED BY <1>1, <2>1, <2>4, QuitsKeeps
  <1>5. Registered(v.comp, v.lost)
    BY <1>2, FitParts DEF Registered
  <1> QED BY <1>2, <1>3, <1>4, <1>5 DEF Fit

LEMMA DestroySurfaceKeeps ==
  ASSUME IInv, NEW s \in Surfaces, DestroySurface(s)
  PROVE  IInv'
  <1> DEFINE w == DetachSurfaceRole(World, s)
             X == {w.surf[s].cached.buf, w.comp.tex[s].buf}
             v == [w EXCEPT !.surf[s] = [w.surf[s] EXCEPT !.alive = FALSE, !.cached = NoCache],
                            !.lost = @ \cup (X \cap (w.comp.busy \ w.comp.returning))]
  <1>1. Fit(World, commits) /\ World \in Worlds /\ commits \in Nat
    BY FitParts, Constants DEF IInv, Times
  <1>2. Detached(World, s, w)
    BY <1>1, DetachedIs
  <1>3. /\ Becomes(v) /\ Change /\ pending' = [pending EXCEPT ![s] = Nothing]
        /\ UNCHANGED <<sub, commits>>
    BY DEF DestroySurface
  <1> HIDE DEF w
  <1>4. Fit(w, commits) /\ w \in Worlds
    BY <1>1, <1>2, DetachedFit, FitParts
  <1>5. Buried(w, s, v)
    <2>1. w.surf[s].cached.buf \in X
      OBVIOUS
    <2> HIDE DEF X
    <2> QED BY <1>4, <2>1, BuriedIs
  <1> HIDE DEF v, X
  <1>6. Fit(v, commits')
    BY <1>1, <1>3, <1>4, <1>5, BuriedFit
  <1>7. \A c \in Surfaces : Armed(v.surf[c])
    <2>1. SUFFICES ASSUME NEW c \in Surfaces PROVE Armed(v.surf[c])
      OBVIOUS
    <2>2. v.surf[c].queue = w.surf[c].queue /\ v.surf[c].timer = w.surf[c].timer
      BY <1>5 DEF Buried
    <2>3. CASE c = s
      BY <1>2, <2>2, <2>3 DEF Detached, Armed
    <2>4. CASE c # s
      <3>1. w.surf[c].queue = surf[c].queue /\ w.surf[c].timer = surf[c].timer
        BY <1>2, <2>4, WorldIs DEF Detached
      <3>2. Armed(surf[c])
        BY DEF IInv
      <3> QED BY <2>2, <3>1, <3>2 DEF Armed
    <2> QED BY <2>3, <2>4
  <1>8. Fit(World, commits)' /\ (\A c \in Surfaces : Armed(surf[c]))'
    BY <1>3, <1>6, <1>7, WorldKeeps
  <1>9. comp'.busy = comp.busy /\ comp'.unsignalled = comp.unsignalled
    <2>1. comp' = w.comp
      BY <1>3, <1>5 DEF Buried, Becomes
    <2>2. w.comp \in {comp, RemoveSurface(comp, s)} /\ comp \in Compositor
      BY <1>1, <1>2, WorldIs, WorldFields DEF Detached
    <2> QED BY <2>1, <2>2, RemovedIs
  <1>10. DOMAIN pending = Surfaces
         /\ \A c, d \in Surfaces : c # d => pending[c] = Nothing \/ pending[d] = Nothing
    BY DEF IInv
  <1>11. /\ pending'[s] = Nothing /\ DOMAIN pending' = Surfaces
         /\ \A c \in Surfaces : c # s => pending'[c] = pending[c]
    BY <1>3, <1>10
  <1>12. (\A c, d \in Surfaces : c # d => pending[c] = Nothing \/ pending[d] = Nothing)'
    BY <1>10, <1>11
  <1>13. ASSUME NEW c \in Surfaces PROVE Asking(c)'
    <2>1. CASE pending'[c] = Nothing
      BY <2>1, Constants DEF Asking, Nothing, Points, Free
    <2>2. CASE pending'[c] # Nothing
      <3>1. pending'[c] = pending[c] /\ Asking(c)
        BY <1>11, <2>2 DEF IInv
      <3> QED BY <1>9, <3>1 DEF Asking, Free
    <2> QED BY <2>1, <2>2
  <1>14. changes' \in 0 .. MaxChanges /\ commits' \in Times
         /\ sub' \in UNION {[D -> BOOLEAN] : D \in SUBSET Children}
    BY <1>3, Constants DEF Change, IInv
  <1> QED BY <1>8, <1>11, <1>12, <1>13, <1>14 DEF IInv

LEMMA MapRootKeeps ==
  ASSUME IInv, MapRoot
  PROVE  IInv'
  <1> DEFINE u == [surf[Root] EXCEPT !.mapped = TRUE]
  <1>1. /\ surf' = [surf EXCEPT ![Root] = u]
        /\ UNCHANGED <<sub, comp, pending, commits, changes, applied, lost>>
    BY DEF MapRoot
  <1>2. Fit(World, commits) /\ World \in Worlds /\ surf \in [Surfaces -> Records]
    BY FitParts, WorldFields, WorldIs DEF IInv
  <1>3. surf[Root] \in Records
    BY <1>2, Constants
  <1>4. /\ u \in Records /\ u.queue = surf[Root].queue /\ u.timer = surf[Root].timer
        /\ u.cached = surf[Root].cached /\ u.committed = surf[Root].committed
    BY <1>3 DEF Records
  <1> HIDE DEF u
  <1>5. /\ surf' \in [Surfaces -> Records]
        /\ \A c \in Surfaces :
             /\ surf'[c].queue = surf[c].queue /\ surf'[c].timer = surf[c].timer
             /\ surf'[c].cached = surf[c].cached /\ surf'[c].committed = surf[c].committed
    BY <1>1, <1>2, <1>4
  <1>6. World' \in Worlds
    BY <1>1, <1>2, <1>5 DEF World, Worlds
  <1>7. Fit(World', commits)
    <2>1. /\ World'.surf = surf' /\ World'.comp = World.comp /\ World'.lost = World.lost
          /\ World'.applied = World.applied
      BY <1>1 DEF World
    <2> QED BY <1>2, <1>5, <1>6, <2>1, WorldIs, FitSame
  <1>8. (\A c \in Surfaces : Armed(surf[c]))'
    BY <1>5 DEF IInv, Armed
  <1>9. /\ (\A c \in Surfaces : Asking(c))' /\ DOMAIN pending' = Surfaces
        /\ (\A c, d \in Surfaces : c # d => pending[c] = Nothing \/ pending[d] = Nothing)'
    BY <1>1, AsksSame
  <1> QED BY <1>1, <1>7, <1>8, <1>9 DEF IInv

(* c becomes d by the return of b and of the point registered for it. *)
Returns(c, b, d) ==
  /\ d \in Compositor /\ d.tex = c.tex
  /\ d.returning = c.returning \ {b} /\ d.busy = c.busy \ {b}
  /\ d.unsignalled \subseteq c.unsignalled
  /\ \A x \in Dmabufs \ {b} : d.registered[x] = c.registered[x]
  /\ b \in Dmabufs =>
       d.registered[b] = None /\ (c.registered[b] = b => b \notin d.unsignalled)

LEMMA ReturnedIs ==
  ASSUME NEW b \in Buffers, Returned(b), comp \in Compositor
  PROVE  Returns(comp, b, comp')
  <1> DEFINE c == [comp EXCEPT !.returning = @ \ {b}, !.busy = @ \ {b}]
             pts == {comp.registered[b]}
             rg == [comp.registered EXCEPT ![b] = None]
             us == comp.unsignalled \ pts
  <1>1. /\ comp.registered \in [Dmabufs -> Points] /\ comp.returning \in SUBSET Buffers
        /\ comp.busy \in SUBSET Buffers /\ comp.unsignalled \in SUBSET Dmabufs
    BY CompFields
  <1>2. /\ c \in Compositor /\ c.tex = comp.tex /\ c.registered = comp.registered
        /\ c.returning = comp.returning \ {b} /\ c.busy = comp.busy \ {b}
        /\ c.unsignalled = comp.unsignalled
    BY <1>1 DEF Compositor
  <1>3. comp' = IF b \in Dmabufs THEN [Signal(c, pts) EXCEPT !.registered[b] = None] ELSE c
    BY DEF Returned
  <1> HIDE DEF c
  <1>4. CASE b \in Dmabufs
    <2>1. /\ rg \in [Dmabufs -> Points] /\ us \in SUBSET Dmabufs /\ rg[b] = None
          /\ us \subseteq comp.unsignalled
          /\ \A x \in Dmabufs \ {b} : rg[x] = comp.registered[x]
          /\ comp.registered[b] = b => b \notin us
      BY <1>1, <1>4 DEF Points
    <2>2. comp' = [c EXCEPT !.unsignalled = us, !.registered = rg]
      BY <1>2, <1>3, <1>4 DEF Signal
    <2> HIDE DEF rg, us
    <2>3. /\ comp' \in Compositor /\ comp'.tex = comp.tex
          /\ comp'.returning = comp.returning \ {b} /\ comp'.busy = comp.busy \ {b}
          /\ comp'.unsignalled = us /\ comp'.registered = rg
      BY <1>2, <2>1, <2>2 DEF Compositor, Points
    <2> QED BY <2>1, <2>3 DEF Returns
  <1>5. CASE b \notin Dmabufs
    BY <1>2, <1>3, <1>5 DEF Returns
  <1> QED BY <1>4, <1>5

LEMMA ReturnsFit ==
  ASSUME NEW w, NEW m, Fit(w, m), NEW b \in Buffers, b \in w.comp.returning,
         NEW v \in Worlds, v.surf = w.surf, v.applied = w.applied, v.lost = w.lost,
         Returns(w.comp, b, v.comp)
  PROVE  Fit(v, m)
  <1>1. \A c \in Surfaces : /\ Aged(v.surf[c], v.comp.tex[c], v.applied[c], m)
                            /\ Paired(v.surf[c])
    BY FitParts DEF Returns
  <1>2. Registered(v.comp, v.lost)
    BY FitParts DEF Returns, Registered
  <1>3. ASSUME NEW x \in Buffers \ v.lost PROVE Single(v, x) /\ Owed(v, x)
    <2>1. Single(w, x) /\ Owed(w, x) /\ x \in Buffers
      BY FitParts
    <2>2. \A c \in Surfaces : /\ Holds(v, c, x) <=> Holds(w, c, x)
                              /\ Within(v.surf[c], v.comp.tex[c], x)
      BY <2>1 DEF Holds, Returns, Single
    <2>3. Single(v, x)
      <3>1. CASE x = b
        <4>1. /\ x \notin v.comp.returning /\ x \notin v.comp.busy
              /\ \A c \in Surfaces : ~Holds(v, c, x)
          BY <2>1, <2>2, <3>1 DEF Single, Returns
        <4> QED BY <2>2, <4>1 DEF Single
      <3>2. CASE x # b
        <4>1. /\ x \in v.comp.returning <=> x \in w.comp.returning
              /\ x \in v.comp.busy <=> x \in w.comp.busy
          BY <3>2 DEF Returns
        <4> QED BY <2>1, <2>2, <4>1 DEF Single
      <3> QED BY <3>1, <3>2
    <2>4. Owed(v, x)
      <3>1. SUFFICES ASSUME x \in v.comp.unsignalled
                     PROVE  (\E s \in Surfaces : HasPoint(v.surf[s], x))
                            \/ v.comp.registered[x] = x
        BY DEF Owed
      <3>2. x \in w.comp.unsignalled /\ x \in Dmabufs
        BY <3>1, CompFields, WorldFields DEF Returns
      <3>3. (\E s \in Surfaces : HasPoint(v.surf[s], x)) \/ w.comp.registered[x] = x
        BY <2>1, <3>2 DEF Owed
      <3> QED BY <3>1, <3>2, <3>3 DEF Returns
    <2> QED BY <2>3, <2>4
  <1> QED BY <1>1, <1>2, <1>3 DEF Fit

LEMMA ReturnedKeeps ==
  ASSUME IInv, NEW b \in Buffers, Returned(b)
  PROVE  IInv'
  <1>1. Fit(World, commits) /\ World \in Worlds /\ comp \in Compositor
    BY FitParts, WorldFields, WorldIs DEF IInv
  <1>2. /\ UNCHANGED <<surf, sub, pending, commits, changes, applied, lost>>
        /\ b \in comp.returning
    BY DEF Returned
  <1>3. Returns(comp, b, comp')
    BY <1>1, ReturnedIs
  <1>4. World' \in Worlds
    BY <1>1, <1>2, <1>3 DEF World, Worlds, Returns
  <1>5. Fit(World', commits)
    <2>1. /\ World'.surf = World.surf /\ World'.applied = World.applied
          /\ World'.lost = World.lost /\ World'.comp = comp'
      BY <1>2 DEF World
    <2> QED BY <1>1, <1>2, <1>3, <1>4, <2>1, WorldIs, ReturnsFit
  <1>6. (\A c \in Surfaces : Armed(surf[c]))'
    BY <1>2 DEF IInv
  <1>7. /\ (\A c \in Surfaces : Asking(c))' /\ DOMAIN pending' = Surfaces
        /\ (\A c, d \in Surfaces : c # d => pending[c] = Nothing \/ pending[d] = Nothing)'
    BY <1>2, <1>3, AsksSame DEF Returns
  <1> QED BY <1>2, <1>5, <1>6, <1>7 DEF IInv

-----------------------------------------------------------------------------
(* The theorems. *)

LEMMA InitIInv == Init => IInv
  <1> SUFFICES ASSUME Init PROVE IInv
    OBVIOUS
  <1> DEFINE r == [alive |-> TRUE, mapped |-> FALSE, committed |-> NoContent,
                   cached |-> NoCache, queue |-> <<>>, timer |-> FALSE]
  <1>1. /\ surf = [s \in Surfaces |-> r] /\ sub = [s \in Children |-> TRUE]
        /\ comp = [tex |-> [s \in Surfaces |-> NoContent],
                   registered |-> [b \in Dmabufs |-> None],
                   returning |-> {}, busy |-> {}, unsignalled |-> {}]
        /\ pending = [s \in Surfaces |-> Nothing] /\ commits = 0 /\ changes = 0
        /\ applied = [s \in Surfaces |-> 0] /\ lost = {}
    BY DEF Init
  <1>2. <<>> \in Seq(Entries) /\ 0 \in Times
    BY Constants DEF Times
  <1>3. /\ r \in Records /\ r.queue = <<>> /\ ~r.timer /\ r.committed = NoContent
        /\ r.cached = NoCache
    BY <1>2, Empties DEF Records
  <1> HIDE DEF r
  <1>4. /\ comp \in Compositor /\ comp.returning = {} /\ comp.busy = {}
        /\ comp.unsignalled = {} /\ \A b \in Dmabufs : comp.registered[b] = None
        /\ \A s \in Surfaces : comp.tex[s] = NoContent
    BY <1>1, Empties DEF Compositor, Contents
  <1>5. World \in Worlds
    BY <1>1, <1>2, <1>3, <1>4 DEF World, Worlds
  <1>6. \A s \in Surfaces : surf[s] = r /\ applied[s] = 0 /\ pending[s] = Nothing
    BY <1>1
  <1>7. Aged(r, NoContent, 0, 0) /\ Paired(r) /\ Armed(r)
    <2>1. DOMAIN r.queue = {}
      BY <1>3
    <2> QED BY <1>3, <2>1, Empties DEF Aged, Paired, Rising, Armed
  <1>8. Registered(comp, lost)
    BY <1>4 DEF Registered
  <1>9. ASSUME NEW b \in Buffers PROVE Single(World, b) /\ Owed(World, b)
    <2>1. /\ ~Held(r, NoContent, b) /\ Within(r, NoContent, b)
      <3>1. DOMAIN r.queue = {}
        BY <1>3
      <3>2. ~Queued(r.queue, b) /\ Once(r.queue, b)
        BY <3>1 DEF Queued, Once
      <3>3. ~InCache(r, b) /\ ~OnScreen(NoContent, b)
        BY <1>3, Empties, Constants DEF InCache, OnScreen
      <3> QED BY <3>2, <3>3 DEF Held, Within, InQueue
    <2>2. \A s \in Surfaces : ~Holds(World, s, b)
      BY <1>4, <1>6, <2>1, WorldIs DEF Holds
    <2> QED BY <1>4, <1>6, <2>1, <2>2, WorldIs DEF Single, Owed
  <1>10. Fit(World, commits)
    BY <1>1, <1>4, <1>5, <1>6, <1>7, <1>8, <1>9, WorldIs DEF Fit
  <1>11. \A s \in Surfaces : Asking(s)
    BY <1>6, NothingAsks
  <1>12. sub \in [Children -> BOOLEAN]
    BY <1>1
  <1> QED BY <1>1, <1>2, <1>6, <1>7, <1>10, <1>11, <1>12, Constants DEF IInv

LEMMA NextIInv == IInv /\ [Next]_vars => IInv'
  <1> SUFFICES ASSUME IInv, [Next]_vars PROVE IInv'
    OBVIOUS
  <1>1. ASSUME NEW s \in Surfaces, NEW b \in Pool[s], Attach(s, b) PROVE IInv'
    BY <1>1, AttachKeeps
  <1>2. ASSUME NEW s \in Surfaces, SetTimestamp(s) PROVE IInv'
    BY <1>2, SetTimestampKeeps
  <1>3. ASSUME NEW s \in Surfaces, Commit(s) PROVE IInv'
    BY <1>3, CommitKeeps
  <1>4. ASSUME NEW s \in Surfaces, TimerFires(s) PROVE IInv'
    BY <1>4, TimerFiresKeeps
  <1>5. ASSUME NEW s \in Surfaces, GetSubsurface(s) PROVE IInv'
    BY <1>5, GetSubsurfaceKeeps
  <1>6. ASSUME NEW s \in Surfaces, DestroySubsurface(s) PROVE IInv'
    BY <1>6, DestroySubsurfaceKeeps
  <1>7. ASSUME NEW s \in Surfaces, DestroySurface(s) PROVE IInv'
    BY <1>7, DestroySurfaceKeeps
  <1>8. ASSUME NEW s \in Surfaces, NEW x \in BOOLEAN, SetMode(s, x) PROVE IInv'
    BY <1>8, SetModeKeeps
  <1>9. CASE MapRoot
    BY <1>9, MapRootKeeps
  <1>10. ASSUME NEW b \in Buffers, Returned(b) PROVE IInv'
    BY <1>10, ReturnedKeeps
  <1>11. CASE UNCHANGED vars
    <2>1. World' = World /\ pending' = pending
      BY <1>11 DEF vars, World
    <2>2. Fit(World', commits') /\ (\A c \in Surfaces : Armed(surf[c]))'
      BY <1>11, <2>1 DEF IInv, vars
    <2>3. /\ (\A c \in Surfaces : Asking(c))' /\ DOMAIN pending' = Surfaces
          /\ (\A c, d \in Surfaces : c # d => pending[c] = Nothing \/ pending[d] = Nothing)'
      BY <1>11, AsksSame DEF vars
    <2> QED BY <1>11, <2>2, <2>3 DEF IInv, vars
  <1> QED BY <1>1, <1>2, <1>3, <1>4, <1>5, <1>6, <1>7, <1>8, <1>9, <1>10, <1>11 DEF Next

(* The inductive invariant: numbers grow from what is shown to what is     *)
(* queued, a cache is of what is committed, a point is with its buffer,    *)
(* and a buffer that is lent and not lost is in exactly one place.         *)
THEOREM Invariance == Spec => []IInv
  BY InitIInv, NextIInv, PTL DEF Spec

LEMMA IInvTypeOK == IInv => TypeOK
  <1> SUFFICES ASSUME IInv PROVE TypeOK
    OBVIOUS
  <1>1. /\ Fit(World, commits) /\ World \in Worlds /\ commits \in Nat
        /\ commits \in 0 .. MaxCommits /\ changes \in 0 .. MaxChanges
    BY FitParts, Constants DEF IInv, Times
  <1>2. /\ surf \in [Surfaces -> Records] /\ comp \in Compositor
        /\ applied \in [Surfaces -> Times] /\ lost \subseteq Buffers
    BY <1>1, WorldFields, WorldIs
  <1>3. ASSUME NEW s \in Surfaces
        PROVE  /\ surf[s].alive \in BOOLEAN /\ surf[s].mapped \in BOOLEAN
               /\ surf[s].committed \in Contents
               /\ Cached(surf, s) => /\ surf[s].cached.buf = surf[s].committed.buf
                                     /\ surf[s].cached.ver = surf[s].committed.ver
                                     /\ surf[s].cached.last \in 1 .. commits
               /\ surf[s].timer \in BOOLEAN
               /\ pending[s].buf \in Buffers \cup {Null, NoAttach}
               /\ applied[s] \in 0 .. commits
    <2>1. surf[s] \in Records /\ surf[s].cached \in Caches
      BY <1>2, RecordFields
    <2>2. surf[s].cached.last \in Nat /\ applied[s] \in Nat
      BY <1>2, <2>1, CacheFields, Constants DEF Times
    <2>3. Aged(surf[s], comp.tex[s], applied[s], commits)
      BY <1>1, FitParts, WorldIs
    <2>4. Cached(surf, s) => /\ surf[s].cached.buf = surf[s].committed.buf
                             /\ surf[s].cached.ver = surf[s].committed.ver
                             /\ surf[s].cached.last \in 1 .. commits
      BY <1>1, <2>2, <2>3 DEF Aged, Cached
    <2>5. applied[s] \in 0 .. commits
      BY <1>1, <2>2, <2>3 DEF Aged
    <2>6. pending[s].buf \in Buffers \cup {Null, NoAttach}
      BY DEF IInv, Asking
    <2> QED BY <2>1, <2>4, <2>5, <2>6, RecordFields
  <1>4. applied \in [Surfaces -> 0 .. commits]
    BY <1>2, <1>3
  <1>5. sub \in UNION {[D -> BOOLEAN] : D \in SUBSET Children}
    BY DEF IInv
  <1> QED BY <1>1, <1>2, <1>3, <1>4, <1>5 DEF TypeOK

(* TypeOK holds: a cache that is waiting holds the surface's committed      *)
(* buffer, and no surface has applied a commit that has not been made.      *)
THEOREM TypeCorrect == Spec => []TypeOK
  BY Invariance, IInvTypeOK, PTL

LEMMA IInvTimers == IInv => TimersArmed
  <1> SUFFICES ASSUME IInv, NEW s \in Surfaces
               PROVE  /\ surf[s].timer <=> surf[s].queue # <<>>
                      /\ surf[s].timer => Head(surf[s].queue).timed
    BY DEF TimersArmed
  <1>1. Armed(surf[s])
    BY DEF IInv
  <1>2. surf[s].queue \in Seq(Entries)
    BY FitParts, WorldIs DEF IInv
  <1> QED BY <1>1, <1>2 DEF Armed

(* TimersArmed holds: pumpTimedCommits never leaves a queued commit without *)
(* a timer, nor a timer without a queued commit to latch.                   *)
THEOREM TimersKept == Spec => []TimersArmed
  BY Invariance, IInvTimers, PTL

LEMMA IInvLoans == IInv => LoansAccounted
  <1> SUFFICES ASSUME IInv PROVE LoansAccounted
    OBVIOUS
  <1> DEFINE entries == UNION {ToSet(surf[s].queue) : s \in Surfaces}
             caches  == {surf[s].cached : s \in Surfaces}
             held    == ({e.buf : e \in entries}
                         \cup {k.buf : k \in {x \in caches : x.fresh}}
                         \cup comp.returning) \cap Buffers
             shown   == {comp.tex[s].buf : s \in Surfaces} \cap Dmabufs
             points  == ({e.pt : e \in entries} \cup {k.pt : k \in caches}
                         \cup {comp.registered[b] : b \in Dmabufs}) \cap Dmabufs
  <1>1. /\ Fit(World, commits) /\ World \in Worlds /\ comp \in Compositor
        /\ Registered(comp, lost)
    BY FitParts, WorldFields, WorldIs DEF IInv
  <1>2. comp.busy \subseteq Buffers /\ comp.unsignalled \subseteq Dmabufs
    BY <1>1, CompFields
  <1>3. \A e : e \in entries <=>
                 \E s \in Surfaces : \E i \in DOMAIN surf[s].queue : e = surf[s].queue[i]
    BY DEF ToSet
  <1> HIDE DEF entries
  <1>4. \A b : b \in held <=>
          /\ b \in Buffers
          /\ \/ b \in comp.returning
             \/ \E s \in Surfaces : InQueue(surf[s], b) \/ InCache(surf[s], b)
    BY <1>3 DEF InQueue, InCache, Queued
  <1>5. \A b : b \in shown <=> \E s \in Surfaces : OnScreen(comp.tex[s], b)
    BY DEF OnScreen
  <1>6. \A b \in Dmabufs : b \in points <=>
          \/ \E s \in Surfaces : HasPoint(surf[s], b)
          \/ \E x \in Dmabufs : comp.registered[x] = b
    BY <1>3 DEF HasPoint, PointQueued
  <1> HIDE DEF held, shown, points, caches
  <1>7. ASSUME NEW b \in Buffers \ lost
        PROVE  /\ b \in comp.busy <=> b \in comp.returning \/ \E s \in Surfaces :
                    Held(surf[s], comp.tex[s], b)
               /\ Owed(World, b)
    BY <1>1, FitParts, WorldIs DEF Single, Holds
  <1>8. \A b \in Buffers \ lost : b \in comp.busy <=> b \in held \cup shown
    BY <1>4, <1>5, <1>7 DEF Held
  <1>9. held \cup shown \subseteq Buffers
    BY <1>4, <1>5, Constants DEF OnScreen
  <1>10. comp.unsignalled \subseteq points \cup lost
    <2>1. SUFFICES ASSUME NEW b \in comp.unsignalled, b \notin lost PROVE b \in points
      OBVIOUS
    <2>2. b \in Dmabufs /\ b \in Buffers \ lost
      BY <1>2, <2>1, Constants
    <2>3. (\E s \in Surfaces : HasPoint(surf[s], b)) \/ comp.registered[b] = b
      BY <1>7, <2>2, WorldIs DEF Owed
    <2> QED BY <1>6, <2>2, <2>3
  <1>11. \A b \in Dmabufs \ lost : comp.registered[b] \in {None, b} \cup lost
    BY <1>1 DEF Registered
  <1>12. /\ comp.busy \subseteq held \cup shown \cup lost
         /\ held \cup shown \subseteq comp.busy \cup lost
    BY <1>2, <1>8, <1>9
  <1> QED BY <1>10, <1>11, <1>12 DEF LoansAccounted, held, shown, points, caches, entries

(* LoansAccounted holds: every buffer and point a client lends is queued,   *)
(* cached, shown, registered or returning until it is given back, except    *)
(* those the code is known to lose, and nothing given back is still held.   *)
THEOREM LoansKept == Spec => []LoansAccounted
  BY Invariance, IInvLoans, PTL

(* A step latches commits of a surface, or applies nothing. *)
Applies == \E t \in Surfaces : Pumped(World, World', t, commits')
Rests ==
  /\ applied' = applied
  /\ \A c \in Surfaces : comp'.tex[c] \in {NoContent, comp.tex[c]}

LEMMA NextApplies == IInv /\ [Next]_vars => Applies \/ Rests
  <1> SUFFICES ASSUME IInv, [Next]_vars PROVE Applies \/ Rests
    OBVIOUS
  <1>1. World \in Worlds /\ comp \in Compositor
    BY FitParts, WorldFields, WorldIs DEF IInv
  <1>2. ASSUME NEW s \in Surfaces, NEW b \in Pool[s], Attach(s, b) PROVE Rests
    BY <1>2 DEF Attach, Rests
  <1>3. ASSUME NEW s \in Surfaces, SetTimestamp(s) PROVE Rests
    BY <1>3 DEF SetTimestamp, Rests
  <1>4. ASSUME NEW s \in Surfaces, Commit(s) PROVE Applies
    BY <1>4, CommitIs DEF Applies
  <1>5. ASSUME NEW s \in Surfaces, TimerFires(s) PROVE Applies
    BY <1>5, TimerFiresIs DEF Applies
  <1>6. ASSUME NEW s \in Surfaces, GetSubsurface(s) PROVE Rests
    BY <1>6 DEF GetSubsurface, Rests
  <1>7. ASSUME NEW s \in Surfaces, DestroySubsurface(s) PROVE Rests
    <2>1. applied' = applied /\ comp' \in {comp, RemoveSurface(comp, s)}
      BY <1>7 DEF DestroySubsurface
    <2> QED BY <1>1, <2>1, RemovedIs DEF Rests
  <1>8. ASSUME NEW s \in Surfaces, DestroySurface(s) PROVE Rests
    <2> DEFINE w == DetachSurfaceRole(World, s)
    <2>1. applied' = w.applied /\ comp' = w.comp
      <3>1. Detached(World, s, w)
        BY <1>1, DetachedIs
      <3>2. w \in Worlds
        BY <3>1 DEF Detached
      <3> DEFINE gone == {w.surf[s].cached.buf, w.comp.tex[s].buf}
                 v == [w EXCEPT
                        !.surf[s] = [w.surf[s] EXCEPT !.alive = FALSE, !.cached = NoCache],
                        !.lost = @ \cup (gone \cap (w.comp.busy \ w.comp.returning))]
      <3>3. Becomes(v)
        BY <1>8 DEF DestroySurface
      <3> HIDE DEF w
      <3>4. w.surf[s].cached.buf \in gone
        OBVIOUS
      <3> HIDE DEF gone
      <3>5. Buried(w, s, v)
        BY <3>2, <3>4, BuriedIs
      <3> HIDE DEF v
      <3> QED BY <3>3, <3>5 DEF Becomes, Buried
    <2>2. Detached(World, s, w)
      BY <1>1, DetachedIs
    <2> HIDE DEF w
    <2>3. applied' = applied /\ comp' \in {comp, RemoveSurface(comp, s)}
      BY <2>1, <2>2, WorldIs DEF Detached
    <2> QED BY <1>1, <2>3, RemovedIs DEF Rests
  <1>9. ASSUME NEW s \in Surfaces, NEW x \in BOOLEAN, SetMode(s, x) PROVE Rests
    BY <1>9 DEF SetMode, Rests
  <1>10. CASE MapRoot
    BY <1>10 DEF MapRoot, Rests
  <1>11. ASSUME NEW b \in Buffers, Returned(b) PROVE Rests
    <2>1. Returns(comp, b, comp') /\ applied' = applied
      BY <1>1, <1>11, ReturnedIs DEF Returned
    <2> QED BY <2>1 DEF Returns, Rests
  <1>12. CASE UNCHANGED vars
    BY <1>12 DEF vars, Rests
  <1> QED BY <1>2, <1>3, <1>4, <1>5, <1>6, <1>7, <1>8, <1>9, <1>10, <1>11, <1>12 DEF Next

LEMMA LatchesGrow ==
  ASSUME IInv, NEW t \in Surfaces, Pumped(World, World', t, commits'), NEW c \in Surfaces
  PROVE  /\ comp'.tex[c] = NoContent \/ comp'.tex[c].ver >= comp.tex[c].ver
         /\ applied'[c] # applied[c] <=> applied[c] < applied'[c]
  <1>1. World' \in Worlds /\ World \in Worlds /\ Grows(World, World', c)
    BY FitParts DEF Pumped, IInv
  <1>2. /\ World'.applied = applied' /\ World'.comp = comp' /\ World'.surf = surf'
        /\ World.applied = applied /\ World.comp = comp /\ World.surf = surf
    BY DEF World
  <1>3. /\ applied[c] \in Nat /\ surf[c].committed.ver \in Nat /\ comp.tex[c].ver \in Nat
        /\ applied'[c] \in Nat /\ comp'.tex[c].ver \in Nat
    BY <1>1, <1>2, WorldNumbers
  <1>4. comp.tex[c].ver <= surf[c].committed.ver
    BY FitParts, WorldIs DEF IInv, Aged
  <1>5. /\ applied[c] <= applied'[c]
        /\ \/ comp'.tex[c] \in {NoContent, comp.tex[c]}
           \/ surf[c].committed.ver <= comp'.tex[c].ver
    BY <1>1, <1>2 DEF Grows
  <1> QED BY <1>3, <1>4, <1>5

LEMMA StepAdvances ==
  ASSUME IInv, [Next]_vars, NEW s \in Surfaces
  PROVE  comp'.tex[s] = NoContent \/ comp'.tex[s].ver >= comp.tex[s].ver
  <1>1. CASE Applies
    BY <1>1, LatchesGrow DEF Applies
  <1>2. CASE Rests
    <2>1. comp.tex[s].ver \in Nat
      BY FitParts, WorldNumbers, WorldIs DEF IInv
    <2> QED BY <1>2, <2>1 DEF Rests
  <1> QED BY <1>1, <1>2, NextApplies

(* ContentAdvances holds: whatever is cached, queued or switched between    *)
(* modes, no commit is applied over a later one's content.                  *)
THEOREM ContentKept == Spec => ContentAdvances
  <1>1. IInv /\ [Next]_vars =>
          [\A s \in Surfaces :
             comp'.tex[s] = NoContent \/ comp'.tex[s].ver >= comp.tex[s].ver]_vars
    BY StepAdvances
  <1> QED BY <1>1, Invariance, PTL DEF Spec, ContentAdvances

LEMMA StepSyncs ==
  ASSUME IInv, [Next]_vars, NEW s \in DOMAIN sub, surf[s].alive, EffectiveSync(s)
  PROVE  /\ applied'[s] # applied[s] => applied'[Parent[s]] # applied[Parent[s]]
         /\ applied'[Parent[s]] # applied[Parent[s]] => surf'[s].cached = NoCache
  <1>1. s \in Surfaces /\ Parent[s] \in Surfaces
    BY SubIn DEF IInv, SubTyped
  <1>2. ASSUME NEW t \in Surfaces, Pumped(World, World', t, commits')
        PROVE  /\ applied'[s] # applied[s] => applied'[Parent[s]] # applied[Parent[s]]
               /\ applied'[Parent[s]] # applied[Parent[s]] => surf'[s].cached = NoCache
    <2>1. /\ applied'[s] # applied[s] <=> applied[s] < applied'[s]
          /\ applied'[Parent[s]] # applied[Parent[s]]
               <=> applied[Parent[s]] < applied'[Parent[s]]
      BY <1>1, <1>2, LatchesGrow
    <2>2. /\ World'.applied = applied' /\ World'.surf = surf'
          /\ World.applied = applied /\ World.surf = surf
      BY DEF World
    <2>3. Synced(World, World', t)
      BY <1>2 DEF Pumped
    <2>4. CASE EffectiveSync(t)
      BY <1>1, <2>2, <2>3, <2>4 DEF Synced
    <2>5. CASE ~EffectiveSync(t)
      BY <2>1, <2>2, <2>3, <2>5 DEF Synced
    <2> QED BY <2>4, <2>5
  <1>3. CASE Applies
    BY <1>2, <1>3 DEF Applies
  <1>4. CASE Rests
    BY <1>4 DEF Rests
  <1> QED BY <1>3, <1>4, NextApplies

(* SyncAtomic holds: a synchronized subsurface moves only when its parent   *)
(* is applied, and nothing of it is left behind in the cache then.          *)
THEOREM SubtreesAtomic == Spec => SyncAtomic
  <1> DEFINE Together ==
               \A s \in DOMAIN sub :
                 LET moves(t) == applied'[t] # applied[t]
                     synced   == {a \in DOMAIN sub : sub[a]}
                 IN  surf[s].alive /\ AncestorsOrSelf(s) \cap synced # {} =>
                       /\ moves(s) => moves(Parent[s])
                       /\ moves(Parent[s]) => surf'[s].cached = NoCache
  <1>1. ASSUME IInv, [Next]_vars PROVE Together
    <2>1. ASSUME NEW s \in DOMAIN sub, AncestorsOrSelf(s) \cap {a \in DOMAIN sub : sub[a]} # {}
          PROVE  EffectiveSync(s)
      BY <2>1 DEF EffectiveSync
    <2> QED BY <1>1, <2>1, StepSyncs
  <1>2. IInv /\ [Next]_vars => [Together]_vars
    BY <1>1
  <1>3. SyncAtomic <=> [][Together]_vars
    BY DEF SyncAtomic
  <1> HIDE DEF Together
  <1> QED BY <1>2, <1>3, Invariance, PTL DEF Spec

=============================================================================
