-------------------- MODULE ClientBufferLifecycleProofs --------------------
(***************************************************************************)
(* Proofs about ClientBufferLifecycle, for any sets of buffers, surfaces,  *)
(* serials and fds.  Everything rests on one inductive invariant, IInv:    *)
(* each entry is sound on its own against the history (Sound), the links   *)
(* of the entries and the surfaces agree (Linked), each fd is pending once *)
(* (Conserved), and what is owed is blocked.  A step() is a change of the  *)
(* entries followed by flushes, so the work is done once for Stepped       *)
(* (StepIInv, DeliverIInv), then once for each event.                      *)
(***************************************************************************)
EXTENDS ClientBufferLifecycle, TLAPS

(* maybeFlush would send the entry's release. *)
Releases(r) == ~FlushBlocked(r) /\ r.releaseOwed /\ ~r.destroyed

(* The buffers whose releases the flushes send. *)
Releasing(recs, flush) == {b \in flush : Releases(recs[b])}

(* Something is owed. *)
Debt(r) == r.releaseOwed \/ r.importOwed

(* The entry r of b against the open frame, the serials' reads, the planes *)
(* and the loans.                                                          *)
Sound(r, b, smp, rd, pl, ln) ==
  /\ r.accessOpen <=> b \in smp
  /\ r.inflightSerials = {sr \in Serials : b \in rd[sr]}
  /\ r.scanoutHeld <=> b \in pl
  /\ Debt(r) => r.currentSurfaceId = NoSurface /\ r.state # "Absent"
  /\ r.destroyed => r.importOwed /\ ~r.releaseOwed
  /\ b \in ln <=> (r.currentSurfaceId # NoSurface \/ r.releaseOwed)
  /\ r.state = "Absent" => r = AbsentRec

(* currentSurfaceId and currentBufferId are each other's inverse. *)
Linked(recs, surf) ==
  \A b \in BufferIds, s \in SurfaceIds :
    recs[b].currentSurfaceId = s <=> surf[s] = b

(* The fds held are the ones pending, each on one entry. *)
Conserved(recs, fds) ==
  /\ \A f \in Fds : f \in fds <=> \E b \in BufferIds : recs[b].pendingAcquireFence = f
  /\ \A b, c \in BufferIds :
       /\ recs[b].pendingAcquireFence \in Fds
       /\ recs[b].pendingAcquireFence = recs[c].pendingAcquireFence
       => b = c

(* The inductive invariant. *)
IInv ==
  /\ TypeOK
  /\ \A b \in BufferIds : /\ Sound(m.buffers[b], b, m.sampled, reads, plane, lent)
                          /\ Debt(m.buffers[b]) => FlushBlocked(m.buffers[b])
  /\ Linked(m.buffers, m.surfaces)
  /\ Conserved(m.buffers, held)
  /\ m.sampled # {} => m.frameOpen
  /\ m.pendingEndExports = {sr \in Serials : reads[sr] # {}}

-----------------------------------------------------------------------------
(* An entry as onCommit creates it is well-typed. *)
LEMMA NewRecType ==
  ASSUME NEW st \in {"Absent", "Importing"}, NEW s \in SurfaceIds \cup {NoSurface}
  PROVE  NewRec(st, s) \in BufferRec
  BY DEF NewRec, BufferRec, Fences

(* maybeFlush leaves a well-typed entry. *)
LEMMA FlushedRecType ==
  ASSUME NEW r \in BufferRec
  PROVE  FlushedRec(r) \in BufferRec
  <1>1. AbsentRec \in BufferRec
    BY NewRecType DEF AbsentRec
  <1>2. [r EXCEPT !.releaseOwed = FALSE] \in BufferRec
    BY DEF BufferRec
  <1> QED BY <1>1, <1>2 DEF FlushedRec

(* markSupersededOnSurface leaves a well-typed entry. *)
LEMMA SupersededRecType ==
  ASSUME NEW r \in BufferRec, NEW s \in SurfaceIds
  PROVE  SupersededRec(r, s) \in BufferRec
  BY DEF SupersededRec, BufferRec

(* maybeFlush emits well-typed intents. *)
LEMMA FlushIntentsType ==
  ASSUME NEW b \in BufferIds, NEW r \in BufferRec
  PROVE  FlushIntents(b, r) \subseteq Intents
  <1>1. DiscardIntents(b, r) \subseteq Intents
    BY DEF DiscardIntents, Intent, Intents, IntentKinds, Fences
  <1>2. /\ Intent("sendWlRelease", b, "none") \in Intents
        /\ Intent("releaseImport", b, "none") \in Intents
    BY DEF Intent, Intents, IntentKinds, Fences
  <1> QED BY <1>1, <1>2 DEF FlushIntents

(* step() maps machines to machines when its parts are well-typed. *)
LEMMA SteppedFacts ==
  ASSUME NEW n \in Machines, NEW recs \in [BufferIds -> BufferRec],
         NEW flush \in SUBSET BufferIds, NEW emitted \in SUBSET Intents
  PROVE  LET k == Stepped(n, recs, flush, emitted) IN
         /\ k \in Machines
         /\ k.buffers \in [BufferIds -> BufferRec]
         /\ k.out \in SUBSET Intents
         /\ k.buffers = FlushedBuffers(recs, flush)
         /\ k.surfaces = n.surfaces
         /\ k.frameOpen = n.frameOpen
         /\ k.sampled = n.sampled
         /\ k.pendingEndExports = n.pendingEndExports
         /\ k.out = emitted \cup FlushedOut(recs, flush)
  <1>1. FlushedBuffers(recs, flush) \in [BufferIds -> BufferRec]
    BY FlushedRecType DEF FlushedBuffers
  <1>2. emitted \cup FlushedOut(recs, flush) \in SUBSET Intents
    BY FlushIntentsType DEF FlushedOut
  <1> QED BY <1>1, <1>2 DEF Stepped, Machines

(* maybeFlush keeps an entry sound and pays every debt it can: what is     *)
(* still owed afterwards is blocked.                                       *)
LEMMA FlushSound ==
  ASSUME NEW r \in BufferRec, NEW b \in BufferIds,
         NEW smp, NEW rd, NEW pl, NEW ln, NEW X,
         Sound(r, b, smp, rd, pl, ln),
         b \in X <=> Releases(r)
  PROVE  /\ Sound(FlushedRec(r), b, smp, rd, pl, ln \ X)
         /\ Debt(FlushedRec(r)) => FlushBlocked(FlushedRec(r))
         /\ FlushedRec(r).currentSurfaceId = r.currentSurfaceId
  <1>1. CASE FlushBlocked(r)
    BY <1>1 DEF FlushedRec, Sound, Releases
  <1>2. CASE ~FlushBlocked(r) /\ r.importOwed
    <2>1. FlushedRec(r) = AbsentRec
      BY <1>2 DEF FlushedRec
    <2> QED BY <1>2, <2>1 DEF Sound, Releases, Debt, AbsentRec, NewRec, FlushBlocked, BufferRec
  <1>3. CASE ~FlushBlocked(r) /\ ~r.importOwed
    <2>1. FlushedRec(r) = [r EXCEPT !.releaseOwed = FALSE]
      BY <1>3 DEF FlushedRec
    <2>2. /\ FlushedRec(r).accessOpen = r.accessOpen
          /\ FlushedRec(r).inflightSerials = r.inflightSerials
          /\ FlushedRec(r).scanoutHeld = r.scanoutHeld
          /\ FlushedRec(r).currentSurfaceId = r.currentSurfaceId
          /\ FlushedRec(r).state = r.state
          /\ FlushedRec(r).destroyed = r.destroyed
          /\ FlushedRec(r).importOwed = r.importOwed
          /\ FlushedRec(r).releaseOwed = FALSE
      BY <2>1 DEF BufferRec
    <2> QED BY <1>3, <2>2 DEF Sound, Releases, Debt, FlushBlocked
  <1> QED BY <1>1, <1>2, <1>3

(* step() keeps the entries sound, and their links, with the loans reduced *)
(* by the releases it emits.                                               *)
LEMMA SteppedSound ==
  ASSUME NEW recs \in [BufferIds -> BufferRec], NEW flush \in SUBSET BufferIds,
         NEW smp, NEW rd, NEW pl, NEW ln, NEW surf,
         \A b \in BufferIds : Sound(recs[b], b, smp, rd, pl, ln),
         \A b \in BufferIds \ flush : Debt(recs[b]) => FlushBlocked(recs[b]),
         Linked(recs, surf)
  PROVE  LET bufs == FlushedBuffers(recs, flush)
             rest == ln \ Releasing(recs, flush)
         IN  /\ \A b \in BufferIds : /\ Sound(bufs[b], b, smp, rd, pl, rest)
                                     /\ Debt(bufs[b]) => FlushBlocked(bufs[b])
             /\ Linked(bufs, surf)
  <1> DEFINE bufs == FlushedBuffers(recs, flush)
             X == Releasing(recs, flush)
  <1>1. ASSUME NEW b \in BufferIds
        PROVE  /\ Sound(bufs[b], b, smp, rd, pl, ln \ X)
               /\ Debt(bufs[b]) => FlushBlocked(bufs[b])
               /\ bufs[b].currentSurfaceId = recs[b].currentSurfaceId
    <2>1. CASE b \in flush
      <3>1. /\ bufs[b] = FlushedRec(recs[b])
            /\ recs[b] \in BufferRec
            /\ Sound(recs[b], b, smp, rd, pl, ln)
            /\ b \in X <=> Releases(recs[b])
        BY <2>1 DEF FlushedBuffers, Releasing
      <3> HIDE DEF Sound
      <3>2. /\ Sound(FlushedRec(recs[b]), b, smp, rd, pl, ln \ X)
            /\ Debt(FlushedRec(recs[b])) => FlushBlocked(FlushedRec(recs[b]))
            /\ FlushedRec(recs[b]).currentSurfaceId = recs[b].currentSurfaceId
        BY <3>1, FlushSound, Zenon
      <3> QED BY <3>1, <3>2
    <2>2. CASE b \notin flush
      BY <2>2 DEF Sound, FlushedBuffers, Releasing
    <2> QED BY <2>1, <2>2
  <1> QED BY <1>1 DEF Linked

(* The releases of a step() are those of its flushes. *)
LEMMA SteppedReleases ==
  ASSUME NEW recs \in [BufferIds -> BufferRec], NEW flush \in SUBSET BufferIds,
         NEW emitted, \A i \in emitted : i.kind # "sendWlRelease",
         NEW k, k.out = emitted \cup FlushedOut(recs, flush)
  PROVE  ReleasedBy(k) = Releasing(recs, flush)
  <1>1. ASSUME NEW b \in BufferIds, NEW c \in BufferIds
        PROVE  Intent("sendWlRelease", b, "none") \in FlushIntents(c, recs[c])
                 <=> b = c /\ Releases(recs[c])
    BY DEF FlushIntents, DiscardIntents, Intent, Releases
  <1>2. \A b \in BufferIds : Intent("sendWlRelease", b, "none") \notin emitted
    BY DEF Intent
  <1> QED BY <1>1, <1>2 DEF ReleasedBy, Releasing, FlushedOut

(* step() conserves the fds: each one pending before is pending after or   *)
(* is handed out.                                                          *)
LEMMA SteppedFences ==
  ASSUME NEW recs \in [BufferIds -> BufferRec], NEW flush \in SUBSET BufferIds,
         NEW emitted, \A i \in emitted : i.fence \notin Fds,
         NEW k, k.out = emitted \cup FlushedOut(recs, flush),
         NEW fds, Conserved(recs, fds)
  PROVE  Conserved(FlushedBuffers(recs, flush), fds \ FencesOut(k))
  <1> DEFINE bufs == FlushedBuffers(recs, flush)
  <1> DEFINE torn == {b \in flush : ~FlushBlocked(recs[b]) /\ recs[b].importOwed}
  <1>1. ASSUME NEW f \in Fds
        PROVE  f \in FencesOut(k) <=> \E b \in torn : recs[b].pendingAcquireFence = f
    <2>1. ASSUME NEW b \in BufferIds, NEW i \in FlushIntents(b, recs[b]), i.fence = f
          PROVE  ~FlushBlocked(recs[b]) /\ recs[b].importOwed /\ recs[b].pendingAcquireFence = f
      BY <2>1, FdsAssumption DEF FlushIntents, DiscardIntents, Intent
    <2>2. ASSUME NEW b \in BufferIds, ~FlushBlocked(recs[b]), recs[b].importOwed,
                 recs[b].pendingAcquireFence = f
          PROVE  Intent("discardAcquireFence", b, f) \in FlushIntents(b, recs[b])
      BY <2>2 DEF FlushIntents, DiscardIntents
    <2>3. \A b \in BufferIds : Intent("discardAcquireFence", b, f).fence = f
      BY DEF Intent
    <2>4. ASSUME f \in FencesOut(k)
          PROVE  \E b \in torn : recs[b].pendingAcquireFence = f
      <3>1. PICK i \in k.out : i.fence = f
        BY <2>4 DEF FencesOut
      <3>2. PICK b \in flush : i \in FlushIntents(b, recs[b])
        BY <3>1 DEF FlushedOut
      <3> QED BY <2>1, <3>1, <3>2
    <2>5. ASSUME NEW b \in torn, recs[b].pendingAcquireFence = f
          PROVE  f \in FencesOut(k)
      BY <2>2, <2>3, <2>5 DEF FencesOut, FlushedOut
    <2> QED BY <2>4, <2>5
  <1>2. ASSUME NEW b \in BufferIds
        PROVE  bufs[b].pendingAcquireFence =
                 IF b \in torn THEN "none" ELSE recs[b].pendingAcquireFence
    BY DEF FlushedBuffers, FlushedRec, AbsentRec, NewRec, BufferRec
  <1>3. torn \subseteq BufferIds /\ "none" \notin Fds
    BY FdsAssumption
  <1> HIDE DEF torn, bufs
  <1>4. ASSUME NEW f \in Fds
        PROVE  f \in fds \ FencesOut(k)
                 <=> \E b \in BufferIds : bufs[b].pendingAcquireFence = f
    <2>1. ASSUME f \in fds, f \notin FencesOut(k)
          PROVE  \E b \in BufferIds : bufs[b].pendingAcquireFence = f
      <3>1. PICK b \in BufferIds : recs[b].pendingAcquireFence = f
        BY <2>1 DEF Conserved
      <3>2. b \notin torn
        BY <1>1, <2>1, <3>1
      <3> QED BY <1>2, <3>1, <3>2
    <2>2. ASSUME NEW b \in BufferIds, bufs[b].pendingAcquireFence = f
          PROVE  f \in fds /\ f \notin FencesOut(k)
      <3>1. b \notin torn /\ recs[b].pendingAcquireFence = f
        BY <1>2, <1>3, <2>2
      <3>2. f \in fds
        BY <3>1 DEF Conserved
      <3>3. ASSUME f \in FencesOut(k) PROVE FALSE
        <4>1. PICK c \in torn : recs[c].pendingAcquireFence = f
          BY <1>1, <3>3
        <4>2. c = b
          BY <1>3, <3>1, <4>1 DEF Conserved
        <4> QED BY <3>1, <4>2
      <3> QED BY <3>2, <3>3
    <2> QED BY <2>1, <2>2
  <1>5. ASSUME NEW b \in BufferIds, NEW c \in BufferIds,
               bufs[b].pendingAcquireFence \in Fds,
               bufs[b].pendingAcquireFence = bufs[c].pendingAcquireFence
        PROVE  b = c
    BY <1>2, <1>3, <1>5 DEF Conserved
  <1> QED BY <1>4, <1>5 DEF Conserved, bufs

-----------------------------------------------------------------------------
(* The empty machine satisfies the invariant. *)
LEMMA InitIInv == Init => IInv
  <1> SUFFICES ASSUME Init PROVE IInv
    OBVIOUS
  <1>1. AbsentRec \in BufferRec
    BY NewRecType DEF AbsentRec
  <1>2. InitMachine \in Machines
    BY <1>1 DEF InitMachine, Machines
  <1>3. TypeOK
    BY <1>2 DEF Init, TypeOK
  <1>4. \A b \in BufferIds : m.buffers[b] = AbsentRec
    BY DEF Init, InitMachine
  <1>5. \A b \in BufferIds : /\ Sound(m.buffers[b], b, m.sampled, reads, plane, lent)
                             /\ Debt(m.buffers[b]) => FlushBlocked(m.buffers[b])
    BY <1>4 DEF Init, InitMachine, Sound, Debt, FlushBlocked, AbsentRec, NewRec
  <1>6. Linked(m.buffers, m.surfaces)
    BY <1>4, NoSurfaceAssumption, NoBufferAssumption
       DEF Init, InitMachine, Linked, AbsentRec, NewRec
  <1>7. Conserved(m.buffers, held)
    BY <1>4, FdsAssumption DEF Init, Conserved, AbsentRec, NewRec
  <1>8. /\ m.sampled # {} => m.frameOpen
        /\ m.pendingEndExports = {sr \in Serials : reads[sr] # {}}
    BY DEF Init, InitMachine
  <1> QED BY <1>3, <1>5, <1>6, <1>7, <1>8 DEF IInv

(* A step that turns the entries into recs and flushes some of them. *)
LEMMA StepIInv ==
  ASSUME NEW recs \in [BufferIds -> BufferRec], NEW flush \in SUBSET BufferIds,
         NEW ln \in SUBSET BufferIds,
         m' \in Machines,
         m'.buffers = FlushedBuffers(recs, flush),
         lent' = ln \ Releasing(recs, flush),
         held' \subseteq Fds,
         reads' \in [Serials -> SUBSET BufferIds], plane' \subseteq BufferIds,
         \A b \in BufferIds : Sound(recs[b], b, m'.sampled, reads', plane', ln),
         \A b \in BufferIds \ flush : Debt(recs[b]) => FlushBlocked(recs[b]),
         Linked(recs, m'.surfaces),
         Conserved(FlushedBuffers(recs, flush), held'),
         m'.sampled # {} => m'.frameOpen,
         m'.pendingEndExports = {sr \in Serials : reads'[sr] # {}}
  PROVE  IInv'
  <1>1. TypeOK'
    BY DEF TypeOK
  <1>2. /\ \A b \in BufferIds : /\ Sound(m'.buffers[b], b, m'.sampled, reads', plane', lent')
                                /\ Debt(m'.buffers[b]) => FlushBlocked(m'.buffers[b])
        /\ Linked(m'.buffers, m'.surfaces)
    <2>1. LET bufs == FlushedBuffers(recs, flush)
              rest == ln \ Releasing(recs, flush)
          IN  /\ \A b \in BufferIds : /\ Sound(bufs[b], b, m'.sampled, reads', plane', rest)
                                      /\ Debt(bufs[b]) => FlushBlocked(bufs[b])
              /\ Linked(bufs, m'.surfaces)
      BY SteppedSound, Zenon
    <2> QED BY <2>1
  <1>3. Conserved(m'.buffers, held')
    OBVIOUS
  <1> QED BY <1>1, <1>2, <1>3 DEF IInv

(* What IInv says of the unprimed state, in the form the actions use. *)
LEMMA IInvFacts ==
  ASSUME IInv
  PROVE  /\ m \in Machines
         /\ m.buffers \in [BufferIds -> BufferRec]
         /\ m.surfaces \in [SurfaceIds -> BufferIds \cup {NoBuffer}]
         /\ m.sampled \subseteq BufferIds
         /\ m.pendingEndExports \subseteq Serials
         /\ lent \subseteq BufferIds
         /\ held \subseteq Fds
         /\ reads \in [Serials -> SUBSET BufferIds]
         /\ plane \subseteq BufferIds
         /\ \A c \in BufferIds : Sound(m.buffers[c], c, m.sampled, reads, plane, lent)
         /\ \A c \in BufferIds : Debt(m.buffers[c]) => FlushBlocked(m.buffers[c])
         /\ Linked(m.buffers, m.surfaces)
         /\ Conserved(m.buffers, held)
         /\ m.sampled # {} => m.frameOpen
         /\ m.pendingEndExports = {sr \in Serials : reads[sr] # {}}
  BY DEF IInv, TypeOK, Machines

(* Nothing is flushed. *)
LEMMA NoFlush ==
  ASSUME NEW recs \in [BufferIds -> BufferRec]
  PROVE  /\ FlushedBuffers(recs, {}) = recs
         /\ FlushedOut(recs, {}) = {}
         /\ Releasing(recs, {}) = {}
  BY DEF FlushedBuffers, FlushedOut, Releasing

(* The fields of a machine after Stepped. *)
LEMMA SteppedFields ==
  ASSUME NEW n \in Machines, NEW recs, NEW flush, NEW emitted
  PROVE  /\ Stepped(n, recs, flush, emitted).buffers = FlushedBuffers(recs, flush)
         /\ Stepped(n, recs, flush, emitted).surfaces = n.surfaces
         /\ Stepped(n, recs, flush, emitted).frameOpen = n.frameOpen
         /\ Stepped(n, recs, flush, emitted).sampled = n.sampled
         /\ Stepped(n, recs, flush, emitted).pendingEndExports = n.pendingEndExports
         /\ Stepped(n, recs, flush, emitted).out = emitted \cup FlushedOut(recs, flush)
  BY DEF Stepped, Machines

(* StepIInv for an action whose emitted intents carry no fd: the releases  *)
(* and the fds the executor gets are the ones the flushes give back.       *)
LEMMA DeliverIInv ==
  ASSUME NEW recs \in [BufferIds -> BufferRec], NEW flush \in SUBSET BufferIds,
         NEW ln \in SUBSET BufferIds, NEW fds \in SUBSET Fds, NEW emitted,
         \A i \in emitted : i.kind # "sendWlRelease",
         \A i \in emitted : i.fence \notin Fds,
         m' \in Machines,
         m'.buffers = FlushedBuffers(recs, flush),
         m'.out = emitted \cup FlushedOut(recs, flush),
         lent' = ln \ ReleasedBy(m'),
         held' = fds \ FencesOut(m'),
         reads' \in [Serials -> SUBSET BufferIds], plane' \subseteq BufferIds,
         \A b \in BufferIds : Sound(recs[b], b, m'.sampled, reads', plane', ln),
         \A b \in BufferIds \ flush : Debt(recs[b]) => FlushBlocked(recs[b]),
         Linked(recs, m'.surfaces),
         Conserved(recs, fds),
         m'.sampled # {} => m'.frameOpen,
         m'.pendingEndExports = {sr \in Serials : reads'[sr] # {}}
  PROVE  IInv'
  <1>1. ReleasedBy(m') = Releasing(recs, flush)
    BY SteppedReleases, Zenon
  <1>2. Conserved(FlushedBuffers(recs, flush), fds \ FencesOut(m'))
    BY SteppedFences, Zenon
  <1>3. held' \subseteq Fds
    OBVIOUS
  <1>4. lent' = ln \ Releasing(recs, flush)
    BY <1>1
  <1>5. Conserved(FlushedBuffers(recs, flush), held')
    BY <1>2
  <1> QED BY <1>3, <1>4, <1>5, StepIInv, Zenon

-----------------------------------------------------------------------------
(* commit: b is adopted, the buffer it replaces is superseded and flushed. *)
LEMMA CommitIInv ==
  ASSUME IInv, NEW s \in SurfaceIds, NEW b \in BufferIds, Commit(s, b)
  PROVE  IInv'
  <1> DEFINE prev == m.surfaces[s]
      imported == IF Known(m, b) THEN m.buffers[b] ELSE NewRec("Importing", s)
      emitted == IF Known(m, b) THEN {}
                 ELSE {Intent("importBuffer", b, "none")}
      superseded == {p \in BufferIds : p = prev /\ p # b /\ Known(m, p)}
      adopted == [imported EXCEPT !.currentSurfaceId = s,
                                  !.releaseOwed = FALSE,
                                  !.importOwed = FALSE]
      recs == [c \in BufferIds |->
                 IF c = b THEN IF prev = b THEN imported ELSE adopted
                 ELSE IF c \in superseded THEN SupersededRec(m.buffers[c], s)
                 ELSE m.buffers[c]]
  <1>1. /\ TypeOK /\ m \in Machines
        /\ m.buffers \in [BufferIds -> BufferRec]
        /\ m.surfaces \in [SurfaceIds -> BufferIds \cup {NoBuffer}]
    BY DEF IInv, TypeOK, Machines
  <1>2. /\ \A c \in BufferIds : Sound(m.buffers[c], c, m.sampled, reads, plane, lent)
        /\ \A c \in BufferIds : Debt(m.buffers[c]) => FlushBlocked(m.buffers[c])
        /\ \A c \in BufferIds, t \in SurfaceIds :
             m.buffers[c].currentSurfaceId = t <=> m.surfaces[t] = c
    BY DEF IInv, Linked
  <1>3. imported \in BufferRec /\ adopted \in BufferRec
    <2>1. imported \in BufferRec
      BY <1>1, NewRecType
    <2> QED BY <2>1 DEF BufferRec
  <1>4. \A c \in BufferIds : SupersededRec(m.buffers[c], s) \in BufferRec
    BY <1>1, SupersededRecType
  <1>5. recs \in [BufferIds -> BufferRec] /\ superseded \in SUBSET BufferIds
    BY <1>1, <1>3, <1>4
  <1>6. /\ emitted \in SUBSET Intents
        /\ \A i \in emitted : i.kind # "sendWlRelease" /\ i.fence \notin Fds
    BY FdsAssumption DEF Intent, Intents, IntentKinds, Fences
  <1> DEFINE k == Stepped(m, recs, superseded, emitted)
  <1>7. /\ m' = [k EXCEPT !.surfaces[s] = b]
        /\ lent' = (lent \ ReleasedBy(m')) \cup {b}
        /\ held' = held \ FencesOut(m')
        /\ reads' = reads /\ plane' = plane
        /\ ~m.buffers[b].destroyed
        /\ \A t \in SurfaceIds \ {s} : m.surfaces[t] # b
    BY DEF Commit, OnCommit
  <1> HIDE DEF recs, superseded, emitted
  <1>8. /\ k \in Machines
        /\ k.surfaces = m.surfaces /\ k.sampled = m.sampled /\ k.frameOpen = m.frameOpen
        /\ k.pendingEndExports = m.pendingEndExports
        /\ k.out = emitted \cup FlushedOut(recs, superseded)
    <2>1. k \in Machines
      BY <1>1, <1>5, <1>6, SteppedFacts
    <2> QED BY <1>1, <2>1 DEF Stepped, Machines
  <1> HIDE DEF k
  <1>9. /\ m' \in Machines
        /\ m'.buffers = k.buffers /\ m'.out = k.out
        /\ m'.surfaces = [m.surfaces EXCEPT ![s] = b]
        /\ m'.sampled = m.sampled /\ m'.frameOpen = m.frameOpen
        /\ m'.pendingEndExports = m.pendingEndExports
    BY <1>1, <1>7, <1>8 DEF Machines
  <1>10. lent' = (lent \cup {b}) \ Releasing(recs, superseded)
    <2>1. ReleasedBy(m') = Releasing(recs, superseded)
      <3>1. m'.out = emitted \cup FlushedOut(recs, superseded)
        BY <1>8, <1>9
      <3>2. \A i \in emitted : i.kind # "sendWlRelease"
        BY <1>6
      <3> QED BY <1>5, <3>1, <3>2, SteppedReleases
    <2>2. b \notin Releasing(recs, superseded)
      BY DEF Releasing, superseded
    <2> QED BY <1>7, <2>1, <2>2
  <1>11. ASSUME NEW c \in BufferIds
         PROVE  /\ Sound(recs[c], c, m.sampled, reads, plane, lent \cup {b})
                /\ c \notin superseded => (Debt(recs[c]) => FlushBlocked(recs[c]))
                /\ \A t \in SurfaceIds :
                     recs[c].currentSurfaceId = t <=> [m.surfaces EXCEPT ![s] = b][t] = c
                /\ recs[c].pendingAcquireFence = m.buffers[c].pendingAcquireFence
    <2>0. /\ Sound(m.buffers[c], c, m.sampled, reads, plane, lent)
          /\ Debt(m.buffers[c]) => FlushBlocked(m.buffers[c])
          /\ m.buffers[c] \in BufferRec
      BY <1>1, <1>2
    <2>1. CASE c = b /\ prev = b
      <3>1. m.buffers[b].currentSurfaceId = s
        BY <1>2, <2>1
      <3>2. Known(m, b)
        BY <2>0, <2>1, <3>1, NoSurfaceAssumption DEF Sound, Known, AbsentRec, NewRec
      <3>3. recs[c] = m.buffers[b]
        BY <2>1, <3>2 DEF recs
      <3> QED BY <1>1, <1>2, <2>0, <2>1, <3>1, <3>3, NoSurfaceAssumption DEF Sound
    <2>2. CASE c = b /\ prev # b
      <3>1. m.buffers[b].currentSurfaceId = NoSurface
        BY <1>1, <1>2, <1>7, <2>0, <2>2 DEF BufferRec
      <3>2. recs[c] = adopted
        BY <2>2 DEF recs
      <3>3. /\ adopted.accessOpen = m.buffers[b].accessOpen
            /\ adopted.inflightSerials = m.buffers[b].inflightSerials
            /\ adopted.scanoutHeld = m.buffers[b].scanoutHeld
            /\ adopted.destroyed = FALSE
            /\ adopted.releaseOwed = FALSE
            /\ adopted.importOwed = FALSE
            /\ adopted.currentSurfaceId = s
            /\ adopted.pendingAcquireFence = m.buffers[b].pendingAcquireFence
            /\ adopted.state # "Absent"
        <4>1. CASE Known(m, b)
          BY <1>1, <1>7, <4>1 DEF BufferRec, Known
        <4>2. CASE ~Known(m, b)
          <5>1. m.buffers[b] = AbsentRec
            BY <2>0, <2>2, <4>2 DEF Sound, Known
          <5> QED BY <4>2, <5>1 DEF AbsentRec, NewRec
        <4> QED BY <4>1, <4>2
      <3>4. Sound(adopted, b, m.sampled, reads, plane, lent \cup {b})
        BY <2>0, <2>2, <3>3, NoSurfaceAssumption DEF Sound, Debt
      <3> HIDE DEF adopted
      <3> QED BY <1>1, <1>7, <2>2, <3>2, <3>3, <3>4 DEF Debt
    <2>3. CASE c \in superseded
      <3>1. c = prev /\ c # b /\ Known(m, c)
        BY <2>3 DEF superseded
      <3>2. m.buffers[c].currentSurfaceId = s
        BY <1>2, <3>1
      <3>3. ~m.buffers[c].destroyed /\ ~Debt(m.buffers[c])
        BY <2>0, <3>2, NoSurfaceAssumption DEF Sound, Debt
      <3>4. recs[c] = SupersededRec(m.buffers[c], s)
        BY <2>3, <3>1 DEF recs
      <3>5. /\ recs[c].accessOpen = m.buffers[c].accessOpen
            /\ recs[c].inflightSerials = m.buffers[c].inflightSerials
            /\ recs[c].scanoutHeld = m.buffers[c].scanoutHeld
            /\ recs[c].destroyed = FALSE
            /\ recs[c].releaseOwed = TRUE
            /\ recs[c].importOwed = FALSE
            /\ recs[c].currentSurfaceId = NoSurface
            /\ recs[c].pendingAcquireFence = m.buffers[c].pendingAcquireFence
            /\ recs[c].state = m.buffers[c].state
        BY <2>0, <3>2, <3>3, <3>4 DEF SupersededRec, BufferRec, Debt
      <3>6. Sound(recs[c], c, m.sampled, reads, plane, lent \cup {b})
        BY <2>0, <3>1, <3>2, <3>5, NoSurfaceAssumption DEF Sound, Debt, Known
      <3>7. \A t \in SurfaceIds : [m.surfaces EXCEPT ![s] = b][t] # c
        BY <1>1, <1>2, <3>1, <3>2
      <3> QED BY <2>3, <3>5, <3>6, <3>7, NoSurfaceAssumption
    <2>4. CASE c # b /\ c \notin superseded
      <3>1. recs[c] = m.buffers[c]
        BY <2>4 DEF recs
      <3>2. Sound(recs[c], c, m.sampled, reads, plane, lent \cup {b})
        BY <2>0, <2>4, <3>1 DEF Sound
      <3>3. m.surfaces[s] # c
        <4>1. CASE Known(m, c)
          BY <2>4, <4>1 DEF superseded
        <4>2. CASE ~Known(m, c)
          BY <1>2, <2>0, <4>2, NoSurfaceAssumption DEF Sound, Known, AbsentRec, NewRec
        <4> QED BY <4>1, <4>2
      <3> QED BY <1>1, <1>2, <2>0, <2>4, <3>1, <3>2, <3>3
    <2> QED BY <2>1, <2>2, <2>3, <2>4
  <1>12. Linked(recs, m'.surfaces)
    BY <1>9, <1>11 DEF Linked
  <1>13. Conserved(FlushedBuffers(recs, superseded), held')
    <2>1. Conserved(recs, held)
      BY <1>11 DEF IInv, Conserved
    <2>2. /\ \A i \in emitted : i.fence \notin Fds
          /\ m'.out = emitted \cup FlushedOut(recs, superseded)
      BY <1>6, <1>8, <1>9
    <2>3. held' = held \ FencesOut(m')
      BY <1>7
    <2> QED BY <1>5, <2>1, <2>2, <2>3, SteppedFences, Zenon
  <1>14. \A c \in BufferIds : Sound(recs[c], c, m'.sampled, reads', plane', lent \cup {b})
    <2>1. m'.sampled = m.sampled /\ reads' = reads /\ plane' = plane
      BY <1>7, <1>9
    <2> QED BY <1>11, <2>1
  <1>15. \A c \in BufferIds \ superseded : Debt(recs[c]) => FlushBlocked(recs[c])
    BY <1>11
  <1>16. /\ m'.sampled # {} => m'.frameOpen
         /\ m'.pendingEndExports = {sr \in Serials : reads'[sr] # {}}
         /\ held' \subseteq Fds
         /\ reads' \in [Serials -> SUBSET BufferIds] /\ plane' \subseteq BufferIds
         /\ lent \cup {b} \in SUBSET BufferIds
    BY <1>7, <1>9, IInvFacts
  <1>17. m'.buffers = FlushedBuffers(recs, superseded)
    BY <1>1, <1>9, SteppedFields DEF k
  <1> QED BY <1>5, <1>9, <1>10, <1>12, <1>13, <1>14, <1>15, <1>16, <1>17, StepIInv

-----------------------------------------------------------------------------
(* The machine changes only its intents and, when no entry is pinned, its  *)
(* frame: frameStart and every handler that returns early.                 *)
LEMMA QuietIInv ==
  ASSUME IInv,
         m' \in Machines,
         m'.buffers = m.buffers, m'.surfaces = m.surfaces,
         m'.sampled = m.sampled, m'.pendingEndExports = m.pendingEndExports,
         m.frameOpen => m'.frameOpen,
         lent' = lent, held' = held, reads' = reads, plane' = plane
  PROVE  IInv'
  <1>1. TypeOK'
    BY DEF IInv, TypeOK
  <1> QED BY <1>1 DEF IInv

(* A step without intents releases nothing and hands out no fd. *)
LEMMA QuietOut ==
  ASSUME NEW k, k.out = {}
  PROVE  ReleasedBy(k) = {} /\ FencesOut(k) = {}
  BY DEF ReleasedBy, FencesOut

(* A handler that returns early preserves the invariant. *)
LEMMA IgnoredIInv ==
  ASSUME IInv, m' = Ignored(m),
         lent' = lent \ ReleasedBy(m'), held' = held \ FencesOut(m'),
         UNCHANGED <<reads, plane>>
  PROVE  IInv'
  <1>1. /\ m' \in Machines /\ m'.out = {}
        /\ m'.buffers = m.buffers /\ m'.surfaces = m.surfaces
        /\ m'.sampled = m.sampled /\ m'.pendingEndExports = m.pendingEndExports
        /\ m'.frameOpen = m.frameOpen
    BY IInvFacts DEF Ignored, Machines
  <1>2. lent' = lent /\ held' = held
    BY <1>1, QuietOut
  <1> QED BY <1>1, <1>2, QuietIInv

(* frameStart opens an empty frame. *)
LEMMA FrameStartIInv ==
  ASSUME IInv, FrameStart
  PROVE  IInv'
  <1>1. m.sampled = {} /\ m \in Machines
    BY IInvFacts DEF FrameStart
  <1>2. m' = [Ignored(m) EXCEPT !.frameOpen = TRUE, !.sampled = {}]
    BY DEF FrameStart, Delivers, OnFrameStart
  <1>3. /\ m' \in Machines /\ m'.out = {}
        /\ m'.buffers = m.buffers /\ m'.surfaces = m.surfaces
        /\ m'.sampled = {} /\ m'.pendingEndExports = m.pendingEndExports
        /\ m'.frameOpen = TRUE
    BY <1>1, <1>2 DEF Ignored, Machines
  <1>4. lent' = lent /\ held' = held /\ reads' = reads /\ plane' = plane
    BY <1>3, QuietOut DEF FrameStart, Delivers
  <1> QED BY <1>1, <1>3, <1>4, QuietIInv

-----------------------------------------------------------------------------
(* Only b's entry changes, keeping its surface and its fence, and it is    *)
(* perhaps flushed.                                                        *)
LEMMA OneRecStep ==
  ASSUME IInv, NEW b \in BufferIds,
         NEW recs \in [BufferIds -> BufferRec],
         \A c \in BufferIds \ {b} : recs[c] = m.buffers[c],
         recs[b].currentSurfaceId = m.buffers[b].currentSurfaceId,
         recs[b].pendingAcquireFence = m.buffers[b].pendingAcquireFence,
         NEW flush \in SUBSET {b}, NEW emitted, emitted = {},
         m' \in Machines,
         m'.buffers = FlushedBuffers(recs, flush),
         m'.out = emitted \cup FlushedOut(recs, flush),
         m'.surfaces = m.surfaces, m'.sampled = m.sampled,
         m'.frameOpen = m.frameOpen, m'.pendingEndExports = m.pendingEndExports,
         lent' = lent \ ReleasedBy(m'), held' = held \ FencesOut(m'),
         reads' = reads, plane' \subseteq BufferIds,
         \A c \in BufferIds \ {b} : c \in plane' <=> c \in plane,
         Sound(recs[b], b, m.sampled, reads, plane', lent),
         b \in flush \/ (Debt(recs[b]) => FlushBlocked(recs[b]))
  PROVE  IInv'
  <1>1. \A c \in BufferIds :
          /\ recs[c].currentSurfaceId = m.buffers[c].currentSurfaceId
          /\ recs[c].pendingAcquireFence = m.buffers[c].pendingAcquireFence
    OBVIOUS
  <1>2. Linked(recs, m'.surfaces)
    BY <1>1, IInvFacts DEF Linked
  <1>3. Conserved(recs, held)
    BY <1>1, IInvFacts DEF Conserved
  <1>4. \A c \in BufferIds : Sound(recs[c], c, m'.sampled, reads', plane', lent)
    <2>1. ASSUME NEW c \in BufferIds, c # b
          PROVE  Sound(recs[c], c, m.sampled, reads, plane', lent)
      BY <2>1, IInvFacts DEF Sound
    <2> QED BY <2>1
  <1>5. \A c \in BufferIds \ flush : Debt(recs[c]) => FlushBlocked(recs[c])
    BY IInvFacts
  <1>6. held \in SUBSET Fds /\ lent \in SUBSET BufferIds
    BY IInvFacts
  <1>7. reads' \in [Serials -> SUBSET BufferIds]
    BY IInvFacts
  <1>8. m'.sampled # {} => m'.frameOpen
    BY IInvFacts
  <1>9. m'.pendingEndExports = {sr \in Serials : reads'[sr] # {}}
    BY IInvFacts
  <1>10. flush \in SUBSET BufferIds
    OBVIOUS
  <1>11. /\ \A i \in emitted : i.kind # "sendWlRelease"
         /\ \A i \in emitted : i.fence \notin Fds
    OBVIOUS
  <1> QED BY <1>2, <1>3, <1>4, <1>5, <1>6, <1>7, <1>8, <1>9, <1>10, <1>11, DeliverIInv, ZenonT(30)

(* endAccessFenceExported only records the chain fence. *)
LEMMA EndAccessFenceExportedIInv ==
  ASSUME IInv, NEW b \in BufferIds, EndAccessFenceExported(b)
  PROVE  IInv'
  <1> DEFINE r == [m.buffers[b] EXCEPT !.chainFence = TRUE]
             recs == [m.buffers EXCEPT ![b] = r]
             none == {}
             flush == {}
  <1>1. /\ m \in Machines /\ m.buffers[b] \in BufferRec
        /\ Sound(m.buffers[b], b, m.sampled, reads, plane, lent)
        /\ Debt(m.buffers[b]) => FlushBlocked(m.buffers[b])
        /\ plane \subseteq BufferIds
        /\ m.buffers \in [BufferIds -> BufferRec]
    BY IInvFacts
  <1>2. Known(m, b)
    BY <1>1 DEF EndAccessFenceExported, Known, Sound, AbsentRec, NewRec
  <1>3. /\ r.state = m.buffers[b].state
        /\ r.currentSurfaceId = m.buffers[b].currentSurfaceId
        /\ r.pendingAcquireFence = m.buffers[b].pendingAcquireFence
        /\ r.accessOpen = m.buffers[b].accessOpen
        /\ r.inflightSerials = m.buffers[b].inflightSerials
        /\ r.scanoutHeld = m.buffers[b].scanoutHeld
        /\ r.releaseOwed = m.buffers[b].releaseOwed
        /\ r.importOwed = m.buffers[b].importOwed
        /\ r.destroyed = m.buffers[b].destroyed
        /\ r \in BufferRec
    BY <1>1 DEF BufferRec
  <1>4. /\ m' = Stepped(m, recs, flush, none)
        /\ lent' = lent \ ReleasedBy(m') /\ held' = held \ FencesOut(m')
        /\ reads' = reads /\ plane' = plane
    BY <1>2 DEF EndAccessFenceExported, Delivers, OnEndAccessFenceExported, ExportedRec
  <1>5. /\ none = {} /\ none \in SUBSET Intents
        /\ flush \in SUBSET {b} /\ flush \in SUBSET BufferIds
    OBVIOUS
  <1>6. Sound(r, b, m.sampled, reads, plane', lent) /\ (Debt(r) => FlushBlocked(r))
    BY <1>1, <1>2, <1>3, <1>4 DEF Sound, Debt, FlushBlocked, Known
  <1> HIDE DEF r
  <1>7. /\ recs \in [BufferIds -> BufferRec]
        /\ recs[b] = r
        /\ \A c \in BufferIds \ {b} : recs[c] = m.buffers[c]
    BY <1>1, <1>3
  <1> HIDE DEF recs, none, flush
  <1>8. /\ m' \in Machines
        /\ m'.buffers = FlushedBuffers(recs, flush)
        /\ m'.out = none \cup FlushedOut(recs, flush)
        /\ m'.surfaces = m.surfaces /\ m'.sampled = m.sampled
        /\ m'.frameOpen = m.frameOpen /\ m'.pendingEndExports = m.pendingEndExports
    <2>1. Stepped(m, recs, flush, none) \in Machines
      BY <1>1, <1>5, <1>7, SteppedFacts
    <2> QED BY <1>1, <1>4, <2>1 DEF Stepped, Machines
  <1>9. /\ plane' \subseteq BufferIds
        /\ \A c \in BufferIds \ {b} : c \in plane' <=> c \in plane
    BY <1>1, <1>4
  <1> QED BY <1>3, <1>4, <1>5, <1>6, <1>7, <1>8, <1>9, OneRecStep

(* importCompleted unblocks the debts of an entry that was Importing. *)
LEMMA ImportCompletedIInv ==
  ASSUME IInv, NEW b \in BufferIds, ImportCompleted(b)
  PROVE  IInv'
  <1> DEFINE r == [m.buffers[b] EXCEPT !.state = "Imported"]
             recs == [m.buffers EXCEPT ![b] = r]
             none == {}
             flush == {b}
  <1>1. /\ m \in Machines /\ m.buffers[b] \in BufferRec
        /\ Sound(m.buffers[b], b, m.sampled, reads, plane, lent)
        /\ Debt(m.buffers[b]) => FlushBlocked(m.buffers[b])
        /\ plane \subseteq BufferIds
        /\ m.buffers \in [BufferIds -> BufferRec]
    BY IInvFacts
  <1>2. m.buffers[b].state = "Importing"
    BY <1>1 DEF ImportCompleted, Known
  <1>3. /\ r.state = "Imported"
        /\ r.currentSurfaceId = m.buffers[b].currentSurfaceId
        /\ r.pendingAcquireFence = m.buffers[b].pendingAcquireFence
        /\ r.accessOpen = m.buffers[b].accessOpen
        /\ r.inflightSerials = m.buffers[b].inflightSerials
        /\ r.scanoutHeld = m.buffers[b].scanoutHeld
        /\ r.releaseOwed = m.buffers[b].releaseOwed
        /\ r.importOwed = m.buffers[b].importOwed
        /\ r.destroyed = m.buffers[b].destroyed
        /\ r \in BufferRec
    BY <1>1 DEF BufferRec
  <1>4. /\ m' = Stepped(m, recs, flush, none)
        /\ lent' = lent \ ReleasedBy(m') /\ held' = held \ FencesOut(m')
        /\ reads' = reads /\ plane' = plane
    BY <1>2 DEF ImportCompleted, Delivers, OnImportCompleted
  <1>5. /\ none = {} /\ none \in SUBSET Intents
        /\ flush \in SUBSET {b} /\ flush \in SUBSET BufferIds
    OBVIOUS
  <1>6. Sound(r, b, m.sampled, reads, plane', lent) /\ b \in flush
    BY <1>1, <1>2, <1>3, <1>4 DEF Sound, Debt, FlushBlocked, Known
  <1> HIDE DEF r
  <1>7. /\ recs \in [BufferIds -> BufferRec]
        /\ recs[b] = r
        /\ \A c \in BufferIds \ {b} : recs[c] = m.buffers[c]
    BY <1>1, <1>3
  <1> HIDE DEF recs, none, flush
  <1>8. /\ m' \in Machines
        /\ m'.buffers = FlushedBuffers(recs, flush)
        /\ m'.out = none \cup FlushedOut(recs, flush)
        /\ m'.surfaces = m.surfaces /\ m'.sampled = m.sampled
        /\ m'.frameOpen = m.frameOpen /\ m'.pendingEndExports = m.pendingEndExports
    <2>1. Stepped(m, recs, flush, none) \in Machines
      BY <1>1, <1>5, <1>7, SteppedFacts
    <2> QED BY <1>1, <1>4, <2>1 DEF Stepped, Machines
  <1>9. /\ plane' \subseteq BufferIds
        /\ \A c \in BufferIds \ {b} : c \in plane' <=> c \in plane
    BY <1>1, <1>4
  <1> QED BY <1>3, <1>4, <1>5, <1>6, <1>7, <1>8, <1>9, OneRecStep

(* accessFailed poisons an entry and unblocks its debts. *)
LEMMA ImportFailedIInv ==
  ASSUME IInv, NEW b \in BufferIds, ImportFailed(b)
  PROVE  IInv'
  <1> DEFINE r == [m.buffers[b] EXCEPT !.state = "Poisoned"]
             recs == [m.buffers EXCEPT ![b] = r]
             none == {}
             flush == {b}
  <1>1. /\ m \in Machines /\ m.buffers[b] \in BufferRec
        /\ Sound(m.buffers[b], b, m.sampled, reads, plane, lent)
        /\ Debt(m.buffers[b]) => FlushBlocked(m.buffers[b])
        /\ plane \subseteq BufferIds
        /\ m.buffers \in [BufferIds -> BufferRec]
    BY IInvFacts
  <1>2. m.buffers[b].state = "Importing" /\ Known(m, b)
    BY <1>1 DEF ImportFailed, Known
  <1>3. /\ r.state = "Poisoned"
        /\ r.currentSurfaceId = m.buffers[b].currentSurfaceId
        /\ r.pendingAcquireFence = m.buffers[b].pendingAcquireFence
        /\ r.accessOpen = m.buffers[b].accessOpen
        /\ r.inflightSerials = m.buffers[b].inflightSerials
        /\ r.scanoutHeld = m.buffers[b].scanoutHeld
        /\ r.releaseOwed = m.buffers[b].releaseOwed
        /\ r.importOwed = m.buffers[b].importOwed
        /\ r.destroyed = m.buffers[b].destroyed
        /\ r \in BufferRec
    BY <1>1 DEF BufferRec
  <1>4. /\ m' = Stepped(m, recs, flush, none)
        /\ lent' = lent \ ReleasedBy(m') /\ held' = held \ FencesOut(m')
        /\ reads' = reads /\ plane' = plane
    BY <1>2 DEF ImportFailed, Delivers, OnAccessFailed
  <1>5. /\ none = {} /\ none \in SUBSET Intents
        /\ flush \in SUBSET {b} /\ flush \in SUBSET BufferIds
    OBVIOUS
  <1>6. Sound(r, b, m.sampled, reads, plane', lent) /\ b \in flush
    BY <1>1, <1>2, <1>3, <1>4 DEF Sound, Debt, FlushBlocked, Known
  <1> HIDE DEF r
  <1>7. /\ recs \in [BufferIds -> BufferRec]
        /\ recs[b] = r
        /\ \A c \in BufferIds \ {b} : recs[c] = m.buffers[c]
    BY <1>1, <1>3
  <1> HIDE DEF recs, none, flush
  <1>8. /\ m' \in Machines
        /\ m'.buffers = FlushedBuffers(recs, flush)
        /\ m'.out = none \cup FlushedOut(recs, flush)
        /\ m'.surfaces = m.surfaces /\ m'.sampled = m.sampled
        /\ m'.frameOpen = m.frameOpen /\ m'.pendingEndExports = m.pendingEndExports
    <2>1. Stepped(m, recs, flush, none) \in Machines
      BY <1>1, <1>5, <1>7, SteppedFacts
    <2> QED BY <1>1, <1>4, <2>1 DEF Stepped, Machines
  <1>9. /\ plane' \subseteq BufferIds
        /\ \A c \in BufferIds \ {b} : c \in plane' <=> c \in plane
    BY <1>1, <1>4
  <1> QED BY <1>3, <1>4, <1>5, <1>6, <1>7, <1>8, <1>9, OneRecStep, SMTT(60)

(* scanoutRetired ends the plane's read and flushes. *)
LEMMA ScanoutRetiredIInv ==
  ASSUME IInv, NEW b \in BufferIds, ScanoutRetired(b)
  PROVE  IInv'
  <1> DEFINE r == [m.buffers[b] EXCEPT !.scanoutHeld = FALSE]
             recs == [m.buffers EXCEPT ![b] = r]
             none == {}
             flush == {b}
  <1>1. /\ m \in Machines /\ m.buffers[b] \in BufferRec
        /\ Sound(m.buffers[b], b, m.sampled, reads, plane, lent)
        /\ Debt(m.buffers[b]) => FlushBlocked(m.buffers[b])
        /\ plane \subseteq BufferIds
        /\ m.buffers \in [BufferIds -> BufferRec]
    BY IInvFacts
  <1>2. m.buffers[b].scanoutHeld /\ Known(m, b)
    BY <1>1 DEF ScanoutRetired, Known, Sound, AbsentRec, NewRec
  <1>3. /\ r.state = m.buffers[b].state
        /\ r.currentSurfaceId = m.buffers[b].currentSurfaceId
        /\ r.pendingAcquireFence = m.buffers[b].pendingAcquireFence
        /\ r.accessOpen = m.buffers[b].accessOpen
        /\ r.inflightSerials = m.buffers[b].inflightSerials
        /\ r.scanoutHeld = FALSE
        /\ r.releaseOwed = m.buffers[b].releaseOwed
        /\ r.importOwed = m.buffers[b].importOwed
        /\ r.destroyed = m.buffers[b].destroyed
        /\ r \in BufferRec
    BY <1>1 DEF BufferRec
  <1>4. /\ m' = Stepped(m, recs, flush, none)
        /\ lent' = lent \ ReleasedBy(m') /\ held' = held \ FencesOut(m')
        /\ reads' = reads /\ plane' = plane \ {b}
    BY <1>2 DEF ScanoutRetired, Delivers, OnScanoutRetired
  <1>5. /\ none = {} /\ none \in SUBSET Intents
        /\ flush \in SUBSET {b} /\ flush \in SUBSET BufferIds
    OBVIOUS
  <1>6. Sound(r, b, m.sampled, reads, plane', lent) /\ b \in flush
    BY <1>1, <1>2, <1>3, <1>4 DEF Sound, Debt, FlushBlocked, Known
  <1> HIDE DEF r
  <1>7. /\ recs \in [BufferIds -> BufferRec]
        /\ recs[b] = r
        /\ \A c \in BufferIds \ {b} : recs[c] = m.buffers[c]
    BY <1>1, <1>3
  <1> HIDE DEF recs, none, flush
  <1>8. /\ m' \in Machines
        /\ m'.buffers = FlushedBuffers(recs, flush)
        /\ m'.out = none \cup FlushedOut(recs, flush)
        /\ m'.surfaces = m.surfaces /\ m'.sampled = m.sampled
        /\ m'.frameOpen = m.frameOpen /\ m'.pendingEndExports = m.pendingEndExports
    <2>1. Stepped(m, recs, flush, none) \in Machines
      BY <1>1, <1>5, <1>7, SteppedFacts
    <2> QED BY <1>1, <1>4, <2>1 DEF Stepped, Machines
  <1>9. /\ plane' \subseteq BufferIds
        /\ \A c \in BufferIds \ {b} : c \in plane' <=> c \in plane
    BY <1>1, <1>4
  <1>10. lent' = lent \ ReleasedBy(m') /\ held' = held \ FencesOut(m') /\ reads' = reads
    BY <1>4
  <1>11. /\ recs[b].currentSurfaceId = m.buffers[b].currentSurfaceId
         /\ recs[b].pendingAcquireFence = m.buffers[b].pendingAcquireFence
         /\ Sound(recs[b], b, m.sampled, reads, plane', lent)
    BY <1>3, <1>6, <1>7
  <1> QED BY <1>5, <1>6, <1>7, <1>8, <1>9, <1>10, <1>11, OneRecStep, SMTT(60)

-----------------------------------------------------------------------------
(* The fence of one entry leaves the machine. *)
LEMMA FenceTaken ==
  ASSUME IInv, NEW b \in BufferIds, NEW recs,
         recs[b].pendingAcquireFence \notin Fds,
         \A c \in BufferIds \ {b} :
            recs[c].pendingAcquireFence = m.buffers[c].pendingAcquireFence,
         NEW fds, fds = held \ {m.buffers[b].pendingAcquireFence}
  PROVE  Conserved(recs, fds)
  <1>1. Conserved(m.buffers, held)
    BY IInvFacts
  <1>2. ASSUME NEW f \in Fds
        PROVE  f \in fds <=> \E c \in BufferIds : recs[c].pendingAcquireFence = f
    <2>1. ASSUME f \in fds
          PROVE  \E c \in BufferIds : recs[c].pendingAcquireFence = f
      <3>1. PICK c \in BufferIds : m.buffers[c].pendingAcquireFence = f
        BY <1>1, <2>1 DEF Conserved
      <3> QED BY <2>1, <3>1
    <2>2. ASSUME NEW c \in BufferIds, recs[c].pendingAcquireFence = f
          PROVE  f \in fds
      <3>1. c # b /\ m.buffers[c].pendingAcquireFence = f
        BY <2>2
      <3> QED BY <1>1, <3>1 DEF Conserved
    <2> QED BY <2>1, <2>2
  <1>3. ASSUME NEW c \in BufferIds, NEW d \in BufferIds,
               recs[c].pendingAcquireFence \in Fds,
               recs[c].pendingAcquireFence = recs[d].pendingAcquireFence
        PROVE  c = d
    BY <1>1, <1>3 DEF Conserved
  <1> QED BY <1>2, <1>3 DEF Conserved

(* Only b's entry changes, keeping its surface; nothing is flushed.        *)
LEMMA TouchIInv ==
  ASSUME IInv, NEW b \in BufferIds,
         NEW recs \in [BufferIds -> BufferRec],
         \A c \in BufferIds \ {b} : recs[c] = m.buffers[c],
         recs[b].currentSurfaceId = m.buffers[b].currentSurfaceId,
         Conserved(recs, held'), held' \subseteq Fds,
         m' \in Machines,
         m'.buffers = recs, m'.surfaces = m.surfaces,
         m'.sampled \ {b} = m.sampled \ {b},
         m'.frameOpen = m.frameOpen, m'.sampled # {} => m'.frameOpen,
         m'.pendingEndExports = m.pendingEndExports,
         lent' = lent, reads' = reads, plane' \subseteq BufferIds,
         plane' \ {b} = plane \ {b},
         Sound(recs[b], b, m'.sampled, reads, plane', lent),
         Debt(recs[b]) => FlushBlocked(recs[b])
  PROVE  IInv'
  <1>1. \A c \in BufferIds :
          recs[c].currentSurfaceId = m.buffers[c].currentSurfaceId
    OBVIOUS
  <1>2. Linked(recs, m'.surfaces)
    BY <1>1, IInvFacts DEF Linked
  <1>3. \A c \in BufferIds : Sound(recs[c], c, m'.sampled, reads', plane', lent')
    <2>1. ASSUME NEW c \in BufferIds, c # b
          PROVE  Sound(recs[c], c, m'.sampled, reads, plane', lent)
      <3>1. Sound(m.buffers[c], c, m.sampled, reads, plane, lent) /\ recs[c] = m.buffers[c]
        BY <2>1, IInvFacts
      <3>2. (c \in m'.sampled <=> c \in m.sampled) /\ (c \in plane' <=> c \in plane)
        BY <2>1
      <3> QED BY <3>1, <3>2 DEF Sound
    <2> QED BY <2>1
  <1>4. \A c \in BufferIds : Debt(recs[c]) => FlushBlocked(recs[c])
    BY IInvFacts
  <1>5. TypeOK'
    BY IInvFacts DEF TypeOK
  <1>6. m'.pendingEndExports = {sr \in Serials : reads'[sr] # {}}
    BY IInvFacts
  <1> QED BY <1>2, <1>3, <1>4, <1>5, <1>6 DEF IInv

(* acquireFenceAvailable arms a fence and hands back the one it replaces. *)
LEMMA AcquireFenceAvailableIInv ==
  ASSUME IInv, NEW b \in BufferIds, NEW f \in Fds \cup {"none"}, AcquireFenceAvailable(b, f)
  PROVE  IInv'
  <1> DEFINE armed == IF f = "none" THEN "implicit" ELSE f
             r == [m.buffers[b] EXCEPT !.pendingAcquireFence = armed]
             recs == [m.buffers EXCEPT ![b] = r]
             emitted == DiscardIntents(b, m.buffers[b])
             flush == {}
  <1>1. /\ m \in Machines /\ m.buffers[b] \in BufferRec
        /\ Sound(m.buffers[b], b, m.sampled, reads, plane, lent)
        /\ Debt(m.buffers[b]) => FlushBlocked(m.buffers[b])
        /\ plane \subseteq BufferIds
        /\ m.buffers \in [BufferIds -> BufferRec]
        /\ held \subseteq Fds
        /\ m.sampled # {} => m.frameOpen
    BY IInvFacts
  <1>2. Known(m, b) /\ f \notin held
    BY <1>1 DEF AcquireFenceAvailable, Known, Sound, AbsentRec, NewRec
  <1>3. armed \in Fences /\ (armed \in Fds => armed = f) /\ (f \in Fds => armed = f)
    BY FdsAssumption DEF Fences
  <1>4. /\ m' = Stepped(m, recs, flush, emitted)
        /\ held' = (held \ FencesOut(m')) \cup ({f} \cap Fds)
        /\ lent' = lent /\ reads' = reads /\ plane' = plane
    BY <1>2 DEF AcquireFenceAvailable, OnAcquireFenceAvailable
  <1> HIDE DEF armed
  <1>5. /\ r.state = m.buffers[b].state
        /\ r.currentSurfaceId = m.buffers[b].currentSurfaceId
        /\ r.pendingAcquireFence = armed
        /\ r.accessOpen = m.buffers[b].accessOpen
        /\ r.inflightSerials = m.buffers[b].inflightSerials
        /\ r.scanoutHeld = m.buffers[b].scanoutHeld
        /\ r.releaseOwed = m.buffers[b].releaseOwed
        /\ r.importOwed = m.buffers[b].importOwed
        /\ r.destroyed = m.buffers[b].destroyed
        /\ r \in BufferRec
    BY <1>1, <1>3 DEF BufferRec
  <1>6. /\ Sound(r, b, m.sampled, reads, plane, lent)
        /\ Debt(r) => FlushBlocked(r)
    BY <1>1, <1>2, <1>5 DEF Sound, Debt, FlushBlocked, Known
  <1> HIDE DEF r
  <1>7. /\ recs \in [BufferIds -> BufferRec]
        /\ recs[b] = r
        /\ \A c \in BufferIds \ {b} : recs[c] = m.buffers[c]
    BY <1>1, <1>5
  <1>8. emitted \in SUBSET Intents /\ flush \in SUBSET BufferIds
    BY DEF DiscardIntents, Intent, Intents, IntentKinds, Fences
  <1>9. /\ FlushedBuffers(recs, flush) = recs /\ FlushedOut(recs, flush) = {}
    BY <1>7, NoFlush
  <1> HIDE DEF recs, emitted, flush
  <1>10. /\ m' \in Machines
         /\ m'.buffers = recs /\ m'.out = emitted
         /\ m'.surfaces = m.surfaces /\ m'.sampled = m.sampled
         /\ m'.frameOpen = m.frameOpen /\ m'.pendingEndExports = m.pendingEndExports
    <2>1. Stepped(m, recs, flush, emitted) \in Machines
      BY <1>1, <1>7, <1>8, SteppedFacts
    <2> QED BY <1>1, <1>4, <1>9, <2>1 DEF Stepped, Machines
  <1>11. FencesOut(m') = {m.buffers[b].pendingAcquireFence} \cap Fds
    <2>1. \A g : Intent("discardAcquireFence", b, g).fence = g
      BY DEF Intent
    <2>2. emitted = {Intent("discardAcquireFence", b, g)
                       : g \in {m.buffers[b].pendingAcquireFence} \cap Fds}
      BY DEF emitted, DiscardIntents
    <2>3. FencesOut(m') = {i.fence : i \in emitted} \cap Fds
      BY <1>10 DEF FencesOut
    <2> QED BY <2>1, <2>2, <2>3
  <1>12. Conserved(recs, held') /\ held' \subseteq Fds
    <2>1. Conserved(m.buffers, held)
      BY IInvFacts
    <2>2. held' = (held \ {m.buffers[b].pendingAcquireFence}) \cup ({f} \cap Fds)
      BY <1>1, <1>4, <1>11
    <2>3. recs[b].pendingAcquireFence = armed
      BY <1>5, <1>7
    <2>4. ASSUME NEW g \in Fds
          PROVE  g \in held' <=> \E c \in BufferIds : recs[c].pendingAcquireFence = g
      <3>1. ASSUME g \in held'
            PROVE  \E c \in BufferIds : recs[c].pendingAcquireFence = g
        <4>1. CASE g = f
          BY <1>3, <2>3, <4>1
        <4>2. CASE g # f
          <5>1. PICK c \in BufferIds : m.buffers[c].pendingAcquireFence = g
            BY <2>1, <2>2, <3>1, <4>2 DEF Conserved
          <5> QED BY <1>7, <2>2, <3>1, <4>2, <5>1
        <4> QED BY <4>1, <4>2
      <3>2. ASSUME NEW c \in BufferIds, recs[c].pendingAcquireFence = g
            PROVE  g \in held'
        <4>1. CASE c = b
          BY <1>3, <2>2, <2>3, <3>2, <4>1
        <4>2. CASE c # b
          <5>1. m.buffers[c].pendingAcquireFence = g
            BY <1>7, <3>2, <4>2
          <5> QED BY <2>1, <2>2, <4>2, <5>1 DEF Conserved
        <4> QED BY <4>1, <4>2
      <3> QED BY <3>1, <3>2
    <2>5. ASSUME NEW c \in BufferIds, NEW d \in BufferIds,
                 recs[c].pendingAcquireFence \in Fds,
                 recs[c].pendingAcquireFence = recs[d].pendingAcquireFence
          PROVE  c = d
      <3>1. ASSUME NEW e \in BufferIds, e # b, recs[e].pendingAcquireFence \in Fds
            PROVE  recs[e].pendingAcquireFence # armed
        <4>1. recs[e].pendingAcquireFence \in held
          BY <1>7, <2>1, <3>1 DEF Conserved
        <4> QED BY <1>2, <1>3, <3>1, <4>1
      <3> QED BY <1>7, <2>1, <2>3, <2>5, <3>1 DEF Conserved
    <2> QED BY <1>1, <2>2, <2>4, <2>5 DEF Conserved
  <1>13. /\ Sound(recs[b], b, m'.sampled, reads, plane', lent)
         /\ Debt(recs[b]) => FlushBlocked(recs[b])
         /\ recs[b].currentSurfaceId = m.buffers[b].currentSurfaceId
    BY <1>4, <1>5, <1>6, <1>7, <1>10
  <1>14. /\ m'.sampled \ {b} = m.sampled \ {b} /\ plane' \ {b} = plane \ {b}
         /\ m'.sampled # {} => m'.frameOpen
         /\ plane' \subseteq BufferIds
    BY <1>1, <1>4, <1>10
  <1> QED BY <1>4, <1>7, <1>10, <1>12, <1>13, <1>14, TouchIInv

(* takeAcquireFence hands the pending fence out. *)
LEMMA SampleOutsideFrameIInv ==
  ASSUME IInv, NEW b \in BufferIds, SampleOutsideFrame(b)
  PROVE  IInv'
  <1> DEFINE r == [m.buffers[b] EXCEPT !.pendingAcquireFence = "none"]
             recs == [m.buffers EXCEPT ![b] = r]
  <1>1. /\ m \in Machines /\ m.buffers[b] \in BufferRec
        /\ Sound(m.buffers[b], b, m.sampled, reads, plane, lent)
        /\ Debt(m.buffers[b]) => FlushBlocked(m.buffers[b])
        /\ plane \subseteq BufferIds
        /\ m.buffers \in [BufferIds -> BufferRec]
        /\ held \subseteq Fds
        /\ m.sampled # {} => m.frameOpen
    BY IInvFacts
  <1>2. /\ m.buffers[b].state = "Imported"
        /\ m' = [m EXCEPT !.buffers = recs]
        /\ held' = held \ {m.buffers[b].pendingAcquireFence}
        /\ lent' = lent /\ reads' = reads /\ plane' = plane
    BY <1>1 DEF SampleOutsideFrame, TakeAcquireFence, Machines
  <1>3. /\ r.state = m.buffers[b].state
        /\ r.currentSurfaceId = m.buffers[b].currentSurfaceId
        /\ r.pendingAcquireFence = "none"
        /\ r.accessOpen = m.buffers[b].accessOpen
        /\ r.inflightSerials = m.buffers[b].inflightSerials
        /\ r.scanoutHeld = m.buffers[b].scanoutHeld
        /\ r.releaseOwed = m.buffers[b].releaseOwed
        /\ r.importOwed = m.buffers[b].importOwed
        /\ r.destroyed = m.buffers[b].destroyed
        /\ r \in BufferRec
    BY <1>1 DEF BufferRec, Fences
  <1>4. /\ Sound(r, b, m.sampled, reads, plane, lent)
        /\ Debt(r) => FlushBlocked(r)
    BY <1>1, <1>2, <1>3 DEF Sound, Debt, FlushBlocked
  <1> HIDE DEF r
  <1>5. /\ recs \in [BufferIds -> BufferRec]
        /\ recs[b] = r
        /\ \A c \in BufferIds \ {b} : recs[c] = m.buffers[c]
    BY <1>1, <1>3
  <1> HIDE DEF recs
  <1>6. /\ m' \in Machines
        /\ m'.buffers = recs
        /\ m'.surfaces = m.surfaces /\ m'.sampled = m.sampled
        /\ m'.frameOpen = m.frameOpen /\ m'.pendingEndExports = m.pendingEndExports
    BY <1>1, <1>2, <1>5 DEF Machines
  <1>7. Conserved(recs, held') /\ held' \subseteq Fds
    <2>1. recs[b].pendingAcquireFence \notin Fds
      BY <1>3, <1>5, FdsAssumption
    <2>2. \A c \in BufferIds \ {b} :
            recs[c].pendingAcquireFence = m.buffers[c].pendingAcquireFence
      BY <1>5
    <2> QED BY <1>1, <1>2, <2>1, <2>2, FenceTaken
  <1>8. /\ Sound(recs[b], b, m'.sampled, reads, plane', lent)
        /\ Debt(recs[b]) => FlushBlocked(recs[b])
        /\ recs[b].currentSurfaceId = m.buffers[b].currentSurfaceId
    BY <1>2, <1>3, <1>4, <1>5, <1>6
  <1>9. /\ m'.sampled \ {b} = m.sampled \ {b} /\ plane' \ {b} = plane \ {b}
        /\ m'.sampled # {} => m'.frameOpen
        /\ plane' \subseteq BufferIds
    BY <1>1, <1>2, <1>6
  <1> QED BY <1>2, <1>5, <1>6, <1>7, <1>8, <1>9, TouchIInv

(* scanoutPresented takes the fence and starts a plane's read. *)
LEMMA ScanoutPresentedIInv ==
  ASSUME IInv, NEW b \in BufferIds, ScanoutPresented(b)
  PROVE  IInv'
  <1> DEFINE r == [m.buffers[b] EXCEPT !.pendingAcquireFence = "none", !.scanoutHeld = TRUE]
             recs == [m.buffers EXCEPT ![b] = r]
             none == {}
             n == TakeAcquireFence(m, b)
  <1>1. /\ m \in Machines /\ m.buffers[b] \in BufferRec
        /\ Sound(m.buffers[b], b, m.sampled, reads, plane, lent)
        /\ Debt(m.buffers[b]) => FlushBlocked(m.buffers[b])
        /\ plane \subseteq BufferIds
        /\ m.buffers \in [BufferIds -> BufferRec]
        /\ held \subseteq Fds
        /\ m.sampled # {} => m.frameOpen
    BY IInvFacts
  <1>2. /\ r.state = m.buffers[b].state
        /\ r.currentSurfaceId = m.buffers[b].currentSurfaceId
        /\ r.pendingAcquireFence = "none"
        /\ r.accessOpen = m.buffers[b].accessOpen
        /\ r.inflightSerials = m.buffers[b].inflightSerials
        /\ r.scanoutHeld = TRUE
        /\ r.releaseOwed = m.buffers[b].releaseOwed
        /\ r.importOwed = m.buffers[b].importOwed
        /\ r.destroyed = m.buffers[b].destroyed
        /\ r \in BufferRec
    BY <1>1 DEF BufferRec, Fences
  <1>3. /\ n \in Machines
        /\ n.surfaces = m.surfaces /\ n.sampled = m.sampled
        /\ n.frameOpen = m.frameOpen /\ n.pendingEndExports = m.pendingEndExports
        /\ [n.buffers EXCEPT ![b].scanoutHeld = TRUE] = recs
        /\ n.buffers[b].state = m.buffers[b].state
    <2>1. "none" \in Fences
      BY DEF Fences
    <2>2. [m.buffers[b] EXCEPT !.pendingAcquireFence = "none"] \in BufferRec
      BY <1>1, <2>1 DEF BufferRec
    <2> QED BY <1>1, <2>2 DEF TakeAcquireFence, Machines, BufferRec
  <1>4. /\ m.buffers[b].state = "Imported"
        /\ m' = Stepped(n, recs, none, none)
        /\ held' = held \ {m.buffers[b].pendingAcquireFence}
        /\ lent' = lent /\ reads' = reads /\ plane' = plane \cup {b}
    BY <1>3 DEF ScanoutPresented, OnScanoutPresented, Known
  <1>5. /\ Sound(r, b, m.sampled, reads, plane \cup {b}, lent)
        /\ Debt(r) => FlushBlocked(r)
    BY <1>1, <1>2, <1>4 DEF Sound, Debt, FlushBlocked
  <1> HIDE DEF r
  <1>6. /\ recs \in [BufferIds -> BufferRec]
        /\ recs[b] = r
        /\ \A c \in BufferIds \ {b} : recs[c] = m.buffers[c]
    BY <1>1, <1>2
  <1>7. /\ FlushedBuffers(recs, none) = recs /\ FlushedOut(recs, none) = {}
        /\ none \in SUBSET Intents /\ none \in SUBSET BufferIds
    BY <1>6, NoFlush
  <1> HIDE DEF recs, n, none
  <1>8. /\ m' \in Machines
        /\ m'.buffers = recs
        /\ m'.surfaces = m.surfaces /\ m'.sampled = m.sampled
        /\ m'.frameOpen = m.frameOpen /\ m'.pendingEndExports = m.pendingEndExports
    <2>1. Stepped(n, recs, none, none) \in Machines
      BY <1>3, <1>6, <1>7, SteppedFacts
    <2> QED BY <1>3, <1>4, <1>7, <2>1 DEF Stepped, Machines
  <1>9. Conserved(recs, held') /\ held' \subseteq Fds
    <2>1. recs[b].pendingAcquireFence \notin Fds
      BY <1>2, <1>6, FdsAssumption
    <2>2. \A c \in BufferIds \ {b} :
            recs[c].pendingAcquireFence = m.buffers[c].pendingAcquireFence
      BY <1>6
    <2> QED BY <1>1, <1>4, <2>1, <2>2, FenceTaken
  <1>10. /\ Sound(recs[b], b, m'.sampled, reads, plane', lent)
         /\ Debt(recs[b]) => FlushBlocked(recs[b])
         /\ recs[b].currentSurfaceId = m.buffers[b].currentSurfaceId
    BY <1>2, <1>4, <1>5, <1>6, <1>8
  <1>11. /\ m'.sampled \ {b} = m.sampled \ {b} /\ plane' \ {b} = plane \ {b}
         /\ m'.sampled # {} => m'.frameOpen
         /\ plane' \subseteq BufferIds
    BY <1>1, <1>4, <1>8
  <1>12. lent' = lent /\ reads' = reads
    BY <1>4
  <1> QED BY <1>6, <1>8, <1>9, <1>10, <1>11, <1>12, TouchIInv

(* frameSampled pins the surface's buffer in the open frame. *)
LEMMA FrameSampledIInv ==
  ASSUME IInv, NEW s \in SurfaceIds, FrameSampled(s)
  PROVE  IInv'
  <1>1. CASE ~Samplable(m, s)
    <2>1. /\ m' = Ignored(m) /\ lent' = lent \ ReleasedBy(m')
          /\ held' = held \ FencesOut(m') /\ UNCHANGED <<reads, plane>>
      BY <1>1 DEF FrameSampled, Delivers, OnFrameSampled
    <2> QED BY <2>1, IgnoredIInv
  <1>2. CASE Samplable(m, s)
    <2> DEFINE b == m.surfaces[s]
               r == [m.buffers[b] EXCEPT !.pendingAcquireFence = "none", !.accessOpen = TRUE]
               recs == [m.buffers EXCEPT ![b] = r]
               emitted == {Intent("beginAccess", b, m.buffers[b].pendingAcquireFence)}
               flush == {}
               k == Stepped(m, recs, flush, emitted)
    <2>0. /\ b \in BufferIds /\ m.buffers[b].state = "Imported"
          /\ m.frameOpen
      BY <1>2 DEF Samplable, FrameSampled, FrameSampledThrows
    <2>1. /\ m \in Machines /\ m.buffers[b] \in BufferRec
          /\ Sound(m.buffers[b], b, m.sampled, reads, plane, lent)
          /\ Debt(m.buffers[b]) => FlushBlocked(m.buffers[b])
          /\ plane \subseteq BufferIds
          /\ m.buffers \in [BufferIds -> BufferRec]
          /\ held \subseteq Fds /\ m.sampled \subseteq BufferIds
      BY <2>0, IInvFacts
    <2>2. /\ m' = [k EXCEPT !.sampled = @ \cup {b}]
          /\ held' = held \ FencesOut(m')
          /\ lent' = lent \ ReleasedBy(m') /\ reads' = reads /\ plane' = plane
      BY <1>2 DEF FrameSampled, Delivers, OnFrameSampled, BegunRec
    <2> HIDE DEF b
    <2>3. /\ r.state = m.buffers[b].state
          /\ r.currentSurfaceId = m.buffers[b].currentSurfaceId
          /\ r.pendingAcquireFence = "none"
          /\ r.accessOpen = TRUE
          /\ r.inflightSerials = m.buffers[b].inflightSerials
          /\ r.scanoutHeld = m.buffers[b].scanoutHeld
          /\ r.releaseOwed = m.buffers[b].releaseOwed
          /\ r.importOwed = m.buffers[b].importOwed
          /\ r.destroyed = m.buffers[b].destroyed
          /\ r \in BufferRec
      BY <2>1 DEF BufferRec, Fences
    <2>4. /\ Sound(r, b, m.sampled \cup {b}, reads, plane, lent)
          /\ Debt(r) => FlushBlocked(r)
      BY <2>0, <2>1, <2>3 DEF Sound, Debt, FlushBlocked
    <2> HIDE DEF r
    <2>5. /\ recs \in [BufferIds -> BufferRec]
          /\ recs[b] = r
          /\ \A c \in BufferIds \ {b} : recs[c] = m.buffers[c]
      BY <2>0, <2>1, <2>3
    <2>6. /\ FlushedBuffers(recs, flush) = recs /\ FlushedOut(recs, flush) = {}
          /\ flush \in SUBSET BufferIds
      BY <2>5, NoFlush
    <2>7. emitted \in SUBSET Intents
      BY <2>0, <2>1 DEF Intent, Intents, IntentKinds, BufferRec
    <2> HIDE DEF recs, emitted, flush
    <2>8. /\ k \in Machines /\ k.buffers = recs /\ k.out = emitted
          /\ k.surfaces = m.surfaces /\ k.sampled = m.sampled
          /\ k.frameOpen = m.frameOpen /\ k.pendingEndExports = m.pendingEndExports
      <3>1. k \in Machines
        BY <2>1, <2>5, <2>6, <2>7, SteppedFacts
      <3> QED BY <2>1, <2>6, <3>1 DEF Stepped, Machines
    <2> HIDE DEF k
    <2>9. /\ m' \in Machines /\ m'.buffers = recs /\ m'.out = emitted
          /\ m'.surfaces = m.surfaces /\ m'.sampled = m.sampled \cup {b}
          /\ m'.frameOpen = m.frameOpen /\ m'.pendingEndExports = m.pendingEndExports
      BY <2>0, <2>1, <2>2, <2>8 DEF Machines
    <2>10. /\ FencesOut(m') = {m.buffers[b].pendingAcquireFence} \cap Fds
           /\ ReleasedBy(m') = {}
      BY <2>9 DEF FencesOut, ReleasedBy, emitted, Intent
    <2>11. Conserved(recs, held') /\ held' \subseteq Fds
      <3>1. recs[b].pendingAcquireFence \notin Fds
        BY <2>3, <2>5, FdsAssumption
      <3>2. \A c \in BufferIds \ {b} :
              recs[c].pendingAcquireFence = m.buffers[c].pendingAcquireFence
        BY <2>5
      <3>3. held' = held \ {m.buffers[b].pendingAcquireFence}
        BY <2>1, <2>2, <2>10
      <3> QED BY <2>0, <2>1, <3>1, <3>2, <3>3, FenceTaken
    <2>12. /\ Sound(recs[b], b, m'.sampled, reads, plane', lent)
           /\ Debt(recs[b]) => FlushBlocked(recs[b])
           /\ recs[b].currentSurfaceId = m.buffers[b].currentSurfaceId
      BY <2>2, <2>3, <2>4, <2>5, <2>9
    <2>13. /\ m'.sampled \ {b} = m.sampled \ {b} /\ plane' \ {b} = plane \ {b}
           /\ m'.sampled # {} => m'.frameOpen
           /\ plane' \subseteq BufferIds
      BY <2>0, <2>1, <2>2, <2>9
    <2>14. lent' = lent /\ reads' = reads
      BY <2>2, <2>10
    <2> QED BY <2>0, <2>5, <2>9, <2>11, <2>12, <2>13, <2>14, TouchIInv
  <1> QED BY <1>1, <1>2

-----------------------------------------------------------------------------
(* A buffer the open frame pinned has an entry. *)
LEMMA SampledKnown ==
  ASSUME IInv, NEW b \in m.sampled
  PROVE  b \in BufferIds /\ Known(m, b)
  <1>1. b \in BufferIds
    BY IInvFacts
  <1>2. Sound(m.buffers[b], b, m.sampled, reads, plane, lent)
    BY <1>1, IInvFacts
  <1> QED BY <1>1, <1>2 DEF Sound, Known, AbsentRec, NewRec

(* frameAborted closes every pinned access and flushes. *)
LEMMA FrameAbortedIInv ==
  ASSUME IInv, FrameAborted
  PROVE  IInv'
  <1> DEFINE recs == [b \in BufferIds |-> IF b \in m.sampled /\ Known(m, b)
                                            THEN ClosedRec(m.buffers[b])
                                            ELSE m.buffers[b]]
             flush == m.sampled
             none == {}
             k == Stepped(m, recs, flush, none)
  <1>1. /\ m \in Machines /\ m.buffers \in [BufferIds -> BufferRec]
        /\ flush \in SUBSET BufferIds
    BY IInvFacts
  <1>2. /\ m' = [k EXCEPT !.frameOpen = FALSE, !.sampled = {}]
        /\ lent' = lent \ ReleasedBy(m') /\ held' = held \ FencesOut(m')
        /\ reads' = reads /\ plane' = plane
    BY DEF FrameAborted, Delivers, OnFrameAborted
  <1>3. ASSUME NEW c \in BufferIds
        PROVE  /\ recs[c] \in BufferRec
               /\ Sound(recs[c], c, none, reads, plane, lent)
               /\ c \notin flush => (Debt(recs[c]) => FlushBlocked(recs[c]))
               /\ recs[c].currentSurfaceId = m.buffers[c].currentSurfaceId
               /\ recs[c].pendingAcquireFence = m.buffers[c].pendingAcquireFence
    <2>1. /\ m.buffers[c] \in BufferRec
          /\ Sound(m.buffers[c], c, m.sampled, reads, plane, lent)
          /\ Debt(m.buffers[c]) => FlushBlocked(m.buffers[c])
      BY IInvFacts
    <2>2. CASE c \in m.sampled
      <3> DEFINE r == ClosedRec(m.buffers[c])
      <3>1. Known(m, c)
        BY <2>2, SampledKnown
      <3>2. recs[c] = r
        BY <2>2, <3>1
      <3>3. /\ r.state = m.buffers[c].state
            /\ r.currentSurfaceId = m.buffers[c].currentSurfaceId
            /\ r.pendingAcquireFence = m.buffers[c].pendingAcquireFence
            /\ r.accessOpen = FALSE
            /\ r.inflightSerials = m.buffers[c].inflightSerials
            /\ r.scanoutHeld = m.buffers[c].scanoutHeld
            /\ r.releaseOwed = m.buffers[c].releaseOwed
            /\ r.importOwed = m.buffers[c].importOwed
            /\ r.destroyed = m.buffers[c].destroyed
            /\ r \in BufferRec
        BY <2>1 DEF BufferRec, ClosedRec
      <3> HIDE DEF r
      <3>4. Sound(r, c, none, reads, plane, lent)
        BY <2>1, <3>1, <3>3 DEF Sound, Debt, Known
      <3> QED BY <2>2, <3>2, <3>3, <3>4
    <2>3. CASE c \notin m.sampled
      <3>1. recs[c] = m.buffers[c]
        BY <2>3
      <3>2. Sound(m.buffers[c], c, none, reads, plane, lent)
        BY <2>1, <2>3 DEF Sound
      <3> QED BY <2>1, <3>1, <3>2
    <2> QED BY <2>2, <2>3
  <1>4. recs \in [BufferIds -> BufferRec]
    BY <1>3
  <1>5. none = {} /\ none \in SUBSET Intents
    OBVIOUS
  <1> HIDE DEF recs, none, flush
  <1>6. /\ k \in Machines /\ k.buffers = FlushedBuffers(recs, flush)
        /\ k.out = none \cup FlushedOut(recs, flush)
        /\ k.surfaces = m.surfaces /\ k.sampled = m.sampled
        /\ k.frameOpen = m.frameOpen /\ k.pendingEndExports = m.pendingEndExports
    <2>1. k \in Machines
      BY <1>1, <1>4, <1>5, SteppedFacts
    <2> QED BY <1>1, <2>1 DEF Stepped, Machines
  <1> HIDE DEF k
  <1>7. /\ m' \in Machines
        /\ m'.buffers = FlushedBuffers(recs, flush)
        /\ m'.out = none \cup FlushedOut(recs, flush)
        /\ m'.surfaces = m.surfaces /\ m'.sampled = none
        /\ m'.frameOpen = FALSE /\ m'.pendingEndExports = m.pendingEndExports
    BY <1>2, <1>5, <1>6 DEF Machines
  <1>8. Linked(recs, m'.surfaces)
    BY <1>3, <1>7, IInvFacts DEF Linked
  <1>9. Conserved(recs, held)
    BY <1>3, IInvFacts DEF Conserved
  <1>10. \A c \in BufferIds : Sound(recs[c], c, m'.sampled, reads', plane', lent)
    BY <1>2, <1>3, <1>7
  <1>11. \A c \in BufferIds \ flush : Debt(recs[c]) => FlushBlocked(recs[c])
    BY <1>3
  <1>12. /\ held \in SUBSET Fds /\ lent \in SUBSET BufferIds
         /\ reads' \in [Serials -> SUBSET BufferIds] /\ plane' \subseteq BufferIds
         /\ m'.sampled # {} => m'.frameOpen
         /\ m'.pendingEndExports = {sr \in Serials : reads'[sr] # {}}
    BY <1>2, <1>5, <1>7, IInvFacts
  <1>13. /\ \A i \in none : i.kind # "sendWlRelease"
         /\ \A i \in none : i.fence \notin Fds
    BY <1>5
  <1> QED BY <1>1, <1>2, <1>4, <1>7, <1>8, <1>9, <1>10, <1>11, <1>12, <1>13, DeliverIInv, ZenonT(60)

(* submitted turns every pinned access into a read of the serial. *)
LEMMA SubmittedIInv ==
  ASSUME IInv, NEW sr \in Serials, Submitted(sr)
  PROVE  IInv'
  <1> DEFINE ended == {b \in m.sampled : Known(m, b)}
             recs == [b \in BufferIds |->
                        IF b \in ended
                          THEN [m.buffers[b] EXCEPT !.accessOpen = FALSE,
                                                    !.inflightSerials = @ \cup {sr}]
                          ELSE m.buffers[b]]
             emitted == {Intent("endAccess", b, "none") : b \in ended}
             flush == {}
             k == Stepped(m, recs, flush, emitted)
             rd == [reads EXCEPT ![sr] = m.sampled]
  <1>1. /\ m \in Machines /\ m.buffers \in [BufferIds -> BufferRec]
        /\ flush \in SUBSET BufferIds /\ m.sampled \subseteq BufferIds
        /\ reads \in [Serials -> SUBSET BufferIds]
        /\ m.pendingEndExports = {t \in Serials : reads[t] # {}}
    BY IInvFacts
  <1>2. /\ m' = [k EXCEPT !.frameOpen = FALSE, !.sampled = {},
                          !.pendingEndExports = IF ended # {} THEN @ \cup {sr} ELSE @]
        /\ lent' = lent \ ReleasedBy(m') /\ held' = held \ FencesOut(m')
        /\ reads' = rd /\ plane' = plane
        /\ reads[sr] = {}
    BY DEF Submitted, Delivers, OnSubmitted
  <1>3. ended = m.sampled
    BY SampledKnown
  <1>4. /\ \A t \in Serials : rd[t] = IF t = sr THEN m.sampled ELSE reads[t]
        /\ rd \in [Serials -> SUBSET BufferIds]
    BY <1>1
  <1>5. ASSUME NEW c \in BufferIds
        PROVE  /\ recs[c] \in BufferRec
               /\ Sound(recs[c], c, {}, rd, plane, lent)
               /\ Debt(recs[c]) => FlushBlocked(recs[c])
               /\ recs[c].currentSurfaceId = m.buffers[c].currentSurfaceId
               /\ recs[c].pendingAcquireFence = m.buffers[c].pendingAcquireFence
    <2>1. /\ m.buffers[c] \in BufferRec
          /\ Sound(m.buffers[c], c, m.sampled, reads, plane, lent)
          /\ Debt(m.buffers[c]) => FlushBlocked(m.buffers[c])
      BY IInvFacts
    <2>2. CASE c \in m.sampled
      <3> DEFINE r == [m.buffers[c] EXCEPT !.accessOpen = FALSE,
                                           !.inflightSerials = @ \cup {sr}]
      <3>1. Known(m, c)
        BY <2>2, SampledKnown
      <3>2. recs[c] = r
        BY <1>3, <2>2
      <3>3. /\ r.state = m.buffers[c].state
            /\ r.currentSurfaceId = m.buffers[c].currentSurfaceId
            /\ r.pendingAcquireFence = m.buffers[c].pendingAcquireFence
            /\ r.accessOpen = FALSE
            /\ r.inflightSerials = m.buffers[c].inflightSerials \cup {sr}
            /\ r.scanoutHeld = m.buffers[c].scanoutHeld
            /\ r.releaseOwed = m.buffers[c].releaseOwed
            /\ r.importOwed = m.buffers[c].importOwed
            /\ r.destroyed = m.buffers[c].destroyed
            /\ r \in BufferRec
        BY <2>1 DEF BufferRec
      <3> HIDE DEF r
      <3>4. {t \in Serials : c \in rd[t]} = {t \in Serials : c \in reads[t]} \cup {sr}
        BY <1>2, <1>4, <2>2
      <3> HIDE DEF rd
      <3>5. Sound(r, c, {}, rd, plane, lent)
        BY <2>1, <3>1, <3>3, <3>4 DEF Sound, Debt, Known
      <3>6. FlushBlocked(r)
        BY <3>3 DEF FlushBlocked
      <3> QED BY <2>2, <3>2, <3>3, <3>5, <3>6
    <2>3. CASE c \notin m.sampled
      <3>1. recs[c] = m.buffers[c]
        BY <1>3, <2>3
      <3>2. {t \in Serials : c \in rd[t]} = {t \in Serials : c \in reads[t]}
        BY <1>2, <1>4, <2>3
      <3> HIDE DEF rd
      <3>3. Sound(m.buffers[c], c, {}, rd, plane, lent)
        BY <2>1, <2>3, <3>2 DEF Sound
      <3> QED BY <2>1, <3>1, <3>3
    <2> QED BY <2>2, <2>3
  <1>6. recs \in [BufferIds -> BufferRec]
    BY <1>5
  <1>7. /\ emitted \in SUBSET Intents
        /\ \A i \in emitted : i.kind # "sendWlRelease"
        /\ \A i \in emitted : i.fence \notin Fds
    BY <1>1, <1>3, FdsAssumption DEF Intent, Intents, IntentKinds, Fences
  <1> HIDE DEF recs, emitted, flush, ended, rd
  <1>8. /\ k \in Machines /\ k.buffers = FlushedBuffers(recs, flush)
        /\ k.out = emitted \cup FlushedOut(recs, flush)
        /\ k.surfaces = m.surfaces /\ k.sampled = m.sampled
        /\ k.frameOpen = m.frameOpen /\ k.pendingEndExports = m.pendingEndExports
    <2>1. k \in Machines
      BY <1>1, <1>6, <1>7, SteppedFacts
    <2> QED BY <1>1, <2>1 DEF Stepped, Machines
  <1> HIDE DEF k
  <1>9. /\ m' \in Machines
        /\ m'.buffers = FlushedBuffers(recs, flush)
        /\ m'.out = emitted \cup FlushedOut(recs, flush)
        /\ m'.surfaces = m.surfaces /\ m'.sampled = {}
        /\ m'.pendingEndExports = IF m.sampled # {} THEN m.pendingEndExports \cup {sr}
                                                    ELSE m.pendingEndExports
    BY <1>1, <1>2, <1>3, <1>8 DEF Machines
  <1>10. m'.pendingEndExports = {t \in Serials : rd[t] # {}}
    <2>1. m.pendingEndExports = {t \in Serials : reads[t] # {}}
      BY <1>1
    <2>2. ASSUME NEW t \in Serials
          PROVE  t \in m'.pendingEndExports <=> rd[t] # {}
      <3>1. t \in m.pendingEndExports <=> reads[t] # {}
        BY <2>1
      <3>2. CASE t = sr
        <4>1. sr \notin m.pendingEndExports /\ rd[sr] = m.sampled
          BY <1>2, <1>4, <3>1, <3>2
        <4>2. sr \in m'.pendingEndExports <=> m.sampled # {}
          BY <1>9, <4>1
        <4> QED BY <3>2, <4>1, <4>2
      <3>3. CASE t # sr
        BY <1>4, <1>9, <3>1, <3>3
      <3> QED BY <3>2, <3>3
    <2>3. m'.pendingEndExports \subseteq Serials
      BY <1>9, <2>1
    <2> QED BY <2>2, <2>3
  <1>11. Linked(recs, m'.surfaces)
    BY <1>5, <1>9, IInvFacts DEF Linked
  <1>12. Conserved(recs, held)
    BY <1>5, IInvFacts DEF Conserved
  <1>13. \A c \in BufferIds : Sound(recs[c], c, m'.sampled, reads', plane', lent)
    BY <1>2, <1>5, <1>9
  <1>14. \A c \in BufferIds \ flush : Debt(recs[c]) => FlushBlocked(recs[c])
    BY <1>5
  <1>15. /\ held \in SUBSET Fds /\ lent \in SUBSET BufferIds
         /\ plane' \subseteq BufferIds
    BY <1>2, IInvFacts
  <1>16. /\ reads' \in [Serials -> SUBSET BufferIds]
         /\ m'.sampled # {} => m'.frameOpen
         /\ m'.pendingEndExports = {t \in Serials : reads'[t] # {}}
         /\ lent' = lent \ ReleasedBy(m') /\ held' = held \ FencesOut(m')
    BY <1>2, <1>4, <1>9, <1>10
  <1>17. /\ m' \in Machines
         /\ m'.buffers = FlushedBuffers(recs, flush)
         /\ m'.out = emitted \cup FlushedOut(recs, flush)
         /\ flush \in SUBSET BufferIds
    BY <1>1, <1>9
  <1> QED BY <1>6, <1>7, <1>11, <1>12, <1>13, <1>14, <1>15, <1>16, <1>17, DeliverIInv, ZenonT(60)

(* gpuCompleted ends the serial's reads and flushes their buffers. *)
LEMMA GpuCompletedIInv ==
  ASSUME IInv, NEW sr \in Serials, GpuCompleted(sr)
  PROVE  IInv'
  <1> DEFINE flush == {b \in BufferIds : sr \in m.buffers[b].inflightSerials}
             recs == [b \in BufferIds |->
                        [m.buffers[b] EXCEPT !.inflightSerials = @ \ {sr}]]
             none == {}
             k == Stepped(m, recs, flush, none)
             rd == [reads EXCEPT ![sr] = {}]
  <1>1. /\ m \in Machines /\ m.buffers \in [BufferIds -> BufferRec]
        /\ flush \in SUBSET BufferIds
        /\ reads \in [Serials -> SUBSET BufferIds]
        /\ m.pendingEndExports = {t \in Serials : reads[t] # {}}
    BY IInvFacts
  <1>2. /\ m' = [k EXCEPT !.pendingEndExports = @ \ {sr}]
        /\ lent' = lent \ ReleasedBy(m') /\ held' = held \ FencesOut(m')
        /\ reads' = rd /\ plane' = plane
    BY DEF GpuCompleted, Delivers, OnGpuCompleted
  <1>3. /\ \A t \in Serials : rd[t] = IF t = sr THEN {} ELSE reads[t]
        /\ rd \in [Serials -> SUBSET BufferIds]
    BY <1>1
  <1>4. ASSUME NEW c \in BufferIds
        PROVE  /\ recs[c] \in BufferRec
               /\ Sound(recs[c], c, m.sampled, rd, plane, lent)
               /\ c \notin flush => (Debt(recs[c]) => FlushBlocked(recs[c]))
               /\ recs[c].currentSurfaceId = m.buffers[c].currentSurfaceId
               /\ recs[c].pendingAcquireFence = m.buffers[c].pendingAcquireFence
    <2> DEFINE r == [m.buffers[c] EXCEPT !.inflightSerials = @ \ {sr}]
    <2>1. /\ m.buffers[c] \in BufferRec
          /\ Sound(m.buffers[c], c, m.sampled, reads, plane, lent)
          /\ Debt(m.buffers[c]) => FlushBlocked(m.buffers[c])
      BY IInvFacts
    <2>2. recs[c] = r
      OBVIOUS
    <2>3. /\ r.state = m.buffers[c].state
          /\ r.currentSurfaceId = m.buffers[c].currentSurfaceId
          /\ r.pendingAcquireFence = m.buffers[c].pendingAcquireFence
          /\ r.accessOpen = m.buffers[c].accessOpen
          /\ r.inflightSerials = m.buffers[c].inflightSerials \ {sr}
          /\ r.scanoutHeld = m.buffers[c].scanoutHeld
          /\ r.releaseOwed = m.buffers[c].releaseOwed
          /\ r.importOwed = m.buffers[c].importOwed
          /\ r.destroyed = m.buffers[c].destroyed
          /\ r \in BufferRec
          /\ r.chainFence = m.buffers[c].chainFence
      BY <2>1 DEF BufferRec
    <2>4. {t \in Serials : c \in rd[t]} = {t \in Serials : c \in reads[t]} \ {sr}
      BY <1>3
    <2>5. r.state = "Absent" => r = AbsentRec
      <3>1. SUFFICES ASSUME r.state = "Absent" PROVE r = AbsentRec
        OBVIOUS
      <3>2. m.buffers[c] = AbsentRec
        BY <2>1, <2>3, <3>1 DEF Sound
      <3>3. AbsentRec.inflightSerials = {}
        BY DEF AbsentRec, NewRec
      <3>4. m.buffers[c].inflightSerials \ {sr} = m.buffers[c].inflightSerials
        BY <3>2, <3>3
      <3>5. [m.buffers[c] EXCEPT !.inflightSerials = m.buffers[c].inflightSerials] = m.buffers[c]
        BY <2>1 DEF BufferRec
      <3> QED BY <3>2, <3>4, <3>5
    <2> HIDE DEF r, rd
    <2>6. Sound(r, c, m.sampled, rd, plane, lent)
      BY <2>1, <2>3, <2>4, <2>5 DEF Sound, Debt
    <2>7. c \notin flush => (Debt(r) => FlushBlocked(r))
      BY <2>1, <2>3 DEF Debt, FlushBlocked
    <2> HIDE DEF recs, flush
    <2> QED BY <2>2, <2>3, <2>6, <2>7
  <1>5. recs \in [BufferIds -> BufferRec]
    BY <1>4
  <1>6. none = {} /\ none \in SUBSET Intents
    OBVIOUS
  <1> HIDE DEF recs, none, flush, rd
  <1>7. /\ k \in Machines /\ k.buffers = FlushedBuffers(recs, flush)
        /\ k.out = none \cup FlushedOut(recs, flush)
        /\ k.surfaces = m.surfaces /\ k.sampled = m.sampled
        /\ k.frameOpen = m.frameOpen /\ k.pendingEndExports = m.pendingEndExports
    <2>1. k \in Machines
      BY <1>1, <1>5, <1>6, SteppedFacts
    <2> QED BY <1>1, <2>1 DEF Stepped, Machines
  <1> HIDE DEF k
  <1>8. /\ m' \in Machines
        /\ m'.buffers = FlushedBuffers(recs, flush)
        /\ m'.out = none \cup FlushedOut(recs, flush)
        /\ m'.surfaces = m.surfaces /\ m'.sampled = m.sampled
        /\ m'.frameOpen = m.frameOpen
        /\ m'.pendingEndExports = m.pendingEndExports \ {sr}
    BY <1>1, <1>2, <1>7 DEF Machines
  <1>9. m'.pendingEndExports = {t \in Serials : rd[t] # {}}
    BY <1>1, <1>3, <1>8
  <1>10. Linked(recs, m'.surfaces)
    BY <1>4, <1>8, IInvFacts DEF Linked
  <1>11. Conserved(recs, held)
    BY <1>4, IInvFacts DEF Conserved
  <1>12. \A c \in BufferIds : Sound(recs[c], c, m'.sampled, reads', plane', lent)
    BY <1>2, <1>4, <1>8
  <1>13. \A c \in BufferIds \ flush : Debt(recs[c]) => FlushBlocked(recs[c])
    BY <1>4
  <1>14. /\ held \in SUBSET Fds /\ lent \in SUBSET BufferIds
         /\ plane' \subseteq BufferIds
         /\ m'.sampled # {} => m'.frameOpen
    BY <1>2, <1>8, IInvFacts
  <1>15. /\ reads' \in [Serials -> SUBSET BufferIds]
         /\ m'.pendingEndExports = {t \in Serials : reads'[t] # {}}
         /\ lent' = lent \ ReleasedBy(m') /\ held' = held \ FencesOut(m')
    BY <1>2, <1>3, <1>9
  <1>16. /\ \A i \in none : i.kind # "sendWlRelease"
         /\ \A i \in none : i.fence \notin Fds
    BY <1>6
  <1>17. flush \in SUBSET BufferIds
    BY <1>1 DEF flush
  <1> QED BY <1>5, <1>8, <1>10, <1>11, <1>12, <1>13, <1>14, <1>15, <1>16, <1>17, DeliverIInv

(* bufferDestroyed of a buffer that has an entry: its loan ends and its    *)
(* import is owed.                                                         *)
LEMMA BufferDestroyedKnownIInv ==
  ASSUME IInv, NEW b \in BufferIds, BufferDestroyed(b), Known(m, b)
  PROVE  IInv'
  <1> DEFINE r == [m.buffers[b] EXCEPT !.destroyed = TRUE, !.importOwed = TRUE,
                                       !.currentSurfaceId = NoSurface, !.releaseOwed = FALSE]
             recs == [m.buffers EXCEPT ![b] = r]
             flush == {b}
             none == {}
             k == Stepped(m, recs, flush, none)
             surf == [s \in SurfaceIds |->
                        IF s = m.buffers[b].currentSurfaceId /\ m.surfaces[s] = b
                          THEN NoBuffer ELSE m.surfaces[s]]
             ln == lent \ {b}
  <1>1. /\ m \in Machines /\ m.buffers[b] \in BufferRec
        /\ m.buffers \in [BufferIds -> BufferRec]
        /\ m.surfaces \in [SurfaceIds -> BufferIds \cup {NoBuffer}]
        /\ Sound(m.buffers[b], b, m.sampled, reads, plane, lent)
        /\ Linked(m.buffers, m.surfaces)
    BY IInvFacts
  <1>2. /\ m' = [k EXCEPT !.surfaces = surf]
        /\ lent' = ln /\ held' = held \ FencesOut(m')
        /\ reads' = reads /\ plane' = plane
    BY DEF BufferDestroyed, OnBufferDestroyed
  <1>3. /\ r.state = m.buffers[b].state
        /\ r.currentSurfaceId = NoSurface
        /\ r.pendingAcquireFence = m.buffers[b].pendingAcquireFence
        /\ r.accessOpen = m.buffers[b].accessOpen
        /\ r.inflightSerials = m.buffers[b].inflightSerials
        /\ r.scanoutHeld = m.buffers[b].scanoutHeld
        /\ r.releaseOwed = FALSE
        /\ r.importOwed = TRUE
        /\ r.destroyed = TRUE
        /\ r \in BufferRec
    BY <1>1 DEF BufferRec
  <1>4. Sound(r, b, m.sampled, reads, plane, ln)
    BY <1>1, <1>3 DEF Sound, Debt, Known
  <1> HIDE DEF r
  <1>5. /\ recs \in [BufferIds -> BufferRec]
        /\ recs[b] = r
        /\ \A c \in BufferIds \ {b} : recs[c] = m.buffers[c]
    BY <1>1, <1>3
  <1>6. /\ none = {} /\ none \in SUBSET Intents
        /\ flush \in SUBSET BufferIds
    OBVIOUS
  <1>7. surf \in [SurfaceIds -> BufferIds \cup {NoBuffer}]
    BY <1>1
  <1>8. Linked(recs, surf)
    <2>1. ASSUME NEW s \in SurfaceIds
          PROVE  /\ surf[s] # b
                 /\ surf[s] = m.surfaces[s] \/ (surf[s] = NoBuffer /\ m.surfaces[s] = b)
      BY <1>1, NoBufferAssumption DEF Linked
    <2>2. ASSUME NEW c \in BufferIds, NEW s \in SurfaceIds
          PROVE  recs[c].currentSurfaceId = s <=> surf[s] = c
      <3>1. CASE c = b
        BY <1>3, <1>5, <2>1, <3>1, NoSurfaceAssumption
      <3>2. CASE c # b
        <4>1. recs[c].currentSurfaceId = s <=> m.surfaces[s] = c
          BY <1>1, <1>5, <3>2 DEF Linked
        <4> QED BY <2>1, <3>2, <4>1, NoBufferAssumption
      <3> QED BY <3>1, <3>2
    <2> QED BY <2>2 DEF Linked
  <1>9. Conserved(recs, held)
    <2>1. \A c \in BufferIds : recs[c].pendingAcquireFence = m.buffers[c].pendingAcquireFence
      BY <1>3, <1>5
    <2> QED BY <2>1, IInvFacts DEF Conserved
  <1> HIDE DEF recs, none, flush, surf, ln
  <1>10. /\ k \in Machines /\ k.buffers = FlushedBuffers(recs, flush)
         /\ k.out = none \cup FlushedOut(recs, flush)
         /\ k.surfaces = m.surfaces /\ k.sampled = m.sampled
         /\ k.frameOpen = m.frameOpen /\ k.pendingEndExports = m.pendingEndExports
    <2>1. k \in Machines
      BY <1>1, <1>5, <1>6, SteppedFacts
    <2> QED BY <1>1, <2>1 DEF Stepped, Machines
  <1> HIDE DEF k
  <1>11. /\ m' \in Machines
         /\ m'.buffers = FlushedBuffers(recs, flush)
         /\ m'.out = none \cup FlushedOut(recs, flush)
         /\ m'.surfaces = surf /\ m'.sampled = m.sampled
         /\ m'.frameOpen = m.frameOpen /\ m'.pendingEndExports = m.pendingEndExports
    BY <1>1, <1>2, <1>7, <1>10 DEF Machines
  <1>12. \A c \in BufferIds : Sound(recs[c], c, m'.sampled, reads', plane', ln)
    <2>1. ASSUME NEW c \in BufferIds, c # b
          PROVE  Sound(recs[c], c, m.sampled, reads, plane, ln)
      <3>1. Sound(m.buffers[c], c, m.sampled, reads, plane, lent) /\ recs[c] = m.buffers[c]
        BY <1>5, <2>1, IInvFacts
      <3>2. c \in ln <=> c \in lent
        BY <2>1 DEF ln
      <3> QED BY <3>1, <3>2 DEF Sound
    <2> QED BY <1>2, <1>4, <1>5, <1>11, <2>1
  <1>13. \A c \in BufferIds \ flush : Debt(recs[c]) => FlushBlocked(recs[c])
    BY <1>5, IInvFacts DEF flush
  <1>14. /\ \A i \in none : i.kind # "sendWlRelease"
         /\ \A i \in none : i.fence \notin Fds
    BY <1>6
  <1>15. /\ held \in SUBSET Fds /\ ln \in SUBSET BufferIds
         /\ reads' \in [Serials -> SUBSET BufferIds] /\ plane' \subseteq BufferIds
         /\ m'.sampled # {} => m'.frameOpen
         /\ m'.pendingEndExports = {sr \in Serials : reads'[sr] # {}}
         /\ held' = held \ FencesOut(m')
         /\ Linked(recs, m'.surfaces)
    BY <1>2, <1>8, <1>11, IInvFacts DEF ln
  <1>16. lent' = ln \ ReleasedBy(m')
    <2>1. ReleasedBy(m') = Releasing(recs, flush)
      BY <1>5, <1>6, <1>11, <1>14, SteppedReleases
    <2>2. Releasing(recs, flush) = {}
      BY <1>3, <1>5 DEF Releasing, Releases, flush
    <2> QED BY <1>2, <2>1, <2>2
  <1>17. /\ m' \in Machines
         /\ m'.buffers = FlushedBuffers(recs, flush)
         /\ m'.out = none \cup FlushedOut(recs, flush)
    BY <1>11
  <1> QED BY <1>5, <1>6, <1>9, <1>12, <1>13, <1>14, <1>15, <1>16, <1>17, DeliverIInv, ZenonT(60)

(* bufferDestroyed, with its early return. *)
LEMMA BufferDestroyedIInv ==
  ASSUME IInv, NEW b \in BufferIds, BufferDestroyed(b)
  PROVE  IInv'
  <1>1. CASE Known(m, b)
    BY <1>1, BufferDestroyedKnownIInv
  <1>2. CASE ~Known(m, b)
    <2>1. Sound(m.buffers[b], b, m.sampled, reads, plane, lent) /\ m \in Machines
      BY IInvFacts
    <2>2. b \notin lent
      BY <1>2, <2>1 DEF Sound, Known, AbsentRec, NewRec
    <2>3. m' = Ignored(m) /\ lent' = lent \ {b}
          /\ held' = held \ FencesOut(m') /\ UNCHANGED <<reads, plane>>
      BY <1>2 DEF BufferDestroyed, OnBufferDestroyed
    <2>4. m'.out = {}
      BY <2>1, <2>3 DEF Ignored, Machines
    <2>5. lent' = lent \ ReleasedBy(m')
      BY <2>2, <2>3, <2>4, QuietOut
    <2> QED BY <2>3, <2>5, IgnoredIInv
  <1> QED BY <1>1, <1>2

(* surfaceRemoved: the current buffer's release and import are owed. *)
LEMMA SurfaceRemovedIInv ==
  ASSUME IInv, NEW s \in SurfaceIds, SurfaceRemoved(s)
  PROVE  IInv'
  <1> DEFINE flush == {b \in BufferIds : b = m.surfaces[s] /\ Known(m, b)}
             recs == [b \in BufferIds |->
                        IF b \in flush /\ m.buffers[b].currentSurfaceId = s
                          THEN DrainedRec(m.buffers[b]) ELSE m.buffers[b]]
             none == {}
             k == Stepped(m, recs, flush, none)
             surf == [m.surfaces EXCEPT ![s] = NoBuffer]
  <1>1. /\ m \in Machines /\ m.buffers \in [BufferIds -> BufferRec]
        /\ m.surfaces \in [SurfaceIds -> BufferIds \cup {NoBuffer}]
        /\ flush \in SUBSET BufferIds
        /\ \A c \in BufferIds, t \in SurfaceIds :
              m.buffers[c].currentSurfaceId = t <=> m.surfaces[t] = c
    BY IInvFacts DEF Linked
  <1>2. /\ m' = [k EXCEPT !.surfaces[s] = NoBuffer]
        /\ lent' = lent \ ReleasedBy(m') /\ held' = held \ FencesOut(m')
        /\ reads' = reads /\ plane' = plane
    BY DEF SurfaceRemoved, Delivers, OnSurfaceRemoved
  <1>3. /\ surf \in [SurfaceIds -> BufferIds \cup {NoBuffer}]
        /\ \A t \in SurfaceIds : surf[t] = IF t = s THEN NoBuffer ELSE m.surfaces[t]
    BY <1>1
  <1>4. ASSUME NEW c \in BufferIds
        PROVE  /\ recs[c] \in BufferRec
               /\ Sound(recs[c], c, m.sampled, reads, plane, lent)
               /\ c \notin flush => (Debt(recs[c]) => FlushBlocked(recs[c]))
               /\ recs[c].pendingAcquireFence = m.buffers[c].pendingAcquireFence
               /\ \A t \in SurfaceIds : recs[c].currentSurfaceId = t <=> surf[t] = c
    <2>1. /\ m.buffers[c] \in BufferRec
          /\ Sound(m.buffers[c], c, m.sampled, reads, plane, lent)
          /\ Debt(m.buffers[c]) => FlushBlocked(m.buffers[c])
      BY IInvFacts
    <2>2. CASE m.surfaces[s] = c
      <3> DEFINE r == DrainedRec(m.buffers[c])
      <3>1. m.buffers[c].currentSurfaceId = s
        BY <1>1, <2>2
      <3>2. Known(m, c)
        BY <2>1, <3>1, NoSurfaceAssumption DEF Sound, Known, AbsentRec, NewRec
      <3>3. recs[c] = r /\ c \in flush
        BY <2>2, <3>1, <3>2
      <3>4. ~m.buffers[c].destroyed
        BY <2>1, <3>1, NoSurfaceAssumption DEF Sound, Debt
      <3>5. /\ r.state = m.buffers[c].state
            /\ r.currentSurfaceId = NoSurface
            /\ r.pendingAcquireFence = m.buffers[c].pendingAcquireFence
            /\ r.accessOpen = m.buffers[c].accessOpen
            /\ r.inflightSerials = m.buffers[c].inflightSerials
            /\ r.scanoutHeld = m.buffers[c].scanoutHeld
            /\ r.releaseOwed = TRUE
            /\ r.importOwed = TRUE
            /\ r.destroyed = m.buffers[c].destroyed
            /\ r \in BufferRec
        BY <2>1, <3>4 DEF BufferRec, DrainedRec
      <3> HIDE DEF r, recs
      <3>6. Sound(r, c, m.sampled, reads, plane, lent)
        BY <2>1, <3>1, <3>2, <3>4, <3>5, NoSurfaceAssumption DEF Sound, Debt, Known
      <3>7. \A t \in SurfaceIds : NoSurface # t /\ surf[t] # c
        BY <1>1, <1>3, <3>1, NoSurfaceAssumption, NoBufferAssumption
      <3> HIDE DEF surf, flush
      <3> QED BY <3>3, <3>5, <3>6, <3>7
    <2>3. CASE m.surfaces[s] # c
      <3>1. recs[c] = m.buffers[c]
        BY <2>3
      <3>2. \A t \in SurfaceIds : m.buffers[c].currentSurfaceId = t <=> surf[t] = c
        BY <1>1, <1>3, <2>3, NoBufferAssumption
      <3> HIDE DEF recs, surf, flush
      <3> QED BY <2>1, <3>1, <3>2
    <2> QED BY <2>2, <2>3
  <1>5. recs \in [BufferIds -> BufferRec]
    BY <1>4
  <1>6. none = {} /\ none \in SUBSET Intents
    OBVIOUS
  <1> HIDE DEF recs, none, flush
  <1>7. /\ k \in Machines /\ k.buffers = FlushedBuffers(recs, flush)
        /\ k.out = none \cup FlushedOut(recs, flush)
        /\ k.surfaces = m.surfaces /\ k.sampled = m.sampled
        /\ k.frameOpen = m.frameOpen /\ k.pendingEndExports = m.pendingEndExports
    <2>1. k \in Machines
      BY <1>1, <1>5, <1>6, SteppedFacts
    <2> QED BY <1>1, <2>1 DEF Stepped, Machines
  <1> HIDE DEF k
  <1>8. /\ m' \in Machines
        /\ m'.buffers = FlushedBuffers(recs, flush)
        /\ m'.out = none \cup FlushedOut(recs, flush)
        /\ m'.surfaces = surf /\ m'.sampled = m.sampled
        /\ m'.frameOpen = m.frameOpen /\ m'.pendingEndExports = m.pendingEndExports
    BY <1>1, <1>2, <1>3, <1>7 DEF Machines
  <1> HIDE DEF surf
  <1>9. Conserved(recs, held)
    BY <1>4, IInvFacts DEF Conserved
  <1>10. \A c \in BufferIds : Sound(recs[c], c, m'.sampled, reads', plane', lent)
    BY <1>2, <1>4, <1>8
  <1>11. \A c \in BufferIds \ flush : Debt(recs[c]) => FlushBlocked(recs[c])
    BY <1>4
  <1>12. Linked(recs, m'.surfaces)
    BY <1>4, <1>8 DEF Linked
  <1>13. /\ held \in SUBSET Fds /\ lent \in SUBSET BufferIds
         /\ reads' \in [Serials -> SUBSET BufferIds] /\ plane' \subseteq BufferIds
         /\ m'.sampled # {} => m'.frameOpen
         /\ m'.pendingEndExports = {sr \in Serials : reads'[sr] # {}}
         /\ lent' = lent \ ReleasedBy(m') /\ held' = held \ FencesOut(m')
    BY <1>2, <1>8, IInvFacts
  <1>14. /\ \A i \in none : i.kind # "sendWlRelease"
         /\ \A i \in none : i.fence \notin Fds
    BY <1>6
  <1>15. /\ m' \in Machines
         /\ m'.buffers = FlushedBuffers(recs, flush)
         /\ m'.out = none \cup FlushedOut(recs, flush)
         /\ flush \in SUBSET BufferIds
    BY <1>1, <1>8
  <1> QED BY <1>5, <1>9, <1>10, <1>11, <1>12, <1>13, <1>14, <1>15, DeliverIInv, ZenonT(60)

-----------------------------------------------------------------------------
(* IInv is inductive: one case per event of the machine. *)
LEMMA NextIInv == IInv /\ [Next]_vars => IInv'
  <1> SUFFICES ASSUME IInv, [Next]_vars PROVE IInv'
    OBVIOUS
  <1>1. CASE FrameStart
    BY <1>1, FrameStartIInv
  <1>2. CASE FrameAborted
    BY <1>2, FrameAbortedIInv
  <1>3. ASSUME NEW s \in SurfaceIds, FrameSampled(s) \/ SurfaceRemoved(s)
        PROVE  IInv'
    BY <1>3, FrameSampledIInv, SurfaceRemovedIInv
  <1>4. ASSUME NEW s \in SurfaceIds, NEW b \in BufferIds, Commit(s, b)
        PROVE  IInv'
    BY <1>4, CommitIInv
  <1>5. ASSUME NEW b \in BufferIds, NEW f \in Fds \cup {"none"}, AcquireFenceAvailable(b, f)
        PROVE  IInv'
    BY <1>5, AcquireFenceAvailableIInv
  <1>6. ASSUME NEW sr \in Serials, Submitted(sr) \/ GpuCompleted(sr)
        PROVE  IInv'
    BY <1>6, SubmittedIInv, GpuCompletedIInv
  <1>7. ASSUME NEW b \in BufferIds,
               \/ EndAccessFenceExported(b) \/ BufferDestroyed(b)
               \/ ImportCompleted(b) \/ ImportFailed(b)
               \/ SampleOutsideFrame(b) \/ ScanoutPresented(b) \/ ScanoutRetired(b)
        PROVE  IInv'
    BY <1>7, EndAccessFenceExportedIInv, BufferDestroyedIInv, ImportCompletedIInv,
       ImportFailedIInv, SampleOutsideFrameIInv, ScanoutPresentedIInv, ScanoutRetiredIInv
  <1>8. CASE UNCHANGED vars
    BY <1>8 DEF IInv, TypeOK, vars
  <1> QED BY <1>1, <1>2, <1>3, <1>4, <1>5, <1>6, <1>7, <1>8 DEF Next

(* The inductive invariant holds in every reachable state. *)
THEOREM Invariance == Spec => []IInv
  <1>1. Init => IInv
    BY InitIInv
  <1>2. IInv /\ [Next]_vars => IInv'
    BY NextIInv
  <1> QED BY <1>1, <1>2, PTL DEF Spec

(* The class's fields and the history keep their types. *)
THEOREM TypeCorrect == Spec => []TypeOK
  <1>1. IInv => TypeOK
    BY DEF IInv
  <1> QED BY <1>1, Invariance, PTL

(* Every begun access is ended exactly once, by the frame that begun it    *)
(* (onFrameSampled against onSubmitted and onFrameAborted).                *)
THEOREM BracketsArePaired == Spec => []BracketsPaired
  <1>1. ASSUME IInv PROVE BracketsPaired
    <2>1. \A b \in BufferIds : m.buffers[b].accessOpen <=> b \in m.sampled
      BY <1>1, IInvFacts DEF Sound
    <2> QED BY <1>1, <2>1, IInvFacts DEF BracketsPaired
  <1> QED BY <1>1, Invariance, PTL

(* No GPU job and no plane reads a buffer whose entry does not know it.    *)
THEOREM ReadsAreTracked == Spec => []ReadsTracked
  <1>1. ASSUME IInv PROVE ReadsTracked
    BY <1>1, IInvFacts DEF ReadsTracked, Sound
  <1> QED BY <1>1, Invariance, PTL

(* The two current-buffer links agree; whoever owes is nobody's current.   *)
THEOREM LinksDoAgree == Spec => []LinksAgree
  <1>1. ASSUME IInv PROVE LinksAgree
    <2>1. \A b \in BufferIds, s \in SurfaceIds :
            m.buffers[b].currentSurfaceId = s <=> m.surfaces[s] = b
      BY <1>1, IInvFacts DEF Linked
    <2>2. ASSUME NEW b \in BufferIds
          PROVE  LET r == m.buffers[b] IN
                 /\ r.releaseOwed \/ r.importOwed => r.currentSurfaceId = NoSurface
                 /\ r.destroyed => r.importOwed /\ ~r.releaseOwed
      BY <1>1, IInvFacts DEF Sound, Debt
    <2> QED BY <2>1, <2>2 DEF LinksAgree
  <1> QED BY <1>1, Invariance, PTL

(* A debt always waits for an event that is still to come: no handler      *)
(* forgets the maybeFlush that would have paid it.                         *)
THEOREM NoDebtIsStranded == Spec => []NoStrandedDebt
  <1>1. ASSUME IInv PROVE NoStrandedDebt
    BY <1>1, IInvFacts DEF NoStrandedDebt, Sound, Debt, Known
  <1> QED BY <1>1, Invariance, PTL

(* No wl_buffer.release is lost or sent twice.                             *)
THEOREM LoansAreTracked == Spec => []LoansTracked
  <1>1. ASSUME IInv PROVE LoansTracked
    <2>1. \A b \in BufferIds :
            b \in lent <=> (m.buffers[b].currentSurfaceId # NoSurface
                              \/ m.buffers[b].releaseOwed)
      BY <1>1, IInvFacts DEF Sound
    <2> QED BY <1>1, <2>1, IInvFacts DEF LoansTracked
  <1> QED BY <1>1, Invariance, PTL

(* No acquire-fence fd is leaked or closed twice.                          *)
THEOREM FencesAreConserved == Spec => []FenceConservation
  <1>1. ASSUME IInv PROVE FenceConservation
    BY <1>1, IInvFacts DEF FenceConservation, Conserved
  <1> QED BY <1>1, Invariance, PTL
=============================================================================
