------------------------ MODULE BufferLendingProofs ------------------------
(***************************************************************************)
(* ClientBufferLifecycle implements BufferLending, and tears imports down  *)
(* only when nothing uses them.  To the inductive invariant of             *)
(* ClientBufferLifecycleProofs this adds what the intents of the last      *)
(* step() say of the entries it left (OutSound); each event then maps to   *)
(* a step of the abstract specification or to a stutter.                   *)
(***************************************************************************)
EXTENDS ClientBufferLifecycleProofs

(* No reader of the entry is left: no access, GPU job or plane. *)
Unread(r) == ~r.accessOpen /\ r.inflightSerials = {} /\ ~r.scanoutHeld

(* An import torn down belongs to no entry, one requested to an entry that *)
(* waits for it, and a buffer released has no reader.                      *)
OutSound(k) ==
  \A b \in BufferIds :
    /\ Intent("releaseImport", b, "none") \in k.out => k.buffers[b].state = "Absent"
    /\ Intent("importBuffer", b, "none") \in k.out => k.buffers[b].state = "Importing"
    /\ b \in ReleasedBy(k) => Unread(k.buffers[b])

(* The buffers some frame, GPU job or plane reads. *)
Reading == m.sampled \cup plane \cup UNION {reads[sr] : sr \in Serials}

-----------------------------------------------------------------------------
(* What the intents of a step() say of the entries it leaves. *)
LEMMA SteppedOut ==
  ASSUME NEW recs \in [BufferIds -> BufferRec], NEW flush \in SUBSET BufferIds,
         NEW emitted,
         \A i \in emitted : i.kind \notin {"releaseImport", "sendWlRelease"},
         NEW k,
         k.buffers = FlushedBuffers(recs, flush),
         k.out = emitted \cup FlushedOut(recs, flush),
         \A b \in BufferIds : Intent("importBuffer", b, "none") \in emitted =>
            b \notin flush /\ recs[b].state = "Importing"
  PROVE  /\ OutSound(k)
         /\ \A b \in ReleasedBy(k) : b \in flush /\ recs[b].releaseOwed
  <1>1. ASSUME NEW b \in BufferIds, NEW c \in BufferIds
        PROVE  /\ Intent("sendWlRelease", b, "none") \in FlushIntents(c, recs[c])
                    <=> b = c /\ Releases(recs[c])
               /\ Intent("releaseImport", b, "none") \in FlushIntents(c, recs[c])
                    <=> b = c /\ ~FlushBlocked(recs[c]) /\ recs[c].importOwed
               /\ Intent("importBuffer", b, "none") \notin FlushIntents(c, recs[c])
    BY DEF FlushIntents, DiscardIntents, Intent, Releases
  <1>2. ASSUME NEW b \in BufferIds
        PROVE  /\ Intent("sendWlRelease", b, "none") \notin emitted
               /\ Intent("releaseImport", b, "none") \notin emitted
    BY DEF Intent
  <1>3. ASSUME NEW b \in BufferIds, b \in ReleasedBy(k)
        PROVE  b \in flush /\ Releases(recs[b])
    BY <1>1, <1>2, <1>3 DEF ReleasedBy, FlushedOut
  <1>4. ASSUME NEW b \in BufferIds, Intent("releaseImport", b, "none") \in k.out
        PROVE  b \in flush /\ ~FlushBlocked(recs[b]) /\ recs[b].importOwed
    BY <1>1, <1>2, <1>4 DEF FlushedOut
  <1>5. ASSUME NEW b \in BufferIds, Intent("importBuffer", b, "none") \in k.out
        PROVE  b \notin flush /\ recs[b].state = "Importing"
    BY <1>1, <1>5 DEF FlushedOut
  <1>6. ASSUME NEW b \in BufferIds, b \in ReleasedBy(k)
        PROVE  Unread(k.buffers[b])
    BY <1>3, <1>6 DEF FlushedBuffers, FlushedRec, Releases, FlushBlocked, Unread,
       AbsentRec, NewRec, BufferRec
  <1>7. ASSUME NEW b \in BufferIds, Intent("releaseImport", b, "none") \in k.out
        PROVE  k.buffers[b].state = "Absent"
    BY <1>4, <1>7 DEF FlushedBuffers, FlushedRec, AbsentRec, NewRec
  <1>8. ASSUME NEW b \in BufferIds, Intent("importBuffer", b, "none") \in k.out
        PROVE  k.buffers[b].state = "Importing"
    BY <1>5, <1>8 DEF FlushedBuffers
  <1>9. ReleasedBy(k) \subseteq BufferIds
    BY DEF ReleasedBy
  <1> QED BY <1>3, <1>6, <1>7, <1>8, <1>9 DEF OutSound, Releases

(* No intent at all. *)
LEMMA EmptyOut ==
  ASSUME NEW k, k.out = {}
  PROVE  OutSound(k) /\ ReleasedBy(k) = {}
  BY DEF OutSound, ReleasedBy

(* A step of the machine leaves sound intents and releases lent buffers.   *)
LEMMA OutStep ==
  ASSUME IInv,
         NEW recs \in [BufferIds -> BufferRec], NEW flush \in SUBSET BufferIds,
         NEW emitted,
         \A i \in emitted : i.kind \notin {"releaseImport", "sendWlRelease"},
         m'.buffers = FlushedBuffers(recs, flush),
         m'.out = emitted \cup FlushedOut(recs, flush),
         \A b \in BufferIds : Intent("importBuffer", b, "none") \in emitted =>
            b \notin flush /\ recs[b].state = "Importing",
         \A b \in flush : recs[b].releaseOwed =>
            m.buffers[b].releaseOwed \/ m.buffers[b].currentSurfaceId # NoSurface
  PROVE  OutSound(m') /\ ReleasedBy(m') \subseteq lent \cap flush
  <1>1. /\ OutSound(m')
        /\ \A b \in ReleasedBy(m') : b \in flush /\ recs[b].releaseOwed
    BY SteppedOut, Zenon
  <1>2. \A b \in BufferIds :
          m.buffers[b].releaseOwed \/ m.buffers[b].currentSurfaceId # NoSurface => b \in lent
    BY IInvFacts DEF Sound
  <1> QED BY <1>1, <1>2

(* commit: the buffer it replaces may come back, never the one committed. *)
LEMMA CommitOut ==
  ASSUME IInv, NEW s \in SurfaceIds, NEW b \in BufferIds, Commit(s, b)
  PROVE  OutSound(m') /\ ReleasedBy(m') \subseteq lent \ {b}
  <1> DEFINE prev == m.surfaces[s]
      imported == IF Known(m, b) THEN m.buffers[b] ELSE NewRec("Importing", s)
      emitted == IF Known(m, b) THEN {}
                 ELSE {Intent("importBuffer", b, "none")}
      superseded == {p \in BufferIds : p = prev /\ p # b /\ Known(m, p)}
      adopted == [imported EXCEPT !.currentSurfaceId = s,
                                  !.releaseOwed = FALSE,
                                  !.importOwed = FALSE]
      recs == [c \in BufferIds |->
                 IF c = b THEN IF prev = b THEN imported ELSE adopted
                 ELSE IF c \in superseded THEN SupersededRec(m.buffers[c], s)
                 ELSE m.buffers[c]]
      k == Stepped(m, recs, superseded, emitted)
  <1>1. /\ m \in Machines /\ m.buffers \in [BufferIds -> BufferRec]
        /\ m.surfaces \in [SurfaceIds -> BufferIds \cup {NoBuffer}]
        /\ Linked(m.buffers, m.surfaces)
    BY IInvFacts
  <1>2. imported \in BufferRec /\ adopted \in BufferRec
    <2>1. imported \in BufferRec
      BY <1>1, NewRecType
    <2> QED BY <2>1 DEF BufferRec
  <1>3. \A c \in BufferIds : SupersededRec(m.buffers[c], s) \in BufferRec
    BY <1>1, SupersededRecType
  <1>4. recs \in [BufferIds -> BufferRec] /\ superseded \in SUBSET BufferIds
    BY <1>1, <1>2, <1>3
  <1>5. ~Known(m, b) => recs[b].state = "Importing"
    BY <1>2 DEF NewRec
  <1>6. \A c \in superseded : c # b /\ m.buffers[c].currentSurfaceId # NoSurface
    BY <1>1, NoSurfaceAssumption DEF Linked
  <1>7. /\ \A i \in emitted : i.kind \notin {"releaseImport", "sendWlRelease"}
        /\ \A c \in BufferIds : Intent("importBuffer", c, "none") \in emitted =>
             c = b /\ ~Known(m, b)
    BY DEF Intent
  <1>8. m' = [k EXCEPT !.surfaces[s] = b]
    BY DEF Commit, OnCommit
  <1> HIDE DEF recs, superseded, emitted
  <1>9. /\ m'.buffers = FlushedBuffers(recs, superseded)
        /\ m'.out = emitted \cup FlushedOut(recs, superseded)
    BY <1>1, <1>8 DEF Stepped, Machines
  <1>10. /\ OutSound(m')
         /\ \A c \in ReleasedBy(m') : c \in superseded /\ recs[c].releaseOwed
    <2>1. \A c \in BufferIds : Intent("importBuffer", c, "none") \in emitted =>
            c \notin superseded /\ recs[c].state = "Importing"
      BY <1>5, <1>6, <1>7
    <2> QED BY <1>4, <1>7, <1>9, <2>1, SteppedOut
  <1>11. \A c \in BufferIds : m.buffers[c].currentSurfaceId # NoSurface => c \in lent
    BY IInvFacts DEF Sound
  <1> QED BY <1>4, <1>6, <1>10, <1>11

(* A step that flushes nothing leaves the intents it emits. *)
LEMMA SteppedEmits ==
  ASSUME NEW n \in Machines, NEW recs, NEW emitted
  PROVE  Stepped(n, recs, {}, emitted).out = emitted
  <1>1. FlushedOut(recs, {}) = {}
    BY DEF FlushedOut
  <1>2. Stepped(n, recs, {}, emitted).out = emitted \cup FlushedOut(recs, {})
    BY DEF Stepped, Machines
  <1> QED BY <1>1, <1>2

(* The entries and intents of a step that only flushes. *)
LEMMA SteppedFlushes ==
  ASSUME NEW n \in Machines, NEW recs, NEW flush
  PROVE  /\ Stepped(n, recs, flush, {}).buffers = FlushedBuffers(recs, flush)
         /\ Stepped(n, recs, flush, {}).out = FlushedOut(recs, flush)
  BY DEF Stepped, Machines

(* The changes the frame and the GPU make to an entry keep its type and    *)
(* what it owes.                                                           *)
LEMMA EntryEdits ==
  ASSUME NEW r \in BufferRec, NEW srs \in SUBSET Serials
  PROVE  /\ ClosedRec(r) \in BufferRec /\ ClosedRec(r).releaseOwed = r.releaseOwed
         /\ [r EXCEPT !.accessOpen = FALSE, !.inflightSerials = srs] \in BufferRec
         /\ [r EXCEPT !.inflightSerials = srs] \in BufferRec
         /\ [r EXCEPT !.inflightSerials = srs].releaseOwed = r.releaseOwed
  <1>1. ClosedRec(r) \in BufferRec /\ ClosedRec(r).releaseOwed = r.releaseOwed
    BY DEF BufferRec, ClosedRec
  <1>2. [r EXCEPT !.accessOpen = FALSE, !.inflightSerials = srs] \in BufferRec
    BY DEF BufferRec
  <1>3. /\ [r EXCEPT !.inflightSerials = srs] \in BufferRec
        /\ [r EXCEPT !.inflightSerials = srs].releaseOwed = r.releaseOwed
    BY DEF BufferRec
  <1> QED BY <1>1, <1>2, <1>3

(* A step that flushes nothing and emits neither releases nor imports. *)
LEMMA OutEmits ==
  ASSUME IInv, NEW emitted,
         \A i \in emitted : i.kind \in {"beginAccess", "endAccess", "discardAcquireFence"},
         m'.out = emitted
  PROVE  OutSound(m') /\ ReleasedBy(m') = {}
  BY DEF OutSound, ReleasedBy, Intent

(* A step that emits what its flushes emit. *)
LEMMA OutFlushes ==
  ASSUME IInv,
         NEW recs \in [BufferIds -> BufferRec], NEW flush \in SUBSET BufferIds,
         m'.buffers = FlushedBuffers(recs, flush),
         m'.out = FlushedOut(recs, flush),
         \A b \in flush : recs[b].releaseOwed =>
            m.buffers[b].releaseOwed \/ m.buffers[b].currentSurfaceId # NoSurface
  PROVE  OutSound(m') /\ ReleasedBy(m') \subseteq lent
  <1> DEFINE none == {}
  <1>1. /\ \A i \in none : i.kind \notin {"releaseImport", "sendWlRelease"}
        /\ \A b \in BufferIds : Intent("importBuffer", b, "none") \in none =>
             b \notin flush /\ recs[b].state = "Importing"
        /\ m'.out = none \cup FlushedOut(recs, flush)
    OBVIOUS
  <1> HIDE DEF none
  <1>2. OutSound(m') /\ ReleasedBy(m') \subseteq lent \cap flush
    BY <1>1, OutStep, Zenon
  <1> QED BY <1>2

(* acquireFenceAvailable hands back a fence at most. *)
LEMMA AcquireFenceAvailableOut ==
  ASSUME IInv, NEW b \in BufferIds, NEW f \in Fds \cup {"none"},
         AcquireFenceAvailable(b, f)
  PROVE  OutSound(m') /\ ReleasedBy(m') = {}
  <1> DEFINE armed == IF f = "none" THEN "implicit" ELSE f
             recs == [m.buffers EXCEPT ![b].pendingAcquireFence = armed]
             emitted == DiscardIntents(b, m.buffers[b])
  <1>1. /\ m \in Machines /\ m.buffers \in [BufferIds -> BufferRec]
        /\ Sound(m.buffers[b], b, m.sampled, reads, plane, lent)
    BY IInvFacts
  <1>2. Known(m, b)
    BY <1>1 DEF AcquireFenceAvailable, Sound, Known, AbsentRec, NewRec
  <1>3. recs \in [BufferIds -> BufferRec]
    BY <1>1 DEF BufferRec, Fences
  <1>4. \A i \in emitted : i.kind = "discardAcquireFence"
    BY DEF DiscardIntents, Intent
  <1>5. m' = Stepped(m, recs, {}, emitted)
    BY <1>2 DEF AcquireFenceAvailable, OnAcquireFenceAvailable
  <1> HIDE DEF recs, emitted
  <1>6. m'.out = emitted
    BY <1>1, <1>5, SteppedEmits
  <1> QED BY <1>4, <1>6, OutEmits

(* frameSampled begins an access, or returns early. *)
LEMMA FrameSampledOut ==
  ASSUME IInv, NEW s \in SurfaceIds, FrameSampled(s)
  PROVE  OutSound(m') /\ ReleasedBy(m') = {}
  <1>1. /\ m \in Machines /\ m.buffers \in [BufferIds -> BufferRec]
        /\ m' = OnFrameSampled(m, s)
    BY IInvFacts DEF FrameSampled, Delivers
  <1>2. CASE ~Samplable(m, s)
    <2>1. m'.out = {}
      BY <1>1, <1>2 DEF OnFrameSampled, Ignored, Machines
    <2> QED BY <2>1, EmptyOut
  <1>3. CASE Samplable(m, s)
    <2> DEFINE b == m.surfaces[s]
               recs == [m.buffers EXCEPT ![b] = BegunRec(@)]
               begin == {Intent("beginAccess", b, m.buffers[b].pendingAcquireFence)}
               k == Stepped(m, recs, {}, begin)
    <2>1. m' = [k EXCEPT !.sampled = @ \cup {b}]
      BY <1>1, <1>3 DEF OnFrameSampled
    <2>3. \A i \in begin : i.kind = "beginAccess"
      BY DEF Intent
    <2> HIDE DEF recs, begin
    <2>4. k.out = begin
      BY <1>1, SteppedEmits
    <2>5. m'.out = k.out
      BY <1>1, <2>1 DEF Stepped, Machines
    <2> QED BY <2>3, <2>4, <2>5, OutEmits
  <1> QED BY <1>2, <1>3

(* frameAborted closes the brackets and flushes. *)
LEMMA FrameAbortedOut ==
  ASSUME IInv, FrameAborted
  PROVE  OutSound(m') /\ ReleasedBy(m') \subseteq lent
  <1> DEFINE recs == [b \in BufferIds |-> IF b \in m.sampled /\ Known(m, b)
                                            THEN ClosedRec(m.buffers[b])
                                            ELSE m.buffers[b]]
             k == Stepped(m, recs, m.sampled, {})
  <1>1. /\ m \in Machines /\ m.buffers \in [BufferIds -> BufferRec]
        /\ m.sampled \in SUBSET BufferIds
        /\ m' = [k EXCEPT !.frameOpen = FALSE, !.sampled = {}]
    BY IInvFacts DEF FrameAborted, Delivers, OnFrameAborted
  <1>2. /\ recs \in [BufferIds -> BufferRec]
        /\ \A b \in BufferIds : recs[b].releaseOwed = m.buffers[b].releaseOwed
    <2>1. ASSUME NEW b \in BufferIds
          PROVE  ClosedRec(m.buffers[b]) \in BufferRec
                   /\ ClosedRec(m.buffers[b]).releaseOwed = m.buffers[b].releaseOwed
      BY <1>1, EntryEdits
    <2> QED BY <1>1, <2>1
  <1> HIDE DEF recs
  <1>3. /\ m'.buffers = FlushedBuffers(recs, m.sampled)
        /\ m'.out = FlushedOut(recs, m.sampled)
    <2>1. /\ k.buffers = FlushedBuffers(recs, m.sampled)
          /\ k.out = FlushedOut(recs, m.sampled)
      BY <1>1, SteppedFlushes
    <2>2. DOMAIN k = DOMAIN m
      BY DEF Stepped
    <2>3. {"buffers", "out", "frameOpen", "sampled"} \subseteq DOMAIN k
      BY <1>1, <2>2 DEF Machines
    <2> HIDE DEF k
    <2> QED BY <1>1, <2>1, <2>3
  <1> QED BY <1>1, <1>2, <1>3, OutFlushes

(* submitted ends the accesses; nothing is flushed. *)
LEMMA SubmittedOut ==
  ASSUME IInv, NEW sr \in Serials, Submitted(sr)
  PROVE  OutSound(m') /\ ReleasedBy(m') = {}
  <1> DEFINE ended == {b \in m.sampled : Known(m, b)}
             recs == [b \in BufferIds |->
                        IF b \in ended
                          THEN [m.buffers[b] EXCEPT !.accessOpen = FALSE,
                                                    !.inflightSerials = @ \cup {sr}]
                          ELSE m.buffers[b]]
             emitted == {Intent("endAccess", b, "none") : b \in ended}
             k == Stepped(m, recs, {}, emitted)
  <1>1. /\ m \in Machines /\ m.buffers \in [BufferIds -> BufferRec]
        /\ m' = [k EXCEPT !.frameOpen = FALSE, !.sampled = {},
                          !.pendingEndExports = IF ended # {} THEN @ \cup {sr} ELSE @]
    BY IInvFacts DEF Submitted, Delivers, OnSubmitted
  <1>2. recs \in [BufferIds -> BufferRec]
    <2>1. ASSUME NEW b \in BufferIds
          PROVE  [m.buffers[b] EXCEPT !.accessOpen = FALSE,
                    !.inflightSerials = m.buffers[b].inflightSerials \cup {sr}] \in BufferRec
      <3>1. m.buffers[b].inflightSerials \cup {sr} \in SUBSET Serials
        BY <1>1 DEF BufferRec
      <3> QED BY <1>1, <3>1, EntryEdits
    <2> QED BY <1>1, <2>1
  <1>3. \A i \in emitted : i.kind = "endAccess"
    BY DEF Intent
  <1> HIDE DEF recs, emitted, ended
  <1>4. k.out = emitted
    BY <1>1, SteppedEmits
  <1>5. DOMAIN k = DOMAIN m
    BY DEF Stepped
  <1>6. "out" \in DOMAIN k
    BY <1>1, <1>5 DEF Machines
  <1> HIDE DEF k
  <1>7. m'.out = k.out
    BY <1>1, <1>6
  <1> QED BY <1>3, <1>4, <1>7, OutEmits

(* gpuCompleted flushes what the serial read. *)
LEMMA GpuCompletedOut ==
  ASSUME IInv, NEW sr \in Serials, GpuCompleted(sr)
  PROVE  OutSound(m') /\ ReleasedBy(m') \subseteq lent
  <1> DEFINE done == {b \in BufferIds : sr \in m.buffers[b].inflightSerials}
             recs == [b \in BufferIds |->
                        [m.buffers[b] EXCEPT !.inflightSerials = @ \ {sr}]]
             k == Stepped(m, recs, done, {})
  <1>1. /\ m \in Machines /\ m.buffers \in [BufferIds -> BufferRec]
        /\ m' = [k EXCEPT !.pendingEndExports = @ \ {sr}]
    BY IInvFacts DEF GpuCompleted, Delivers, OnGpuCompleted
  <1>2. /\ recs \in [BufferIds -> BufferRec]
        /\ \A b \in BufferIds : recs[b].releaseOwed = m.buffers[b].releaseOwed
        /\ done \in SUBSET BufferIds
    <2>1. ASSUME NEW b \in BufferIds
          PROVE  LET r == [m.buffers[b] EXCEPT
                             !.inflightSerials = m.buffers[b].inflightSerials \ {sr}]
                 IN  r \in BufferRec /\ r.releaseOwed = m.buffers[b].releaseOwed
      <3>1. m.buffers[b].inflightSerials \ {sr} \in SUBSET Serials
        BY <1>1 DEF BufferRec
      <3> QED BY <1>1, <3>1, EntryEdits
    <2> QED BY <1>1, <2>1
  <1> HIDE DEF recs, done
  <1>3. /\ m'.buffers = FlushedBuffers(recs, done)
        /\ m'.out = FlushedOut(recs, done)
    <2>1. k.buffers = FlushedBuffers(recs, done) /\ k.out = FlushedOut(recs, done)
      BY <1>1, SteppedFlushes
    <2>2. DOMAIN k = DOMAIN m
      BY DEF Stepped
    <2>3. {"buffers", "out"} \subseteq DOMAIN k
      BY <1>1, <2>2 DEF Machines
    <2> HIDE DEF k
    <2> QED BY <1>1, <2>1, <2>3
  <1> QED BY <1>2, <1>3, OutFlushes

(* A one-entry step that flushes the entry. *)
LEMMA OneFlushOut ==
  ASSUME IInv, NEW b \in BufferIds, NEW r \in BufferRec,
         r.releaseOwed =>
            m.buffers[b].releaseOwed \/ m.buffers[b].currentSurfaceId # NoSurface,
         m' = Stepped(m, [m.buffers EXCEPT ![b] = r], {b}, {})
  PROVE  OutSound(m') /\ ReleasedBy(m') \subseteq lent
  <1> DEFINE recs == [m.buffers EXCEPT ![b] = r]
             flush == {b}
  <1>1. m \in Machines /\ m.buffers \in [BufferIds -> BufferRec]
    BY IInvFacts
  <1>2. /\ recs \in [BufferIds -> BufferRec] /\ flush \in SUBSET BufferIds
        /\ \A c \in flush : recs[c].releaseOwed =>
              m.buffers[c].releaseOwed \/ m.buffers[c].currentSurfaceId # NoSurface
    BY <1>1
  <1> HIDE DEF recs, flush
  <1>3. /\ m'.buffers = FlushedBuffers(recs, flush)
        /\ m'.out = FlushedOut(recs, flush)
    BY <1>1, SteppedFlushes DEF recs, flush
  <1> QED BY <1>2, <1>3, OutFlushes

(* importCompleted flushes the entry. *)
LEMMA ImportCompletedOut ==
  ASSUME IInv, NEW b \in BufferIds, ImportCompleted(b)
  PROVE  OutSound(m') /\ ReleasedBy(m') \subseteq lent
  <1> DEFINE r == [m.buffers[b] EXCEPT !.state = "Imported"]
  <1>1. m.buffers \in [BufferIds -> BufferRec]
    BY IInvFacts
  <1>2. r \in BufferRec /\ r.releaseOwed = m.buffers[b].releaseOwed
    BY <1>1 DEF BufferRec
  <1>3. m' = Stepped(m, [m.buffers EXCEPT ![b] = r], {b}, {})
    BY <1>1 DEF ImportCompleted, Delivers, OnImportCompleted
  <1> HIDE DEF r
  <1> QED BY <1>2, <1>3, OneFlushOut

(* accessFailed flushes the poisoned entry. *)
LEMMA ImportFailedOut ==
  ASSUME IInv, NEW b \in BufferIds, ImportFailed(b)
  PROVE  OutSound(m') /\ ReleasedBy(m') \subseteq lent
  <1> DEFINE r == [m.buffers[b] EXCEPT !.state = "Poisoned"]
  <1>1. m.buffers \in [BufferIds -> BufferRec]
    BY IInvFacts
  <1>2. r \in BufferRec /\ r.releaseOwed = m.buffers[b].releaseOwed
    BY <1>1 DEF BufferRec
  <1>3. m' = Stepped(m, [m.buffers EXCEPT ![b] = r], {b}, {})
    BY <1>1 DEF ImportFailed, Delivers, OnAccessFailed, Known
  <1> HIDE DEF r
  <1> QED BY <1>2, <1>3, OneFlushOut

(* scanoutRetired flushes the entry of a held buffer. *)
LEMMA ScanoutRetiredOut ==
  ASSUME IInv, NEW b \in BufferIds, ScanoutRetired(b)
  PROVE  OutSound(m') /\ ReleasedBy(m') \subseteq lent
  <1> DEFINE r == [m.buffers[b] EXCEPT !.scanoutHeld = FALSE]
  <1>1. /\ m.buffers \in [BufferIds -> BufferRec]
        /\ Sound(m.buffers[b], b, m.sampled, reads, plane, lent)
    BY IInvFacts
  <1>2. r \in BufferRec /\ r.releaseOwed = m.buffers[b].releaseOwed
    <2> DEFINE e == m.buffers[b]
    <2>1. e \in BufferRec
      BY <1>1
    <2> HIDE DEF e
    <2>2. [e EXCEPT !.scanoutHeld = FALSE] \in BufferRec
            /\ [e EXCEPT !.scanoutHeld = FALSE].releaseOwed = e.releaseOwed
      BY <2>1 DEF BufferRec
    <2> QED BY <2>2 DEF e
  <1>3. m.buffers[b].scanoutHeld
    BY <1>1 DEF Sound, ScanoutRetired
  <1>4. m' = Stepped(m, [m.buffers EXCEPT ![b] = r], {b}, {})
    BY <1>1, <1>3 DEF ScanoutRetired, Delivers, OnScanoutRetired
  <1> HIDE DEF r
  <1> QED BY <1>2, <1>4, OneFlushOut

(* bufferDestroyed tears down what it can and releases nothing. *)
LEMMA BufferDestroyedOut ==
  ASSUME IInv, NEW b \in BufferIds, BufferDestroyed(b)
  PROVE  OutSound(m') /\ ReleasedBy(m') = {}
  <1>1. /\ m \in Machines /\ m.buffers \in [BufferIds -> BufferRec]
        /\ m' = OnBufferDestroyed(m, b)
    BY IInvFacts DEF BufferDestroyed
  <1>2. CASE ~Known(m, b)
    <2>1. m'.out = {}
      BY <1>1, <1>2 DEF OnBufferDestroyed, Ignored, Machines
    <2> QED BY <2>1, EmptyOut
  <1>3. CASE Known(m, b)
    <2> DEFINE r == [m.buffers[b] EXCEPT !.destroyed = TRUE,
                                         !.importOwed = TRUE,
                                         !.currentSurfaceId = NoSurface,
                                         !.releaseOwed = FALSE]
               recs == [m.buffers EXCEPT ![b] = r]
               flush == {b}
               k == Stepped(m, recs, flush, {})
               none == {}
    <2>1. k.buffers = FlushedBuffers(recs, flush) /\ k.out = FlushedOut(recs, flush)
      BY <1>1, SteppedFlushes
    <2>2. /\ recs \in [BufferIds -> BufferRec] /\ ~recs[b].releaseOwed
          /\ flush \in SUBSET BufferIds
      <3>1. r \in BufferRec /\ ~r.releaseOwed
        <4> DEFINE e == m.buffers[b]
        <4>1. e \in BufferRec
          BY <1>1
        <4> HIDE DEF e
        <4> QED BY <4>1 DEF BufferRec, e
      <3> HIDE DEF r
      <3> QED BY <1>1, <3>1
    <2>3. \A c \in flush : ~recs[c].releaseOwed
      BY <2>2
    <2>4. m'.buffers = k.buffers /\ m'.out = k.out
      BY <1>1, <1>3 DEF OnBufferDestroyed, Stepped, Machines
    <2>5. /\ \A i \in none : i.kind \notin {"releaseImport", "sendWlRelease"}
          /\ \A c \in BufferIds : Intent("importBuffer", c, "none") \in none =>
               c \notin flush /\ recs[c].state = "Importing"
      OBVIOUS
    <2>6. m'.out = none \cup FlushedOut(recs, flush)
      BY <2>1, <2>4
    <2>7. m'.buffers = FlushedBuffers(recs, flush)
      BY <2>1, <2>4
    <2> HIDE DEF recs, flush, none, k
    <2>8. /\ OutSound(m')
          /\ \A c \in ReleasedBy(m') : c \in flush /\ recs[c].releaseOwed
      BY <2>2, <2>5, <2>6, <2>7, SteppedOut
    <2> QED BY <2>3, <2>8
  <1> QED BY <1>2, <1>3

(* onSurfaceRemoved leaves a well-typed entry. *)
LEMMA DrainedRecType ==
  ASSUME NEW r \in BufferRec
  PROVE  DrainedRec(r) \in BufferRec
  BY DEF DrainedRec, BufferRec

(* surfaceRemoved drains the surface's buffer, which was lent. *)
LEMMA SurfaceRemovedOut ==
  ASSUME IInv, NEW s \in SurfaceIds, SurfaceRemoved(s)
  PROVE  OutSound(m') /\ ReleasedBy(m') \subseteq lent
  <1> DEFINE cur == {b \in BufferIds : b = m.surfaces[s] /\ Known(m, b)}
             recs == [b \in BufferIds |->
                        IF b \in cur /\ m.buffers[b].currentSurfaceId = s
                          THEN DrainedRec(m.buffers[b]) ELSE m.buffers[b]]
             k == Stepped(m, recs, cur, {})
  <1>1. /\ m \in Machines /\ m.buffers \in [BufferIds -> BufferRec]
        /\ Linked(m.buffers, m.surfaces)
        /\ m' = [k EXCEPT !.surfaces[s] = NoBuffer]
    BY IInvFacts DEF SurfaceRemoved, Delivers, OnSurfaceRemoved
  <1>2. /\ recs \in [BufferIds -> BufferRec]
        /\ cur \in SUBSET BufferIds
    <2>1. \A b \in BufferIds : DrainedRec(m.buffers[b]) \in BufferRec
      BY <1>1, DrainedRecType
    <2> QED BY <1>1, <2>1
  <1>3. \A c \in cur : m.buffers[c].currentSurfaceId # NoSurface
    BY <1>1, NoSurfaceAssumption DEF Linked
  <1> HIDE DEF recs, cur
  <1>4. k.buffers = FlushedBuffers(recs, cur) /\ k.out = FlushedOut(recs, cur)
    BY <1>1, SteppedFlushes
  <1>5. m'.buffers = k.buffers /\ m'.out = k.out
    BY <1>1 DEF Stepped, Machines
  <1> QED BY <1>2, <1>3, <1>4, <1>5, OutFlushes

(* frameStart emits nothing. *)
LEMMA FrameStartOut ==
  ASSUME IInv, FrameStart
  PROVE  OutSound(m') /\ ReleasedBy(m') = {}
  <1>1. m'.out = {}
    BY IInvFacts DEF FrameStart, Delivers, OnFrameStart, Ignored, Machines
  <1> QED BY <1>1, EmptyOut

(* endAccessFenceExported records a fence. *)
LEMMA EndAccessFenceExportedOut ==
  ASSUME IInv, NEW b \in BufferIds, EndAccessFenceExported(b)
  PROVE  OutSound(m') /\ ReleasedBy(m') = {}
  <1> DEFINE recs == [m.buffers EXCEPT ![b] = ExportedRec(@)]
  <1>1. m \in Machines
    BY IInvFacts
  <1>2. m' = Ignored(m) \/ m' = Stepped(m, recs, {}, {})
    BY DEF EndAccessFenceExported, Delivers, OnEndAccessFenceExported
  <1> HIDE DEF recs
  <1>3. Ignored(m).out = {} /\ Stepped(m, recs, {}, {}).out = {}
    BY <1>1, SteppedEmits DEF Ignored, Machines
  <1> QED BY <1>2, <1>3, EmptyOut

(* scanoutPresented records the hold. *)
LEMMA ScanoutPresentedOut ==
  ASSUME IInv, NEW b \in BufferIds, ScanoutPresented(b)
  PROVE  OutSound(m') /\ ReleasedBy(m') = {}
  <1> DEFINE n == TakeAcquireFence(m, b)
             recs == [n.buffers EXCEPT ![b].scanoutHeld = TRUE]
  <1>1. m \in Machines /\ m.buffers[b] \in BufferRec
    BY IInvFacts
  <1>2. n \in Machines
    <2>1. [m.buffers[b] EXCEPT !.pendingAcquireFence = "none"] \in BufferRec
      BY <1>1 DEF BufferRec, Fences
    <2> QED BY <1>1, <2>1 DEF TakeAcquireFence, Machines
  <1>3. m' = Ignored(n) \/ m' = Stepped(n, recs, {}, {})
    BY DEF ScanoutPresented, OnScanoutPresented
  <1> HIDE DEF n, recs
  <1>4. Ignored(n).out = {} /\ Stepped(n, recs, {}, {}).out = {}
    BY <1>2, SteppedEmits DEF Ignored, Machines
  <1> QED BY <1>3, <1>4, EmptyOut

(* takeAcquireFence leaves the intents and all else alone. *)
LEMMA SampleOutsideFrameOut ==
  ASSUME IInv, OutSound(m), NEW b \in BufferIds, SampleOutsideFrame(b)
  PROVE  /\ OutSound(m') /\ ReleasedBy(m') = ReleasedBy(m)
         /\ m'.sampled = m.sampled
  <1>1. /\ m \in Machines /\ m.buffers \in [BufferIds -> BufferRec]
        /\ m' = [m EXCEPT !.buffers[b].pendingAcquireFence = "none"]
    BY IInvFacts DEF SampleOutsideFrame, TakeAcquireFence
  <1>2. m'.out = m.out /\ m'.sampled = m.sampled
    BY <1>1 DEF Machines
  <1>3. ReleasedBy(m') = ReleasedBy(m)
    BY <1>2 DEF ReleasedBy
  <1>4. m'.buffers = [m.buffers EXCEPT ![b].pendingAcquireFence = "none"]
    BY <1>1 DEF Machines
  <1>5. \A c \in BufferIds : m'.buffers[c].state = m.buffers[c].state
                            /\ (Unread(m.buffers[c]) => Unread(m'.buffers[c]))
    BY <1>1, <1>4 DEF BufferRec, Unread
  <1> QED BY <1>2, <1>3, <1>5 DEF OutSound

-----------------------------------------------------------------------------
(* Every event leaves sound intents. *)
LEMMA NextOut ==
  ASSUME IInv, OutSound(m), [Next]_vars
  PROVE  OutSound(m')
  <1>1. CASE FrameStart \/ FrameAborted
    BY <1>1, FrameStartOut, FrameAbortedOut
  <1>2. ASSUME NEW s \in SurfaceIds, FrameSampled(s) \/ SurfaceRemoved(s)
        PROVE  OutSound(m')
    BY <1>2, FrameSampledOut, SurfaceRemovedOut
  <1>3. ASSUME NEW s \in SurfaceIds, NEW b \in BufferIds, Commit(s, b)
        PROVE  OutSound(m')
    BY <1>3, CommitOut
  <1>4. ASSUME NEW b \in BufferIds, NEW f \in Fds \cup {"none"}, AcquireFenceAvailable(b, f)
        PROVE  OutSound(m')
    BY <1>4, AcquireFenceAvailableOut
  <1>5. ASSUME NEW sr \in Serials, Submitted(sr) \/ GpuCompleted(sr)
        PROVE  OutSound(m')
    BY <1>5, SubmittedOut, GpuCompletedOut
  <1>6. ASSUME NEW b \in BufferIds,
               \/ EndAccessFenceExported(b) \/ BufferDestroyed(b)
               \/ ImportCompleted(b) \/ ImportFailed(b)
               \/ SampleOutsideFrame(b) \/ ScanoutPresented(b) \/ ScanoutRetired(b)
        PROVE  OutSound(m')
    BY <1>6, EndAccessFenceExportedOut, BufferDestroyedOut, ImportCompletedOut,
       ImportFailedOut, SampleOutsideFrameOut, ScanoutPresentedOut, ScanoutRetiredOut
  <1>7. CASE UNCHANGED vars
    BY <1>7 DEF vars
  <1> QED BY <1>1, <1>2, <1>3, <1>4, <1>5, <1>6, <1>7 DEF Next

(* Together with the intents, the invariant stays inductive. *)
THEOREM IntentsSound == Spec => [](IInv /\ OutSound(m))
  <1>1. Init => IInv /\ OutSound(m)
    BY InitIInv, EmptyOut DEF Init, InitMachine
  <1>2. IInv /\ OutSound(m) /\ [Next]_vars => (IInv /\ OutSound(m))'
    BY NextIInv, NextOut
  <1> QED BY <1>1, <1>2, PTL DEF Spec

(* releaseImport is emitted only for an import that no surface shows and   *)
(* no job or plane reads, importBuffer only for an entry that waits for it *)
(* (maybeFlush and onCommit; header invariants 1 and 5).                   *)
THEOREM TeardownIsSafe == Spec => []ImportTeardownSafe
  <1>1. ASSUME IInv, OutSound(m) PROVE ImportTeardownSafe
    <2>1. ASSUME NEW b \in BufferIds, Intent("releaseImport", b, "none") \in m.out
          PROVE  /\ ~Known(m, b)
                 /\ \A s \in SurfaceIds : m.surfaces[s] # b
                 /\ b \notin plane \cup UNION {reads[sr] : sr \in Serials}
      <3>1. m.buffers[b] = AbsentRec /\ m.buffers[b].state = "Absent"
        BY <1>1, <2>1, IInvFacts DEF OutSound, Sound
      <3>2. /\ m.buffers[b].currentSurfaceId = NoSurface
            /\ m.buffers[b].inflightSerials = {} /\ ~m.buffers[b].scanoutHeld
        BY <3>1 DEF AbsentRec, NewRec
      <3>3. b \notin plane /\ \A sr \in Serials : b \notin reads[sr]
        BY <1>1, <3>2, IInvFacts DEF Sound
      <3>4. \A s \in SurfaceIds : m.surfaces[s] # b
        BY <1>1, <3>2, IInvFacts, NoSurfaceAssumption DEF Linked
      <3> QED BY <3>1, <3>3, <3>4 DEF Known
    <2> QED BY <1>1, <2>1 DEF ImportTeardownSafe, OutSound
  <1> QED BY <1>1, IntentsSound, PTL

-----------------------------------------------------------------------------
(* A released buffer is not being read. *)
LEMMA ReleasedUnread ==
  ASSUME IInv', OutSound(m')
  PROVE  \A b \in ReleasedBy(m') : b \notin Reading'
  <1> SUFFICES ASSUME NEW b \in ReleasedBy(m') PROVE b \notin Reading'
    OBVIOUS
  <1>1. b \in BufferIds
    BY DEF ReleasedBy
  <1>2. Unread(m'.buffers[b])
    BY <1>1 DEF OutSound
  <1>3. Sound(m'.buffers[b], b, m'.sampled, reads', plane', lent')
    BY <1>1 DEF IInv
  <1>4. /\ b \notin m'.sampled /\ b \notin plane'
        /\ \A sr \in Serials : b \notin reads'[sr]
    BY <1>2, <1>3 DEF Sound, Unread
  <1> QED BY <1>4 DEF Reading

(* A step that starts no read and releases what is due is an EndReads. *)
LEMMA EndReadsStep ==
  ASSUME IInv', OutSound(m'), Reading' \subseteq Reading,
         ReleasedBy(m') \subseteq lent, lent' = lent \ ReleasedBy(m')
  PROVE  Lending!Next
  <1>1. \A b \in ReleasedBy(m') : b \notin Reading'
    BY ReleasedUnread
  <1> DEFINE E == Reading \ Reading'
             R == ReleasedBy(m')
  <1>2. /\ E \in SUBSET Reading
        /\ R \in SUBSET (lent \ (Reading \ E))
        /\ Reading' = Reading \ E
        /\ lent' = lent \ R
        /\ ReleasedBy(m)' = R
    BY <1>1
  <1> HIDE DEF E, R
  <1> QED BY <1>2 DEF Lending!Next, Lending!EndReads, Reading

(* A step that starts one read, of a lent buffer, is a StartRead. *)
LEMMA StartReadStep ==
  ASSUME NEW b \in BufferIds, b \in lent, Reading' = Reading \cup {b},
         ReleasedBy(m') = {}, lent' = lent
  PROVE  Lending!Next
  BY DEF Lending!Next, Lending!StartRead, Reading

(* commit lends the buffer; what it superseded may be returned. *)
LEMMA CommitLends ==
  ASSUME IInv, IInv', NEW s \in SurfaceIds, NEW b \in BufferIds, Commit(s, b)
  PROVE  Lending!Next
  <1>1. OutSound(m') /\ ReleasedBy(m') \subseteq lent \ {b}
    BY CommitOut
  <1>2. m'.sampled = m.sampled /\ reads' = reads /\ plane' = plane
    BY IInvFacts DEF Commit, OnCommit, Stepped, Machines
  <1>3. Reading' = Reading
    BY <1>2 DEF Reading
  <1>4. \A c \in ReleasedBy(m') : c \notin Reading
    BY <1>1, <1>3, ReleasedUnread
  <1>5. lent' = (lent \ ReleasedBy(m')) \cup {b}
    BY DEF Commit
  <1> DEFINE R == ReleasedBy(m')
  <1>6. R \in SUBSET (lent \ (Reading \cup {b}))
    BY <1>1, <1>4
  <1> QED BY <1>3, <1>5, <1>6 DEF Lending!Next, Lending!Lend, Reading

(* Where each event leaves the pinned set. *)
LEMMA FrameFields ==
  ASSUME IInv
  PROVE  /\ FrameStart => m'.sampled = {}
         /\ FrameAborted => m'.sampled = {}
         /\ \A sr \in Serials : Submitted(sr) => m'.sampled = {}
         /\ \A sr \in Serials : GpuCompleted(sr) => m'.sampled = m.sampled
         /\ \A s \in SurfaceIds : SurfaceRemoved(s) => m'.sampled = m.sampled
  <1>1. m \in Machines
    BY IInvFacts
  <1>2. FrameStart => m'.sampled = {}
    BY <1>1 DEF FrameStart, Delivers, OnFrameStart, Ignored, Machines
  <1>3. FrameAborted => m'.sampled = {}
    BY <1>1 DEF FrameAborted, Delivers, OnFrameAborted, Stepped, Machines
  <1>4. ASSUME NEW sr \in Serials, Submitted(sr) PROVE m'.sampled = {}
    BY <1>1, <1>4 DEF Submitted, Delivers, OnSubmitted, Stepped, Machines
  <1>5. ASSUME NEW sr \in Serials, GpuCompleted(sr) PROVE m'.sampled = m.sampled
    BY <1>1, <1>5 DEF GpuCompleted, Delivers, OnGpuCompleted, Stepped, Machines
  <1>6. ASSUME NEW s \in SurfaceIds, SurfaceRemoved(s) PROVE m'.sampled = m.sampled
    BY <1>1, <1>6 DEF SurfaceRemoved, Delivers, OnSurfaceRemoved, Stepped, Machines
  <1> QED BY <1>2, <1>3, <1>4, <1>5, <1>6

(* ... and the events of one buffer. *)
LEMMA EntryFields ==
  ASSUME IInv, NEW b \in BufferIds,
         \/ EndAccessFenceExported(b) \/ BufferDestroyed(b)
         \/ ImportCompleted(b) \/ ImportFailed(b)
         \/ ScanoutPresented(b) \/ ScanoutRetired(b)
  PROVE  m'.sampled = m.sampled
  <1>1. m \in Machines
    BY IInvFacts
  <1>2. CASE EndAccessFenceExported(b)
    BY <1>1, <1>2 DEF EndAccessFenceExported, Delivers, OnEndAccessFenceExported,
       Ignored, Stepped, Machines
  <1>3. CASE BufferDestroyed(b)
    BY <1>1, <1>3 DEF BufferDestroyed, OnBufferDestroyed, Ignored, Stepped, Machines
  <1>4. CASE ImportCompleted(b)
    BY <1>1, <1>4 DEF ImportCompleted, Delivers, OnImportCompleted, Ignored, Stepped, Machines
  <1>5. CASE ImportFailed(b)
    BY <1>1, <1>5 DEF ImportFailed, Delivers, OnAccessFailed, Ignored, Stepped, Machines
  <1>6. CASE ScanoutPresented(b)
    BY <1>1, <1>6 DEF ScanoutPresented, TakeAcquireFence, OnScanoutPresented, Ignored,
       Stepped, Machines
  <1>7. CASE ScanoutRetired(b)
    BY <1>1, <1>7 DEF ScanoutRetired, Delivers, OnScanoutRetired, Ignored, Stepped, Machines
  <1> QED BY <1>2, <1>3, <1>4, <1>5, <1>6, <1>7

(* frameSampled starts a read of the surface's buffer, which is lent. *)
LEMMA FrameSampledLends ==
  ASSUME IInv, IInv', NEW s \in SurfaceIds, FrameSampled(s)
  PROVE  Lending!Next
  <1>1. OutSound(m') /\ ReleasedBy(m') = {}
    BY FrameSampledOut
  <1>2. /\ m \in Machines /\ m' = OnFrameSampled(m, s)
        /\ lent' = lent \ ReleasedBy(m') /\ reads' = reads /\ plane' = plane
    BY IInvFacts DEF FrameSampled, Delivers
  <1>3. CASE ~Samplable(m, s)
    <2>1. m'.sampled = m.sampled
      BY <1>2, <1>3 DEF OnFrameSampled, Ignored, Machines
    <2>2. Reading' \subseteq Reading
      BY <1>2, <2>1 DEF Reading
    <2> QED BY <1>1, <1>2, <2>2, EndReadsStep
  <1>4. CASE Samplable(m, s)
    <2> DEFINE b == m.surfaces[s]
    <2>1. m'.sampled = m.sampled \cup {b}
      BY <1>2, <1>4 DEF OnFrameSampled, Stepped, Machines
    <2>2. b \in BufferIds
      BY <1>4 DEF Samplable
    <2>3. m.buffers[b].currentSurfaceId = s
      BY <2>2, IInvFacts DEF Linked
    <2>4. b \in lent
      BY <2>2, <2>3, IInvFacts, NoSurfaceAssumption DEF Sound
    <2>5. Reading' = Reading \cup {b}
      BY <1>2, <2>1 DEF Reading
    <2>6. lent' = lent
      BY <1>1, <1>2
    <2> QED BY <1>1, <2>2, <2>4, <2>5, <2>6, StartReadStep
  <1> QED BY <1>3, <1>4

(* submitted moves the pinned buffers to the serial; completion ends them. *)
LEMMA SerialLends ==
  ASSUME IInv, IInv', NEW sr \in Serials, Submitted(sr) \/ GpuCompleted(sr)
  PROVE  Lending!Next
  <1>1. reads \in [Serials -> SUBSET BufferIds]
    BY IInvFacts
  <1>2. CASE Submitted(sr)
    <2>1. OutSound(m') /\ ReleasedBy(m') = {}
      BY <1>2, SubmittedOut
    <2>2. /\ m'.sampled = {} /\ plane' = plane /\ lent' = lent \ ReleasedBy(m')
          /\ reads' = [reads EXCEPT ![sr] = m.sampled]
      BY <1>2, FrameFields DEF Submitted, Delivers
    <2>3. \A t \in Serials : reads'[t] \subseteq reads[t] \cup m.sampled
      BY <1>1, <2>2
    <2>4. Reading' \subseteq Reading
      BY <2>2, <2>3 DEF Reading
    <2> QED BY <2>1, <2>2, <2>4, EndReadsStep
  <1>3. CASE GpuCompleted(sr)
    <2>1. OutSound(m') /\ ReleasedBy(m') \subseteq lent
      BY <1>3, GpuCompletedOut
    <2>2. /\ m'.sampled = m.sampled /\ plane' = plane /\ lent' = lent \ ReleasedBy(m')
          /\ reads' = [reads EXCEPT ![sr] = {}]
      BY <1>3, FrameFields DEF GpuCompleted, Delivers
    <2>3. \A t \in Serials : reads'[t] \subseteq reads[t]
      BY <1>1, <2>2
    <2>4. Reading' \subseteq Reading
      BY <2>2, <2>3 DEF Reading
    <2> QED BY <2>1, <2>2, <2>4, EndReadsStep
  <1> QED BY <1>2, <1>3

(* The events of one buffer, and its destruction. *)
LEMMA EntryLends ==
  ASSUME IInv, IInv', OutSound(m), NEW b \in BufferIds,
         \/ EndAccessFenceExported(b) \/ BufferDestroyed(b)
         \/ ImportCompleted(b) \/ ImportFailed(b)
         \/ SampleOutsideFrame(b) \/ ScanoutPresented(b) \/ ScanoutRetired(b)
  PROVE  [Lending!Next]_(Lending!vars)
  <1>1. CASE EndAccessFenceExported(b) \/ ImportCompleted(b) \/ ImportFailed(b)
             \/ ScanoutRetired(b)
    <2>1. OutSound(m') /\ ReleasedBy(m') \subseteq lent
      BY <1>1, EndAccessFenceExportedOut, ImportCompletedOut, ImportFailedOut,
         ScanoutRetiredOut
    <2>2. /\ m'.sampled = m.sampled /\ plane' \subseteq plane /\ reads' = reads
          /\ lent' = lent \ ReleasedBy(m')
      <3>1. m'.sampled = m.sampled
        BY <1>1, EntryFields
      <3> QED BY <1>1, <3>1 DEF EndAccessFenceExported, ImportCompleted, ImportFailed,
                 ScanoutRetired, Delivers
    <2>3. Reading' \subseteq Reading
      BY <2>2 DEF Reading
    <2> QED BY <2>1, <2>2, <2>3, EndReadsStep
  <1>2. CASE BufferDestroyed(b)
    <2>1. OutSound(m') /\ ReleasedBy(m') = {}
      BY <1>2, BufferDestroyedOut
    <2>2. /\ m'.sampled = m.sampled /\ plane' = plane /\ reads' = reads
          /\ lent' = lent \ {b}
      <3>1. m'.sampled = m.sampled
        BY <1>2, EntryFields
      <3> QED BY <1>2, <3>1 DEF BufferDestroyed
    <2> QED BY <2>1, <2>2 DEF Lending!Next, Lending!Forget
  <1>3. CASE ScanoutPresented(b)
    <2>1. OutSound(m') /\ ReleasedBy(m') = {}
      BY <1>3, ScanoutPresentedOut
    <2>2. /\ m'.sampled = m.sampled /\ plane' = plane \cup {b} /\ reads' = reads
          /\ lent' = lent
      <3>1. m'.sampled = m.sampled
        BY <1>3, EntryFields
      <3> QED BY <1>3, <3>1 DEF ScanoutPresented
    <2>3. b \in lent
      BY <1>3, IInvFacts DEF ScanoutPresented, Sound
    <2>4. Reading' = Reading \cup {b}
      BY <2>2 DEF Reading
    <2> QED BY <2>1, <2>2, <2>3, <2>4, StartReadStep
  <1>4. CASE SampleOutsideFrame(b)
    <2>1. ReleasedBy(m') = ReleasedBy(m) /\ m'.sampled = m.sampled
      BY <1>4, SampleOutsideFrameOut
    <2>2. plane' = plane /\ reads' = reads /\ lent' = lent
      BY <1>4 DEF SampleOutsideFrame
    <2> QED BY <2>1, <2>2 DEF Lending!vars
  <1> QED BY <1>1, <1>2, <1>3, <1>4

(* Every event is a step of BufferLending or a stutter. *)
LEMMA NextLends ==
  ASSUME IInv, IInv', OutSound(m), OutSound(m'), [Next]_vars
  PROVE  [Lending!Next]_(Lending!vars)
  <1>1. CASE FrameStart \/ FrameAborted
    <2>1. m'.sampled = {} /\ ReleasedBy(m') \subseteq lent
      BY <1>1, FrameFields, FrameStartOut, FrameAbortedOut
    <2>2. reads' = reads /\ plane' = plane /\ lent' = lent \ ReleasedBy(m')
      BY <1>1 DEF FrameStart, FrameAborted, Delivers
    <2>3. Reading' \subseteq Reading
      BY <2>1, <2>2 DEF Reading
    <2> QED BY <2>1, <2>2, <2>3, EndReadsStep
  <1>2. ASSUME NEW s \in SurfaceIds, SurfaceRemoved(s)
        PROVE  Lending!Next
    <2>1. m'.sampled = m.sampled /\ ReleasedBy(m') \subseteq lent
      BY <1>2, FrameFields, SurfaceRemovedOut
    <2>2. reads' = reads /\ plane' = plane /\ lent' = lent \ ReleasedBy(m')
      BY <1>2 DEF SurfaceRemoved, Delivers
    <2>3. Reading' \subseteq Reading
      BY <2>1, <2>2 DEF Reading
    <2> QED BY <2>1, <2>2, <2>3, EndReadsStep
  <1>3. ASSUME NEW s \in SurfaceIds, FrameSampled(s)
        PROVE  Lending!Next
    BY <1>3, FrameSampledLends
  <1>4. ASSUME NEW s \in SurfaceIds, NEW b \in BufferIds, Commit(s, b)
        PROVE  Lending!Next
    BY <1>4, CommitLends
  <1>5. ASSUME NEW b \in BufferIds, NEW f \in Fds \cup {"none"}, AcquireFenceAvailable(b, f)
        PROVE  Lending!Next
    <2>1. ReleasedBy(m') = {}
      BY <1>5, AcquireFenceAvailableOut
    <2>2. m'.sampled = m.sampled /\ reads' = reads /\ plane' = plane /\ lent' = lent
      BY <1>5, IInvFacts DEF AcquireFenceAvailable, OnAcquireFenceAvailable, Ignored,
         Stepped, Machines
    <2>3. Reading' \subseteq Reading
      BY <2>2 DEF Reading
    <2> QED BY <2>1, <2>2, <2>3, EndReadsStep
  <1>6. ASSUME NEW sr \in Serials, Submitted(sr) \/ GpuCompleted(sr)
        PROVE  Lending!Next
    BY <1>6, SerialLends
  <1>7. ASSUME NEW b \in BufferIds,
               \/ EndAccessFenceExported(b) \/ BufferDestroyed(b)
               \/ ImportCompleted(b) \/ ImportFailed(b)
               \/ SampleOutsideFrame(b) \/ ScanoutPresented(b) \/ ScanoutRetired(b)
        PROVE  [Lending!Next]_(Lending!vars)
    BY <1>7, EntryLends
  <1>8. CASE UNCHANGED vars
    <2>1. m' = m /\ lent' = lent /\ reads' = reads /\ plane' = plane
      BY <1>8 DEF vars
    <2> QED BY <2>1 DEF Lending!vars
  <1> QED BY <1>1, <1>2, <1>3, <1>4, <1>5, <1>6, <1>7, <1>8 DEF Next

(* The lifecycle machine implements BufferLending: for any number of       *)
(* buffers, surfaces, frames in flight and fences, a commit lends, a read  *)
(* starts only on a lent buffer, and each loan ends once and never while   *)
(* the buffer is read (header invariants 4 and 8).                      *)
THEOREM ImplementsLending == Spec => LendingSpec
  <1>1. Init => Lending!Init
    BY DEF Init, InitMachine, Lending!Init, ReleasedBy
  <1>2. (IInv /\ OutSound(m)) /\ (IInv /\ OutSound(m))' /\ [Next]_vars
        => [Lending!Next]_(Lending!vars)
    BY NextLends
  <1> QED BY <1>1, <1>2, IntentsSound, PTL DEF Spec, LendingSpec, Lending!Spec
=============================================================================
