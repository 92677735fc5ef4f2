--------------------------- MODULE BufferMachine ---------------------------
(***************************************************************************)
(* The pure client-dmabuf state machine of                                 *)
(*   packages/core/src/gpu/client-buffer-lifecycle.ts                      *)
(* as operators on a machine record m, so that one executor turn (which    *)
(* may step the machine several times) is a composition of them.  The      *)
(* class's fields are m's fields:                                          *)
(*   buffers   `buffers`: a total function; a missing entry is Absent      *)
(*   surfaces  `surfaces`: the current buffer of each surface; a missing   *)
(*             entry and currentBufferId = 0 behave alike: NoBuffer        *)
(*   frameOpen, sampled   `frame`: null is frameOpen = FALSE; the surface  *)
(*             half of a sampled pair is only echoed, never read           *)
(*   pendingEndExports    the serials that have an entry                   *)
(*   out       the intents of the last step(), as a set: the only order    *)
(*             the executor depends on is within one buffer (release,      *)
(*             discard, releaseImport) and the executor module keeps it    *)
(* dims, chainFence's payload and the syncobj fence kind are left out: no  *)
(* caller feeds a syncobj fence, and the chain fence is a sentinel.        *)
(***************************************************************************)
EXTENDS FiniteSets

CONSTANTS BufferIds,    \* wl_buffer ids handed out by bufferIdOf
          SurfaceIds,   \* wl_surface ids
          Serials,      \* submit serials in use at once
          Fds,          \* explicit acquire fences (sync_file fds)
          NoBuffer,     \* currentBufferId = 0
          NoSurface     \* currentSurfaceId = 0

ASSUME NoBufferAssumption == NoBuffer \notin BufferIds
ASSUME NoSurfaceAssumption == NoSurface \notin SurfaceIds
ASSUME FdsAssumption == {"none", "implicit"} \cap Fds = {}

Fences == Fds \cup {"none", "implicit"}

BufferRec ==
  [state: {"Absent", "Importing", "Imported", "Poisoned"},
   currentSurfaceId: SurfaceIds \cup {NoSurface},
   destroyed: BOOLEAN, releaseOwed: BOOLEAN, importOwed: BOOLEAN,
   chainFence: BOOLEAN, pendingAcquireFence: Fences,
   inflightSerials: SUBSET Serials,
   accessOpen: BOOLEAN, scanoutHeld: BOOLEAN]

IntentKinds == {"importBuffer", "beginAccess", "endAccess", "releaseImport",
                "sendWlRelease", "discardAcquireFence"}

Intents == [kind: IntentKinds, bufferId: BufferIds, fence: Fences]

Machines ==
  [buffers: [BufferIds -> BufferRec],
   surfaces: [SurfaceIds -> BufferIds \cup {NoBuffer}],
   frameOpen: BOOLEAN, sampled: SUBSET BufferIds,
   pendingEndExports: SUBSET Serials,
   out: SUBSET Intents]

(* An entry as onCommit creates it, and the stand-in for a missing entry. *)
NewRec(state, s) ==
  [state |-> state, currentSurfaceId |-> s,
   destroyed |-> FALSE, releaseOwed |-> FALSE, importOwed |-> FALSE,
   chainFence |-> FALSE, pendingAcquireFence |-> "none",
   inflightSerials |-> {}, accessOpen |-> FALSE, scanoutHeld |-> FALSE]

AbsentRec == NewRec("Absent", NoSurface)

InitMachine ==
  [buffers |-> [b \in BufferIds |-> AbsentRec],
   surfaces |-> [s \in SurfaceIds |-> NoBuffer],
   frameOpen |-> FALSE, sampled |-> {}, pendingEndExports |-> {}, out |-> {}]

Known(m, b) == m.buffers[b].state # "Absent"

Intent(kind, b, f) == [kind |-> kind, bufferId |-> b, fence |-> f]

(***************************************************************************)
(* maybeFlush and discardPendingAcquireFence, on one entry: what blocks    *)
(* it, the entry it leaves, and the intents it emits.                      *)
(***************************************************************************)
(* Mutants of FlushBlocked: maybeFlush forgets one of its conditions. *)
FlushBlockedNotByGpu(r) ==
  r.state \in {"Absent", "Importing"} \/ r.accessOpen \/ r.scanoutHeld

FlushBlockedNotByScanout(r) ==
  r.state \in {"Absent", "Importing"} \/ r.inflightSerials # {} \/ r.accessOpen

FlushBlocked(r) ==
  \/ r.state \in {"Absent", "Importing"}
  \/ r.inflightSerials # {}
  \/ r.accessOpen
  \/ r.scanoutHeld

FlushedRec(r) ==
  IF FlushBlocked(r) THEN r
  ELSE IF r.importOwed THEN AbsentRec
  ELSE [r EXCEPT !.releaseOwed = FALSE]

DiscardIntents(b, r) ==
  {Intent("discardAcquireFence", b, f) : f \in {r.pendingAcquireFence} \cap Fds}

FlushIntents(b, r) ==
  IF FlushBlocked(r) THEN {}
  ELSE (IF r.releaseOwed /\ ~r.destroyed
          THEN {Intent("sendWlRelease", b, "none")} ELSE {})
       \cup
       (IF r.importOwed
          THEN DiscardIntents(b, r) \cup {Intent("releaseImport", b, "none")}
          ELSE {})

(***************************************************************************)
(* One step(): the entries become recs, then maybeFlush runs on the        *)
(* buffers of flush, and out holds emitted and what the flushes emit.      *)
(***************************************************************************)
FlushedBuffers(recs, flush) ==
  [b \in BufferIds |-> IF b \in flush THEN FlushedRec(recs[b]) ELSE recs[b]]

FlushedOut(recs, flush) == UNION {FlushIntents(b, recs[b]) : b \in flush}

Stepped(m, recs, flush, emitted) ==
  [m EXCEPT !.buffers = FlushedBuffers(recs, flush),
            !.out = emitted \cup FlushedOut(recs, flush)]

(* A handler that returns early: no change, no intent. *)
Ignored(m) == [m EXCEPT !.out = {}]

(***************************************************************************)
(* The event handlers.                                                     *)
(***************************************************************************)

(* Mutants of SupersededRec: the surface link, or the debt, is forgotten. *)
SupersededRecKeepsLink(r, s) == [r EXCEPT !.releaseOwed = @ \/ ~r.destroyed]

SupersededRecOwesNothing(r, s) ==
  [r EXCEPT !.currentSurfaceId = IF @ = s THEN NoSurface ELSE @]

(* markSupersededOnSurface, before its maybeFlush. *)
SupersededRec(r, s) ==
  [r EXCEPT !.currentSurfaceId = IF @ = s THEN NoSurface ELSE @,
            !.releaseOwed = @ \/ ~r.destroyed]

OnCommit(m, s, b) ==
  LET prev == m.surfaces[s]
      imported == IF Known(m, b) THEN m.buffers[b] ELSE NewRec("Importing", s)
      emitted == IF Known(m, b) THEN {}
                 ELSE {Intent("importBuffer", b, "none")}
      superseded == {p \in BufferIds : p = prev /\ p # b /\ Known(m, p)}
      adopted == [imported EXCEPT !.currentSurfaceId = s,
                                  !.releaseOwed = FALSE,
                                  !.importOwed = FALSE]
      recs == [c \in BufferIds |->
                 IF c = b THEN IF prev = b THEN imported ELSE adopted
                 ELSE IF c \in superseded THEN SupersededRec(m.buffers[c], s)
                 ELSE m.buffers[c]]
  IN  [Stepped(m, recs, superseded, emitted) EXCEPT !.surfaces[s] = b]

(* Mutant: the fence of a commit that was never sampled is overwritten. *)
OnAcquireFenceAvailableLeaks(m, b, f) ==
  IF ~Known(m, b) THEN Ignored(m)
  ELSE LET armed == IF f = "none" THEN "implicit" ELSE f
       IN  Stepped(m, [m.buffers EXCEPT ![b].pendingAcquireFence = armed], {}, {})

OnAcquireFenceAvailable(m, b, f) ==
  IF ~Known(m, b) THEN Ignored(m)
  ELSE LET armed == IF f = "none" THEN "implicit" ELSE f
           recs == [m.buffers EXCEPT ![b].pendingAcquireFence = armed]
       IN  Stepped(m, recs, {}, DiscardIntents(b, m.buffers[b]))

(* onFrameStart throws iff a frame is open. *)
OnFrameStart(m) ==
  [Ignored(m) EXCEPT !.frameOpen = TRUE, !.sampled = {}]

(* The early returns of onFrameSampled, and its begin/end alternation throw. *)
Samplable(m, s) ==
  /\ m.surfaces[s] \in BufferIds
  /\ m.buffers[m.surfaces[s]].state = "Imported"

FrameSampledThrows(m, s) ==
  \/ ~m.frameOpen
  \/ Samplable(m, s) /\ m.buffers[m.surfaces[s]].accessOpen

BegunRec(r) == [r EXCEPT !.pendingAcquireFence = "none", !.accessOpen = TRUE]

OnFrameSampled(m, s) ==
  IF ~Samplable(m, s) THEN Ignored(m)
  ELSE LET b == m.surfaces[s]
           recs == [m.buffers EXCEPT ![b] = BegunRec(@)]
           begin == Intent("beginAccess", b, m.buffers[b].pendingAcquireFence)
       IN  [Stepped(m, recs, {}, {begin}) EXCEPT !.sampled = @ \cup {b}]

(* Mutant: an aborted frame leaves its accesses open. *)
ClosedRecStaysOpen(r) == r

ClosedRec(r) == [r EXCEPT !.accessOpen = FALSE]

OnFrameAborted(m) ==
  LET recs == [b \in BufferIds |-> IF b \in m.sampled /\ Known(m, b)
                                     THEN ClosedRec(m.buffers[b])
                                     ELSE m.buffers[b]]
  IN  [Stepped(m, recs, m.sampled, {}) EXCEPT !.frameOpen = FALSE, !.sampled = {}]

OnSubmitted(m, serial) ==
  LET ended == {b \in m.sampled : Known(m, b)}
      recs == [b \in BufferIds |->
                 IF b \in ended
                   THEN [m.buffers[b] EXCEPT !.accessOpen = FALSE,
                                             !.inflightSerials = @ \cup {serial}]
                   ELSE m.buffers[b]]
  IN  [Stepped(m, recs, {}, {Intent("endAccess", b, "none") : b \in ended})
         EXCEPT !.frameOpen = FALSE, !.sampled = {},
                !.pendingEndExports =
                    IF ended # {} THEN @ \cup {serial} ELSE @]

ExportedRec(r) == [r EXCEPT !.chainFence = TRUE]

OnEndAccessFenceExported(m, b) ==
  IF ~Known(m, b) THEN Ignored(m)
  ELSE Stepped(m, [m.buffers EXCEPT ![b] = ExportedRec(@)], {}, {})

(* Mutants: a completion clears every serial, or does not flush. *)
OnGpuCompletedClearsAll(m, serial) ==
  LET reading == {b \in BufferIds : serial \in m.buffers[b].inflightSerials}
      recs == [b \in BufferIds |->
                 IF b \in reading THEN [m.buffers[b] EXCEPT !.inflightSerials = {}]
                 ELSE m.buffers[b]]
  IN  [Stepped(m, recs, reading, {}) EXCEPT !.pendingEndExports = @ \ {serial}]

OnGpuCompletedNoFlush(m, serial) ==
  LET recs == [b \in BufferIds |->
                 [m.buffers[b] EXCEPT !.inflightSerials = @ \ {serial}]]
  IN  [Stepped(m, recs, {}, {}) EXCEPT !.pendingEndExports = @ \ {serial}]

OnGpuCompleted(m, serial) ==
  LET reading == {b \in BufferIds : serial \in m.buffers[b].inflightSerials}
      recs == [b \in BufferIds |->
                 [m.buffers[b] EXCEPT !.inflightSerials = @ \ {serial}]]
  IN  [Stepped(m, recs, reading, {}) EXCEPT !.pendingEndExports = @ \ {serial}]

OnBufferDestroyed(m, b) ==
  IF ~Known(m, b) THEN Ignored(m)
  ELSE LET recs == [m.buffers EXCEPT ![b].destroyed = TRUE,
                                     ![b].importOwed = TRUE,
                                     ![b].currentSurfaceId = NoSurface,
                                     ![b].releaseOwed = FALSE]
       IN  [Stepped(m, recs, {b}, {}) EXCEPT
              !.surfaces = [s \in SurfaceIds |->
                  IF s = m.buffers[b].currentSurfaceId /\ m.surfaces[s] = b
                    THEN NoBuffer ELSE m.surfaces[s]]]

(* Mutant: the removed surface's buffer is unlinked with the wrong 0. *)
DrainedRecWrongZero(r) ==
  [r EXCEPT !.releaseOwed = @ \/ ~r.destroyed, !.importOwed = TRUE,
            !.currentSurfaceId = NoBuffer]

DrainedRec(r) ==
  [r EXCEPT !.releaseOwed = @ \/ ~r.destroyed,
            !.importOwed = TRUE,
            !.currentSurfaceId = NoSurface]

OnSurfaceRemoved(m, s) ==
  LET cur == {b \in BufferIds : b = m.surfaces[s] /\ Known(m, b)}
      recs == [b \in BufferIds |->
                 IF b \in cur /\ m.buffers[b].currentSurfaceId = s
                   THEN DrainedRec(m.buffers[b]) ELSE m.buffers[b]]
  IN  [Stepped(m, recs, cur, {}) EXCEPT !.surfaces[s] = NoBuffer]

OnAccessFailed(m, b) ==
  IF ~Known(m, b) THEN Ignored(m)
  ELSE Stepped(m, [m.buffers EXCEPT ![b].state = "Poisoned"], {b}, {})

OnImportCompleted(m, b) ==
  IF m.buffers[b].state # "Importing" THEN Ignored(m)
  ELSE Stepped(m, [m.buffers EXCEPT ![b].state = "Imported"], {b}, {})

OnScanoutPresented(m, b) ==
  IF ~Known(m, b) THEN Ignored(m)
  ELSE Stepped(m, [m.buffers EXCEPT ![b].scanoutHeld = TRUE], {}, {})

(* Mutant: the retired buffer is not flushed. *)
OnScanoutRetiredNoFlush(m, b) ==
  IF ~m.buffers[b].scanoutHeld THEN Ignored(m)
  ELSE Stepped(m, [m.buffers EXCEPT ![b].scanoutHeld = FALSE], {}, {})

OnScanoutRetired(m, b) ==
  IF ~m.buffers[b].scanoutHeld THEN Ignored(m)
  ELSE Stepped(m, [m.buffers EXCEPT ![b].scanoutHeld = FALSE], {b}, {})

(* takeAcquireFence: the machine it leaves; the fence it returns is        *)
(* m.buffers[b].pendingAcquireFence ("none" for a missing entry).          *)
TakeAcquireFence(m, b) ==
  [m EXCEPT !.buffers[b].pendingAcquireFence = "none"]
=============================================================================
