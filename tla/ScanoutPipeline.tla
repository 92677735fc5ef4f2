-------------------------- MODULE ScanoutPipeline --------------------------
(***************************************************************************)
(* One output on KMS, from the frame loop of the core to the kernel and    *)
(* back: a ring of three scanout slots the core renders into, a client's   *)
(* buffers presented on the plane directly, the GPU process that commits   *)
(* one flip at a time and keeps at most one more present, cursor-only      *)
(* commits, refused commits, and a VT switch.                              *)
(*                                                                         *)
(* Two streams run each way.  Presents and ScanoutClientFlip / -Reject go  *)
(* in band on the wire; OutputPause, OutputResume and ScanoutFlipComplete  *)
(* go on the side channel and may be read before older wire frames.        *)
(***************************************************************************)
EXTENDS Naturals, Sequences, FiniteSets, SequencesExt, FiniteSetsExt

CONSTANTS
  Bufs,         \* the dmabufs of the fullscreen client
  Cursor,       \* a cursor-only commit, or the request for one
  None,
  MaxChanges,   \* bound: commits, frame requests, overlays, cursor moves
  MaxRefusals,  \* bound: commits the kernel refuses for no reason of ours
  MaxPauses     \* bound: VT switches away

Slots == 0..2   \* kSlotCount

ASSUME ScanoutAssumption ==
  /\ {MaxChanges, MaxRefusals, MaxPauses} \subseteq Nat
  /\ Bufs \cap (Slots \cup {Cursor, None}) = {}
  /\ Cursor \notin Slots /\ None \notin Slots \cup {Cursor}

VARIABLES
  core,     \* the Node process: its frame loop, the output and its ring
  gpu,      \* the GPU process: KmsOutputBackend::PerOutput and its ring
  budget    \* what is left of the three bounds

vars == <<core, gpu, budget>>

Shown == Slots \cup Bufs                    \* what a present can show

-----------------------------------------------------------------------------
(* The core. *)

NewCore ==
  [slot |-> [s \in Slots |-> "FREE"],
   paused |-> FALSE,          \* kmsPaused_
   dirty |-> TRUE,            \* outputDamage.isDirty
   active |-> None,           \* scanoutActive
   flipPending |-> FALSE,     \* scanoutFlipPending
   veto |-> {},               \* scanoutVeto
   held |-> {},               \* the buffers with scanoutHeld
   awaiting |-> FALSE,        \* awaitingFlip
   callback |-> FALSE,        \* the surface has a frame callback
   current |-> None,          \* the buffer the surface shows
   covered |-> FALSE,         \* something is drawn above it
   todo |-> <<>>,             \* replies read whose refusals are not handled
   paces |-> FALSE,           \* frameComplete, until they are
   wire |-> <<>>,             \* sent, not yet read by the GPU process
   ctrl |-> "none"]           \* the seat message on its way

FlipInFlight(c) == \E s \in Slots : c.slot[s] = "PENDING_FLIP"

\* Without the test for a buffer.
CandidateUnchecked(c) == ~c.covered /\ c.current \notin c.veto

Candidate(c) == c.current # None /\ ~c.covered /\ c.current \notin c.veto

ClientPresent(c) ==
  [c EXCEPT !.wire = Append(@, c.current), !.held = @ \cup {c.current},
            !.active = c.current, !.flipPending = TRUE, !.dirty = FALSE]

\* acquireOutputTexture and presentOutput.
RingPresent(c) ==
  LET free == {s \in Slots : c.slot[s] = "FREE"} IN
  IF FlipInFlight(c) \/ free = {} THEN c
  ELSE [c EXCEPT !.slot[Min(free)] = "PENDING_FLIP",
                 !.wire = Append(@, Min(free)),
                 !.dirty = FALSE, !.awaiting = TRUE]

\* renderFrame for this output.
RenderFrame(c) ==
  IF ~c.dirty THEN c
  ELSE IF ~Candidate(c) THEN RingPresent([c EXCEPT !.active = None])
  ELSE IF c.flipPending THEN c
  ELSE ClientPresent(c)

\* Idle frame callbacks force no present.
NotifyFrameOnDamage(c) == RenderFrame(c)

\* dispatchFrameCallbacks: a callback that no flip is coming for forces one.
NotifyFrame(c) ==
  RenderFrame([c EXCEPT !.dirty = @ \/ (c.callback /\ ~c.awaiting)])

\* runFrameIfReady.  `others`: some other output could present now.
RunFrame(c, others) ==
  IF c.paused \/ (FlipInFlight(c) /\ ~others) THEN c ELSE NotifyFrame(c)

\* The flip message taken for the slot that retired.
FlippedAsRetired(c, flips) ==
  IF flips = <<>> THEN c
  ELSE [c EXCEPT !.slot = [t \in Slots |->
          IF t = flips[Len(flips)] THEN "FREE"
          ELSE IF c.slot[t] = "PENDING_FLIP" THEN "SCANOUT" ELSE c.slot[t]]]

\* drainCtrl: ScanoutFlipComplete, one after the other.  The last is on screen.
Flipped(c, flips) ==
  IF flips = <<>> THEN c
  ELSE [c EXCEPT !.slot = [t \in Slots |->
          IF t = flips[Len(flips)] THEN "SCANOUT"
          ELSE IF c.slot[t] = "SCANOUT" \/ t \in ToSet(flips) THEN "FREE"
          ELSE c.slot[t]]]

\* A reply on the wire: what has latched, what is off the plane for good.
ClientFlip(latched, retired) ==
  [kind |-> "flip", latched |-> latched, retired |-> retired]

Reject(b) == [kind |-> "reject", latched |-> None, retired |-> b]

Replies == [kind: {"flip", "reject"}, latched: Bufs \cup {None},
            retired: Bufs \cup {None}]

Rejects(replies) == {i \in DOMAIN replies : replies[i].kind = "reject"}

\* handleScanoutClientFlip, for one flip after the other: the last that latched
\* a buffer is on the plane, unless a later one retired it.
ClientFlipped(c, replies) ==
  LET flips == DOMAIN replies \ Rejects(replies)
      latches == {i \in flips : replies[i].latched # None}
      last == IF latches = {} THEN 0 ELSE Max(latches)
      shown == IF last = 0 THEN c.active ELSE replies[last].latched
      left == \E i \in flips : i > last /\ replies[i].retired = shown
  IN [c EXCEPT !.flipPending = @ /\ flips = {},
               !.held = @ \ {replies[i].retired : i \in flips},
               !.active = IF left THEN None ELSE shown]

\* handleScanoutClientReject, up to its wake().
Rejected(c, b) ==
  [c EXCEPT !.veto = @ \cup {b}, !.active = None, !.flipPending = FALSE,
            !.held = @ \ {b}, !.dirty = TRUE]

\* onFrameComplete: the frame callbacks are answered, then a frame is run.
FrameComplete(c, others) ==
  RunFrame([c EXCEPT !.awaiting = FALSE, !.callback = FALSE], others)

\* drainWire, drainCtrl and dispatchAfterDrain, on what the drains found, up to
\* the first refusal: the flips go before the refusals.
Drained(c, replies, flips, others) ==
  LET d == ClientFlipped(Flipped(c, flips), replies)
      paces == flips # <<>> \/ \E m \in ToSet(replies) : m.latched # None
  IN IF Rejects(replies) # {} THEN [d EXCEPT !.todo = replies, !.paces = paces]
     ELSE IF paces THEN FrameComplete(d, others) ELSE d

\* fireScanoutClientEvents, one refusal: the JS callback and its wake(); after
\* the last one, the rest of dispatchAfterDrain.
RejectHandled(c, others) ==
  LET i == Min(Rejects(c.todo))
      rest == SubSeq(c.todo, i + 1, Len(c.todo))
      more == Rejects(rest) # {}
      d == RunFrame(Rejected([c EXCEPT !.todo = IF more THEN rest ELSE <<>>,
                                       !.paces = @ /\ more], c.todo[i].retired), others)
  IN IF c.paces /\ ~more THEN FrameComplete(d, others) ELSE d

\* pauseOutput.
PauseOutput(c) ==
  [c EXCEPT !.paused = TRUE, !.slot = [s \in Slots |-> "FREE"],
            !.ctrl = "pause"]

\* resumeOutput and repaintAll.
ResumeOutput(c) ==
  [c EXCEPT !.paused = FALSE, !.ctrl = "resume", !.dirty = TRUE,
            !.flipPending = FALSE]

-----------------------------------------------------------------------------
(* The GPU process. *)

NewGpu ==
  [paused |-> FALSE,
   modeset |-> FALSE,         \* didInitialCommit
   pending |-> None,          \* the commit the kernel has queued
   latched |-> None,          \* the client buffer on the plane
   ring |-> None,             \* the slot in state SCANOUT
   stash |-> None,            \* the present waiting for a flip event
   cursorDue |-> FALSE,       \* cursorDirty and cursorCommitRequested
   wire |-> <<>>, ctrl |-> <<>>,  \* sent, not yet read by the core
   lost |-> {},               \* history: presents dropped without an answer
   overtaken |-> FALSE]       \* history: a flip was read before older frames

\* noteLatch.
NoteLatch(g, b) ==
  LET retired == IF g.latched # b THEN g.latched ELSE None
      reply == ClientFlip(b, retired)
  IN [g EXCEPT !.latched = b,
               !.wire = IF b = None /\ retired = None THEN @
                        ELSE Append(@, reply)]

\* A commit has taken effect: x is on the plane.
Latched(g, x) ==
  IF x \in Slots
  THEN NoteLatch([g EXCEPT !.ctrl = Append(@, x), !.ring = x], None)
  ELSE NoteLatch(g, x)

\* A dropped client present not reported.
StashedQuietly(g, x) == [g EXCEPT !.stash = x]

\* stashPresent.  A client present that is dropped is reported retired.
Stashed(g, x) ==
  [g EXCEPT !.stash = x,
            !.wire = IF g.stash \in Bufs
                     THEN Append(@, ClientFlip(None, g.stash)) ELSE @,
            !.lost = IF g.stash \in Slots THEN @ \cup {g.stash} ELSE @]

\* presentOutputImpl, from the commit on.  A modeset takes effect at once.
Committed(g, x) ==
  LET d == [g EXCEPT !.cursorDue = FALSE, !.modeset = TRUE] IN
  IF g.modeset THEN [d EXCEPT !.pending = x] ELSE Latched(d, x)

\* A commit the kernel refuses.  Only a client present fresh from the wire is
\* answered; a ring present is logged, a replayed present forgotten.
Refused(g, x, fresh) ==
  IF fresh /\ x \in Bufs
  THEN [g EXCEPT !.wire = Append(@, Reject(x))]
  ELSE [g EXCEPT !.lost = @ \cup {x}]

\* presentOutputImpl.  A ring present finds a ring flip in flight: EBUSY.
Present(g, x, refused, fresh) ==
  IF g.paused THEN g
  ELSE IF g.pending \in Bufs \cup {Cursor} \/ (x \in Bufs /\ g.pending \in Slots)
  THEN Stashed(g, x)
  ELSE IF refused \/ g.pending # None THEN Refused(g, x, fresh)
  ELSE Committed(g, x)

\* replayStashedPresent.
Replayed(g, refused) ==
  IF g.stash = None THEN g
  ELSE Present([g EXCEPT !.stash = None], g.stash, refused, FALSE)

\* maybeCursorCommit.
CursorCommitted(g) ==
  IF ~g.paused /\ g.cursorDue /\ g.modeset /\ g.pending = None
  THEN [g EXCEPT !.pending = Cursor, !.cursorDue = FALSE] ELSE g

\* pageFlipTrampoline.
PageFlipped(g, refused) ==
  LET idle == [g EXCEPT !.pending = None]
      shown == IF g.pending = Cursor THEN idle ELSE Latched(idle, g.pending)
  IN IF g.pending = Cursor /\ g.stash # None THEN Replayed(shown, refused)
     ELSE CursorCommitted(Replayed(shown, refused))

\* KmsOutputBackend::pause.  No flip event comes for what was in flight; each
\* client buffer is reported retired once.
GpuPaused(g) ==
  LET report(x, done) == IF x \in Bufs \ done THEN <<ClientFlip(None, x)>> ELSE <<>>
      reports == report(g.latched, {}) \o report(g.pending, {g.latched})
                   \o report(g.stash, {g.latched, g.pending})
  IN [NewGpu EXCEPT !.paused = TRUE, !.cursorDue = g.cursorDue,
                    !.wire = g.wire \o reports,
                    !.ctrl = g.ctrl, !.lost = g.lost, !.overtaken = g.overtaken]

-----------------------------------------------------------------------------
(* Actions: one turn of the core's loop, one message or event of the other. *)

Init ==
  /\ core = RunFrame(NewCore, FALSE)     \* the bootstrap wake()
  /\ gpu = NewGpu
  /\ budget = [changes |-> MaxChanges, refusals |-> MaxRefusals,
               pauses |-> MaxPauses]

Spend(what) ==
  /\ budget[what] > 0
  /\ budget' = [budget EXCEPT ![what] = @ - 1]

\* The core's loop starts another turn.
Turn == core.todo = <<>>

\* The server pump: what the clients did, then wake().
Pumped(c) == Turn /\ \E others \in BOOLEAN : core' = RunFrame(c, others)

\* The client attaches a buffer it has back, with or without a callback.
Commit(b, callback) ==
  /\ Spend("changes")
  /\ b # core.current /\ b \notin core.held
  /\ Pumped([core EXCEPT !.current = b, !.dirty = TRUE,
                         !.callback = @ \/ callback])
  /\ UNCHANGED gpu

\* A commit with a frame callback and no damage.
RequestFrame ==
  /\ Spend("changes")
  /\ core.current # None
  /\ Pumped([core EXCEPT !.callback = TRUE])
  /\ UNCHANGED gpu

\* An overlay appears above the surface, or goes.
Overlay ==
  /\ Spend("changes")
  /\ Pumped([core EXCEPT !.covered = ~@, !.dirty = TRUE])
  /\ UNCHANGED gpu

\* sendCursorState, with commitNow.
MoveCursor ==
  /\ Spend("changes")
  /\ Turn /\ ~core.paused
  /\ core' = [core EXCEPT !.wire = Append(@, Cursor)]
  /\ UNCHANGED gpu

\* onCtrlReadable (n = 0) and onWireReadable, which finds n wire frames and
\* whatever is on the side channel.
Drain(n) ==
  /\ Turn
  /\ n > 0 \/ gpu.ctrl # <<>>
  /\ \E others \in BOOLEAN :
       core' = Drained(core, SubSeq(gpu.wire, 1, n), gpu.ctrl, others)
  /\ gpu' = [gpu EXCEPT !.wire = SubSeq(@, n + 1, Len(@)), !.ctrl = <<>>,
                        !.overtaken = @ \/ (n < Len(gpu.wire) /\ gpu.ctrl # <<>>)]
  /\ UNCHANGED budget

\* The loop's turn goes on; the GPU process has been running meanwhile.
HandleReject ==
  /\ core.todo # <<>>
  /\ \E others \in BOOLEAN : core' = RejectHandled(core, others)
  /\ UNCHANGED <<gpu, budget>>

\* The seat is disabled.
Pause ==
  /\ Spend("pauses")
  /\ Turn /\ ~core.paused /\ core.ctrl = "none"
  /\ core' = PauseOutput(core)
  /\ UNCHANGED gpu

\* The seat is enabled, long after everything sent before has been read.
Resume ==
  /\ core.paused /\ gpu.paused
  /\ core.wire = <<>> /\ gpu.wire = <<>> /\ gpu.ctrl = <<>>
  /\ Pumped(ResumeOutput(core))
  /\ gpu' = [gpu EXCEPT !.lost = {}, !.overtaken = FALSE]
  /\ UNCHANGED budget

\* The kernel may refuse a commit, and does so freely once the seat is gone.
KernelRefuses(refused) ==
  IF refused /\ ~core.paused THEN Spend("refusals") ELSE UNCHANGED budget

\* The GPU process reads the next wire frame.
ReadWire(refused) ==
  /\ core.wire # <<>> /\ core.ctrl # "resume"
  /\ LET x == Head(core.wire) IN
     /\ x = Cursor => ~refused
     /\ gpu' = IF x = Cursor
               THEN CursorCommitted([gpu EXCEPT !.cursorDue = TRUE])
               ELSE Present(gpu, x, refused, TRUE)
  /\ core' = [core EXCEPT !.wire = Tail(@)]
  /\ IF Head(core.wire) = Cursor THEN UNCHANGED budget
     ELSE KernelRefuses(refused)

\* The GPU process reads OutputPause or OutputResume.
ReadSeat ==
  /\ core.ctrl # "none"
  /\ core' = [core EXCEPT !.ctrl = "none"]
  /\ gpu' = IF core.ctrl = "pause" THEN GpuPaused(gpu)
            ELSE [gpu EXCEPT !.paused = FALSE]
  /\ UNCHANGED budget

\* The kernel reports the flip it had queued.
PageFlip(refused) ==
  /\ gpu.pending # None
  /\ refused => gpu.stash # None
  /\ gpu' = PageFlipped(gpu, refused)
  /\ IF gpu.stash = None THEN UNCHANGED budget ELSE KernelRefuses(refused)
  /\ UNCHANGED core

Next ==
  \/ \E b \in Bufs, callback \in BOOLEAN : Commit(b, callback)
  \/ RequestFrame \/ Overlay \/ MoveCursor \/ Pause \/ Resume \/ ReadSeat
  \/ HandleReject
  \/ \E n \in 0..Len(gpu.wire) : Drain(n)
  \/ \E refused \in BOOLEAN : ReadWire(refused) \/ PageFlip(refused)

Spec == Init /\ [][Next]_vars

-----------------------------------------------------------------------------
(* Properties. *)

Plane == IF gpu.latched # None THEN gpu.latched ELSE gpu.ring

\* Presents on their way to the plane, or on it.
InPipeline == ToSet(core.wire) \cup ({gpu.pending, gpu.stash} \ {None})

Cores ==
  [slot: [Slots -> {"FREE", "PENDING_FLIP", "SCANOUT"}],
   paused: BOOLEAN, dirty: BOOLEAN, active: Bufs \cup {None},
   flipPending: BOOLEAN, veto: SUBSET Bufs, held: SUBSET Bufs,
   awaiting: BOOLEAN, callback: BOOLEAN,
   current: Bufs \cup {None}, covered: BOOLEAN, todo: Seq(Replies), paces: BOOLEAN,
   wire: Seq(Shown \cup {Cursor}), ctrl: {"none", "pause", "resume"}]

Gpus ==
  [paused: BOOLEAN, modeset: BOOLEAN,
   pending: Shown \cup {Cursor, None}, latched: Bufs \cup {None},
   ring: Slots \cup {None}, stash: Shown \cup {None},
   cursorDue: BOOLEAN, ctrl: Seq(Slots), lost: SUBSET Shown,
   overtaken: BOOLEAN, wire: Seq(Replies)]

\* The types of the records, and that one slot at most is on the screen and
\* one at most on its way to it, in the core's view.
TypeOK ==
  /\ core \in Cores /\ gpu \in Gpus
  /\ \A s, t \in Slots : core.slot[s] = core.slot[t] /\ core.slot[s] # "FREE" => s = t

\* The core never renders into a slot that is on the screen or about to be:
\* what it takes for FREE is neither on the plane, nor queued in the kernel,
\* nor stashed, nor on the wire (acquireOutputTextureHandle).  Between a pause
\* and the resume that follows it nothing is shown.
NoScribble ==
  ~core.paused /\ ~gpu.paused =>
    \A s \in Slots :
      core.slot[s] = "FREE" => s # Plane /\ s \notin InPipeline

\* Whoever waits for a flip has one coming: a slot in PENDING_FLIP, and the
\* gate of one client present in flight, have a present in the pipeline or an
\* answer on its way, unless the GPU process dropped it without an answer.
PresentsResolve ==
  /\ \A s \in Slots : core.slot[s] = "PENDING_FLIP" =>
       s \in InPipeline \cup ToSet(gpu.ctrl) \cup gpu.lost
  /\ core.flipPending /\ ~core.paused =>
       \E b \in Bufs :
         \/ b \in InPipeline \cup gpu.lost
         \/ \E m \in ToSet(gpu.wire) \cup ToSet(core.todo) : b \in {m.latched, m.retired}

\* No wake is lost: when nothing is on its way any more, the output has no
\* damage left to present, no client waits for a frame callback and the core
\* for no flip (wake, runFrameIfReady and the idle frame-callback path).
\* Excepted are a present the GPU process dropped, and a flip read ahead of an
\* older ScanoutClientFlip: the retirement that then clears scanoutFlipPending
\* re-runs no frame for the output that was skipped because of it.
Quiet ==
  /\ core.wire = <<>> /\ core.ctrl = "none" /\ core.todo = <<>>
  /\ gpu.wire = <<>> /\ gpu.ctrl = <<>> /\ gpu.pending = None

NoLostWake ==
  Quiet /\ ~core.paused /\ gpu.lost = {} /\ ~gpu.overtaken =>
    ~core.dirty /\ ~core.callback /\ ~core.awaiting /\ gpu.stash = None

\* The hold keeps a buffer from its client for as long as the display engine
\* reads it or is about to (scanoutPresented, scanoutRetired).
HeldOnPlane == {gpu.latched, gpu.pending, gpu.stash} \cap Bufs \subseteq core.held

=============================================================================
