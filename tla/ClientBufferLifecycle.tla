----------------------- MODULE ClientBufferLifecycle -----------------------
(***************************************************************************)
(* The client-dmabuf state machine (BufferMachine) driven by every event   *)
(* order its callers can produce, one machine event per step.  The guards  *)
(* are what the executor (gpu/compositor.ts) and the protocol layer        *)
(* guarantee: ids of destroyed buffers do not come back, a buffer is       *)
(* current on one surface at a time, frames do not nest, serials complete  *)
(* once.  An id is reused here only after the machine has forgotten it,    *)
(* which stands for the fresh id the counter in bufferIdOf would give.     *)
(* Four history variables say what the world outside believes:             *)
(*   lent   the buffers committed and neither released nor destroyed since *)
(*   held   the fds handed to the machine and not yet handed back          *)
(*   reads  the buffers each submitted serial samples until it completes   *)
(*   plane  the buffers the display engine reads                           *)
(***************************************************************************)
EXTENDS BufferMachine

VARIABLES m, lent, held, reads, plane

vars == <<m, lent, held, reads, plane>>

FencesOut(n) == {i.fence : i \in n.out} \cap Fds

ReleasedBy(n) ==
  {b \in BufferIds : Intent("sendWlRelease", b, "none") \in n.out}

Init ==
  /\ m = InitMachine
  /\ lent = {}
  /\ held = {}
  /\ reads = [sr \in Serials |-> {}]
  /\ plane = {}

(* The machine becomes n and the executor acts on the intents. *)
Delivers(n) ==
  /\ m' = n
  /\ lent' = lent \ ReleasedBy(n)
  /\ held' = held \ FencesOut(n)

Commit(s, b) ==
  /\ ~m.buffers[b].destroyed
  /\ \A t \in SurfaceIds \ {s} : m.surfaces[t] # b
  /\ m' = OnCommit(m, s, b)
  /\ lent' = (lent \ ReleasedBy(m')) \cup {b}
  /\ held' = held \ FencesOut(m')
  /\ UNCHANGED <<reads, plane>>

AcquireFenceAvailable(b, f) ==
  /\ m.buffers[b].currentSurfaceId # NoSurface
  /\ f \notin held
  /\ m' = OnAcquireFenceAvailable(m, b, f)
  /\ held' = (held \ FencesOut(m')) \cup ({f} \cap Fds)
  /\ UNCHANGED <<lent, reads, plane>>

FrameStart ==
  /\ ~m.frameOpen
  /\ Delivers(OnFrameStart(m))
  /\ UNCHANGED <<reads, plane>>

FrameSampled(s) ==
  /\ ~FrameSampledThrows(m, s)
  /\ Delivers(OnFrameSampled(m, s))
  /\ UNCHANGED <<reads, plane>>

FrameAborted ==
  /\ m.frameOpen
  /\ Delivers(OnFrameAborted(m))
  /\ UNCHANGED <<reads, plane>>

Submitted(serial) ==
  /\ m.frameOpen
  /\ reads[serial] = {}
  /\ Delivers(OnSubmitted(m, serial))
  /\ reads' = [reads EXCEPT ![serial] = m.sampled]
  /\ UNCHANGED plane

EndAccessFenceExported(b) ==
  /\ m.buffers[b].inflightSerials # {}
  /\ Delivers(OnEndAccessFenceExported(m, b))
  /\ UNCHANGED <<reads, plane>>

GpuCompleted(serial) ==
  /\ reads[serial] # {}
  /\ Delivers(OnGpuCompleted(m, serial))
  /\ reads' = [reads EXCEPT ![serial] = {}]
  /\ UNCHANGED plane

BufferDestroyed(b) ==
  /\ ~m.buffers[b].destroyed
  /\ m' = OnBufferDestroyed(m, b)
  /\ lent' = lent \ {b}
  /\ held' = held \ FencesOut(m')
  /\ UNCHANGED <<reads, plane>>

SurfaceRemoved(s) ==
  /\ Delivers(OnSurfaceRemoved(m, s))
  /\ UNCHANGED <<reads, plane>>

ImportCompleted(b) ==
  /\ m.buffers[b].state = "Importing"
  /\ Delivers(OnImportCompleted(m, b))
  /\ UNCHANGED <<reads, plane>>

ImportFailed(b) ==
  /\ m.buffers[b].state = "Importing"
  /\ Delivers(OnAccessFailed(m, b))
  /\ UNCHANGED <<reads, plane>>

(* freezeSurface, withClientTextureAccess, composeSnapshot: a sampler      *)
(* outside the frame takes the pending fence.                              *)
SampleOutsideFrame(b) ==
  /\ m.buffers[b].state = "Imported"
  /\ m' = TakeAcquireFence(m, b)
  /\ held' = held \ {m.buffers[b].pendingAcquireFence}
  /\ UNCHANGED <<lent, reads, plane>>

(* A direct-scanout present takes the fence, then reports the hold. *)
ScanoutPresented(b) ==
  /\ m.buffers[b].state = "Imported"
  /\ m.buffers[b].currentSurfaceId # NoSurface
  /\ m' = OnScanoutPresented(TakeAcquireFence(m, b), b)
  /\ held' = held \ {m.buffers[b].pendingAcquireFence}
  /\ plane' = plane \cup {b}
  /\ UNCHANGED <<lent, reads>>

ScanoutRetired(b) ==
  /\ b \in plane
  /\ Delivers(OnScanoutRetired(m, b))
  /\ plane' = plane \ {b}
  /\ UNCHANGED reads

Next ==
  \/ FrameStart \/ FrameAborted
  \/ \E s \in SurfaceIds : FrameSampled(s) \/ SurfaceRemoved(s)
  \/ \E s \in SurfaceIds, b \in BufferIds : Commit(s, b)
  \/ \E b \in BufferIds : \E f \in Fds \cup {"none"} : AcquireFenceAvailable(b, f)
  \/ \E sr \in Serials : Submitted(sr) \/ GpuCompleted(sr)
  \/ \E b \in BufferIds :
       \/ EndAccessFenceExported(b) \/ BufferDestroyed(b)
       \/ ImportCompleted(b) \/ ImportFailed(b)
       \/ SampleOutsideFrame(b) \/ ScanoutPresented(b) \/ ScanoutRetired(b)

Spec == Init /\ [][Next]_vars

(***************************************************************************)
(* Fairness.  The GPU process answers every import, the GPU completes      *)
(* every submit, and renderFrame closes the frame it opened in the same    *)
(* turn.  A buffer handed to the plane need not be reported retired: a     *)
(* stashed present that is refused when replayed, or one that is read      *)
(* while paused, is not answered.                                          *)
(***************************************************************************)
Fairness ==
  /\ \A sr \in Serials : WF_vars(GpuCompleted(sr))
  /\ \A b \in BufferIds : WF_vars(ImportCompleted(b) \/ ImportFailed(b))
  /\ WF_vars(FrameAborted \/ \E sr \in Serials : Submitted(sr))

FairSpec == Spec /\ Fairness

-----------------------------------------------------------------------------
(* The machine and the history variables have the shapes of the class's    *)
(* fields and of the wire's bookkeeping.                                   *)
TypeOK ==
  /\ m \in Machines
  /\ lent \subseteq BufferIds
  /\ held \subseteq Fds
  /\ reads \in [Serials -> SUBSET BufferIds]
  /\ plane \subseteq BufferIds

(* Every begun access is ended once: the buffers with an open access are   *)
(* exactly the ones the open frame pinned, so onSubmitted's and            *)
(* onFrameAborted's loops close each bracket, whatever was destroyed,      *)
(* superseded or removed since frameSampled (header invariants 2 and 3).   *)
BracketsPaired ==
  /\ {b \in BufferIds : m.buffers[b].accessOpen} = m.sampled
  /\ m.sampled # {} => m.frameOpen

(* Every GPU job and plane that reads a buffer is known to its entry, so   *)
(* neither its release nor its import teardown can overtake the read       *)
(* (inflightSerials, scanoutHeld and pendingEndExports against history).   *)
ReadsTracked ==
  /\ \A b \in BufferIds :
       /\ m.buffers[b].inflightSerials = {sr \in Serials : b \in reads[sr]}
       /\ m.buffers[b].scanoutHeld <=> b \in plane
  /\ m.pendingEndExports = {sr \in Serials : reads[sr] # {}}

(* Current-buffer links agree both ways, and an entry that owes a release  *)
(* or an import teardown is nobody's current buffer.                       *)
LinksAgree ==
  \A b \in BufferIds :
    LET r == m.buffers[b] IN
    /\ \A s \in SurfaceIds : r.currentSurfaceId = s <=> m.surfaces[s] = b
    /\ r.releaseOwed \/ r.importOwed => r.currentSurfaceId = NoSurface
    /\ r.destroyed => r.importOwed /\ ~r.releaseOwed

(* No debt is stranded: an owed release or teardown always waits for an    *)
(* event that is still to come (an import, a GPU completion, the end of    *)
(* the frame, a flip); nothing is left for a flush that never happens.     *)
NoStrandedDebt ==
  \A b \in BufferIds :
    m.buffers[b].releaseOwed \/ m.buffers[b].importOwed
      => Known(m, b) /\ FlushBlocked(m.buffers[b])

(* Every committed buffer's loan is remembered: it is some surface's       *)
(* current buffer or its release is owed, and no other buffer is.  A       *)
(* release can be neither lost nor sent twice (header invariant 4).        *)
LoansTracked ==
  lent = {b \in BufferIds : \/ m.buffers[b].currentSurfaceId # NoSurface
                            \/ m.buffers[b].releaseOwed}

(* Each fd handed in is pending on exactly one entry until it is handed    *)
(* out by beginAccess, takeAcquireFence or discardAcquireFence, across     *)
(* re-commits, teardown and failed imports (header invariant 9).           *)
FenceConservation ==
  /\ held = {m.buffers[b].pendingAcquireFence : b \in BufferIds} \cap Fds
  /\ \A b, c \in BufferIds :
       /\ m.buffers[b].pendingAcquireFence \in Fds
       /\ m.buffers[b].pendingAcquireFence = m.buffers[c].pendingAcquireFence
       => b = c

(* An import is torn down only when nothing reads it and no surface can    *)
(* sample it, and is requested only when none is live (header invariants   *)
(* 1 and 5).                                                               *)
ImportTeardownSafe ==
  \A b \in BufferIds :
    /\ Intent("releaseImport", b, "none") \in m.out =>
         /\ ~Known(m, b)
         /\ \A s \in SurfaceIds : m.surfaces[s] # b
         /\ b \notin plane \cup UNION {reads[sr] : sr \in Serials}
    /\ Intent("importBuffer", b, "none") \in m.out =>
         m.buffers[b].state = "Importing"

(* The machine keeps the promise of BufferLending: a commit lends, a loan  *)
(* ends once, and never while the buffer is read.                          *)
Lending == INSTANCE BufferLending
  WITH reading <- m.sampled \cup plane \cup UNION {reads[sr] : sr \in Serials},
       returned <- ReleasedBy(m)

LendingSpec == Lending!Spec

(* Every owed release and teardown is eventually paid (or the client takes *)
(* the buffer back by committing or destroying it), unless the buffer was  *)
(* handed to the plane and is never reported retired.                      *)
DebtsPaid ==
  \A b \in BufferIds :
    []<>(b \notin plane) =>
      /\ m.buffers[b].releaseOwed ~> ~m.buffers[b].releaseOwed
      /\ m.buffers[b].importOwed ~> ~m.buffers[b].importOwed
=============================================================================
