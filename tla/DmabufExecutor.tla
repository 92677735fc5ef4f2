--------------------------- MODULE DmabufExecutor ---------------------------
(***************************************************************************)
(* The dmabuf half of gpu/compositor.ts, composed with the state machine   *)
(* it drives (BufferMachine), the GPU process that answers imports and     *)
(* runs submits, and clients, which may commit a buffer they did not get   *)
(* back and one buffer to two surfaces.  One action is one JS turn:        *)
(* everything a handler does before it returns.                            *)
(*   m        `lifecycle`                                                  *)
(*   x        the executor: pending `dmabufPending` (the pendingInstalls   *)
(*            of each entry; an entry is never empty, so {} is no entry),  *)
(*            imports `dmabufImports`, zombies `zombieImports`, texture    *)
(*            what each `surfaces` record displays, freed `freed` (how     *)
(*            often each buffer is in the array), queue the imports the    *)
(*            GPU process has not answered (it answers in order), live     *)
(*            the imports it holds (`clientTextures`)                      *)
(*   reads    what each submit in flight samples                           *)
(*   held     per buffer, the commits that made it a surface's current     *)
(*            buffer and that no release has answered yet                  *)
(*   gone     destroyed wl_buffers;  alive  existing wl_surfaces           *)
(* A frozen or covered surface is one no draw list contains.  Acquire      *)
(* fences are the machine's business (ClientBufferLifecycle): commits here *)
(* carry none.  Direct scanout is not part of this module.                 *)
(***************************************************************************)
EXTENDS BufferMachine, Naturals, Sequences

CONSTANTS ImportIds,    \* import ids in use at once
          NoImport,     \* no import
          MaxHeld       \* bound: commits of all buffers not yet answered

ASSUME NoImportAssumption == NoImport \notin ImportIds
ASSUME SurfaceIdsAssumption == IsFiniteSet(SurfaceIds)

VARIABLES m, x, reads, held, gone, alive

vars == <<m, x, reads, held, gone, alive>>

NoTexture == [buf |-> NoBuffer, imp |-> NoImport]

Textures == [buf: BufferIds \cup {NoBuffer}, imp: ImportIds \cup {NoImport}]

Executors ==
  [pending: [BufferIds -> SUBSET SurfaceIds],
   imports: [BufferIds -> ImportIds \cup {NoImport}],
   zombies: [BufferIds -> ImportIds \cup {NoImport}],
   texture: [SurfaceIds -> Textures],
   freed: [BufferIds -> Nat],
   queue: Seq([buf: BufferIds, imp: ImportIds]),
   live: SUBSET ImportIds]

Init ==
  /\ m = InitMachine
  /\ x = [pending |-> [b \in BufferIds |-> {}],
          imports |-> [b \in BufferIds |-> NoImport],
          zombies |-> [b \in BufferIds |-> NoImport],
          texture |-> [s \in SurfaceIds |-> NoTexture],
          freed |-> [b \in BufferIds |-> 0],
          queue |-> <<>>, live |-> {}]
  /\ reads = [sr \in Serials |-> {}]
  /\ held = [b \in BufferIds |-> 0]
  /\ gone = {}
  /\ alive = SurfaceIds

Queued(b) == \E k \in 1..Len(x.queue) : x.queue[k].buf = b

(* The ids nextJsImportId_ may stand for: ones nothing refers to. *)
FreshImports ==
  {i \in ImportIds :
     /\ i \notin x.live
     /\ \A k \in 1..Len(x.queue) : x.queue[k].imp # i
     /\ \A s \in SurfaceIds : x.texture[s].imp # i
     /\ \A sr \in Serials : \A t \in reads[sr] : t.imp # i}

-----------------------------------------------------------------------------
(* importDisplayed. *)
Displayed(y, b, i) == \E s \in SurfaceIds : y.texture[s] = [buf |-> b, imp |-> i]

(* teardownImport of a set of buffers' imports.  Its loop over the         *)
(* surfaces finds nothing: both callers have just found them undisplayed.  *)
TornDown(y, imps) == [y EXCEPT !.live = @ \ imps]

(* Mutant of Unimported: the torn-down import stays in dmabufImports. *)
UnimportedKeepsEntry(y, R) ==
  LET had == {b \in R : y.imports[b] # NoImport}
  IN  TornDown(y, {y.imports[b] : b \in {c \in had : ~Displayed(y, c, y.imports[c])}})

(* runReleaseImport for the buffers of R, which do not affect each other. *)
Unimported(y, R) ==
  LET had == {b \in R : y.imports[b] # NoImport}
      shown == {b \in had : Displayed(y, b, y.imports[b])}
      z == [y EXCEPT
              !.pending = [b \in BufferIds |-> IF b \in R \ had THEN {} ELSE @[b]],
              !.imports = [b \in BufferIds |-> IF b \in had THEN NoImport ELSE @[b]],
              !.zombies = [b \in BufferIds |->
                             IF b \in shown THEN y.imports[b] ELSE @[b]]]
  IN  TornDown(z, {y.imports[b] : b \in had \ shown})

(* dispatch: the intents that concern the executor. *)
Dispatched(y, out) ==
  LET due(kind) == {b \in BufferIds : Intent(kind, b, "none") \in out}
      released == [y EXCEPT !.freed =
                     [b \in BufferIds |-> IF b \in due("sendWlRelease")
                                            THEN @[b] + 1 ELSE @[b]]]
  IN  Unimported(released, due("releaseImport"))

(* drainZombieImports. *)
Drained(y) ==
  LET loose == {b \in BufferIds :
                  y.zombies[b] # NoImport /\ ~Displayed(y, b, y.zombies[b])}
  IN  TornDown([y EXCEPT !.zombies =
                  [b \in BufferIds |-> IF b \in loose THEN NoImport ELSE @[b]]],
               {y.zombies[b] : b \in loose})

(* bindImportToSurface for every surface of S. *)
Bound(y, S, b, i) ==
  Drained([y EXCEPT !.texture =
             [s \in SurfaceIds |-> IF s \in S THEN [buf |-> b, imp |-> i] ELSE @[s]]])

-----------------------------------------------------------------------------
(* The commits no release has answered. *)
Unanswered == {p \in BufferIds \X (1..MaxHeld) : p[2] <= held[p[1]]}

(* A client may commit any wl_buffer that exists, superseded ones it has   *)
(* not got back and ones current on another surface included.              *)
MayCommit(s, b) ==
  /\ s \in alive
  /\ b \notin gone
  /\ m.surfaces[s] # b => Cardinality(Unanswered) < MaxHeld

(* Mutant of Awaiting: the buffer's id is queued for the surface's. *)
AwaitingWrongId(s, b) ==
  IF x.pending[b] = {} /\ x.imports[b] # NoImport THEN x
  ELSE [x EXCEPT !.pending[b] = @ \cup {b}]

(* commitSurfaceDmabuf up to the commit event: the surface waits for b's   *)
(* import if there is an entry or one is made.                             *)
Awaiting(s, b) ==
  IF x.pending[b] = {} /\ x.imports[b] # NoImport THEN x
  ELSE [x EXCEPT !.pending[b] = @ \cup {s}]

(* The rest of it: the machine has stepped to n and the executor to y. *)
Committed(s, b, n, y) ==
  /\ m' = OnAcquireFenceAvailable(n, b, "none")
  /\ x' = IF y.imports[b] # NoImport
            THEN [Bound(y, {s}, b, y.imports[b]) EXCEPT !.pending[b] = {}]
            ELSE y
  /\ held' = [held EXCEPT ![b] = IF m.surfaces[s] = b THEN @ ELSE @ + 1]
  /\ UNCHANGED <<reads, gone, alive>>

CommitKnown(s, b) ==
  /\ MayCommit(s, b)
  /\ Known(m, b)
  /\ LET n == OnCommit(m, s, b)
     IN  Committed(s, b, n, Dispatched(Awaiting(s, b), n.out))

(* importBuffer is emitted: runImportBuffer starts the import i, *)
CommitImports(s, b, i) ==
  /\ MayCommit(s, b)
  /\ ~Known(m, b)
  /\ i \in FreshImports
  /\ LET n == OnCommit(m, s, b)
         y == Dispatched(Awaiting(s, b), n.out)
     IN  Committed(s, b, n, [y EXCEPT !.queue = Append(@, [buf |-> b, imp |-> i])])

(* or the addon refuses it (createTextureFromDmabuf returns 0). *)
CommitRefused(s, b) ==
  /\ MayCommit(s, b)
  /\ ~Known(m, b)
  /\ LET n == OnCommit(m, s, b)
         y == [Dispatched(Awaiting(s, b), n.out) EXCEPT !.pending[b] = {}]
         n2 == OnAccessFailed(n, b)
     IN  Committed(s, b, n2, Dispatched(y, n2.out))

(* runImportBuffer's callback with a handle. *)
ImportSucceeds ==
  /\ x.queue # <<>>
  /\ LET b == Head(x.queue).buf
         i == Head(x.queue).imp
         n == OnImportCompleted(m, b)
         cached == [x EXCEPT !.queue = Tail(@), !.live = @ \cup {i},
                             !.imports[b] = i]
         y == Dispatched(cached, n.out)
     IN  /\ m' = n
         /\ x' = IF x.pending[b] = {} THEN y
                 ELSE [Bound(y, x.pending[b], b, i) EXCEPT !.pending[b] = {}]
  /\ UNCHANGED <<reads, held, gone, alive>>

(* Mutant of ImportFails: the machine is not told. *)
ImportFailsSilently ==
  /\ x.queue # <<>>
  /\ x' = [x EXCEPT !.queue = Tail(@), !.pending[Head(x.queue).buf] = {}]
  /\ UNCHANGED <<m, reads, held, gone, alive>>

(* The callback with null. *)
ImportFails ==
  /\ x.queue # <<>>
  /\ LET b == Head(x.queue).buf
         n == OnAccessFailed(m, b)
     IN  /\ m' = n
         /\ x' = Dispatched([x EXCEPT !.queue = Tail(@), !.pending[b] = {}], n.out)
  /\ UNCHANGED <<reads, held, gone, alive>>

-----------------------------------------------------------------------------
(* The surfaces of the draw list D that have something to draw, and the    *)
(* ones openImportBrackets considers: their buffer has a cached import.    *)
Drawn(D) == {s \in D : x.texture[s].imp # NoImport}

Bracketable(D) == {s \in Drawn(D) : x.imports[x.texture[s].buf] # NoImport}

(* One surface per import, the first in the draw list, is sampled through  *)
(* the machine: R is such a choice.                                        *)
Leaders(D) ==
  {R \in SUBSET Bracketable(D) :
     /\ {x.texture[s].buf : s \in R} = {x.texture[s].buf : s \in Bracketable(D)}
     /\ \A s, t \in R : x.texture[s].buf = x.texture[t].buf => s = t}

(* No frameSampled of the surfaces of R throws: no two of them have the    *)
(* same current buffer (a surface may still show another buffer's import). *)
Alternating(R) ==
  \A s, t \in R : s # t /\ Samplable(m, s) => m.surfaces[s] # m.surfaces[t]

(* frameStart and a frameSampled step for each surface of R. *)
Opened(R) ==
  LET begun == {m.surfaces[s] : s \in {t \in R : Samplable(m, t)}}
  IN  [OnFrameStart(m) EXCEPT
         !.sampled = begun,
         !.buffers = [b \in BufferIds |-> IF b \in begun THEN BegunRec(@[b]) ELSE @[b]]]

(* closeImportBrackets: an endAccessFenceExported step for each surface.   *)
Closed(n, R) ==
  LET ended == {b \in BufferIds : Known(n, b) /\ \E s \in R : x.texture[s].buf = b}
  IN  [n EXCEPT
         !.buffers = [b \in BufferIds |-> IF b \in ended THEN ExportedRec(@[b]) ELSE @[b]],
         !.out = {}]

(* renderFrame to the submit. *)
RenderFrame(sr, D) ==
  /\ reads[sr] = {}
  /\ Drawn(D) # {}
  /\ \E R \in Leaders(D) :
       Alternating(R) /\ m' = Closed(OnSubmitted(Opened(R), sr), R)
  /\ reads' = [reads EXCEPT ![sr] = {x.texture[s] : s \in Drawn(D)}]
  /\ UNCHANGED <<x, held, gone, alive>>

(* renderFrame when something throws, frameSampled included: Q are the     *)
(* surfaces whose brackets were open by then.                              *)
RenderThrows(D) ==
  /\ \E R \in Leaders(D) : \E Q \in SUBSET R :
       /\ Q # {} /\ Alternating(Q)
       /\ LET n == OnFrameAborted(Closed(Opened(Q), Q))
          IN  m' = n /\ x' = Dispatched(x, n.out)
  /\ UNCHANGED <<reads, held, gone, alive>>

(* onSubmittedWorkDone. *)
GpuCompleted(sr) ==
  /\ reads[sr] # {}
  /\ LET n == OnGpuCompleted(m, sr) IN m' = n /\ x' = Dispatched(x, n.out)
  /\ reads' = [reads EXCEPT ![sr] = {}]
  /\ UNCHANGED <<held, gone, alive>>

(* Mutant of SendReleases: takeFreedBuffers does not empty the array. *)
SendReleasesKeepsQueue ==
  /\ \E b \in BufferIds : x.freed[b] > 0
  /\ held' = [b \in BufferIds |->
                IF b \in gone THEN 0 ELSE held[b] - x.freed[b]]
  /\ UNCHANGED <<m, x, reads, gone, alive>>

(* dispatchFrameCallbacks drains freed: wl_buffer.release reaches the      *)
(* client for the buffers that still exist.                                *)
SendReleases ==
  /\ \E b \in BufferIds : x.freed[b] > 0
  /\ x' = [x EXCEPT !.freed = [b \in BufferIds |-> 0]]
  /\ held' = [b \in BufferIds |->
                IF b \in gone THEN 0 ELSE held[b] - x.freed[b]]
  /\ UNCHANGED <<m, reads, gone, alive>>

(* wl_buffer.destroy, or the disconnect sweep. *)
DestroyBuffer(b) ==
  /\ b \notin gone
  /\ LET n == OnBufferDestroyed(m, b) IN m' = n /\ x' = Dispatched(x, n.out)
  /\ gone' = gone \cup {b}
  /\ held' = [held EXCEPT ![b] = 0]
  /\ UNCHANGED <<reads, alive>>

(* A new wl_buffer: bufferIdOf gives it an id nothing refers to. *)
NewBuffer(b) ==
  /\ b \in gone
  /\ ~Known(m, b) /\ ~Queued(b)
  /\ x.imports[b] = NoImport /\ x.zombies[b] = NoImport /\ x.pending[b] = {}
  /\ x.freed[b] = 0
  /\ \A s \in SurfaceIds : m.surfaces[s] # b /\ x.texture[s].buf # b
  /\ \A sr \in Serials : \A t \in reads[sr] : t.buf # b
  /\ gone' = gone \ {b}
  /\ UNCHANGED <<m, x, reads, held, alive>>

(* removeSurface. *)
RemoveSurface(s) ==
  /\ s \in alive
  /\ LET n == OnSurfaceRemoved(m, s)
         y == Dispatched(x, n.out)
     IN  m' = n /\ x' = Drained([y EXCEPT !.texture[s] = NoTexture])
  /\ alive' = alive \ {s}
  /\ UNCHANGED <<reads, held, gone>>

(* A new wl_surface, under an id nothing refers to. *)
NewSurface(s) ==
  /\ s \notin alive
  /\ x.texture[s] = NoTexture
  /\ m.surfaces[s] = NoBuffer
  /\ \A b \in BufferIds : s \notin x.pending[b]
  /\ alive' = alive \cup {s}
  /\ UNCHANGED <<m, x, reads, held, gone>>

Next ==
  \/ \E s \in SurfaceIds, b \in BufferIds :
       \/ CommitKnown(s, b) \/ CommitRefused(s, b)
       \/ \E i \in ImportIds : CommitImports(s, b, i)
  \/ ImportSucceeds \/ ImportFails
  \/ \E D \in SUBSET SurfaceIds :
       RenderThrows(D) \/ \E sr \in Serials : RenderFrame(sr, D)
  \/ \E sr \in Serials : GpuCompleted(sr)
  \/ SendReleases
  \/ \E b \in BufferIds : DestroyBuffer(b) \/ NewBuffer(b)
  \/ \E s \in SurfaceIds : RemoveSurface(s) \/ NewSurface(s)

Spec == Init /\ [][Next]_vars

-----------------------------------------------------------------------------
(* The release an entry owes, and the surfaces whose current buffer it is. *)
Owed(r) == IF r.releaseOwed THEN 1 ELSE 0

ShownOn(k, b) == {s \in SurfaceIds : k.surfaces[s] = b}

(* The maps, the queue and the client's bookkeeping are well-typed.        *)
TypeOK ==
  /\ m \in Machines
  /\ x \in Executors
  /\ reads \in [Serials -> SUBSET Textures]
  /\ held \in [BufferIds -> Nat] /\ gone \subseteq BufferIds
  /\ alive \subseteq SurfaceIds

(* No map entry names an import the GPU process has dropped, and no import *)
(* is owned by two entries: releasing an entry can neither miss nor take   *)
(* another buffer's texture.  A parked import is displayed by a surface,   *)
(* so the bind or the removal that ends the display frees it:              *)
(* zombieImports cannot grow forever.                                      *)
OwnedImportsLive ==
  /\ \A b \in BufferIds : {x.imports[b], x.zombies[b]} \subseteq x.live \cup {NoImport}
  /\ \A b, c \in BufferIds :
       /\ x.imports[b] = x.imports[c] /\ x.imports[b] # NoImport => b = c
       /\ x.zombies[b] = x.zombies[c] /\ x.zombies[b] # NoImport => b = c
       /\ x.imports[b] # NoImport => x.imports[b] # x.zombies[c]
  /\ \A b \in BufferIds : x.zombies[b] # NoImport => Displayed(x, b, x.zombies[b])

(* The machine and the executor agree on every buffer although they learn  *)
(* of it in different steps: Imported is a cached import, Importing is one *)
(* unanswered request, and a surface waits only for an import that is      *)
(* still to be answered, or for a buffer that was poisoned.                *)
MachineMirrored ==
  \A b \in BufferIds :
    /\ m.buffers[b].state = "Imported" <=> x.imports[b] # NoImport
    /\ m.buffers[b].state = "Importing" <=> Queued(b)
    /\ x.pending[b] # {} => m.buffers[b].state \in {"Importing", "Poisoned"}
    /\ \A j, k \in 1..Len(x.queue) :
         x.queue[j].buf = b /\ x.queue[k].buf = b => j = k

(* No commit is answered by two releases, and none is answered while its   *)
(* surface still has the buffer as its current one: the releases that are  *)
(* queued, the one that is owed and the surfaces that have the buffer      *)
(* never outnumber the commits a release is still due for, although a      *)
(* buffer may be committed again with a release queued or owed, and on two *)
(* surfaces at once.                                                       *)
ReleasedOnce ==
  \A b \in BufferIds \ gone :
    x.freed[b] + Owed(m.buffers[b]) + Cardinality(ShownOn(m, b)) <= held[b]

-----------------------------------------------------------------------------
(* teardownImport's comment: no surface keeps a released import that the   *)
(* next frame would try to sample.                                         *)
NoFreedImportDisplayed ==
  \A s \in SurfaceIds : x.texture[s].imp \in x.live \cup {NoImport}

(* The release contract: the compositor's sampling finishes before the     *)
(* client may reuse the buffer.                                            *)
NoSampleAfterRelease ==
  \A sr \in Serials : \A t \in reads[sr] : t.buf \in gone \/ held[t.buf] > 0
=============================================================================
