--------------------------- MODULE SurfaceCommit ---------------------------
(***************************************************************************)
(* wl_surface.commit: what a commit promotes, when it is latched, and what *)
(* becomes of the buffers and explicit-sync points it carried.             *)
(*                                                                         *)
(* A commit of a synchronized subsurface goes into the surface's cache and *)
(* is applied with the parent; a commit with a target time, and every      *)
(* commit behind one, waits in the surface's timed queue; any other commit *)
(* is applied at once.  Every field of a commit takes the same branch, so  *)
(* the buffer and the sync points stand for all of them.                   *)
(*                                                                         *)
(* The client follows the protocol: it attaches a buffer only when it has  *)
(* got it back, it sets sync points with a dmabuf and only so, and destroys *)
(* a subsurface's role before the surface.  A point is named by the buffer *)
(* it was set for.                                                         *)
(***************************************************************************)
EXTENDS Integers, Sequences, FiniteSets, SequencesExt

CONSTANTS
  Surfaces, Root,   \* Root has the xdg_toplevel role; the others subsurfaces
  Parent,           \* the parent each of the others asks for
  Dmabufs, Shm,     \* the client's buffers
  Pool,             \* what the client attaches on each surface, Null too
  Timed,            \* the surfaces that have a wp_commit_timer_v1
  Explicit,         \* the surfaces that have a wp_linux_drm_syncobj_surface_v1
  None, Null, NoAttach,
  MaxCommits,       \* bound: commits
  MaxChanges        \* bound: changes of mode or role, destroyed surfaces

Buffers == Dmabufs \cup Shm
Children == Surfaces \ {Root}

ASSUME ConstantsAssumption ==
  /\ Root \in Surfaces /\ Timed \cup Explicit \subseteq Surfaces /\ Dmabufs \cap Shm = {}
  /\ Parent \in [Children -> Surfaces] /\ Pool \in [Surfaces -> SUBSET (Buffers \cup {Null})]
  /\ {None, Null, NoAttach} \cap Buffers = {} /\ NoAttach # Null
  /\ {MaxCommits, MaxChanges} \subseteq Nat

VARIABLES
  surf,      \* the surface records
  sub,       \* the wl_subsurface records: the live ones' mode
  comp,      \* the compositor and the wire: see Compositor
  pending,   \* requests since the last commit
  commits,   \* how many commits there have been
  changes,   \* how many of MaxChanges there have been
  applied,   \* number of the last commit applied, per surface
  lost       \* buffers whose loan, or whose point, the code loses track of

vars == <<surf, sub, comp, pending, commits, changes, applied, lost>>

NoContent == [buf |-> Null, ver |-> 0]
NoCache   == [buf |-> NoAttach, ver |-> 0, fresh |-> FALSE, pt |-> None, last |-> 0]
Nothing   == [buf |-> NoAttach, pt |-> None, timed |-> FALSE]

\* tex        what the compositor shows for a surface
\* registered the release point bound to a buffer (setBufferReleasePoint)
\* returning  buffers superseded or copied whose release event is on its way
\* busy       buffers committed and not released to the client
\* unsignalled points committed and not signalled
Compositor ==
  [tex : [Surfaces -> [buf : Buffers \cup {Null}, ver : 0 .. MaxCommits]],
   registered : [Dmabufs -> Dmabufs \cup {None}],
   returning : SUBSET Buffers, busy : SUBSET Buffers, unsignalled : SUBSET Dmabufs]

-----------------------------------------------------------------------------
(* The subsurface tree. *)

\* The record of the parent surface, if it still exists.
Up(s) == IF s \in DOMAIN sub /\ surf[Parent[s]].alive THEN {Parent[s]} ELSE {}

\* s, its parent, and so on.
AncestorsOrSelf(s) ==
  LET closed == {X \in SUBSET Surfaces : s \in X /\ \A x \in X : Up(x) \subseteq X}
  IN  {a \in Surfaces : \A X \in closed : a \in X}

\* Mutant: only the surface's own mode counts.
OwnSync(s) == s \in DOMAIN sub /\ sub[s]

EffectiveSync(s) == \E a \in AncestorsOrSelf(s) : a \in DOMAIN sub /\ sub[a]

Cached(srf, s) == srf[s].cached # NoCache

\* Mutant: a child with nothing cached is applied too.
CascadeUncached(srf, s) ==
  LET takers == {c \in DOMAIN sub : srf[c].alive /\ EffectiveSync(c)}
      closed == {X \in SUBSET takers : \A c \in takers : Parent[c] \in X \cup {s} => c \in X}
  IN  {c \in takers : \A X \in closed : c \in X}

\* The surfaces whose cache is applied with s: from s down, synchronized
\* children that have one.
Cascade(srf, s) ==
  LET takers == {c \in DOMAIN sub : srf[c].alive /\ Cached(srf, c) /\ EffectiveSync(c)}
      closed == {X \in SUBSET takers : \A c \in takers : Parent[c] \in X \cup {s} => c \in X}
  IN  {c \in takers : \A X \in closed : c \in X}

-----------------------------------------------------------------------------
(* Commits as functions of the state w = [surf, comp, applied, lost].       *)

World == [surf |-> surf, comp |-> comp, applied |-> applied, lost |-> lost]

Signal(c, pts) == [c EXCEPT !.unsignalled = @ \ pts]

\* uploadBuffer: the compositor takes a new buffer for each surface of U, with
\* the sync points promoted for it.  What it showed is superseded; shm is copied.
Upload(c, U, content, pt) ==
  LET up   == {s \in U : content[s].buf # Null}
      new  == {content[s].buf : s \in up}
      old  == {c.tex[s].buf : s \in {x \in up : c.tex[x].buf # content[x].buf}}
      with(b) == {s \in up : content[s].buf = b /\ pt[s] # None}
  IN  [c EXCEPT
        !.tex = [s \in Surfaces |-> IF s \in up THEN content[s] ELSE @[s]],
        !.registered = [b \in Dmabufs |-> IF with(b) = {} THEN @[b]
                                          ELSE pt[CHOOSE s \in with(b) : TRUE]],
        !.returning = @ \cup (new \cap Shm) \cup (old \cap Dmabufs)]

RemoveSurface(c, s) ==
  [c EXCEPT !.tex[s] = NoContent,
            !.returning = @ \cup ({c.tex[s].buf} \cap Dmabufs)]

\* What is shown once a cache is applied.
Uncached(r) ==
  IF r.cached.buf = Null THEN r.committed
  ELSE [buf |-> r.cached.buf, ver |-> r.cached.ver]

\* applySurfaceState: this surface, and the caches of the cascade with it.
ApplySurfaceState(w, s, content, fresh, pt, n) ==
  LET below == Cascade(w.surf, s)
      now   == [c \in below \cup {s} |-> IF c = s THEN content ELSE Uncached(w.surf[c])]
      pts   == [c \in below \cup {s} |-> IF c = s THEN pt ELSE w.surf[c].cached.pt]
      takes == {c \in below \cup {s} : IF c = s THEN fresh ELSE w.surf[c].cached.fresh}
  IN  [w EXCEPT
        !.surf = [c \in Surfaces |->
                    IF c \in below \cup {s}
                    THEN [w.surf[c] EXCEPT !.committed = now[c], !.cached = NoCache]
                    ELSE w.surf[c]],
        !.comp = Upload(@, takes, now, pts),
        !.applied = [c \in Surfaces |-> IF c = s THEN n
                       ELSE IF c \in below THEN w.surf[c].cached.last ELSE @[c]]]

\* Mutant: the point is signalled, the buffer is not released.
SignalSuperseded(c, k, new) == IF k.fresh THEN Signal(c, {k.pt}) ELSE c

\* releaseSupersededCachedBuffer
ReleaseSuperseded(c, k, new) ==
  IF ~k.fresh THEN c
  ELSE [Signal(c, {k.pt}) EXCEPT !.busy = @ \ ({k.buf} \ {new})]

\* A synchronized commit: into the cache.
LatchSync(w, s, set) ==
  LET attach == set.buf # NoAttach
      k      == w.surf[s].cached
      now    == IF attach THEN [buf |-> set.buf, ver |-> set.n] ELSE w.surf[s].committed
      kept   == IF attach /\ k.fresh THEN None ELSE k.pt
  IN  [w EXCEPT
        !.surf[s] = [w.surf[s] EXCEPT
          !.committed = now,
          !.cached = [buf |-> now.buf, ver |-> now.ver, fresh |-> k.fresh \/ attach,
                      pt |-> IF set.pt # None THEN set.pt ELSE kept, last |-> set.n]],
        !.comp = IF attach THEN ReleaseSuperseded(@, k, now.buf) ELSE @]

\* A desynchronized commit: applied, after what is still in the cache.  The
\* cached buffer takes the place of the one this commit attached: it is uploaded,
\* again perhaps, with the sync points of the other, which is forgotten.
LatchDesync(w, s, set) ==
  LET attach   == set.buf # NoAttach
      k        == w.surf[s].cached
      own      == IF attach THEN [buf |-> set.buf, ver |-> set.n] ELSE w.surf[s].committed
      flushes  == k.buf \notin {NoAttach, Null}
      now      == IF flushes THEN [buf |-> k.buf, ver |-> k.ver] ELSE own
      pt       == IF set.pt # None THEN set.pt ELSE k.pt
      muddled  == IF flushes /\ attach THEN {set.buf, k.buf} \cap Buffers ELSE {}
  IN  ApplySurfaceState([w EXCEPT !.lost = @ \cup muddled],
                        s, now, attach \/ k.fresh, pt, set.n)

\* discardTimedCommits: the queued buffers and points go with the queue.
DiscardTimedCommits(w, s) ==
  LET q == ToSet(w.surf[s].queue)
  IN  [w EXCEPT !.surf[s] = [w.surf[s] EXCEPT !.queue = <<>>, !.timer = FALSE],
                !.lost = @ \cup ({e.buf : e \in q} \cap Buffers)]

\* detachSurfaceRole
DetachSurfaceRole(w, s) ==
  LET w1 == DiscardTimedCommits(w, s)
  IN  IF ~w.surf[s].mapped THEN w1
      ELSE [w1 EXCEPT !.surf[s].mapped = FALSE, !.comp = RemoveSurface(@, s)]

\* commitNow.  A mapped toplevel that commits no buffer is unmapped.
CommitNow(w, s, set) ==
  LET w1 == IF EffectiveSync(s) THEN LatchSync(w, s, set) ELSE LatchDesync(w, s, set)
  IN  IF w1.surf[s].mapped /\ w1.surf[s].committed.buf = Null
      THEN DetachSurfaceRole(w1, s) ELSE w1

LatchHead(w, s) ==
  IF w.surf[s].queue = <<>> THEN w
  ELSE CommitNow([w EXCEPT !.surf[s].queue = Tail(@)], s, Head(w.surf[s].queue))

\* The first k queued commits, in order.
Latched(w, s, k) ==
  LET run[i \in 0 .. k] == IF i = 0 THEN w ELSE LatchHead(run[i - 1], s)
  IN  run[k]

\* Mutant: the timer that fired is not armed again for the next commit.
PumpOnce(w, s, k) ==
  LET v == Latched(w, s, k)
  IN  [v EXCEPT !.surf[s].timer = k = 0 /\ v.surf[s].queue # <<>>]

\* pumpTimedCommits, when the first k commits are due: it stops at the first
\* that has a target time still to come, and arms the timer for it.
PumpTimedCommits(w, s, k) ==
  LET v == Latched(w, s, k)
  IN  [v EXCEPT !.surf[s].timer = v.surf[s].queue # <<>>]

\* How many may be due: all, or those up to one with a target time.
DueCounts(q) == {k \in 0 .. Len(q) : k = Len(q) \/ q[k + 1].timed}

Becomes(w) ==
  surf' = w.surf /\ comp' = w.comp /\ applied' = w.applied /\ lost' = w.lost

-----------------------------------------------------------------------------
(* The client's requests. *)

Free(b) == b \notin comp.busy \cup comp.unsignalled

\* Pending state is the surface's own until the commit, so the client may as
\* well finish one surface's commit before it starts another's.
Alone(s) == \A t \in Surfaces \ {s} : pending[t] = Nothing

\* wl_surface.attach, with set_acquire_point and set_release_point.
Attach(s, b) ==
  /\ surf[s].alive /\ pending[s].buf = NoAttach /\ Alone(s)
  /\ b = Null \/ Free(b)
  /\ pending' = [pending EXCEPT ![s].buf = b,
                   ![s].pt = IF s \in Explicit /\ b \in Dmabufs THEN b ELSE None]
  /\ UNCHANGED <<surf, sub, comp, commits, changes, applied, lost>>

\* wp_commit_timer_v1.set_timestamp
SetTimestamp(s) ==
  /\ s \in Timed /\ surf[s].alive /\ ~pending[s].timed /\ Alone(s)
  /\ pending' = [pending EXCEPT ![s].timed = TRUE]
  /\ UNCHANGED <<surf, sub, comp, commits, changes, applied, lost>>

\* The commit number n of the pending state.
CommitSet(s) ==
  [buf |-> pending[s].buf, pt |-> pending[s].pt, timed |-> pending[s].timed,
   n |-> commits + 1]

\* From now on the buffer and the point are the compositor's.
Lent(w, set) ==
  [w EXCEPT !.comp.busy = @ \cup ({set.buf} \cap Buffers),
            !.comp.unsignalled = @ \cup ({set.pt} \cap Dmabufs)]

\* Mutant: a commit without a target time does not wait behind the queue.
WaitsIfTimed(s) == pending[s].timed

Waits(s) == surf[s].queue # <<>> \/ pending[s].timed

\* wl_surface.commit.  A target time that has passed latches at once.
Commit(s) ==
  LET set == CommitSet(s)
      w   == Lent(World, set)
      wq  == [w EXCEPT !.surf[s].queue = Append(@, set)]
  IN  /\ surf[s].alive /\ commits < MaxCommits
      /\ IF Waits(s)
         THEN \E k \in DueCounts(wq.surf[s].queue) : Becomes(PumpTimedCommits(wq, s, k))
         ELSE Becomes(CommitNow(w, s, set))
      /\ commits' = commits + 1
      /\ pending' = [pending EXCEPT ![s] = Nothing]
      /\ UNCHANGED <<sub, changes>>

\* The timer of the first queued commit.
TimerFires(s) ==
  /\ surf[s].timer
  /\ \E k \in DueCounts(surf[s].queue) \ {0} : Becomes(PumpTimedCommits(World, s, k))
  /\ UNCHANGED <<sub, pending, commits, changes>>

Change == changes < MaxChanges /\ changes' = changes + 1

\* get_subsurface: synchronized at first.
GetSubsurface(s) ==
  /\ Change /\ s \in Children \ DOMAIN sub /\ surf[s].alive /\ surf[Parent[s]].alive
  /\ sub' = [t \in DOMAIN sub \cup {s} |-> IF t = s THEN TRUE ELSE sub[t]]
  /\ UNCHANGED <<surf, comp, pending, commits, applied, lost>>

\* wl_subsurface.destroy: the surface stays, with its cache, for another role.
DestroySubsurface(s) ==
  /\ Change /\ s \in DOMAIN sub
  /\ sub' = [t \in DOMAIN sub \ {s} |-> sub[t]]
  /\ comp' = IF surf[s].alive THEN RemoveSurface(comp, s) ELSE comp
  /\ UNCHANGED <<surf, pending, commits, applied, lost>>

\* set_sync and set_desync: at once; a cache stays.
SetMode(s, sync) ==
  /\ Change /\ s \in DOMAIN sub /\ sub[s] # sync
  /\ sub' = [sub EXCEPT ![s] = sync]
  /\ UNCHANGED <<surf, comp, pending, commits, applied, lost>>

\* wl_surface.destroy.  Only a mapped surface leaves the compositor; the cache
\* and what an unmapped one shows are never given back.
DestroySurface(s) ==
  LET w == DetachSurfaceRole(World, s)
      gone == {w.surf[s].cached.buf, w.comp.tex[s].buf}
  IN  /\ Change /\ surf[s].alive /\ s \notin DOMAIN sub
      /\ Becomes([w EXCEPT !.surf[s] = [w.surf[s] EXCEPT !.alive = FALSE, !.cached = NoCache],
                           !.lost = @ \cup (gone \cap (w.comp.busy \ w.comp.returning))])
      /\ pending' = [pending EXCEPT ![s] = Nothing]
      /\ UNCHANGED <<sub, commits>>

(* The compositor. *)

\* The map sweep: a toplevel maps on its first content.
MapRoot ==
  /\ surf[Root].alive /\ ~surf[Root].mapped /\ comp.tex[Root] # NoContent
  /\ surf' = [surf EXCEPT ![Root].mapped = TRUE]
  /\ UNCHANGED <<sub, comp, pending, commits, changes, applied, lost>>

\* The GPU is done with a superseded buffer, or has copied an shm one: the
\* release event is sent and the buffer's release point signalled.
Returned(b) ==
  /\ b \in comp.returning
  /\ LET c == [comp EXCEPT !.returning = @ \ {b}, !.busy = @ \ {b}]
     IN  comp' = IF b \in Dmabufs
                 THEN [Signal(c, {comp.registered[b]}) EXCEPT !.registered[b] = None]
                 ELSE c
  /\ UNCHANGED <<surf, sub, pending, commits, changes, applied, lost>>

Init ==
  /\ surf = [s \in Surfaces |->
              [alive |-> TRUE, mapped |-> FALSE, committed |-> NoContent,
               cached |-> NoCache, queue |-> <<>>, timer |-> FALSE]]
  /\ sub = [s \in Children |-> TRUE]
  /\ comp = [tex |-> [s \in Surfaces |-> NoContent],
             registered |-> [b \in Dmabufs |-> None],
             returning |-> {}, busy |-> {}, unsignalled |-> {}]
  /\ pending = [s \in Surfaces |-> Nothing]
  /\ commits = 0 /\ changes = 0 /\ applied = [s \in Surfaces |-> 0] /\ lost = {}

Next ==
  \/ \E s \in Surfaces :
       \/ \E b \in Pool[s] : Attach(s, b)
       \/ SetTimestamp(s) \/ Commit(s) \/ TimerFires(s)
       \/ GetSubsurface(s) \/ DestroySubsurface(s) \/ DestroySurface(s)
       \/ SetMode(s, TRUE) \/ SetMode(s, FALSE)
  \/ MapRoot
  \/ \E b \in Buffers : Returned(b)

Spec == Init /\ [][Next]_vars

-----------------------------------------------------------------------------

Contents == [buf : Buffers \cup {Null}, ver : 0 .. MaxCommits]

TypeOK ==
  /\ \A s \in Surfaces :
       /\ surf[s].alive \in BOOLEAN /\ surf[s].mapped \in BOOLEAN
       /\ surf[s].committed \in Contents
       /\ Cached(surf, s) => /\ surf[s].cached.buf = surf[s].committed.buf
                             /\ surf[s].cached.ver = surf[s].committed.ver
                             /\ surf[s].cached.last \in 1 .. commits
       /\ surf[s].timer \in BOOLEAN
       /\ pending[s].buf \in Buffers \cup {Null, NoAttach}
  /\ sub \in UNION {[D -> BOOLEAN] : D \in SUBSET Children}
  /\ comp \in Compositor
  /\ commits \in 0 .. MaxCommits /\ changes \in 0 .. MaxChanges
  /\ applied \in [Surfaces -> 0 .. commits]
  /\ lost \subseteq Buffers

\* What a surface shows never goes back to an older commit, whatever is
\* cached, queued or switched between synchronized and not.  (A surface taken
\* off the compositor starts again.)
ContentAdvances ==
  [][\A s \in Surfaces :
       comp'.tex[s] = NoContent \/ comp'.tex[s].ver >= comp.tex[s].ver]_vars

\* A subtree is applied as one: the state of a synchronized subsurface changes
\* only in a step that applies its parent, and such a step leaves nothing in
\* the cache of a synchronized child.
SyncAtomic ==
  [][\A s \in DOMAIN sub :
       LET moves(t) == applied'[t] # applied[t]
           synced   == {a \in DOMAIN sub : sub[a]}
       IN  surf[s].alive /\ AncestorsOrSelf(s) \cap synced # {} =>
             /\ moves(s) => moves(Parent[s])
             /\ moves(Parent[s]) => surf'[s].cached = NoCache]_vars

\* A buffer the client has not got back is still queued, cached, shown or on
\* its way, or is one of those the code is known to drop (lost); and nothing
\* the client has got back is still held.  The same of the release points, each
\* of which comes back with its own buffer.
LoansAccounted ==
  LET entries == UNION {ToSet(surf[s].queue) : s \in Surfaces}
      caches  == {surf[s].cached : s \in Surfaces}
      held    == ({e.buf : e \in entries} \cup {k.buf : k \in {x \in caches : x.fresh}}
                  \cup comp.returning) \cap Buffers
      shown   == {comp.tex[s].buf : s \in Surfaces} \cap Dmabufs
      points  == ({e.pt : e \in entries} \cup {k.pt : k \in caches}
                  \cup {comp.registered[b] : b \in Dmabufs}) \cap Dmabufs
  IN  /\ comp.busy \subseteq held \cup shown \cup lost
      /\ held \cup shown \subseteq comp.busy \cup lost
      /\ comp.unsignalled \subseteq points \cup lost
      /\ \A b \in Dmabufs \ lost : comp.registered[b] \in {None, b} \cup lost

\* Queued commits always have a timer to latch them, and no timer is left on an
\* empty queue; the commit at the head is one with a target time.
TimersArmed ==
  \A s \in Surfaces :
    /\ surf[s].timer <=> surf[s].queue # <<>>
    /\ surf[s].timer => Head(surf[s].queue).timed
=============================================================================
