------------------------- MODULE ResizeTransaction -------------------------
(***************************************************************************)
(* The surface-transaction broker (surface-transaction.ts) with everything *)
(* that drives it: the WM's held resizes and its layout passes             *)
(* (wm/index.ts, wm/layout-driver.ts), cross-output moves                  *)
(* (protocols/cross-output-move.ts), the per-output stack pushes it defers *)
(* (protocols/xdg_popup.ts, plugins/windows-broker.ts) and clients that    *)
(* answer configures.  One action is one JS turn.                          *)
(*   t.holds    `holds`: the tags of each hold's requirements ({} is no    *)
(*              hold) and the time left to its deadlineAt                  *)
(*   t.timer    the time left on `timer`                                   *)
(*   t.gates    batches off the books that await onBeforeApply             *)
(*   t.pend     `pendingResizes`                                           *)
(*   t.rect     what each window is drawn at (win.outer, win.rect)         *)
(*   t.drawable the size of each surface's bound buffer                    *)
(*   t.frozen   surfaces showing their snapshot                            *)
(*   t.deferred whether there are `deferredOutputStacks`                   *)
(*   windows    the WM's windows, all mapped with dmabuf content           *)
(*   client     per surface: the size last asked for, the size committed   *)
(*   pass       the window whose window.relayout a layout pass awaits,     *)
(*              with the rect it had before (prevOuter, prevContent)       *)
(*   want       history: the rect the layout last gave each window         *)
(*   skipped    history: windows that a pass left where they are because   *)
(*              their rect before the await was the one it gives           *)
(* Every requirement in the repository carries the batchKey "wm-tx", so    *)
(* the holds are one batch.  Insets, mirrors and windows whose opening     *)
(* sequence is not over are left out; a rect is a size and a position.     *)
(* applyLayout awaits the plugins for each window: it is two steps per     *)
(* window, Relayout before the await and Retile after it, and a last step, *)
(* EndPass.  The driver runs one pass at a time.  Which windows it places, *)
(* and where, is the plugins' choice.                                      *)
(***************************************************************************)
EXTENDS Naturals, Sequences, FiniteSets, FiniteSetsExt, SequencesExt

CONSTANTS SurfaceIds,
          XwaylandIds,  \* the surfaces whose configures carry no serial
          Rects,        \* records [size, pos] a layout may assign
          Timeout,      \* timeoutMs, in clock steps
          MaxGates,     \* bound: batches awaiting onBeforeApply at once
          NoPend, NoTimer, NoPass

ASSUME TimeoutAssumption == Timeout \in Nat \ {0}
ASSUME MaxGatesAssumption == MaxGates \in Nat \ {0}
ASSUME NoTimerAssumption == NoTimer \notin Nat

VARIABLES t, windows, client, pass, want, skipped

vars == <<t, windows, client, pass, want, skipped>>

Tags == {"cross-output", "wm-tx"}

Sizes == {r.size : r \in Rects}

PendingResize == [rect: Rects, cfg: Sizes, moveOnly: BOOLEAN,
                  acked: BOOLEAN, requireAck: BOOLEAN]

ASSUME NoPendAssumption == NoPend \notin PendingResize

Passes == [win: SurfaceIds, prev: Rects]

ASSUME NoPassAssumption == NoPass \notin Passes

NoHold == [tags |-> {}, left |-> 0]

Transactions ==
  [holds: [SurfaceIds -> [tags: SUBSET Tags, left: 0..Timeout]],
   timer: (0..Timeout) \cup {NoTimer},
   gates: Seq([SurfaceIds -> SUBSET Tags]),
   pend: [SurfaceIds -> PendingResize \cup {NoPend}],
   rect: [SurfaceIds -> Rects], drawable: [SurfaceIds -> Sizes],
   frozen: SUBSET SurfaceIds, deferred: BOOLEAN]

Init ==
  /\ windows = SurfaceIds
  /\ \E r \in [SurfaceIds -> Rects] :
       /\ t = [holds |-> [s \in SurfaceIds |-> NoHold], timer |-> NoTimer,
               gates |-> <<>>, pend |-> [s \in SurfaceIds |-> NoPend],
               rect |-> r, drawable |-> [s \in SurfaceIds |-> r[s].size],
               frozen |-> {}, deferred |-> FALSE]
       /\ want = r
       /\ client = [s \in SurfaceIds |->
                      [asked |-> r[s].size, committed |-> r[s].size]]
  /\ pass = NoPass
  /\ skipped = {}

-----------------------------------------------------------------------------
(* The broker. *)
Held(u) == {s \in SurfaceIds : u.holds[s].tags # {}}

Batch(u) == [s \in SurfaceIds |-> u.holds[s].tags]

InBatch(g) == {s \in SurfaceIds : g[s] # {}}

(* pendingReady, with surfaceReadyAt. *)
PendingReady(u, s) ==
  LET p == u.pend[s] IN
  \/ p = NoPend
  \/ p.moveOnly
  \/ (p.requireAck => p.acked) /\ u.drawable[s] = p.rect.size

(* holdReady: the cross-output requirement is ready once the WM joined. *)
HoldReady(u, s) ==
  /\ "wm-tx" \in u.holds[s].tags
  /\ PendingReady(u, s)

(* flushDeferredOutputStacks. *)
Flushed(u) == [u EXCEPT !.deferred = FALSE]

(* finish of the batch g: beginResizeTx's onApply with pushGeometry, the   *)
(* thaws, then onAfterApply.                                               *)
Finished(u, g) ==
  LET landing == {s \in InBatch(g) : "wm-tx" \in g[s] /\ u.pend[s] # NoPend}
  IN  Flushed([u EXCEPT
        !.pend = [s \in SurfaceIds |-> IF s \in landing THEN NoPend ELSE @[s]],
        !.rect = [s \in SurfaceIds |-> IF s \in landing \cap windows
                                         THEN u.pend[s].rect ELSE @[s]],
        !.frozen = @ \ InBatch(g)])

(* The WM's onBeforeApply: it waits for plugins if a rect changes. *)
Gated(u, g) ==
  \E s \in InBatch(g) \cap windows :
    u.pend[s] # NoPend /\ u.pend[s].rect # u.rect[s]

(* doApply of every hold. *)
Applied(u) ==
  LET g == Batch(u)
      v == [u EXCEPT !.holds = [s \in SurfaceIds |-> NoHold], !.timer = NoTimer]
  IN  IF Gated(v, g) THEN [v EXCEPT !.gates = Append(@, g)] ELSE Finished(v, g)

(* Mutant of Evaluated: each ready hold applies on its own. *)
EvaluatedAlone(u) ==
  LET ready == {s \in Held(u) : HoldReady(u, s)}
      rest == [u EXCEPT !.holds = [s \in SurfaceIds |->
                 IF s \in ready THEN NoHold ELSE @[s]]]
      g == [s \in SurfaceIds |-> IF s \in ready THEN u.holds[s].tags ELSE {}]
  IN  IF ready = {} THEN u
      ELSE IF Gated(rest, g) THEN [rest EXCEPT !.gates = Append(@, g)]
      ELSE Finished(rest, g)

(* evaluate. *)
Evaluated(u) ==
  IF Held(u) # {} /\ \A s \in Held(u) : HoldReady(u, s) THEN Applied(u) ELSE u

(* Mutant of Armed: the timer is armed one step after the deadline. *)
ArmedLate(u) ==
  IF u.timer # NoTimer \/ Held(u) = {} THEN u
  ELSE [u EXCEPT !.timer = Min({u.holds[s].left : s \in Held(u)}) + 1]

(* armTimer. *)
Armed(u) ==
  IF u.timer # NoTimer \/ Held(u) = {} THEN u
  ELSE [u EXCEPT !.timer = Max({1, Min({u.holds[s].left : s \in Held(u)})})]

(* begin. *)
Begun(u, s, tag) ==
  Evaluated(Armed([u EXCEPT
    !.holds[s] = [tags |-> @.tags \cup {tag}, left |-> Timeout],
    !.frozen = IF u.holds[s].tags = {} THEN @ \cup {s} ELSE @]))

(* Mutant of Cancelled: the WM's entry is kept. *)
CancelledKeepsPend(u, S) ==
  LET cut == S \cap Held(u)
      v == [u EXCEPT !.holds = [s \in SurfaceIds |-> IF s \in cut THEN NoHold ELSE @[s]],
                     !.frozen = @ \ cut]
  IN  IF cut # {} /\ Held(v) = {} THEN [v EXCEPT !.timer = NoTimer] ELSE v

(* cancel of each surface of S, with the WM's onCancel. *)
Cancelled(u, S) ==
  LET cut == S \cap Held(u)
      v == [u EXCEPT
              !.holds = [s \in SurfaceIds |-> IF s \in cut THEN NoHold ELSE @[s]],
              !.pend = [s \in SurfaceIds |->
                          IF s \in cut /\ "wm-tx" \in u.holds[s].tags THEN NoPend ELSE @[s]],
              !.frozen = @ \ cut]
  IN  IF cut # {} /\ Held(v) = {} THEN [v EXCEPT !.timer = NoTimer] ELSE v

(* rebuildStackWithPopups' per-output half. *)
Rebuilt(u) == [u EXCEPT !.deferred = Held(u) # {}]

-----------------------------------------------------------------------------
(* configure.configure. *)
Configured(s, size) == [client EXCEPT ![s].asked = size]

(* The size the WM believes the client of s, whose rect was prev, was last *)
(* asked for.                                                              *)
LastConfigured(s, prev) ==
  IF t.pend[s] = NoPend THEN prev.size ELSE t.pend[s].cfg

(* applyLayout's transaction path for the window s: a new hold, or the one *)
(* that is there coalesces.                                                *)
BeginHold(s, p) ==
  /\ t.pend[s] = NoPend
  /\ Len(t.gates) < MaxGates
  /\ t' = Begun([t EXCEPT !.pend[s] = p], s, "wm-tx")

HoldResize(s, r, prev) ==
  LET resize == [rect |-> r, cfg |-> r.size, moveOnly |-> FALSE, acked |-> FALSE,
                 requireAck |-> s \notin XwaylandIds]
      move == [rect |-> r, cfg |-> r.size, moveOnly |-> TRUE, acked |-> TRUE,
               requireAck |-> FALSE]
  IN  \/ /\ r.size # LastConfigured(s, prev)
         /\ client' = Configured(s, r.size)
         /\ \/ BeginHold(s, resize)
            \/ t.pend[s] # NoPend /\ t' = [t EXCEPT !.pend[s] = resize]
      \/ /\ r.size = LastConfigured(s, prev)
         /\ UNCHANGED client
         /\ \/ r # prev /\ BeginHold(s, move)
            \/ t.pend[s] # NoPend /\ t' = [t EXCEPT !.pend[s].rect = r]
            \/ t.pend[s] = NoPend /\ r = prev /\ UNCHANGED t

(* Mutant of PlaceNow: the stale hold keeps its rect. *)
PlaceNowIgnoresHold(s, r, prev) ==
  /\ t' = [t EXCEPT !.rect[s] = IF r = prev THEN @ ELSE r]
  /\ client' = IF r.size # prev.size THEN Configured(s, r.size) ELSE client

(* Its immediate path: a hold left by an earlier pass is retargeted, and   *)
(* the window placed unless its rect was the same before the await.        *)
PlaceNow(s, r, prev) ==
  /\ t' = [t EXCEPT !.rect[s] = IF r = prev THEN @ ELSE r,
                    !.pend[s] = IF @ = NoPend THEN @
                                ELSE [@ EXCEPT !.rect = r, !.moveOnly = FALSE]]
  /\ client' = IF r.size # prev.size THEN Configured(s, r.size) ELSE client

(* applyLayout comes to the window s and emits window.relayout. *)
Relayout(s) ==
  /\ pass = NoPass
  /\ s \in windows
  /\ pass' = [win |-> s, prev |-> t.rect[s]]
  /\ UNCHANGED <<t, windows, client, want, skipped>>

(* The plugins answered, or the emit's timeout passed: reorders and        *)
(* parameter changes hold the geometry, every other reason places it.      *)
Retile(r) ==
  LET s == pass.win
      prev == pass.prev
  IN  /\ pass # NoPass
      /\ pass' = NoPass
      /\ UNCHANGED windows
      /\ \/ /\ s \notin windows
            /\ UNCHANGED <<t, client, want, skipped>>
         \/ /\ s \in windows
            /\ HoldResize(s, r, prev) \/ PlaceNow(s, r, prev)
            /\ want' = [want EXCEPT ![s] = r]
            /\ skipped' = IF t.pend[s] = NoPend /\ r = prev /\ r # t.rect[s]
                            THEN skipped \cup {s} ELSE skipped \ {s}

(* The end of a pass that held geometry: holds of windows that are not     *)
(* among the members it laid out are cancelled.                            *)
EndPass(members) ==
  /\ pass = NoPass
  /\ LET dropped == {s \in SurfaceIds \ members : t.pend[s] # NoPend}
         u == Cancelled(t, dropped)
     IN  /\ t' = Evaluated(u)
         /\ want' = [s \in SurfaceIds |->
                       IF s \in dropped /\ u.pend[s] = NoPend THEN t.rect[s]
                       ELSE want[s]]
  /\ UNCHANGED <<windows, client, pass, skipped>>

-----------------------------------------------------------------------------
(* Any rebuild of the stack: windows.set-output-stack, focus, popups. *)
RebuildStack ==
  /\ t' = Rebuilt(t)
  /\ UNCHANGED <<windows, client, pass, want, skipped>>

(* workspace.window-moved between outputs of different scales. *)
WindowMoved(s) ==
  /\ s \in windows
  /\ Len(t.gates) < MaxGates
  /\ t' = Begun(t, s, "cross-output")
  /\ UNCHANGED <<windows, client, pass, want, skipped>>

(* unmapWindow, with the removal of the surface from the compositor. *)
UnmapWindow(s) ==
  /\ s \in windows
  /\ windows' = windows \ {s}
  /\ t' = Rebuilt([Cancelled(t, {s}) EXCEPT !.frozen = @ \ {s}])
  /\ UNCHANGED <<client, pass, want, skipped>>

(* A client commits at a size of its choice, having acked older serials    *)
(* only or that of the held configure: notifyToplevelCommit.               *)
ClientCommits(s, size) ==
  /\ s \in windows
  /\ client' = [client EXCEPT ![s].committed = size]
  /\ \/ UNCHANGED t
     \/ /\ t.pend[s] # NoPend
        /\ t.pend[s].requireAck /\ ~t.pend[s].acked
        /\ t' = Evaluated([t EXCEPT !.pend[s].acked = TRUE])
  /\ UNCHANGED <<windows, pass, want, skipped>>

(* bindImportToSurface: the committed buffer becomes drawable, and a       *)
(* frozen surface pokes the broker (setFrozenReadyHandler).                *)
BufferDrawable(s) ==
  /\ s \in windows
  /\ t.drawable[s] # client[s].committed
  /\ LET u == [t EXCEPT !.drawable[s] = client[s].committed]
     IN  t' = IF s \in t.frozen \cap Held(t) THEN Evaluated(u) ELSE u
  /\ UNCHANGED <<windows, client, pass, want, skipped>>

-----------------------------------------------------------------------------
(* Time. *)
ClockTicks ==
  /\ t.timer # NoTimer
  /\ t.timer > 0
  /\ t' = [t EXCEPT !.timer = @ - 1,
                    !.holds = [s \in SurfaceIds |->
                       [t.holds[s] EXCEPT !.left = IF @ > 0 THEN @ - 1 ELSE 0]]]
  /\ UNCHANGED <<windows, client, pass, want, skipped>>

(* Mutant of TimerFires: a timer that found nothing expired is not re-armed. *)
TimerFiresOnce ==
  /\ t.timer = 0
  /\ LET u == [t EXCEPT !.timer = NoTimer]
         expired == \E s \in Held(t) : t.holds[s].left = 0
         ready == \A s \in Held(t) : HoldReady(t, s)
     IN  t' = IF expired \/ ready THEN Applied(u) ELSE u
  /\ UNCHANGED <<windows, client, pass, want, skipped>>

(* armTimer's tick. *)
TimerFires ==
  /\ t.timer = 0
  /\ LET u == [t EXCEPT !.timer = NoTimer]
         expired == \E s \in Held(t) : t.holds[s].left = 0
         ready == \A s \in Held(t) : HoldReady(t, s)
     IN  t' = Armed(IF expired \/ ready THEN Applied(u) ELSE u)
  /\ UNCHANGED <<windows, client, pass, want, skipped>>

(* The plugins answered stack.relayout-apply, or its timeout passed. *)
GateResolves(k) ==
  /\ k \in 1..Len(t.gates)
  /\ t' = Finished([t EXCEPT !.gates = RemoveAt(@, k)], t.gates[k])
  /\ UNCHANGED <<windows, client, pass, want, skipped>>

Next ==
  \/ \E s \in SurfaceIds : Relayout(s)
  \/ \E r \in Rects : Retile(r)
  \/ \E members \in SUBSET SurfaceIds : EndPass(members)
  \/ RebuildStack
  \/ \E s \in SurfaceIds : WindowMoved(s) \/ UnmapWindow(s)
  \/ \E s \in SurfaceIds, size \in Sizes : ClientCommits(s, size)
  \/ \E s \in SurfaceIds : BufferDrawable(s)
  \/ ClockTicks \/ TimerFires
  \/ \E k \in 1..MaxGates : GateResolves(k)

Spec == Init /\ [][Next]_vars

(***************************************************************************)
(* Fairness.  Time passes, a due setTimeout runs, and the wait for the     *)
(* plugins is bounded by INTERCEPTOR_TIMEOUT_MS.  Nothing is assumed of    *)
(* clients, plugins or the user.                                           *)
(***************************************************************************)
FairSpec ==
  Spec /\ WF_vars(ClockTicks) /\ WF_vars(TimerFires) /\ WF_vars(GateResolves(1))

-----------------------------------------------------------------------------
(* The broker's and the WM's records are well-typed, and no more than      *)
(* MaxGates batches wait at once.                                          *)
TypeOK ==
  /\ t \in Transactions
  /\ Len(t.gates) <= MaxGates
  /\ windows \subseteq SurfaceIds
  /\ client \in [SurfaceIds -> [asked: Sizes, committed: Sizes]]
  /\ pass \in Passes \cup {NoPass}
  /\ want \in [SurfaceIds -> Rects]
  /\ skipped \subseteq SurfaceIds

(* Every hold has a backstop: while there is one a timer is armed, and it  *)
(* fires no later than the earliest deadline, although begin() moves       *)
(* deadlines without re-arming it and doApply and cancel clear it.         *)
HoldsTimed ==
  /\ Held(t) # {} <=> t.timer # NoTimer
  /\ \A s \in Held(t) : t.timer <= Max({1, t.holds[s].left})

(* The batches that will end the wait of s with the tag: the hold on the   *)
(* books (0), and the batches behind a gate.                               *)
TagsAt(u, s, k) == IF k = 0 THEN u.holds[s].tags ELSE u.gates[k][s]

Waits(s, tag) == {k \in 0..Len(t.gates) : tag \in TagsAt(t, s, k)}

(* No held geometry is stranded and none is applied twice: each entry of   *)
(* pendingResizes is owned by exactly one wm-tx requirement, on the books  *)
(* or behind a gate, across coalescing, cancels, unmaps and late gates.    *)
(* No surface is left showing its snapshot: whatever froze it, a hold or a *)
(* gated batch that will thaw it is still there.                           *)
HoldsOwned ==
  /\ \A s \in SurfaceIds :
       Cardinality(Waits(s, "wm-tx")) = IF t.pend[s] = NoPend THEN 0 ELSE 1
  /\ \A s \in t.frozen : \E tag \in Tags : Waits(s, tag) # {}

(* Where a window is drawn, or will be once its held geometry lands. *)
Heading(s) == IF t.pend[s] = NoPend THEN t.rect[s] ELSE t.pend[s].rect

(* No stale hold reverts a newer placement: a window is drawn at, or will  *)
(* be once its held geometry lands, the rect the layout gave it last.      *)
(* Left out are the windows whose rect changed while a pass awaited the    *)
(* plugins, and which the pass left alone because of the rect it captured  *)
(* before.                                                                 *)
LatestLayoutHeld == \A s \in windows \ skipped : Heading(s) = want[s]

(* A batch on the books is applied as a whole: when a hold leaves the      *)
(* books and another stays, it was cancelled and nothing was applied.      *)
(* (A hold that is ready when it begins is a batch of its own: see         *)
(* SwapsLandTogether.)                                                     *)
BatchAtomic ==
  [][\A s \in Held(t) \ Held(t)', u \in Held(t) \cap Held(t)' :
       s \in windows' => t'.rect[s] = t.rect[s] /\ t'.gates = t.gates]_vars

(* Every frozen surface is eventually thawed, even if its client never     *)
(* answers, as long as windows do not change outputs forever.              *)
EventuallyThawed ==
  \A s \in SurfaceIds :
    <>[][~\E u \in SurfaceIds : WindowMoved(u)]_vars
      => [](s \in t.frozen => <>(s \notin t.frozen))

-----------------------------------------------------------------------------
(* rebuildStackWithPopups' comment: a deferred push happens in the         *)
(* broker's onAfterApply, so whenever one is deferred an apply must still  *)
(* be to come.                                                             *)
DeferredStacksFlushed ==
  t.deferred => Held(t) # {} \/ t.gates # <<>>

(* applyLayout's comment: a window is configured again on a size that      *)
(* differs from what the client was last asked for, so the size compared   *)
(* with is the size last asked for.                                        *)
LastConfiguredIsAsked ==
  \A s \in windows : LastConfigured(s, t.rect[s]) = client[s].asked

(* applyLayout's comment: a pass is authoritative for the geometry of its  *)
(* windows.                                                                *)
LatestLayoutWins == \A s \in windows : Heading(s) = want[s]

(* The comments above PendingResize and at the head of the broker: every   *)
(* held window is applied in one batch, so that two windows that trade     *)
(* places never overlap.                                                   *)
Trading(s, u) ==
  /\ NoPend \notin {t.pend[s], t.pend[u]}
  /\ t.rect[s] # t.rect[u]
  /\ t.pend[s].rect = t.rect[u] /\ t.pend[u].rect = t.rect[s]

Lands(s) ==
  /\ t.pend[s] # NoPend /\ t'.pend[s] = NoPend
  /\ t'.rect[s] = t.pend[s].rect

SwapsLandTogether ==
  [][\A s, u \in windows' : Trading(s, u) /\ Lands(s) => Lands(u)]_vars
=============================================================================
