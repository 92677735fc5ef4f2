# overdraw: a TLA+ verification project

overdraw is a Wayland compositor. A Node process runs the policy in TypeScript
(protocols, window manager, plugins, the compositor that issues WebGPU work);
a native addon joins it to libwayland, libinput and a wire; and a GPU process
executes the WebGPU commands, imports client buffers and drives the displays.
This directory holds TLA+ models of the parts of it whose correctness depends on
the order in which those actors' events arrive, with TLC runs and TLAPS proofs.

`PROJECT.json` lists the components, runs, mutants, the map from definitions to
source lines, the hazards and the theorems.

## 1. Inventory

The system is large (about 60 000 lines of TypeScript and 20 000 of C++). These
are its parts, the state each keeps, and what makes each correct.

| part | state | operations | what is hard | correct when |
|---|---|---|---|---|
| client-buffer lifecycle machine (`gpu/client-buffer-lifecycle.ts`) | per buffer: import state, debts, fences, readers; per surface: current buffer; the open frame | 14 events, `takeAcquireFence` | events from the wire, the frame loop, the GPU and the display in any order | a loan is returned once and never early; fences and brackets are never lost |
| dmabuf executor (`gpu/compositor.ts`) | `dmabufPending`, `dmabufImports`, `zombieImports`, `freed`, each surface's texture | commit, import callback, frame, completion, destroy, removal | the import answer is asynchronous and buffers and surfaces may be gone when it comes | its maps mirror the machine; nothing shown is freed; nothing is leaked |
| surface-transaction broker (`surface-transaction.ts`) | `holds`, `timer`, batches awaiting `onBeforeApply` | `begin`, `evaluate`, `cancel`, the deadline | deadlines that move, batches off the books during an await | every frozen window is thawed; a batch lands as one |
| WM resize transaction (`wm/index.ts`, `wm/layout-driver.ts`) | `pendingResizes`, rects, configures | layout passes, unmap, client commits | passes, clients, timers and plugins interleave | no stale hold reverts a layout; held geometry has an owner |
| cross-output moves, stack deferral (`protocols/cross-output-move.ts`, `xdg_popup.ts`, `plugins/windows-broker.ts`) | the joined requirement, `deferredOutputStacks` | window-moved, stack rebuilds | joins and defers against another component's holds | what is deferred is pushed |
| `wl_surface` commits, subsurfaces, timed commits | pending, cached, committed state; the timed queue | commit, set_sync, destroy | cached state across a tree; queued commits against destruction | state is applied in order, every buffer replaced unseen is released |
| frame loop (`napi/addon.cpp`) | damage, outputs awaiting flips, the gate of one client present | wake, flip, timer | the two streams from the GPU process are read in either order | no wake is lost |
| KMS output and scanout rings (`gpu-process/src`) | ring slots, pending and latched framebuffers | present, flip, hotplug, VT switch | kernel events against presents | a slot on screen is not written |
| plugin runtime and namespaces (`plugins/runtime.ts`) | workers, calls in flight, restart budget | start, call, exit, restart | death with calls in flight | every call settles |
| plugin surface rings (`plugins/surface-ring.ts`) | slots per producer | acquire, present, release | producer against compositor | no slot is read while written |
| intercept broker (`intercept/`) | matches, rounds, outputs per surface | match, round, fall-back | a plugin that answers late | a surface is never stuck without an image |
| input: binding chain, seat, focus, constraints | captures, pressed keys, grabs | key, button, focus changes | focus changes between press and release | every press has its release |
| outputs, hotplug, workspaces, canvas | outputs, residency, workspace registry | hotplug, move, switch | removal of what others name | no dangling output |
| selections, capture, toplevel lists, layer shell, Xwayland, IPC, config, cursor, animations | protocol bookkeeping | requests | mostly sequential | see `components` |

How they interact: the wire delivers requests to `protocols/*`, which call the
WM and the compositor in the same turn; `commitSurfaceDmabuf` feeds the
lifecycle machine, whose intents the compositor executes at once; imports and
GPU completions come back as callbacks in later turns; the frame loop calls
`renderFrame` and then drains `freed` to clients; layout passes await plugins,
so that they spread over turns, and hand windows to the broker, which freezes
them in the compositor and thaws them when the buffers the lifecycle imported
are drawable.

## 2. Modules

| module | models |
|---|---|
| `BufferMachine` | the class `ClientBufferLifecycle` as operators: a machine record and one `On...` operator per handler, the emitted intents in `out` |
| `ClientBufferLifecycle` | the machine under every order of events its executor and the world can deliver, with history variables for the loans, descriptors, GPU reads and planes |
| `BufferLending` | what it promises a client: lend, read, return once, never while read |
| `ClientBufferLifecycleProofs`, `BufferLendingProofs` | the TLAPS proofs of its invariants, and of teardown and the refinement of `BufferLending` |
| `DmabufExecutor` | the compositor's half: the maps, the import round trip, the frame, the release queue, around the same `BufferMachine` |
| `ResizeTransaction` | the broker, composed with the WM's layout passes, cross-output moves, the deferral of stacks, clients, timers and plugins |
| `SurfaceCommit` | `wl_surface.commit`: pending, cached and committed state, synchronised subtrees, the timed queue, release points |
| `PluginRuntime` | plugin hosts, their restarts and stops, the claims on a namespace and its activation, calls to the winner |
| `WorkspaceRegistry` | the workspace plugin: workspaces, windows, outputs coming and going, and what the core is told |
| `ScanoutPipeline` | the frame loop and one KMS output: slot ring, direct scanout, flips, refusals, cursor commits, a VT switch |
| `DmabufExecutorProofs`, `ResizeTransactionProofs`, `PluginRuntimeProofs`, `ScanoutPipelineProofs`, `WorkspaceRegistryProofs`, `SurfaceCommitProofs` | the TLAPS proofs about these modules |
| `MC...` | the sets, rects and symmetries for TLC |

**BufferMachine.** A handler is pure: it takes the machine and returns the next
one. `maybeFlush` is `FlushBlocked`, `FlushedRec`, `FlushIntents`; `Stepped`
applies it to the buffers a handler flushes. An absent entry is a record in
state `Absent`. A fence is a descriptor, `none` or `implicit`.

**ClientBufferLifecycle.** One action per event. The guards are what the
executor is documented to guarantee (no commit of a destroyed buffer, one
surface per buffer at a time, an import is answered once). `lent`, `held`,
`reads` and `plane` record what happened outside and are what the invariants
compare the machine's bookkeeping with.

**DmabufExecutor.** One action per JS turn; the machine's guards are not assumed
but come from the executor's own code, and a client may commit any buffer it has:
one it did not get back, one whose release is already queued or owed, one another
surface shows. An import that is in flight is an entry of `queue` and answered in
order, as the native side does; `live` holds the imports the GPU process has.
`held` counts, per buffer, the commits that no release has answered; a client
believes that it may write a buffer when there are none. A `texture` is the buffer
and import a surface samples, which lags behind the machine's current buffer. Two
surfaces drawn in one frame whose current buffer is the same make `frameSampled`
throw, so that the frame is aborted (`Alternating`, `RenderThrows`). Frozen
surfaces, intercepts and scanout are left out; acquire fences are always `none`
here (they are the other module's subject). `teardownImport`'s loop that detaches
surfaces never finds one, since `runReleaseImport` parks an import that is shown,
so `TornDown` only frees.

**ResizeTransaction.** One action per JS turn. `applyLayout` takes each window's
rect and then awaits the plugins (`Relayout`); when they have answered it decides
with the rect it took (`Retile`), whatever landed meanwhile. `pass` is the window
it waits for and that rect, `EndPass` the end of a pass. `skipped` is history:
the windows a pass left alone because the rect it took is the one it wants. A
client may commit any size at any time (`ClientCommits`); a commit acknowledges
the latest configure or, if it has the wrong size, nothing that matters here.
Every requirement in the repository carries the batch key `wm-tx`, so the holds
are one batch. A batch whose `onBeforeApply` waits for plugins is moved to
`gates`, off the books, as in `doApply`. A hold that is ready when it begins is
applied at once, alone. Time is relative: each hold's time left
and the timer's. Windows have mapped dmabuf content (an shm window has nothing
to freeze and waits for the deadline). A window keeps its surface's id. `want`
is history: the rect the layout last decided.

**SurfaceCommit.** `surf[s]` is the surface record (`committed`, `cached`, the
timed `queue` and whether its `timer` is armed), `sub` the live `wl_subsurface`
records and their own mode, `pending` the requests since the last commit, and
`comp` the compositor and the wire: what each surface shows, which buffers are
on their way back, the release point registered for a buffer. A commit is a
function of the whole world (`CommitNow`, which picks `LatchSync` or
`LatchDesync`; `ApplySurfaceState` with its `Cascade`), so that a timer which
latches several queued commits is that function applied in turn (`Latched`, for
`PumpTimedCommits`). The recursion of `applySurfaceState` into the children is
written by what it reaches: the set of surfaces below, each of which takes its
cache and is uploaded once. Every field of a commit takes the same branch; the buffer
and the point stand for all of them. A content is a buffer with the number of
the commit that attached it, which is what "older" means in `ContentAdvances`.
How many queued commits are due when the timer fires is a choice (`DueCounts`),
among the counts at which the code can stop. The GPU's part is one step,
`Returned`: `DmabufExecutor` and the lifecycle have its details. The client
attaches only buffers it has back and finishes one surface's commit before it
starts the next one's, which loses no interleaving, since pending state is the
surface's own. `lost` is history: the buffers whose loan the code drops (see
"What does not agree with the docs" below).

**PluginRuntime.** One action per turn of the core's loop or per microtask that
resumes an `await`; `Turn` makes macrotasks wait for pending microtasks, except
that the messages of an in-thread plugin are microtasks too. `host[p]` is
`ManagedPlugin` or `InThreadPlugin`, `realm[p]` the plugin's own side, `out[p]`
its posted messages, `pend[p]` the endpoint's unanswered requests. `claims`,
`activatedBy`, `pass` and `queued` are `activateNamespace`: the claims in priority
order, the winner, the pass in flight and where it stands, and a pass waiting in a
microtask. `EndLoad` and `LoadReturns` are the end of `load()`. The awaited `init`
of a namespace and the answer to `plugin.activate` are one step of the realm
(`RealmActivate`), which may never come. A worker's exit drains its last messages
before the exit handler runs. A missed pong is counted by nobody: `PingTimeout` is
the watchdog's conclusion. One namespace and one rolling restart window are
modelled.

**WorkspaceRegistry.** The registry is a value and each handler a function on it;
`push` and `bags` collect the effects a handler returns. `applyEffects` awaits them
one by one with the values they had in the handler's turn, and nothing makes a
second handler wait for the first. `Commit` therefore leaves them in `flight`, in
the order the handlers ran, and `BagArrives`, `StackArrives` and `TransitionStart`
deliver them: bag entries first, each handler's next effect when its last was
answered. The requests of all handlers share one first-in first-out channel, so
that none gets ahead of an older one (`NextToSend`), but the first effect of a
newer handler may well arrive before the last of an older one. An animated show
sends no stack: the transition commits the one it captured when it ends (`trans`,
`TransitionEnd`). `stack` and `bag` are the core's copies. The marks are history: a
write is `old` once a newer handler has left one for the same output or window,
and `oldStacks` and `oldBags` are where the last write to arrive was old.

`Recompute` is `recomputeOutputs` in its five steps. A splice of an array is
written by what it leaves (`Without`, `Kept`) and a sort by its result (`InOrder`),
not by the loop that does it: the proofs are about these. Outputs get fresh ids
when they come back, as the core assigns them. `CallerPrefs` are the preferred
outputs that callers of `workspace.create` give; that none repeats a name is
assumed. `resolveOrCreateByName` is a `Create` and then a `ShowAt` or `MoveTo` of
the new workspace. The effects of one handler on several outputs arrive in any
order; those of the boot have arrived. A window's unmap in the WM and the plugin's
handler for it are one step. Workspace names, urgency, the resolution of a
command's text, events to subscribers and focus are left out.

**ScanoutPipeline.** One output, in the two processes that keep its state: `core`
(the loop, the output's damage, the three slots, what is presented and held) and
`gpu` (`PerOutput`: the commit the kernel has queued, the client buffer on the
plane, the stash). Handlers are functions on these records, so that a handler that
calls another (`onFrameComplete`, `runFrameIfReady`, `notifyFrame`, `renderFrame`)
is their composition. Presents and `ScanoutClientFlip` / `ScanoutClientReject`
travel in band on the wire (`wire`), pauses and ring flips on the side channel
(`ctrl`), and a `Drain` may find a ring flip before older wire frames. What a
drain reads is handled in one turn, except that the core runs a frame after each
refusal (`HandleReject`) and the GPU process reads that frame's present while the
next refusal waits. The other outputs are one choice, `others`: whether one of
them could present, which is all `runFrameIfReady` asks of them. `Resume` supposes
that by the time the user has switched back everything sent before the pause has
been read, and `OutputResume` is read before later wire frames. Two history fields
mark the cases `PresentsResolve` and `NoLostWake` leave out: `lost`, the presents
the GPU process dropped without an answer, and `overtaken`, that a ring flip was
read ahead of older wire frames; both are cleared by a VT switch, as the stale
state is. Which surface covers the output is reduced to a client buffer, whether
something is drawn above it, and the veto. Left out: the `drainEvents` by which
`onFrameComplete` takes client commits before the flip is dispatched
(`addon.cpp:406-408`; here a commit comes before or after), the scanout flags of
several outputs, mode switches and hotplug, nested and headless outputs, cursor
demotion, the disposal of framebuffers, and frames that throw.

## 3. Runs

| run | checks | instance | result |
|---|---|---|---|
| `lifecycle` | types, bracket pairing, read tracking, links, debts, loans, fences, teardown, refinement of `BufferLending` | 2 buffers, 2 surfaces, 2 serials, 2 descriptors, symmetric | passes, about 115 000 states |
| `lifecycle_live` | `DebtsPaid` | smaller sets, no symmetry | passes, about 28 000 states |
| `executor` | the executor's maps against the machine | 2 buffers, 2 surfaces, 1 serial, 2 imports, 3 unanswered commits (symmetric) | passes, about 469 000 states |
| `freed_import` | `NoFreedImportDisplayed` | as `executor` | violated |
| `early_release` | `NoSampleAfterRelease` | as `executor` | violated |
| `resize_tx` | timers, held geometry, freezes, latest layout held, batches whole | 2 windows (one of X11, which never acks), 2 rects, deadline 1, 1 gate | passes, about 1 561 000 states |
| `resize_tx_live` | `EventuallyThawed` | 1 window, 3 rects, deadline 2, 2 gates | passes, about 48 000 states |
| `surface_commit` | loans and points, timers, content never goes back, subtrees move as one | a toplevel, a subsurface, a nested one; 2 dmabufs (symmetric), 1 shm; 3 commits, 2 changes of mode or role | passes, about 376 000 states |
| `plugin_runtime` | activation, the highest claim asked first, one init at a time, what a finished worker leaves, failover, calls, `LoadSettles` | a bundled and a user plugin, 1 restart, 1 call, 1 event (crash, hang, failure, stop, unregister) | passes, about 144 000 states |
| `workspace` | windows and workspaces partitioned, the core's copies, unplug and replug | 2 monitors, 2 windows (symmetric), 6 workspaces, output ids to 2, 2 commands, 3 handlers under way | passes, about 864 000 states |
| `scanout` | slots, presents that resolve, no lost wake | 2 buffers (symmetric), 3 slots, 5 changes, 1 refused commit, 1 VT switch | passes, about 505 000 states |
| `plane_released` | `HeldOnPlane` | as `scanout`, without refusals and VT switches | violated |

**Bounds.** Two buffers and two surfaces are the least with which a buffer is
superseded, moved between surfaces and shared; two serials let two frames be in
flight and complete out of order; two descriptors let a fence replace another.
Two import ids let a buffer be imported again while its first import is parked.
Three unanswered commits (`MaxHeld`) let a superseded buffer be committed again
while its release is queued and the other buffer is on a second surface.
A finite pool of ids is reused only when nothing refers to the old use, which is
what ever-growing ids amount to. Two windows are the least that can trade
places; two rects differ in size and position, and the third of the live run has
the size of the first, for move-only holds. A deadline of two clock steps lets a
joining requirement extend a deadline after the timer was armed. `MaxGates`
bounds only how many batches may wait for plugins when a new one is begun.

`surface_commit`: three surfaces are the least with a subsurface that is
synchronised through its parent only; three commits let a cached buffer be
superseded and then applied, or two commits queue behind a timed one.
`plugin_runtime`: two plugins are the least with a failover; an event is one
crash, hang, failed init or activation, stop, or claim dropped or made late, and
what a stuck thread or a restart does next needs none. `workspace`: two monitors
can be unplugged in either order and both be gone; a destroy or an unplug makes at
most one or two workspaces, so that six handles leave room for two commands;
output ids to 2 let one monitor be replugged after either or both were unplugged,
and three handlers under way are the least with one between two others. The first
two were also checked once on larger instances: four commits with one timed
surface (1.1 million states), two events (0.9 million). `scanout`: two buffers let
a client present displace another and a buffer be presented again; five changes
are a scanout session entered, left for an overlay and re-entered with a cursor
commit in between; also checked once on larger instances: two refusals and two VT
switches with four changes (0.6 million states), six changes (1.5 million), three
buffers (0.6 million).

**Fairness.** `lifecycle_live`: the GPU completes what was submitted, the GPU
process answers imports (it replies with success or failure), and `renderFrame`
ends the frame it started in the same turn. Nothing is assumed of clients, nor of
the kernel: a client present that is refused on replay, or read while the output
is paused, is never reported, and the buffer's debts are then not claimed to be
paid (`DebtsPaid` says so). `resize_tx_live`: time passes, a due timer runs,
and the oldest gate resolves, because `emit` is given `INTERCEPTOR_TIMEOUT_MS`.
`EventuallyThawed` assumes that a window eventually stops changing outputs:
each move extends the deadline, so a window that moves for ever stays frozen.
`plugin_runtime`: the core's loop processes messages, exits, microtasks and timers.
Nothing is assumed of activations, calls, shutdown replies or pongs. In particular
`plugin.activate` is sent without a timeout, so `LoadSettles` promises the end of
`load()` only if no pass awaits an answer for ever.

**What the three violation runs show.**

- `freed_import`: commit a buffer, destroy it (or remove its surface) before the
  import answers. `importCompleted` emits `releaseImport`, the import is torn
  down, and the callback goes on to bind it to the waiting surface.
- `early_release`: commit a second buffer. The first is superseded and released,
  but is what the surface draws until the second is imported; a frame in between
  samples a buffer its client may already be writing, unrecorded.
- `plane_released`: an overlay appears above a scanned-out window and goes while
  another output keeps the loop running. The composite frame's flip reports the
  window's buffer retired, and the core drops the buffer's only hold although
  its re-present is already on the wire. The buffer then is on the plane unheld,
  and the next commit releases it to a client that may write it. Other ways to
  the same end: a stashed re-present that is dropped, or refused.

**What does not agree with the docs.** Reading the code against its comments
also turned up what follows. The models do what the code does in each case; the
properties that are run are stated so as to leave exactly these cases out. The
operators named here say what a comment says and are no part of a run, except
that TLC was used once to see each of them violated.

- Commits (`protocols/wl_surface.ts`). A surface that becomes desynchronised with
  a buffer in its cache: its next commit shows the cached buffer again and
  forgets the buffer it attached, whose release point is bound to the other
  (649-654). A role or surface destroyed with commits queued drops their buffers
  and points without a release. Destroying a surface that never mapped leaves its
  content in the compositor and its cache unreleased. A null buffer on a
  subsurface leaves the old content on screen.
- Resize transactions. `cancel` runs no `onAfterApply`, so that a stack deferred
  to the next apply is stranded when the last hold is cancelled
  (`surface-transaction.ts:314-323`, against the comment at
  `xdg_popup.ts:382-384`); and a hold cancelled after its configure was sent
  leaves the WM comparing with a size the client was not last asked for
  (`wm/index.ts:1608`, against 1604-1605). Both need a window to leave the layout
  while held (`DeferredStacksFlushed`, `LastConfiguredIsAsked`; violated with the
  constants of `ResizeTransactionLive.cfg`).
- Resize transactions, layout passes. `applyLayout` takes a window's rects, awaits
  the plugins and compares with what it took (`wm/index.ts:1542-1543`, 1563, 1587-1644,
  1666). A gated batch that lands during the await can move the window away from
  the rect the pass then believes it already has: the window stays there, although
  the comment at 1652-1659 calls the pass authoritative (`LatestLayoutWins`). And
  windows of equal size that trade places do not land together, against
  `wm/index.ts:1162-1165` and `surface-transaction.ts:11-16`: the first one's hold
  needs no ack, is ready at `begin()` (307-309) and is applied before the second
  one's exists (`SwapsLandTogether`; violated with two windows). Batches that are
  on the books together do land as one: `BatchAtomic`.
- Executor. A surface that waits for a buffer's import is bound when it answers
  even if a newer commit has superseded that buffer, so that an older image can
  appear for a while (against the comment at `compositor.ts:2565-2567`). A release
  that is queued when the client commits the buffer again is still sent, while the
  buffer is current (`client-buffer-lifecycle.ts:263-271`): it answers the earlier
  commit, and the client takes it for the later one. `ReleasedOnce` counts releases
  against commits, so it allows this and no more.
- Scanout. The comment above the gate of one client present in flight
  (`compositor.ts:4128-4135`) relies on the flip to re-enter `renderFrame`; when
  the side channel's ring flip is read before an older `ScanoutClientFlip`, the
  frame it runs is skipped by the gate, and the retirement that then opens the
  gate runs none. A pure retirement opens the gate although another client
  present is in flight (docs/scanout-design.md, "One client present in flight
  per output"). A present that was stashed and is refused when replayed gets no
  `ScanoutClientReject` (`kms_output.cpp:326-333`, against the document's
  "AddFB2 or TEST failure emits `ScanoutClientReject`"); a refused ring present
  is only logged, and a dropped stashed one is not answered either, so that its
  slot waits for a flip until the next VT switch.
- Plugins (`plugins/runtime.ts`). A restarted worker posts its claim before its
  init answers; the pass finds it not live and drops the claim, so a restarted
  provider does not get its namespace back (docs/core-plugin-api.md section 11
  says such a claim activates at once). A crash during an activation ends in
  `stop()`, which bypasses the restart policy. A late init message of a bundled
  plugin that was given up is still dispatched, contrary to the comment at
  `inthread-plugin.ts:120-124`. Waiters are not rejected when the waiting plugin
  dies. `load()` may return while an earlier pass is in flight, and a provider
  whose `init` never settles keeps `load()` from returning at all: `plugin.activate`
  has no timeout (`runtime.ts:509`, against 58-62; `LoadAlwaysSettles`).
- Workspaces (`plugin-workspace-default/src`). The core's copies may stay wrong
  (`MirrorsAgree`): a window maps; its output is unplugged while the handler awaits
  the answer to writing the window's bag; the stack that the unplug leaves for the
  output arrives, and then the one the map had left. An animated show of the workspace
  already shown commits an empty stack; a transition commits the stack it
  captured at its start; a second animated show on an output is rejected after
  the registry has changed and its stack is never pushed. A fullscreen request
  uses a 0-based place as a 1-based index (`index.ts:473-478`).
- Seat (read, not modelled). While a drag-and-drop is in progress `handleInput`
  returns on every event (`wl_seat.ts:871-880`), keys included, although the
  comment at 1122-1124 says xkb's state must track every keystroke: a modifier
  pressed or released during the drag stays wrong until its next change. The
  binding chain's release, where a held instance contains the modifier, consumes
  a release whose press was forwarded (`input/binding-chain.ts:516-552`), although
  a client needs the release of a key it saw pressed (495-497).

## 4. Proofs

Eight modules hold theorems, proved for any sets of buffers, surfaces, serials,
descriptors, imports, rects, plugins, windows and monitors, any deadline, restart
budget and number of gated batches, and any number of changes, refusals, VT
switches, hotplugs and workspaces. Each rests on one inductive invariant, `IInv`,
and the theorems named `Spec => []...` follow from `Spec => []IInv`
(`Invariance`).

**What is assumed.** Only the named assumptions of the modelled modules, which TLC
evaluates on every run: null values are not members of the sets they stand beside
(`NoBufferAssumption`, `NoSurfaceAssumption`, `FdsAssumption`,
`NoImportAssumption`, `NoTimerAssumption`, `NoPendAssumption`,
`NoPassAssumption`), surfaces are finitely many where they are counted
(`SurfaceIdsAssumption` of `DmabufExecutor`), the deadline and
the number of gated batches are positive (`TimeoutAssumption`,
`MaxGatesAssumption`), a plugin's priority is a number and its calls are not
named like the runtime's own requests (`PluginsAssumption`), and a client's buffer
is not a ring slot (`ScanoutAssumption`), the boot monitors, output 0 among
them, are different ones and no caller's list of preferred outputs repeats a name
(`ConstantsAssumption` of `WorkspaceRegistry`), and every
child names a parent among the surfaces, no buffer is both a dmabuf and shm, and
attaching nothing, a null buffer and a buffer are told apart (`ConstantsAssumption`
of `SurfaceCommit`; that `Parent` has no cycles is not needed).

**The lifecycle machine** (`ClientBufferLifecycleProofs`): `TypeOK`,
`BracketsPaired`, `ReadsTracked`, `LinksAgree`, `NoStrandedDebt`, `LoansTracked`,
`FenceConservation`. The invariants are not inductive one by one: a flush is
harmless only if the entry has no open bracket and no link, and a new entry starts
without readers only if history has none for an absent one. `IInv` therefore says,
per entry, how it agrees with the open frame, the submitted reads, the planes and
the loans and that an absent entry is `AbsentRec` (`Sound`), that what is owed is
blocked, and, across entries, that links are each other's inverse (`Linked`) and
that each descriptor is pending once (`Conserved`). Every `step()` is a change of
entries followed by flushes, so the argument is made once for `Stepped`
(`StepIInv`, `DeliverIInv`); each event then has a lemma that shows its change is
one of that kind.

**What the machine promises** (`BufferLendingProofs`): `ImportTeardownSafe`, and
that the machine implements `BufferLending` (`ImplementsLending`). Both are about
what a step sends, so `OutSound` is added to the invariant: a buffer whose import
is torn down has no entry left, one whose import is requested waits for it, and
one that is released has no reader. With the loans of `IInv`, each event is then a
step of the abstract specification or a stutter: a commit lends, a frame or a
plane begins a read, a flush returns what nobody reads.

**The executor** (`DmabufExecutorProofs`): `TypeOK`, `OwnedImportsLive`,
`MachineMirrored`, `ReleasedOnce`. Here the machine runs without the guards
of the first module, so its own invariant is not available; `IInv` is `TypeOK` and
`Core`, which has three parts. `Owned` says who owns which import (one map entry or
one answer under way, new imports unknown to every map, parked imports displayed).
`Fitting` says of each buffer that its entry fits the executor's maps and the
destroyed buffers (`Fits`, `Served`). `Paid` is a ledger: the releases queued or
owed for a buffer and the surfaces that have it current are covered by its
commits that no release has answered, so that a flush moves a debt into the queue
and a re-commit cancels one, but nothing adds a release without a commit. A
turn changes entries, flushes them and executes the intents in the same turn, and
in between the maps do not match the machine: `DispatchFits` shows once that
dispatching a flush's intents takes an executor that fits the entries before the
flush to one that fits them after it. Each turn then has to show only that its own
change fits; a commit steps the machine twice, once for the buffer it replaces.

**The resize transaction** (`ResizeTransactionProofs`): `TypeOK`, `HoldsTimed`,
`HoldsOwned`, `LatestLayoutHeld` and the action property `BatchAtomic`. One turn
rewrites the broker's record several times (`begin` arms, evaluates and may
apply), so the invariant is stated of any record `u` (`Good`, `Bounded`, `Timed`,
`Placed`) and each operator on records has a lemma saying what it keeps: held
geometry has exactly one owner, on the books or behind a gate; a timer, where one
is owed, is set no later than the earliest deadline; and what a window is drawn
at, or will be when its hold ends, is what the layout last decided, but for the
windows in `skipped` (`Placed`, over `Kept`). `Bounded` says
that a hold on the books reserves a place behind the gates, without which an apply
could exceed `MaxGates`.

**The plugin runtime** (`PluginRuntimeProofs`): `TypeOK`, `ActivationBacked`,
`OneInit`, `FinishedReleased`, `FailoverPending` and the action property
`HighestClaimAsked`. What is true of one plugin is stated of its host, realm,
messages and requests (`Wire`, `Hosted`), so that another plugin's step cannot
disturb it. `Wire` orders what is under way: an `unregister` behind an
activation's answer means that the API is already gone, which is what makes the
core's belief about the winner late but never wrong (`Backed`). `Passing`,
`Winning` and `Exclusive` say where an init may have taken effect: in the winner,
or in the plugin a pass is asking. `Claiming` keeps the claims sorted and free of
workers that are gone.

**The scanout pipeline** (`ScanoutPipelineProofs`): `TypeOK`, `NoScribble`,
`PresentsResolve`, `NoLostWake`. A turn of either process is a composition of
functions on its record, and in the middle of one a present is in nobody's books:
the GPU process has taken it from the wire or the stash and not yet queued,
stashed, refused or lost it. The invariant `Good(c, g, h)` is therefore stated of
any two records and of that present, `h`, and each function has a lemma saying that
it hands over a good pair. `NoScribble` needs that at most one ring slot is under
way, in one place (`Single`), that the core has exactly that one in `PENDING_FLIP`
(`Marked`), and that the slot on the screen is the core's `SCANOUT` or the subject
of the flip message it has not read (`OnScreen`). A ring present then finds a free
slot, since of three at most one is on the screen (`RingPresentGood`).
`NoLostWake` needs more than its own statement: `Awake` says that whoever waits
(damage, a callback, a flip, the gate of one client present) has something under way
that will run a frame when it is read, and `Behind` that a stashed present waits
behind a commit the kernel has queued. `Gated` is why the exception for a flip read
ahead of older frames is needed: the gate may be opened by a retirement, which runs
no frame.

**The workspace registry** (`WorkspaceRegistryProofs`): `TypeOK`, `Partitioned`,
`MirrorsComplete`. The state is lists of handles and of windows that handlers cut,
join, filter and sort. A first group of lemmas says what the list operators do, as
sets and as counts: the numbers of a set in order are a list of exactly those,
once each (`InOrderOf`, by counting the smaller ones), what is kept of a list,
what two lists with nothing in common make when joined, and that in a list without
repetition each element is at one place (`Occurrences`), which is how
`Partitioned` counts. A second group says of each registry operator that it takes
a `Sound` registry to one: every workspace in the list of its own output, every
window where its owner entry says, what an output shows in its own list; `Good`
adds that an output with workspaces shows one (`Settled`). A destroyed workspace
is taken out in two steps, `Emptied` and `Replaced`, because in between its output
may be without a workspace; and the migration is sound only after `Replenished`,
since a monitor that came back may be bare until then. `MirrorsComplete` needs to
know what an operator tells the core: each lemma also says (`Told`) that an output
whose stack is not pushed has the stack it had, and a window whose bag is not
written the owner it had. `IInv` joins four parts. `Core`: the registry is good
and its effects were handed over. `Mirrored` is about what is under way: every
stack or bag entry in flight, or captured by a transition, is what the registry
has or is marked old (`Flying`), and the core has what the registry has wherever
nothing newer is under way and the last write to arrive was not old (`Arrived`). A
handler keeps it because what it changes it also sends, which marks everything
older for the same places (`QueueKeeps`); an arrival, because it takes one write
off and marks the place by it. `Screens`: output ids are never given twice and
each monitor has workspaces; and the bound on commands.

**wl_surface.commit** (`SurfaceCommitProofs`): `TypeOK`, `LoansAccounted`,
`TimersArmed` and the action properties `ContentAdvances` and `SyncAtomic`. One
timer may latch any number of queued commits and each may apply a whole subtree,
so the invariant, `Fit(w, m)`, is stated of any world `w` (surfaces, compositor,
what was applied, what was lost) after `m` commits, and is shown to survive one
latch. It has four parts. `Aged`: the numbers grow from what a surface shows over
what is committed and cached to what is queued, the queue is in order, and a cache
holds what is committed; that is why nothing applied is older than what is shown.
`Paired`: a point is in the same commit as the buffer it was set for. `Single`: a
buffer that is not lost is in one place at most (one queue entry, one fresh cache,
one surface's content, or on its way back) and in one exactly if the client waits
for it; `LoansAccounted` alone is not inductive, since a buffer in two places
would be given back while one still holds it. `Owed`: a point not yet signalled is
with its commit or registered for its own buffer. A latch takes the head of the
queue and caches it (`SyncsIs`, `SyncSteps`) or applies it with the caches below
(`DesyncsIs`, `DesyncSteps`); a null commit of a mapped toplevel then detaches it
(`DetachedIs`). The cascade is a least closed set, and two lemmas are all that is
used of it: a child of one that is applied, synchronized and with a cache, is
applied (`CascadeDown`), and one that is applied is a child of one that is
(`CascadeUp`). `Steps` collects what a latch guarantees, and `StepsTwice` that two
in a row guarantee it again; the run of latches satisfies it because a least latch
that did not would follow one that did (`LatchedSteps`, from the least element of a
set of numbers). A commit that waits for nothing is one that joins an empty queue
and is latched (`DirectIs`), so `Commit` and `TimerFires` share one argument
(`PumpIs`).

**Only model-checked.** Liveness (`DebtsPaid`, `EventuallyThawed`, `LoadSettles`):
temporal properties under fairness are beyond this prover. `ReplugRestores` of
`WorkspaceRegistry`: it compares a monitor's return with its departure, any number
of other hotplugs before, and its invariant would have to follow every list of
preferences through them. The three violation runs are what they are: counterexamples.

## 5. Plan

1. `SurfaceRing`, an abstract ring specification, and the refinement.
2. `BindingChain` with the seat's grabs and drags, `InterceptBroker`, the wire
   barrier.
3. Proofs: `ReplugRestores`.

## 6. Not modelled, and why

Pixels, damage, shaders, animation curves and layout arithmetic have no
interleaving and are covered by the repository's tests. Generated protocol
tables, logging, configuration and the command line are I/O. The parts marked
`not_modelled` with "Planned" in `PROJECT.json` are future work in the order of
section 5. Client behaviour is modelled from the protocol, as any order of
requests that a client may send.
